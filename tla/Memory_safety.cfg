SPECIFICATION Spec
CONSTANTS
  Syms = {counter, stock}
  MaxBlocks = 2
  BlockSize = 5
  Builtins = 2
  MaxFrames = 2
  MaxItems = 2
  MaxCalls = 4
  Events = {"error", "throw", "reset"}
INVARIANTS TypeOK FreeListExact OneReference LastCellRight
PROPERTIES VariablesHoldValues
CHECK_DEADLOCK FALSE
SYMMETRY Symmetry
