SPECIFICATION Spec
CONSTANTS
  Syms = {counter}
  MaxBlocks = 2
  BlockSize = 5
  Builtins = 2
  MaxFrames = 2
  MaxItems = 2
  MaxCalls = 4
  Events = {"selfpush"}
INVARIANT NoFreeCellUsed
CHECK_DEADLOCK FALSE
