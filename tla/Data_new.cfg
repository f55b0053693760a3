SPECIFICATION Spec
CONSTANTS
  aVariable = aVariable
  aConstant = aConstant
  Vars = {aVariable, aConstant}
  Protected = {aConstant}
  None = noObject
  Deepest = 4
  MostJumps = 1
INVARIANT CopiesAll
CHECK_DEADLOCK FALSE
