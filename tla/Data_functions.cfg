SPECIFICATION Spec
CONSTANTS
  aVariable = aVariable
  aConstant = aConstant
  Vars = {aVariable, aConstant}
  Protected = {aConstant}
  None = noObject
  Deepest = 4
  MostJumps = 1
INVARIANTS
  OrdersExact
  SearchesExact
  ChangesExact
  TreesExact
  NetworkExact
  NumbersExact
  TextsExact
  ObjectsExact
PROPERTY ImplementsTable
CHECK_DEADLOCK FALSE
