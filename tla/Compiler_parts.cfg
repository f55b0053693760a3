SPECIFICATION Spec
INVARIANTS
  RuntimeExact
  FrontEndExact
  BackEndExact
CHECK_DEADLOCK FALSE
CONSTANT None = None
