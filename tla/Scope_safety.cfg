SPECIFICATION Spec
CONSTANTS
  x = x
  g = g
  MAIN = MAIN
  M = M
  args = args
  idx = idx
  Sym = {x, args, idx}
  Val = {nil}
  Nil = nil
  Protected = {args, idx}
  Args = args
  Idx = idx
  Fun = {g}
  Ctx = {MAIN, M}
  Main = MAIN
  Home <- MCHome
  Params <- OneVariable
  MaxDepth = 2
  MaxHistory = 2
  MaxEnv = 3
  Features = {"catch", "load", "trace", "loop", "context"}
  Null = null
INVARIANTS TypeOK HistoryIsCallChain ThrowHasCatcher
CHECK_DEADLOCK FALSE
