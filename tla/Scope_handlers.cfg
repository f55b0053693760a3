SPECIFICATION FairSpec
CONSTANTS
  x = x
  g = g
  MAIN = MAIN
  M = M
  args = args
  idx = idx
  Sym = {x, args, idx}
  Val = {nil}
  Nil = nil
  Protected = {args, idx}
  Args = args
  Idx = idx
  Fun = {g}
  Ctx = {MAIN, M}
  Main = MAIN
  Home <- MCHome
  Params <- OneVariable
  MaxDepth = 3
  MaxHistory = 3
  MaxEnv = 9
  Features = {"catch", "load", "eval-string", "loop", "local"}
  Null = null
INVARIANTS ThrowHasCatcher
PROPERTIES Balanced JumpsLand
