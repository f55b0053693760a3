SPECIFICATION Spec
CONSTANTS
  x = x
  g = g
  MAIN = MAIN
  M = M
  args = args
  idx = idx
  Sym = {x, args, idx}
  Val = {v1, nil}
  Nil = nil
  Protected = {args, idx}
  Args = args
  Idx = idx
  Fun = {g}
  Ctx = {MAIN, M}
  Main = MAIN
  Home <- MCHome
  Params <- Repeated
  MaxDepth = 3
  MaxHistory = 1
  MaxEnv = 7
  Features = {"catch", "eval-string"}
  Null = null
PROPERTIES ImplementsDeepBinding
