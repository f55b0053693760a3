SPECIFICATION Spec
CONSTANTS
  p1 = p1
  p2 = p2
  p3 = p3
  s1 = s1
  s2 = s2
  Pids <- TwoPids
  Syms <- TwoSyms
  MaxJobs = 2
  Events = {"crash", "foreign", "garbled", "reset", "signal", "waitpid"}
SYMMETRY Symmetry
PROPERTY ImplementsFutures
