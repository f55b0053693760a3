SPECIFICATION FairSpec
CONSTANTS
  p1 = p1
  p2 = p2
  p3 = p3
  s1 = s1
  s2 = s2
  Pids <- TwoPids
  Syms <- OneSym
  MaxJobs = 1
  Events = {"reset"}
PROPERTY SyncSettles
