SPECIFICATION Spec
CONSTANTS
  UserSigs = {"USR"}
  ProgramOps = {"call", "catch", "error", "throw", "reset", "timer", "signal"}
  HandlerOps = {"call", "timer"}
  Answers = {"continue"}
  MaxDepth = 5
  MaxArrivals = 2
  MaxDebug = 2
  Procs = {"p1", "p2"}
  Maker = "p1"
  Atoms = {"nil"}
  Numbers = {"n7"}
  Texts <- PageTexts
  Strings = {"s1", "s2"}
  Word = 4
  Room = 16
  Names = {"f1", "f2"}
  Children = {1}
  Fds = {4, 5}
  Sizes = {1, 8}
  Capacity = 8
  MaxSent = 2
  Events = {"crash", "forkfail"}
  N = 2
  Locals = {2}
  TimeOut = 2
  Modes = {"raw", "handler", "plain"}
  Nodes = {"value", "error", "late", "dies", "breaks", "silent", "refused", "unsent", "bad", "atom"}
INVARIANTS
  HandlersExact
  DebugStackExact
  PageExact
  ChannelsTyped
  ChannelsExact
PROPERTIES
  ReadsWhole
  EveryCallEnds
  ImplementsMailboxes
  TransfersEnd
CHECK_DEADLOCK FALSE
