SPECIFICATION Spec
CONSTANTS
  Threads = {t1, t2}
  MaxAddr = 4
  Addrs = {1, 2}
  QueryAddrs = {3}
  TypeIds = {6}
  Counts = {1}
  NoEntry = NoEntry
  NoAnswer = NoAnswer
  NoThread = NoThread
  Ops = {"stack", "leave", "query", "free"}
  OmpModes = {FALSE}
  MaxLeave = 2
  MaxCalls = 3
SYMMETRY Symmetry
INVARIANTS TableBalance StackBalance
PROPERTIES TableRefinement
