SPECIFICATION Spec
CONSTANTS
  Threads = {t1, t2}
  MaxAddr = 4
  Addrs = {1}
  QueryAddrs = {}
  TypeIds = {6, 256}
  Counts = {2}
  NoEntry = NoEntry
  NoAnswer = NoAnswer
  NoThread = NoThread
  Ops = {"heap", "free"}
  OmpModes = {FALSE}
  MaxLeave = 0
  MaxCalls = 2
SYMMETRY Symmetry
INVARIANTS HeapBalance MaxCoversCur TypeBalance ViewsAgree
PROPERTIES MaxNeverDecreases
