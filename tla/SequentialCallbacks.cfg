SPECIFICATION Spec
CONSTANTS
  Threads = {t1}
  MaxAddr = 4
  Addrs = {1, 2}
  QueryAddrs = {1}
  TypeIds = {6}
  Counts = {0, 2}
  NoEntry = NoEntry
  NoAnswer = NoAnswer
  NoThread = NoThread
  Ops = {"heap", "stack", "global", "free", "leave", "query"}
  OmpModes = {FALSE, TRUE}
  MaxLeave = 2
  MaxCalls = 3
INVARIANTS TypeOK TableBalance
