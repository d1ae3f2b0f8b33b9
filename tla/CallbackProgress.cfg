SPECIFICATION FairSpec
CONSTANTS
  Threads = {t1, t2}
  MaxAddr = 4
  Addrs = {1}
  QueryAddrs = {}
  TypeIds = {6}
  Counts = {1}
  NoEntry = NoEntry
  NoAnswer = NoAnswer
  NoThread = NoThread
  Ops = {"stack", "leave", "heap"}
  OmpModes = {FALSE}
  MaxLeave = 1
  MaxCalls = 2
PROPERTIES CallsReturn
