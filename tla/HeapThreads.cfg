SPECIFICATION Spec
CONSTANTS
  Threads = {t1, t2, t3}
  MaxAddr = 4
  Addrs = {1, 2}
  QueryAddrs = {}
  TypeIds = {6, 256}
  Counts = {1}
  NoEntry = NoEntry
  NoAnswer = NoAnswer
  MaxOps = 3
  ReallocMayFail = TRUE
SYMMETRY Symmetry
INVARIANTS TypeOK NoForeignEntry NoStaleEntry OnlyKnownLosses
