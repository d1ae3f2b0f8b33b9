SPECIFICATION FairSpec
CONSTANTS
  Threads = {t1, t2}
  NoThread = NoThread
  MaxCalls = 2
  MaxChecks = 1
  MaxNest = 2
INVARIANTS ScopeRestored ExitingThreadStaysOut ChecksBalance ReportCovers
PROPERTIES CallsEnd
