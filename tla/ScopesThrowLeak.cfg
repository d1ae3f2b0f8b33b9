SPECIFICATION Spec
CONSTANTS
  Slots = 2
  MaxDepth = 2
  MaxRegs = 3
  MaxCalls = 1
  Exceptions = {TRUE}
INVARIANTS DeadVarsUntracked
