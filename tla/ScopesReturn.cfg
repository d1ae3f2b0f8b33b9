SPECIFICATION Spec
CONSTANTS
  Slots = 2
  MaxDepth = 3
  MaxRegs = 3
  MaxCalls = 2
  Exceptions = {FALSE, TRUE}
INVARIANTS ScopeTypeOK LiveVarsTracked ReturnsUntrack CountersMatchStack
