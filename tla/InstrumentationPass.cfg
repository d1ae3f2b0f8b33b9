SPECIFICATION FairSpec
CONSTANTS
  Program <- MCProgram
  Inputs <- MCInputs
  MaxDepth = 6
INVARIANTS ReachingInstrumented ChainMatchesCalls RegionsMatch FreesMatch OncePerOperation
PROPERTIES PassEnds
CHECK_DEADLOCK FALSE
