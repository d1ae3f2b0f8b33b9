SPECIFICATION FairSpec
CONSTANTS
  Databases <- KnownTypes
  AllocTypes = {1}
  Counts = {0, 2}
  Slack = 1
  MaxQueries = 1
INVARIANTS TypeOK OffsetInStruct DocumentedStatus ResolvesOutermost
PROPERTIES QueriesEnd
