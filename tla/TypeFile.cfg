SPECIFICATION FairSpec
CONSTANTS
  Procs = {p1, p2}
  Types <- MCTypes
  Desc <- MCDesc
  Units <- MCUnits
  MaxCrashes = 1
INVARIANTS TypeOK NamesResolve ObjectIdsResolve StoredTypesSized
PROPERTIES CompilationsEnd
CHECK_DEADLOCK FALSE
