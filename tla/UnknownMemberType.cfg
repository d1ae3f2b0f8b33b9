SPECIFICATION Spec
CONSTANTS
  Databases <- UnknownMember
  AllocTypes = {1}
  Counts = {0, 2}
  Slack = 1
  MaxQueries = 1
INVARIANTS DocumentedStatus
