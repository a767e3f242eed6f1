SPECIFICATION FairSpec
CONSTANTS
  Ids <- MCIds
  MaxLogins = 3
  MaxClaims = 2
  MaxCrashes = 1
  MaxConsole = 1
  OrphanPolls = 3
  RepairPolls = 1
INVARIANT OneMarkedStatement
PROPERTY OnlyOursKilled
PROPERTY RepairSettles
CHECK_DEADLOCK FALSE
