SPECIFICATION Spec
CONSTANTS
  Unset = Unset
  Bad = Bad
  HoursPerDay = 3
  DaysPerWeek = 3
  Structures <- MCStructures
  RequireDataFreeSpace = TRUE
  LogMaxPercent = 80
  Submissions <- MCSubmissions
  Revisions <- MCRevisions
  Catalog <- MCCatalog
  Rules <- MCRules
  MaxClaims = 2
  MaxEdits = 1
  MaxDrift = 1
  MaxTicks = 2
  MaxFailures = 1
  MaxLost = 1
INVARIANTS AcceptedByServer PreflightSuffices ReenabledKnowingly WindowHonoured
PROPERTIES DoneMeansApplied RewriteKeepsMeaning
CHECK_DEADLOCK FALSE
