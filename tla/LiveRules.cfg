SPECIFICATION Spec
CONSTANTS
  Rule <- MCRule
  Initial <- MCInitial
  MaxWrites = 3
CHECK_DEADLOCK FALSE
INVARIANT EditsCostNothing
INVARIANT RecoveryCarriesIgnore
