SPECIFICATION FairSpec
CONSTANTS
  Caps <- MCCaps
  BlindAfter = 2
  BlockingTimeout = 1
  MaxBlock = 2
  LogDrainTimeout = 1
  KillGrace = 1
  MaxRetries = 1
INVARIANT BlockingBounded
INVARIANT NeverAhead
PROPERTY NothingIssuedBlind
PROPERTY DrainHeeded
