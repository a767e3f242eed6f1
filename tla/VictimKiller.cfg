SPECIFICATION FairSpec
CONSTANTS
  Sid = {s1, s2}
  Identity = {job}
  Nobody = nobody
  Dwell = 1
  After = 1
  MaxKills = 1
  Window = 2
  Grace = 2
  KillTimeout = 1
  BlockingTimeout = 1
  MaxLost = 1
INVARIANT KillBudget
INVARIANT DebtWitnessed
PROPERTY NoDoubleKill
PROPERTY HushEnds
