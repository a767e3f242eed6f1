SPECIFICATION BlockerSpec
CONSTANTS
  Sid = {s1, s2}
  After <- MCAfter
  Nobody = nobody
  Dwell = 2
  MaxKills = 2
  Window = 2
SYMMETRY MCSymmetry
INVARIANT KillsAccounted
