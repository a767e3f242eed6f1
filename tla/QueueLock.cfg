SPECIFICATION FairLockSpec
CONSTANTS
  p1 = p1
  p2 = p2
  p3 = p3
  n1 = n1
  n2 = n2
  n3 = n3
  None = None
  Inode <- MCInode
  Proc <- MCProc
  MaxCrashes = 2
INVARIANT OneRun
PROPERTY QueueNeverWedged
