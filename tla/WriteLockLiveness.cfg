CONSTANTS
  p1 = p1
  p2 = p2
  t1 = t1
  t2 = t2
  t3 = t3
  Nobody = Nobody
  Proc <- MCProc
  Task <- MCTaskSmall
  ProcOf <- MCProcOfSmall
  MaxPoll = 1
  MaxChild = 1
SPECIFICATION FairSpec
PROPERTY CallsReturn
PROPERTY ShutdownDrains
