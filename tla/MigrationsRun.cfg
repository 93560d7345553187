SPECIFICATION FairSpec
CONSTANTS
  p1 = p1
  p2 = p2
  Procs <- MCProcs
  NoProc = NoProc
  MaxFaults = 2
INVARIANT TypeOK
INVARIANT EndsTruthfully
PROPERTY StaysHonest
PROPERTY Repaired
