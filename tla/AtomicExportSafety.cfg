CONSTANTS
  e1 = e1
  e2 = e2
  e3 = e3
  p1 = p1
  p2 = p2
  n1 = n1
  n2 = n2
  n3 = n3
  Target = Target
  NoFile = NoFile
  Export <- MCExport
  Proc <- MCProc
  ProcOf <- MCProcOf
  Temp <- MCTemp
  Tries <- MCTries
SPECIFICATION Spec
SYMMETRY Symmetry
INVARIANT TypeOK
INVARIANT TargetWhole
INVARIANT AckedDurable
INVARIANT OwnTemp
INVARIANT TempsCleared
