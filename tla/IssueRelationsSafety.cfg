CONSTANTS
  i1 = i1
  i2 = i2
  a1 = a1
  a2 = a2
  Nobody = Nobody
  Blank = Blank
  Keep = Keep
  NoRow = NoRow
  l1 = l1
  l2 = l2
  c1 = c1
  b1 = b1
  b2 = b2
  Masked = Masked
  MaxBatch = 1
  Label <- MCLabel
  Comment <- MCComment
  Body <- MCBody
  Issue <- MCIssue
  Actor <- MCActor
SPECIFICATION MCSpec
SYMMETRY Symmetry
INVARIANT TypeOK
INVARIANT Coherent
INVARIANT AuditComplete
INVARIANT OneHolder
PROPERTY RestoreReturns
