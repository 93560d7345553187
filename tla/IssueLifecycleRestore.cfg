CONSTANTS
  i1 = i1
  i2 = i2
  a1 = a1
  a2 = a2
  Nobody = Nobody
  Blank = Blank
  Keep = Keep
  NoRow = NoRow
  Issue <- MCIssue
  Actor <- MCActor
SPECIFICATION Spec
PROPERTY LeavesByRestore
