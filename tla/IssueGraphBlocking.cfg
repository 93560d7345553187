CONSTANTS
  a = a
  b = b
  c = c
  x = x
  Keep = Keep
  Detach = Detach
  Issue <- MCIssue
  External <- MCExternal
  Epic <- NoEpic
  Dotted <- MCDotted
  MaxDeps = 2
  MaxBatch = 2
SPECIFICATION Spec
INVARIANT BlockingDirection
