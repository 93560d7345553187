CONSTANTS
  a = a
  b = b
  c = c
  x = x
  Keep = Keep
  Detach = Detach
  Issue <- MCIssue
  External <- NoExternal
  Epic <- MCEpic
  Dotted <- MCDotted
  MaxDeps = 3
  MaxBatch = 2
SPECIFICATION Spec
INVARIANT TypeOK
INVARIANT NoDangling
INVARIANT InteractiveAcyclic
PROPERTY CascadeExact
