CONSTANTS
  s1 = s1
  s2 = s2
  c1 = c1
  c2 = c2
  actor = actor
  backend = backend
  v = v
  Nobody = Nobody
  Bad = Bad
  Absent = Absent
  NoRows = NoRows
  NoRequest = NoRequest
  Value = {v}
  Session <- MCSession
  Call <- MCCall
  Key <- MCKey
  Class <- MCClass
  MaxEdit = 1
  MaxTrouble = 2
SPECIFICATION Spec
INVARIANT TypeOK
INVARIANT MutationOnLiveSnapshot
INVARIANT SwapIsTable
PROPERTY CommitThenSwap
PROPERTY NoFaultMinted
PROPERTY HintRepairs
SYMMETRY Symmetry
