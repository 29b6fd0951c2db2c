CONSTANTS
  a = a
  b = b
  c = c
  act = act
  act2 = act2
  pa = pa
  pb = pb
  pc1 = pc1
  pa2 = pa2
  t1 = t1
  t2 = t2
  Organs = {a, b, c}
  NoOrgan = NoOrgan
  Actions = {act, act2}
  Pems <- MCPems
  NoPem = NoPem
  BadPem = BadPem
  NoBytes = NoBytes
  Junk = Junk
  Abstain = Abstain
  Callers = {t1, t2}
  Scenarios <- MCScenarios
  Threshold = 2
  FaultyPems = {pc1}
SPECIFICATION Spec
INVARIANTS
  TypeOK
  CountWithinN
  IntactReceiptConfirmed
  QuorumSuffices
  RaisesOnlyForCause
  CanonicalIsBacked
