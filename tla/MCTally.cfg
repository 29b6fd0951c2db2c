CONSTANTS
  a = a
  b = b
  c = c
  act = act
  act2 = act2
  pa = pa
  pb = pb
  NotInt = NotInt
  Organs = {a, b, c}
  NoOrgan = NoOrgan
  Actions = {act, act2}
  Pems <- MCPems
  NoPem = NoPem
  BadPem = BadPem
  NoBytes = NoBytes
  Junk = Junk
  Abstain = Abstain
  RowLists <- MCRowLists
  PubkeyPool <- MCPubkeyPool
  Counts <- MCCounts
SPECIFICATION Spec
INVARIANTS
  TypeOK
  CountedSoFar
  TrailMatchesCount
  DecisionExact
PROPERTIES
  ImplementsQuorumDecision
