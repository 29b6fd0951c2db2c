CONSTANTS
  a = a
  b = b
  act = act
  act2 = act2
  pa = pa
  pb = pb
  pa2 = pa2
  Organs = {a, b}
  NoOrgan = NoOrgan
  Actions = {act, act2}
  Pems <- MCPems
  NoPem = NoPem
  BadPem = BadPem
  NoBytes = NoBytes
  Junk = Junk
  Abstain = Abstain
  RoundPool <- MCRoundPool
  Threshold = 2
  MaxEmits = 2
  MaxEdits = 1
SPECIFICATION Spec
INVARIANTS
  RebindMeansSameReceipt
  RebindBodyAgrees
  EmittedRebinds
