CONSTANTS
  a = a
  b = b
  act = act
  act2 = act2
  pa = pa
  pb = pb
  cert = cert
  Organs = {a, b}
  NoOrgan = NoOrgan
  Actions = {act, act2}
  Pems <- MCPems
  NoPem = NoPem
  BadPem = BadPem
  NoBytes = NoBytes
  Junk = Junk
  Abstain = Abstain
  RowPool <- MCTypedRows
  OtherPems = {cert}
  PubkeyPool <- MCPubkeys
  Counts <- MCCounts
  MaxRows = 3
SPECIFICATION PortsSpec
INVARIANTS
  TalliesMirror
