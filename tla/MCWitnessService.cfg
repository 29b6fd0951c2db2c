CONSTANTS
  a = a
  b = b
  pa = pa
  pb = pb
  pa2 = pa2
  NotInt = NotInt
  Organs = {a, b}
  NoOrgan = NoOrgan
  Actions = {act}
  Pems = {pa, pb, pa2}
  NoPem = NoPem
  BadPem = BadPem
  NoBytes = NoBytes
  Junk = Junk
  Abstain = Abstain
  Clients = {c1}
  Unset = Unset
  BadText = BadText
  Deployments <- MCDeployments
SPECIFICATION Spec
INVARIANTS
  ConfirmedIffSameTrust
  CliAgreesWithService
  ListingForetellsVerify
  HealthTellsTruth
  TransportsAgree
PROPERTIES
  EveryCallEnds
