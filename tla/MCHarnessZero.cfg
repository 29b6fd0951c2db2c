SPECIFICATION Spec
CONSTANTS
  o1 = o1
  o2 = o2
  o3 = o3
  o4 = o4
  k1 = k1
  k2 = k2
  k3 = k3
  k4 = k4
  Organs = {o1, o2, o3, o4}
  NoOrgan = NoOrgan
  Actions = {ActA, ActB}
  Pems = {k1, k2, k3, k4, kx}
  NoPem = NoPem
  BadPem = BadPem
  NoBytes = NoBytes
  Junk = Junk
  Abstain = Abstain
  OrganList <- MCOrganList
  Keys <- MCKeys
  AttackerPem = kx
  ActionA = ActA
  ActionB = ActB
  Threshold = 0
  Batteries <- MCSmallBattery
INVARIANT HardenedAgrees
