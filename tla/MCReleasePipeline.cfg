CONSTANTS
  khipu = khipu
  other = other
  RunIds = {r1, r2}
  Packages = {khipu, other}
  Declarations <- MCDeclarations
  NoName = NoName
  MaxVersion = 2
  MaxAttempts = 2
SPECIFICATION Spec
INVARIANTS
  PublishedIsOwn
  TagNamesFile
PROPERTIES
  ImplementsIndexHistory
  RunsEnd
  RunningLeftAlone
