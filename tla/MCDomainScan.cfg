CONSTANTS
  f = f
  g = g
  h = h
  Paths = {f, g, h}
  Indexes <- MCIndexes
  Trees <- MCTrees
  BatchSize = 2
  MaxEdits = 2
SPECIFICATION Spec
INVARIANTS
  StandingViolationBlocks
  ReportedOnceReal
  QuietScanIsExact
  FaultFailsClosed
PROPERTIES
  ScanEnds
