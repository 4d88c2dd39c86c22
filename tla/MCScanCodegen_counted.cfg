SPECIFICATION Spec
CONSTANTS
  Scanner = {s1, s2}
  Shape <- Shapes
  Stripes <- OneShape
  Selections <- SomeScans
  None = None
  Deleted = Deleted
  MaxBatches = 1
  MaxSessions = 1
SYMMETRY ScannerSymmetry
INVARIANTS
  EncodingCounted
