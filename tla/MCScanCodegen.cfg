SPECIFICATION Spec
CONSTANTS
  Scanner = {s1, s2}
  Shape <- Shapes
  Stripes <- OneShape
  Selections <- Selected
  None = None
  Deleted = Deleted
  MaxBatches = 1
  MaxSessions = 2
SYMMETRY ScannerSymmetry
INVARIANTS
  TypeOK
  ProfileComplete
  GeneratedUnlessShifted
  FaultsOnlyOnUnseen
  DestroyedSafely
  FinalizedOnce
