CONSTANTS
  Scanner = {s1, s2, s3}
  NoScanner = NoScanner
  AnyFile = AnyFile
  Only = AnyFile
  Dir <- ThreadsDir
  BufSlots = 2
  MaxResets = 0
SPECIFICATION Spec
SYMMETRY ScannerSymmetry
INVARIANTS
  FilesDisjoint
  OnlyDataFiles
  ServedInOrder
  EofMeansTaken
  CrashOnlyOnEmptyFile
