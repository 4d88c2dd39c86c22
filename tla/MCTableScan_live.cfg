CONSTANTS
  Scanner = {s1, s2, s3}
  NoScanner = NoScanner
  AnyFile = AnyFile
  Only = AnyFile
  Dir <- MixedDir
  BufSlots = 4
  MaxResets = 1
SPECIFICATION FairSpec
INVARIANTS
  TypeOK
PROPERTIES
  EveryScannerEnds
  WholeTableServed
  ImplementsDispenser
