CONSTANTS
  Scanner = {s1, s2}
  NoScanner = NoScanner
  AnyFile = AnyFile
  Only = AnyFile
  Dir <- RefillDir
  BufSlots = 2
  MaxResets = 1
SPECIFICATION FairSpec
PROPERTIES
  NoStripeTwice
  WholeTableServed
