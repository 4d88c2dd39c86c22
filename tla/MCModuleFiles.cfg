SPECIFICATION MCSpec
CONSTANTS
  Process = {p1, p2, p3}
  MaxColumns = 2
  None = None
SYMMETRY ProcessSymmetry
INVARIANTS
  FilesAgree
PROPERTIES
  LoadsWhole
