SPECIFICATION BufSpec
CONSTANTS
  Zero = 0
  Junk = Junk
  Value = {0, 1}
  MaxSize = 4
INVARIANTS
  NoJunk
PROPERTY ImplementsVector
