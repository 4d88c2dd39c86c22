SPECIFICATION Spec
CONSTANTS
  columns <- ThreeColumns
  Tables <- SmallTables
  RowBytes = 2
  BatchRows = 1
  DatabufBytes = 2
  MaxShort = 1
  Zero = Zero
  Junk = Junk
  Garbage = Garbage
INVARIANTS
  BatchHoldsRows
  ShowsItsValues
  LeftoversAreItsOwn
  BorrowsOnlyFromEarlier
