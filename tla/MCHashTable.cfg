SPECIFICATION Spec
CONSTANTS
  TABLE_SIZE = 3
  Keys <- SmallKeys
  Values <- SmallValues
  None = None
PROPERTIES
  ImplementsKeyMap
  CallsReturn
