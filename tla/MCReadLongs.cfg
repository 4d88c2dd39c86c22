SPECIFICATION FairSpec
CONSTANTS
  W = 16
  Inputs <- SomeCalls
  Nothing = Nothing
INVARIANTS
  TypeOK
  FetchesOnlyItsBytes
  EndsInStep
  FieldsDecoded
PROPERTY LoopEnds
