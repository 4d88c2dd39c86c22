SPECIFICATION GenSpec
CONSTANTS
  Instances <- GeneratedDecoders
  Streams <- FirstStreams
  MaxScanners = 2
  More <- SecondStreams
  Later <- LaterStreams
INVARIANTS
  InterpreterInStep
  InterpreterDecodes
  InterpreterProfiles
  GeneratedStaysInStep
  GeneratedDecodes
  UndefinedOnlyWhere
  FaultsOnlyOnUnfamiliar
  ProfileSurvives
