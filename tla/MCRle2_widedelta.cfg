SPECIFICATION Spec
CONSTANTS
  Instances <- Shorts
  Streams <- OneRun
INVARIANT DeltaBaseAsStored
