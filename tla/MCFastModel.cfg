SPECIFICATION FairSpec
CONSTANTS
  Variable <- SampleVariable
  Request <- FastRequest
  None = None
INVARIANTS
  TypeOK
  NegativeAtomsAreKept
PROPERTIES
  ImplementsCreation
  CreateEnds
