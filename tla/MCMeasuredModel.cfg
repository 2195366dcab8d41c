SPECIFICATION FairSpec
CONSTANTS
  Variable <- SampleVariable
  Request <- MeasuredRequest
  None = None
  max_used_variables_support = 4
  max_valid_modal_points_count_ = 4
  MaxWeight = 4
  ExactArithmetic = TRUE
INVARIANTS
  TypeOK
  NoModelIsPassedOver
  MeasuredValuesFitTheModel
PROPERTIES
  ImplementsCreation
  CreateEnds
