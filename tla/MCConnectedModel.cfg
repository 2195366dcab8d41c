SPECIFICATION Spec
CONSTANTS
  Variable <- SampleVariable
  Request <- ConnectedRequest
  max_variables_count_ = 2
INVARIANTS
  TypeOK
  PointsAreAllValid
  ComponentsAreSeparate
  ModelIsConnected
  AnswerIsComplete
