SPECIFICATION Spec
CONSTANTS
  Variable <- MCVariable
  Input <- MCInput
  NoAST = NoAST
  Model <- MCModel
  Nothing = Nothing
  Empty <- MCEmpty
  InContact <- MCInContact
  LessEq <- MCLessEq
INVARIANTS
  TypeOK
  MeaningIsKept
  EveryTextIsBuilt
  FlagsAreObeyed
  EvaluationIsExact
  AnswerIsAboutTheText
