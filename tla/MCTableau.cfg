\* Every formula of MCRoot, every order of expansion, a termination request
\* at every step, repeated calls.
SPECIFICATION FairSpec
CONSTANTS
  Formula <- MCFormula
  Op <- MCOp
  Left <- MCLeft
  Right <- MCRight
  LeftTerm <- MCLeftTerm
  RightTerm <- MCRightTerm
  Models <- MCModels
  Theory <- MCTheory
  Root <- MCRoot
  NoModel = NoModel
INVARIANTS
  TypeOK
  PathIsConsistent
  ContactTermsMatchContacts
  AnswerIsCorrect
  ModelSatisfiesFormula
PROPERTIES
  CallsRestoreThePath
  EveryCallEnds
