SPECIFICATION Spec
CONSTANTS
  Variable <- MCVariable
  Input <- EitherMeasured
  NoAST = NoAST
  Model <- MCModel
  Nothing = Nothing
  Empty <- MCEmpty
  InContact <- MCInContact
  LessEq <- MCLessEq
INVARIANT ModelIsSatisfiable
