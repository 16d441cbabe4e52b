CONSTANTS
  x = x
  y = y
  f = f
  NoFunc = NoFunc
  Names <- MCNames
  FuncNames <- MCFuncNames
  Literals = {0}
  Sizes = {4}
  MaxScopes = 4
  MaxVars = 3
SPECIFICATION Spec
INVARIANTS
  TypeOK
  NoAliasing
  FunctionListMatchesMap
  FunctionHasScope
  ScopesHoldOwnVariables
PROPERTY
  ImplementsBindings
