CONSTANTS
  g = g
  x = x
  f = f
  main = main
  NoFunc = NoFunc
  Names <- MCNames
  FuncNames <- MCFuncNames
  Literals = {1}
  MaxScopes = 4
  MaxVars = 8
  MaxDepth = 3
  Main = main
  Programs <- MCPrograms
  Nodes <- MCNodes
SPECIFICATION Spec
INVARIANTS
  TypeOK
  NoInstructionLost
  OperandsAvailable
  OneExit
  FrameAttributesMatchCode
  SemanticsPreserved
  RefusesIllegalCalls
PROPERTIES
  UsesSymbolTable
  Terminates
CHECK_DEADLOCK FALSE
