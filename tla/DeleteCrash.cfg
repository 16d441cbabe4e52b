CONSTANTS
  g = g
  x = x
  f = f
  main = main
  NoFunc = NoFunc
  NullVal = NullVal
  Nobody = Nobody
  Freed = Freed
  Names <- MCNames
  FuncNames <- MCFuncNames
  Literals = {1, 65537}
  MaxScopes = 4
  MaxVars = 8
  MaxDepth = 3
  MaxSteps = 400
  WordBits = 32
  Main = main
  IRVals <- MCIRVals
  Uses <- MCUses
  MaxInsts <- MCMaxInsts
  MaxOperands <- MCMaxOperands
  Programs <- CallPrograms
  Nodes <- CallNodes
SPECIFICATION CompileSpec
INVARIANT
  NoUseAfterFree
CHECK_DEADLOCK FALSE
