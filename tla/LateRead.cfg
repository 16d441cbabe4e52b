CONSTANTS
  g = g
  x = x
  f = f
  main = main
  NoFunc = NoFunc
  Names <- MCNames
  FuncNames <- MCFuncNames
  Literals = {1}
  MaxScopes = 4
  MaxVars = 8
  MaxDepth = 3
  Main = main
  Programs <- LateRead
  Nodes <- LateNodes
SPECIFICATION Spec
INVARIANT
  RefusedOrLeftFirst
CHECK_DEADLOCK FALSE
