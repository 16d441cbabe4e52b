CONSTANTS
  f = f
  main = main
  putint = putint
  NoFunc = NoFunc
  NullVal = NullVal
  Nobody = Nobody
  Freed = Freed
  WordBits = 32
  IRVals <- MCIRVals
  Uses <- MCUses
  MaxInsts <- MCMaxInsts
  MaxOperands <- MCMaxOperands
  Inputs <- UsedResult
SPECIFICATION Spec
INVARIANT
  ArgsMatchCall
CHECK_DEADLOCK FALSE
