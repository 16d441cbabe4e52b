CONSTANTS
  f = f
  main = main
  putint = putint
  NoFunc = NoFunc
  NullVal = NullVal
  Nobody = Nobody
  Freed = Freed
  WordBits = 32
  IRVals <- MCIRVals
  Uses <- MCUses
  MaxInsts <- MCMaxInsts
  MaxOperands <- MCMaxOperands
  Inputs <- MCInputs
SPECIFICATION Spec
INVARIANTS
  ScratchRegisterReserved
  AllocatorIdle
  ArgumentsInPlace
  FrameSlotsDisjoint
  SlotsReached
  BranchesResolved
  ConstExprMatchesISA
  ConstantLoaded
CHECK_DEADLOCK FALSE
