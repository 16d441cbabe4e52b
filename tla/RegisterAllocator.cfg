CONSTANTS
  a = a
  b = b
  c = c
  d = d
  NullVal = NullVal
  Nobody = Nobody
  Vals <- MCVals
  maxUsableRegNum <- MCRegNum
SPECIFICATION Spec
INVARIANTS
  TypeOK
  QueueMatchesRegisters
  NoSharedRegister
PROPERTY
  ImplementsPool
CHECK_DEADLOCK FALSE
