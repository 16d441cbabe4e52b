CONSTANTS
  x = x
  y = y
  u1 = u1
  u2 = u2
  u3 = u3
  Freed = Freed
  NumInst <- MCNumInst
  Variables <- MCVariables
  Uses <- MCUses
SPECIFICATION Spec
INVARIANTS
  EdgesMirrored
  NothingLeaked
PROPERTY
  ClearingEnds
CHECK_DEADLOCK FALSE
