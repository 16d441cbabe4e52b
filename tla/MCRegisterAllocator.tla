------------------------ MODULE MCRegisterAllocator ------------------------
(* Three registers and four values: the pool runs out, with any mix of     *)
(* values and anonymous holders in it, and still one value is waiting.     *)
EXTENDS RegisterAllocator

CONSTANTS a, b, c, d

MCVals   == {a, b, c, d}
MCRegNum == 3
=============================================================================
