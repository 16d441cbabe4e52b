----------------------------- MODULE MCUseDef -----------------------------
(* Three instructions, two other values and three edges: an instruction can *)
(* have two operands and two users, use a value twice, and be deleted      *)
(* between two others.                                                     *)
EXTENDS UseDef

CONSTANTS x, y, u1, u2, u3

MCNumInst   == 3
MCVariables == {x, y}
MCUses      == {u1, u2, u3}
=============================================================================
