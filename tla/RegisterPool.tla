--------------------------- MODULE RegisterPool ---------------------------
(***************************************************************************)
(* What a register allocator promises: every register is free, or held by  *)
(* one value, or held for a use that has no value; a value holds at most   *)
(* one register.                                                           *)
(***************************************************************************)
CONSTANTS Regs, Vals, Nobody, Anonymous

VARIABLE holder

Holds(h) == \E r \in Regs : holder[r] = h

(* Who may be given a register: a value that has none, or a use without a  *)
(* value, of which there may be many.                                      *)
MayReceive(h) == h = Anonymous \/ (h \in Vals /\ ~Holds(h))

Init == holder = [r \in Regs |-> Nobody]

(* A free register is handed out. *)
Take(r, h) ==
  /\ holder[r] = Nobody
  /\ MayReceive(h)
  /\ holder' = [holder EXCEPT ![r] = h]

(* A register changes hands only when there is none free, and only a value *)
(* can lose its register: a register held anonymously is safe.             *)
Steal(r, h) ==
  /\ ~Holds(Nobody)
  /\ holder[r] \in Vals
  /\ MayReceive(h)
  /\ holder' = [holder EXCEPT ![r] = h]

(* Unless the register is asked for by its number. *)
Claim(r) == holder' = [holder EXCEPT ![r] = Anonymous]

Release(r) == holder' = [holder EXCEPT ![r] = Nobody]

Next ==
  \E r \in Regs :
    \/ \E h \in Vals \cup {Anonymous} : Take(r, h) \/ Steal(r, h)
    \/ Claim(r)
    \/ Release(r)

Spec == Init /\ [][Next]_holder
=============================================================================
