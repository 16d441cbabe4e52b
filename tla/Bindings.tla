----------------------------- MODULE Bindings -----------------------------
(***************************************************************************)
(* What a scoped symbol table promises, without scopes to search: the      *)
(* environment maps every name to the value it denotes, entering a block   *)
(* saves the whole environment, leaving it restores the one saved.         *)
(***************************************************************************)
EXTENDS Naturals, Sequences

CONSTANTS Names, Values, Unbound

VARIABLES
  env,    \* what each name denotes here
  local,  \* the names declared in the innermost block
  saved   \* the enclosing blocks, outermost first

vars == << env, local, saved >>

Init ==
  /\ env   = [n \in Names |-> Unbound]
  /\ local = {}
  /\ saved = << >>

Enter ==
  /\ saved' = Append(saved, [env |-> env, local |-> local])
  /\ local' = {}
  /\ UNCHANGED env

Leave ==
  /\ saved # << >>
  /\ env'   = saved[Len(saved)].env
  /\ local' = saved[Len(saved)].local
  /\ saved' = SubSeq(saved, 1, Len(saved) - 1)

(* A declaration gives the name a value no visible or hidden name denotes. *)
InUse(v) ==
  \/ \E n \in Names : env[n] = v
  \/ \E i \in DOMAIN saved : \E n \in Names : saved[i].env[n] = v

Declare(n) ==
  /\ n \notin local
  /\ \E v \in Values : ~InUse(v) /\ env' = [env EXCEPT ![n] = v]
  /\ local' = local \cup {n}
  /\ UNCHANGED saved

Next == Enter \/ Leave \/ \E n \in Names : Declare(n)

Spec == Init /\ [][Next]_vars
=============================================================================
