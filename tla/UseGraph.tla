------------------------------ MODULE UseGraph ------------------------------
(***************************************************************************)
(* The def-use graph of the IR (ir/Value, ir/User, ir/Use) as operators on *)
(* a record [uses, edge].                                                  *)
(*                                                                         *)
(* A Use object is an edge from the value it uses to the instruction that  *)
(* uses it.  Value declares one list, "uses", and User, which inherits it, *)
(* declares none: the list of an instruction holds the edges to its        *)
(* operands and the edges from the instructions that use its result, in    *)
(* the order in which they were made.                                      *)
(***************************************************************************)
EXTENDS Sequences, SequencesExt

CONSTANT Freed    \* the contents of a Use object that is not allocated

NewGraph(values, uses) == [uses |-> [v \in values |-> << >>], edge |-> [u \in uses |-> Freed]]

AddUse(g, v, u) == [g EXCEPT !.uses[v] = Append(@, u)]

(* Value::removeUse and User::removeOperandRaw, on the one list there is.  *)
RemoveUse(g, v, u) == [g EXCEPT !.uses[v] = RemoveFirst(@, u)]

(* Wrong: the value used before keeps the edge. *)
SetUseeOnly(g, u, v) == AddUse([g EXCEPT !.edge[u].usee = v], v, u)

SetUsee(g, u, v) ==
  AddUse([RemoveUse(g, g.edge[u].usee, u) EXCEPT !.edge[u].usee = v], v, u)

(* Use::remove: the edge leaves the lists of both its ends. *)
Detach(g, u) == RemoveUse(RemoveUse(g, g.edge[u].usee, u), g.edge[u].user, u)

Drop(g, u) == [Detach(g, u) EXCEPT !.edge[u] = Freed]

NewUse(g, i, v, u) == [g EXCEPT !.edge[u] = [usee |-> v, user |-> i]]

AddOperand(g, i, v, u) == AddUse(AddUse(NewUse(g, i, v, u), i, u), v, u)

SetOperand(g, i, pos, v) ==
  IF pos \in DOMAIN g.uses[i] THEN SetUsee(g, g.uses[i][pos], v) ELSE g

(* The positions in the list of i of the edges that use v. *)
Using(g, i, v) == {k \in DOMAIN g.uses[i] : g.edge[g.uses[i][k]].usee = v}
=============================================================================
