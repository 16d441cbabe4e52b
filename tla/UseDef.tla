------------------------------- MODULE UseDef -------------------------------
(***************************************************************************)
(* The methods of User as a state machine, called in any order; clearing   *)
(* walks the list it shortens, one edge a step.  DeleteInstruction is the  *)
(* "delete" of a move at the end of InstSelectorArm32::translate_call, and *)
(* DeleteCode is InterCode::Delete, with which a compilation ends.         *)
(***************************************************************************)
EXTENDS Naturals, UseGraph

CONSTANTS
  NumInst,     \* instructions are numbered in the order of their creation
  Variables,   \* the values that are no instructions
  Uses         \* the Use objects the heap has room for

ASSUME NumInstAssumption == NumInst \in Nat \ {0}
ASSUME VariablesAssumption == Variables \cap Nat = {}

Instructions == 1 .. NumInst
Values       == Instructions \cup Variables

Edges == [usee : Values, user : Instructions]
ASSUME FreedAssumption == Freed \notin Edges

-----------------------------------------------------------------------------
VARIABLES
  graph,
  dropped,    \* instructions deleted while the graph was in use
  walk,       \* the instructions whose operands are still to be cleared
  ending,     \* InterCode::Delete was called
  fault       \* an object that no longer exists was accessed

vars == << graph, dropped, walk, ending, fault >>

Init ==
  /\ graph = NewGraph(Values, Uses)
  /\ dropped = {} /\ walk = << >> /\ ending = FALSE /\ fault = FALSE

Free == {u \in Uses : graph.edge[u] = Freed}

(* Both ends of an edge are accessed when it is taken out of their lists.  *)
Touches(u) == {graph.edge[u].usee, graph.edge[u].user}

Idle == walk = << >> /\ ~ending /\ ~fault

Faults(u) == fault' = (Touches(u) \cap dropped # {})

(* An operand exists before the instruction that is made from it. *)
CallAddOperand(i, v, u) ==
  /\ Idle /\ {i, v} \cap dropped = {} /\ u \in Free
  /\ v \in Instructions => v < i
  /\ graph' = AddOperand(graph, i, v, u)
  /\ UNCHANGED << dropped, walk, ending, fault >>

(* The callers pass registers and stack slots, never an instruction. *)
CallSetOperand(i, pos, v) ==
  /\ Idle /\ i \notin dropped /\ pos \in DOMAIN graph.uses[i]
  /\ graph' = SetOperand(graph, i, pos, v)
  /\ fault' = (graph.edge[graph.uses[i][pos]].usee \in dropped)
  /\ UNCHANGED << dropped, walk, ending >>

RemoveOperandAt(i, pos) ==
  /\ Idle /\ i \notin dropped /\ pos \in DOMAIN graph.uses[i]
  /\ graph' = Drop(graph, graph.uses[i][pos])
  /\ Faults(graph.uses[i][pos])
  /\ UNCHANGED << dropped, walk, ending >>

RemoveOperand(i, v) ==
  /\ Using(graph, i, v) # {}
  /\ RemoveOperandAt(i, CHOOSE k \in Using(graph, i, v) :
                           \A j \in Using(graph, i, v) : k <= j)

(* User::removeUse takes the edge out of both lists and keeps the object.  *)
CallRemoveUse(i, pos) ==
  /\ Idle /\ i \notin dropped /\ pos \in DOMAIN graph.uses[i]
  /\ graph' = Detach(graph, graph.uses[i][pos])
  /\ Faults(graph.uses[i][pos])
  /\ UNCHANGED << dropped, walk, ending >>

ClearOperands(i) ==
  /\ Idle /\ i \notin dropped
  /\ walk' = << i >>
  /\ UNCHANGED << graph, dropped, ending, fault >>

DeleteInstruction(i) ==
  /\ Idle
  /\ dropped' = dropped \cup {i}
  /\ UNCHANGED << graph, walk, ending, fault >>

(* The instructions that were not deleted, in an order of their own: a     *)
(* label is created long before it is put into the code.                   *)
Codes ==
  LET kept == Instructions \ dropped
  IN  Bijection(1 .. Cardinality(kept), kept)

(* A deleted move was never put into the code. *)
DeleteCode(code) ==
  /\ Idle
  /\ walk' = code /\ ending' = TRUE
  /\ UNCHANGED << graph, dropped, fault >>

(* Wrong: the index grows although the list shrinks. *)
ClearStepSkipping ==
  /\ walk # << >> /\ ~fault
  /\ LET own == graph.uses[Head(walk)]
     IN  IF Len(own) < 2 THEN walk' = Tail(walk) /\ UNCHANGED << graph, fault >>
         ELSE graph' = Drop(graph, own[1]) /\ Faults(own[1]) /\ UNCHANGED walk
  /\ UNCHANGED << dropped, ending >>

(* Wrong: an instruction without edges is not passed over. *)
ClearStepStuck ==
  /\ walk # << >> /\ ~fault
  /\ LET own == graph.uses[Head(walk)]
     IN  /\ own # << >>
         /\ graph' = Drop(graph, own[1]) /\ Faults(own[1])
         /\ walk' = IF Len(own) = 1 THEN Tail(walk) ELSE walk
  /\ UNCHANGED << dropped, ending >>

(* One turn of the loop of clearOperands: the edge at the front of the     *)
(* list is removed and deleted, until the list is empty.                   *)
ClearStep ==
  /\ walk # << >> /\ ~fault
  /\ LET own == graph.uses[Head(walk)]
     IN  IF own = << >> THEN walk' = Tail(walk) /\ UNCHANGED << graph, fault >>
         ELSE graph' = Drop(graph, own[1]) /\ Faults(own[1]) /\ UNCHANGED walk
  /\ UNCHANGED << dropped, ending >>

Next ==
  \/ \E i \in Instructions, v \in Values, u \in Uses : CallAddOperand(i, v, u)
  \/ \E i \in Instructions : \E pos \in DOMAIN graph.uses[i] :
       \/ \E v \in Variables : CallSetOperand(i, pos, v)
       \/ RemoveOperandAt(i, pos)
       \/ CallRemoveUse(i, pos)
  \/ \E i \in Instructions, v \in Values : RemoveOperand(i, v)
  \/ \E i \in Instructions : ClearOperands(i) \/ DeleteInstruction(i)
  \/ \E code \in Codes : DeleteCode(code)
  \/ ClearStep

Spec == Init /\ [][Next]_vars /\ WF_vars(ClearStep)

-----------------------------------------------------------------------------
In(u, v) == \E k \in DOMAIN graph.uses[v] : graph.uses[v][k] = u

(* Whatever is added, replaced, removed and cleared, the two ends of an    *)
(* edge agree on it: a list holds no edge twice and only allocated edges   *)
(* that end there, and while both ends exist an edge is in both lists or   *)
(* in none.                                                                *)
EdgesMirrored ==
  /\ \A v \in Values \ dropped :
       /\ \A j, k \in DOMAIN graph.uses[v] :
            graph.uses[v][j] = graph.uses[v][k] => j = k
       /\ \A u \in Uses : In(u, v) =>
            graph.edge[u] # Freed /\ v \in {graph.edge[u].usee, graph.edge[u].user}
  /\ \A u \in Uses : graph.edge[u] # Freed =>
       LET e == graph.edge[u]
       IN  {e.usee, e.user} \cap dropped = {} => (In(u, e.usee) <=> In(u, e.user))

(* InterCode::Delete frees every edge of the code it deletes, once: what   *)
(* is still allocated afterwards was detached by hand or belonged to an    *)
(* instruction that was deleted before.                                    *)
NothingLeaked ==
  ending /\ walk = << >> =>
    \A u \in Uses : graph.edge[u] # Freed =>
      LET e == graph.edge[u]
      IN  {e.usee, e.user} \cap dropped # {} \/ ~In(u, e.user)

(* Clearing ends: every turn of its loop shortens the list it walks.       *)
ClearingEnds == (walk # << >>) ~> (walk = << >> \/ fault)
=============================================================================
