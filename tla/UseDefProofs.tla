---------------------------- MODULE UseDefProofs ----------------------------
(***************************************************************************)
(* The invariants of UseDef, proved for every number of instructions, and  *)
(* every set of other values and of Use objects, under any sequence of     *)
(* calls.                                                                  *)
(*                                                                         *)
(* EdgesMirrored is inductive once three facts are added: the two ends of  *)
(* an edge are different values, only instructions are deleted, and the    *)
(* instructions that are still to be cleared exist.  NothingLeaked needs   *)
(* what is true in the middle of the walk: an edge that will have to be    *)
(* freed is in the list of an instruction that is still to be cleared.     *)
(***************************************************************************)
EXTENDS UseDef, SequenceLemmas, FiniteSetTheorems

Graphs == [uses : [Values -> Seq(Uses)], edge : [Uses -> Edges \cup {Freed}]]

Allocated(g, u) == g.edge[u] # Freed

Ends(g, u) == {g.edge[u].usee, g.edge[u].user}

(* A list holds no edge twice, and only allocated edges that end there.    *)
ListsOwn(g, gone) ==
  \A v \in Values \ gone :
    /\ Distinct(g.uses[v])
    /\ \A u \in Uses : Occurs(u, g.uses[v]) => Allocated(g, u) /\ v \in Ends(g, u)

(* An edge is in the lists of both its ends or in none. *)
InBothOrNone(g, gone) ==
  \A u \in Uses :
    Allocated(g, u) /\ Ends(g, u) \cap gone = {} =>
      (Occurs(u, g.uses[g.edge[u].usee]) <=> Occurs(u, g.uses[g.edge[u].user]))

(* No instruction uses its own result. *)
NoSelfUse(g) == \A u \in Uses : Allocated(g, u) => g.edge[u].usee # g.edge[u].user

Sound(g, gone) ==
  /\ g \in Graphs
  /\ NoSelfUse(g)
  /\ ListsOwn(g, gone)
  /\ InBothOrNone(g, gone)

(* What is left to free is in the list of an instruction on the walk. *)
StillToClear(g, gone, rest) ==
  \A u \in Uses :
    Allocated(g, u) /\ Ends(g, u) \cap gone = {} /\ Occurs(u, g.uses[g.edge[u].user]) =>
      Occurs(g.edge[u].user, rest)

IndInv ==
  /\ Sound(graph, dropped)
  /\ dropped \subseteq Instructions
  /\ walk \in Seq(Instructions \ dropped)
  /\ ending \in BOOLEAN /\ fault \in BOOLEAN
  /\ ending => StillToClear(graph, dropped, walk)

(* The inductive invariant says what the two properties say.               *)
LEMMA IndInvMirrored ==
  ASSUME IndInv
  PROVE  EdgesMirrored
<1>1. ASSUME NEW u, NEW v PROVE In(u, v) <=> Occurs(u, graph.uses[v])
  BY DEF In, Occurs
<1>2. ListsOwn(graph, dropped) /\ InBothOrNone(graph, dropped)
  BY DEF IndInv, Sound
<1>3. ASSUME NEW v \in Values \ dropped
      PROVE  /\ \A j, k \in DOMAIN graph.uses[v] : graph.uses[v][j] = graph.uses[v][k] => j = k
             /\ \A u \in Uses : In(u, v) =>
                  graph.edge[u] # Freed /\ v \in {graph.edge[u].usee, graph.edge[u].user}
  BY <1>1, <1>2 DEF ListsOwn, Distinct, Allocated, Ends
<1>4. ASSUME NEW u \in Uses, graph.edge[u] # Freed,
             {graph.edge[u].usee, graph.edge[u].user} \cap dropped = {}
      PROVE  In(u, graph.edge[u].usee) <=> In(u, graph.edge[u].user)
  BY <1>1, <1>2, <1>4 DEF InBothOrNone, Allocated, Ends
<1> QED
  BY <1>3, <1>4 DEF EdgesMirrored

(* Nothing is on the walk any more, so nothing is left to free.            *)
LEMMA IndInvNotLeaked ==
  ASSUME IndInv
  PROVE  NothingLeaked
<1>1. SUFFICES ASSUME ending, walk = << >>, NEW u \in Uses, graph.edge[u] # Freed,
                      {graph.edge[u].usee, graph.edge[u].user} \cap dropped = {},
                      In(u, graph.edge[u].user)
               PROVE  FALSE
  BY DEF NothingLeaked
<1>2. Occurs(u, graph.uses[graph.edge[u].user])
  BY <1>1 DEF In, Occurs
<1>3. Occurs(graph.edge[u].user, walk)
  BY <1>1, <1>2 DEF IndInv, StillToClear, Allocated, Ends
<1> QED
  BY <1>1, <1>3 DEF Occurs

-----------------------------------------------------------------------------
(* The lists of a graph are lists of edges; values are numbers or not.     *)
LEMMA ListType ==
  ASSUME NEW g \in Graphs, NEW v \in Values
  PROVE  g.uses[v] \in Seq(Uses)
BY DEF Graphs

(* The ends of an allocated edge are values, its user an instruction.      *)
LEMMA EndsAreValues ==
  ASSUME NEW g \in Graphs, NEW u \in Uses, Allocated(g, u)
  PROVE  /\ g.edge[u] \in Edges
         /\ g.edge[u].usee \in Values /\ g.edge[u].user \in Instructions
         /\ g.edge[u].user \in Values
         /\ Ends(g, u) \subseteq Values
BY DEF Graphs, Allocated, Edges, Ends, Values

(* An edge at the end of a list.                                           *)
LEMMA AddUseFacts ==
  ASSUME NEW g \in Graphs, NEW v \in Values, NEW u \in Uses
  PROVE  /\ AddUse(g, v, u) \in Graphs
         /\ AddUse(g, v, u).edge = g.edge
         /\ AddUse(g, v, u).uses[v] = Append(g.uses[v], u)
         /\ \A w \in Values \ {v} : AddUse(g, v, u).uses[w] = g.uses[w]
<1>1. g.uses \in [Values -> Seq(Uses)] /\ g.edge \in [Uses -> Edges \cup {Freed}]
  BY DEF Graphs
<1>2. Append(g.uses[v], u) \in Seq(Uses)
  BY <1>1
<1> DEFINE more == [g.uses EXCEPT ![v] = Append(@, u)]
<1>3. /\ more \in [Values -> Seq(Uses)]
      /\ more[v] = Append(g.uses[v], u)
      /\ \A w \in Values \ {v} : more[w] = g.uses[w]
  BY <1>1, <1>2
<1>4. AddUse(g, v, u) = [g EXCEPT !.uses = more]
  BY DEF AddUse, Graphs
<1> HIDE DEF more
<1> QED
  BY <1>3, <1>4 DEF Graphs

(* An edge taken out of a list.                                            *)
LEMMA RemoveUseFacts ==
  ASSUME NEW g \in Graphs, NEW v \in Values, NEW u \in Uses
  PROVE  /\ RemoveUse(g, v, u) \in Graphs
         /\ RemoveUse(g, v, u).edge = g.edge
         /\ RemoveUse(g, v, u).uses[v] = RemoveFirst(g.uses[v], u)
         /\ \A w \in Values \ {v} : RemoveUse(g, v, u).uses[w] = g.uses[w]
<1>1. g.uses \in [Values -> Seq(Uses)] /\ g.edge \in [Uses -> Edges \cup {Freed}]
  BY DEF Graphs
<1>2. RemoveFirst(g.uses[v], u) \in Seq(Uses)
  BY <1>1, RemoveFirstFacts
<1> DEFINE less == [g.uses EXCEPT ![v] = RemoveFirst(@, u)]
<1>3. /\ less \in [Values -> Seq(Uses)]
      /\ less[v] = RemoveFirst(g.uses[v], u)
      /\ \A w \in Values \ {v} : less[w] = g.uses[w]
  BY <1>1, <1>2
<1>4. RemoveUse(g, v, u) = [g EXCEPT !.uses = less]
  BY DEF RemoveUse, Graphs
<1> HIDE DEF less
<1> QED
  BY <1>3, <1>4 DEF Graphs

(* What the two do to the edges that occur in the lists.                   *)
LEMMA AddUseOccurs ==
  ASSUME NEW g \in Graphs, NEW v \in Values, NEW u \in Uses, NEW w \in Values
  PROVE  LET h == AddUse(g, v, u)
         IN  /\ \A x : Occurs(x, h.uses[w]) <=> Occurs(x, g.uses[w]) \/ (x = u /\ w = v)
             /\ Distinct(g.uses[w]) /\ (w = v => ~Occurs(u, g.uses[w])) => Distinct(h.uses[w])
<1> DEFINE h == AddUse(g, v, u)
           Goal == /\ \A x : Occurs(x, h.uses[w]) <=> Occurs(x, g.uses[w]) \/ (x = u /\ w = v)
                   /\ Distinct(g.uses[w]) /\ (w = v => ~Occurs(u, g.uses[w])) => Distinct(h.uses[w])
<1>1. CASE w = v
  <2> DEFINE old == g.uses[w]
  <2>1. old \in Seq(Uses) /\ h.uses[w] = Append(old, u)
    BY <1>1, AddUseFacts, ListType
  <2> HIDE DEF h, old
  <2>2. /\ \A x : Occurs(x, Append(old, u)) <=> Occurs(x, old) \/ x = u
        /\ Distinct(old) /\ ~Occurs(u, old) => Distinct(Append(old, u))
    BY <2>1, AppendFacts
  <2>3. Goal
    BY <1>1, <2>1, <2>2, Zenon DEF old
  <2> QED
    BY <2>3 DEF h
<1>2. CASE w # v
  BY <1>2, AddUseFacts
<1> QED
  BY <1>1, <1>2

(* And nothing but that edge leaves the list.                              *)
LEMMA RemoveUseOccurs ==
  ASSUME NEW g \in Graphs, NEW v \in Values, NEW u \in Uses, NEW w \in Values, Distinct(g.uses[w])
  PROVE  LET h == RemoveUse(g, v, u)
         IN  /\ \A x \in Uses : Occurs(x, h.uses[w]) <=> Occurs(x, g.uses[w]) /\ ~(x = u /\ w = v)
             /\ Distinct(h.uses[w])
<1>1. CASE w = v
  BY <1>1, RemoveUseFacts, RemoveFirstFacts, ListType
<1>2. CASE w # v
  BY <1>2, RemoveUseFacts
<1> QED
  BY <1>1, <1>2

(* Use::remove takes the edge out of the lists of its ends and leaves the  *)
(* other edges in theirs.                                                  *)
LEMMA DetachFacts ==
  ASSUME NEW g \in Graphs, NEW u \in Uses, Allocated(g, u)
  PROVE  /\ Detach(g, u) \in Graphs
         /\ Detach(g, u).edge = g.edge
         /\ \A w \in Values : Distinct(g.uses[w]) =>
              /\ Distinct(Detach(g, u).uses[w])
              /\ \A x \in Uses : Occurs(x, Detach(g, u).uses[w])
                                   <=> Occurs(x, g.uses[w]) /\ ~(x = u /\ w \in Ends(g, u))
<1> DEFINE usee == g.edge[u].usee
           user == g.edge[u].user
           h    == RemoveUse(g, usee, u)
           d    == RemoveUse(h, user, u)
<1>1. usee \in Values /\ user \in Values /\ Ends(g, u) = {usee, user}
  BY EndsAreValues DEF Ends
<1>2. h \in Graphs /\ h.edge = g.edge
  BY <1>1, RemoveUseFacts
<1>3. Detach(g, u) = d
  BY <1>2 DEF Detach
<1> HIDE DEF usee, user
<1>4. d \in Graphs /\ d.edge = g.edge
  <2> HIDE DEF h
  <2> QED
    BY <1>1, <1>2, RemoveUseFacts
<1>5. ASSUME NEW w \in Values, Distinct(g.uses[w])
      PROVE  /\ Distinct(d.uses[w])
             /\ \A x \in Uses : Occurs(x, d.uses[w]) <=> Occurs(x, g.uses[w]) /\ ~(x = u /\ w \in Ends(g, u))
  <2>1. /\ Distinct(h.uses[w])
        /\ \A x \in Uses : Occurs(x, h.uses[w]) <=> Occurs(x, g.uses[w]) /\ ~(x = u /\ w = usee)
    BY <1>1, <1>5, RemoveUseOccurs
  <2> HIDE DEF h
  <2>2. /\ Distinct(d.uses[w])
        /\ \A x \in Uses : Occurs(x, d.uses[w]) <=> Occurs(x, h.uses[w]) /\ ~(x = u /\ w = user)
    BY <1>1, <1>2, <2>1, RemoveUseOccurs
  <2> HIDE DEF d
  <2> QED
    BY <1>1, <2>1, <2>2
<1> HIDE DEF d
<1> QED
  BY <1>3, <1>4, <1>5

-----------------------------------------------------------------------------
(* The methods of User keep a graph sound, whatever was deleted.           *)
LEMMA DetachSound ==
  ASSUME NEW g, NEW gone, Sound(g, gone), NEW u \in Uses, Allocated(g, u)
  PROVE  Sound(Detach(g, u), gone)
<1> DEFINE d == Detach(g, u)
<1>1. g \in Graphs /\ NoSelfUse(g) /\ ListsOwn(g, gone) /\ InBothOrNone(g, gone)
  BY DEF Sound
<1>2. /\ d \in Graphs /\ d.edge = g.edge
      /\ \A w \in Values : Distinct(g.uses[w]) =>
           /\ Distinct(d.uses[w])
           /\ \A x \in Uses : Occurs(x, d.uses[w]) <=> Occurs(x, g.uses[w]) /\ ~(x = u /\ w \in Ends(g, u))
  BY <1>1, DetachFacts
<1> HIDE DEF d
<1>3. \A x : (Allocated(d, x) <=> Allocated(g, x)) /\ Ends(d, x) = Ends(g, x)
  BY <1>2 DEF Allocated, Ends
<1>4. NoSelfUse(d)
  BY <1>1, <1>2 DEF NoSelfUse, Allocated
<1>5. ListsOwn(d, gone)
  BY <1>1, <1>2, <1>3 DEF ListsOwn
<1>6. ASSUME NEW x \in Uses, Allocated(d, x), Ends(d, x) \cap gone = {}
      PROVE  Occurs(x, d.uses[d.edge[x].usee]) <=> Occurs(x, d.uses[d.edge[x].user])
  <2> DEFINE usee == g.edge[x].usee
             user == g.edge[x].user
  <2>1. Allocated(g, x) /\ Ends(g, x) = {usee, user} /\ Ends(g, x) \cap gone = {}
    BY <1>3, <1>6 DEF Ends
  <2>2. usee \in Values \ gone /\ user \in Values \ gone
    BY <1>1, <2>1, EndsAreValues
  <2>3. Occurs(x, g.uses[usee]) <=> Occurs(x, g.uses[user])
    BY <1>1, <2>1 DEF InBothOrNone
  <2>4. Distinct(g.uses[usee]) /\ Distinct(g.uses[user])
    BY <1>1, <2>2 DEF ListsOwn
  <2>5. x = u => usee \in Ends(g, u) /\ user \in Ends(g, u)
    BY <2>1
  <2>6. Occurs(x, d.uses[usee]) <=> Occurs(x, d.uses[user])
    <3> HIDE DEF usee, user
    <3>1. Occurs(x, d.uses[usee]) <=> Occurs(x, g.uses[usee]) /\ x # u
      BY <1>2, <2>2, <2>4, <2>5
    <3>2. Occurs(x, d.uses[user]) <=> Occurs(x, g.uses[user]) /\ x # u
      BY <1>2, <2>2, <2>4, <2>5
    <3> QED
      BY <2>3, <3>1, <3>2
  <2> QED
    BY <1>2, <2>6
<1>7. InBothOrNone(d, gone)
  BY <1>6 DEF InBothOrNone
<1> QED
  BY <1>2, <1>4, <1>5, <1>7 DEF Sound, d

(* The edge of a deleted Use object is gone from the lists that exist.     *)
LEMMA DropFacts ==
  ASSUME NEW g, NEW gone, Sound(g, gone), NEW u \in Uses, Allocated(g, u)
  PROVE  /\ Sound(Drop(g, u), gone)
         /\ ~Allocated(Drop(g, u), u)
         /\ \A x \in Uses \ {u} : Drop(g, u).edge[x] = g.edge[x]
         /\ \A w \in Values \ gone, x \in Uses : Occurs(x, Drop(g, u).uses[w]) => Occurs(x, g.uses[w])
<1> DEFINE d == Detach(g, u)
           r == [d EXCEPT !.edge[u] = Freed]
<1>1. g \in Graphs /\ ListsOwn(g, gone)
  BY DEF Sound
<1>2. d \in Graphs /\ NoSelfUse(d) /\ ListsOwn(d, gone) /\ InBothOrNone(d, gone)
  BY DetachSound DEF Sound
<1>3. /\ d.edge = g.edge
      /\ \A w \in Values : Distinct(g.uses[w]) =>
           \A x \in Uses : Occurs(x, d.uses[w]) <=> Occurs(x, g.uses[w]) /\ ~(x = u /\ w \in Ends(g, u))
  BY <1>1, DetachFacts
<1> HIDE DEF d
<1>4. /\ r \in Graphs /\ r.uses = d.uses
      /\ r.edge[u] = Freed
      /\ \A x \in Uses \ {u} : r.edge[x] = d.edge[x]
  BY <1>2 DEF Graphs
<1>5. Drop(g, u) = r
  BY DEF Drop, d
<1> HIDE DEF r
<1>6. ASSUME NEW w \in Values \ gone PROVE ~Occurs(u, d.uses[w])
  <2>1. Distinct(g.uses[w]) /\ (Occurs(u, g.uses[w]) => w \in Ends(g, u))
    BY <1>1 DEF ListsOwn
  <2> QED
    BY <1>3, <2>1
<1>7. ASSUME NEW x \in Uses, Allocated(r, x)
      PROVE  x # u /\ Allocated(d, x) /\ r.edge[x] = d.edge[x] /\ Ends(r, x) = Ends(d, x)
  BY <1>4, <1>7 DEF Allocated, Ends
<1>8. NoSelfUse(r)
  BY <1>2, <1>7 DEF NoSelfUse
<1>9. ListsOwn(r, gone)
  <2>1. ASSUME NEW w \in Values \ gone, NEW x \in Uses, Occurs(x, r.uses[w])
        PROVE  Allocated(r, x) /\ w \in Ends(r, x)
    <3>1. x # u /\ Occurs(x, d.uses[w])
      BY <1>4, <1>6, <2>1
    <3>2. Allocated(d, x) /\ w \in Ends(d, x)
      BY <1>2, <3>1 DEF ListsOwn
    <3> QED
      BY <1>4, <3>1, <3>2 DEF Allocated, Ends
  <2>2. ASSUME NEW w \in Values \ gone PROVE Distinct(r.uses[w])
    BY <1>2, <1>4 DEF ListsOwn
  <2> QED
    BY <2>1, <2>2 DEF ListsOwn
<1>10. InBothOrNone(r, gone)
  <2>1. ASSUME NEW x \in Uses, Allocated(r, x), Ends(r, x) \cap gone = {}
        PROVE  Occurs(x, r.uses[r.edge[x].usee]) <=> Occurs(x, r.uses[r.edge[x].user])
    <3>1. Allocated(d, x) /\ r.edge[x] = d.edge[x] /\ Ends(d, x) \cap gone = {}
      BY <1>7, <2>1
    <3>2. Occurs(x, d.uses[d.edge[x].usee]) <=> Occurs(x, d.uses[d.edge[x].user])
      BY <1>2, <3>1 DEF InBothOrNone
    <3> QED
      BY <1>4, <3>1, <3>2
  <2> QED
    BY <2>1 DEF InBothOrNone
<1>11. Sound(r, gone)
  BY <1>4, <1>8, <1>9, <1>10 DEF Sound
<1>12. ~Allocated(r, u) /\ \A x \in Uses \ {u} : r.edge[x] = g.edge[x]
  BY <1>3, <1>4 DEF Allocated
<1>13. \A w \in Values \ gone, x \in Uses : Occurs(x, r.uses[w]) => Occurs(x, g.uses[w])
  BY <1>1, <1>3, <1>4 DEF ListsOwn
<1> QED
  BY <1>5, <1>11, <1>12, <1>13

(* A new edge goes to the lists of both its ends.                          *)
LEMMA AddOperandSound ==
  ASSUME NEW g, NEW gone, Sound(g, gone),
         NEW i \in Instructions \ gone, NEW v \in Values \ gone, v # i,
         NEW u \in Uses, ~Allocated(g, u)
  PROVE  Sound(AddOperand(g, i, v, u), gone)
<1> DEFINE e == [usee |-> v, user |-> i]
           n == [g EXCEPT !.edge[u] = e]
           a == AddUse(n, i, u)
           r == AddUse(a, v, u)
<1>1. g \in Graphs /\ NoSelfUse(g) /\ ListsOwn(g, gone) /\ InBothOrNone(g, gone)
      /\ i \in Values /\ i \in Instructions /\ v \in Values
  BY DEF Sound, Values
<1>2. AddOperand(g, i, v, u) = r
  BY DEF AddOperand, NewUse
<1>3. e \in Edges /\ e # Freed
  BY <1>1, FreedAssumption DEF Edges
<1>4. n \in Graphs /\ n.uses = g.uses /\ n.edge[u] = e
      /\ \A x \in Uses \ {u} : n.edge[x] = g.edge[x]
  <2> HIDE DEF e
  <2> QED
    BY <1>1, <1>3 DEF Graphs
<1> HIDE DEF n
<1>5. a \in Graphs /\ a.edge = n.edge
  BY <1>1, <1>4, AddUseFacts
<1>6. r \in Graphs /\ r.edge = n.edge
  <2> HIDE DEF a
  <2> QED
    BY <1>1, <1>5, AddUseFacts
<1>7. ASSUME NEW w \in Values \ gone PROVE Distinct(g.uses[w]) /\ ~Occurs(u, g.uses[w])
  BY <1>1 DEF ListsOwn
<1>8. ASSUME NEW w \in Values \ gone
      PROVE  /\ Distinct(r.uses[w])
             /\ \A x \in Uses : Occurs(x, r.uses[w]) <=> Occurs(x, g.uses[w]) \/ (x = u /\ w \in {v, i})
  <2>1. /\ \A x : Occurs(x, a.uses[w]) <=> Occurs(x, g.uses[w]) \/ (x = u /\ w = i)
        /\ Distinct(a.uses[w])
    <3> DEFINE Goal == /\ \A x : Occurs(x, a.uses[w]) <=> Occurs(x, g.uses[w]) \/ (x = u /\ w = i)
                       /\ Distinct(a.uses[w])
    <3>1. /\ \A x : Occurs(x, a.uses[w]) <=> Occurs(x, n.uses[w]) \/ (x = u /\ w = i)
          /\ Distinct(n.uses[w]) /\ (w = i => ~Occurs(u, n.uses[w])) => Distinct(a.uses[w])
      BY <1>1, <1>4, AddUseOccurs
    <3> HIDE DEF a
    <3>2. Goal
      BY <1>4, <1>7, <3>1, Zenon
    <3> QED
      BY <3>2
  <2> HIDE DEF a
  <2>2. /\ \A x : Occurs(x, r.uses[w]) <=> Occurs(x, a.uses[w]) \/ (x = u /\ w = v)
        /\ Distinct(a.uses[w]) /\ (w = v => ~Occurs(u, a.uses[w])) => Distinct(r.uses[w])
    BY <1>1, <1>5, AddUseOccurs
  <2>3. w = v => ~Occurs(u, a.uses[w])
    BY <1>7, <2>1
  <2> HIDE DEF r
  <2> QED
    BY <2>1, <2>2, <2>3
<1> HIDE DEF r, a
<1>9. /\ Allocated(r, u) /\ r.edge[u] = e /\ Ends(r, u) = {v, i}
      /\ \A x \in Uses \ {u} : /\ r.edge[x] = g.edge[x] /\ Ends(r, x) = Ends(g, x)
                               /\ Allocated(r, x) <=> Allocated(g, x)
  BY <1>3, <1>4, <1>6 DEF Allocated, Ends
<1>10. NoSelfUse(r)
  BY <1>1, <1>9 DEF NoSelfUse
<1>11. ListsOwn(r, gone)
  <2>1. ASSUME NEW w \in Values \ gone, NEW x \in Uses, Occurs(x, r.uses[w])
        PROVE  Allocated(r, x) /\ w \in Ends(r, x)
    <3>1. CASE x = u
      BY <1>7, <1>8, <1>9, <2>1, <3>1
    <3>2. CASE x # u
      BY <1>1, <1>8, <1>9, <2>1, <3>2 DEF ListsOwn
    <3> QED
      BY <3>1, <3>2
  <2> QED
    BY <1>8, <2>1 DEF ListsOwn
<1>12. InBothOrNone(r, gone)
  <2>1. ASSUME NEW x \in Uses, Allocated(r, x), Ends(r, x) \cap gone = {}
        PROVE  Occurs(x, r.uses[r.edge[x].usee]) <=> Occurs(x, r.uses[r.edge[x].user])
    <3>1. CASE x = u
      BY <1>1, <1>8, <1>9, <3>1
    <3>2. CASE x # u
      <4>1. Allocated(g, x) /\ r.edge[x] = g.edge[x] /\ Ends(g, x) \cap gone = {}
        BY <1>9, <2>1, <3>2
      <4>2. g.edge[x].usee \in Values \ gone /\ g.edge[x].user \in Values \ gone
        BY <1>1, <4>1, EndsAreValues DEF Ends
      <4>3. Occurs(x, g.uses[g.edge[x].usee]) <=> Occurs(x, g.uses[g.edge[x].user])
        BY <1>1, <4>1 DEF InBothOrNone
      <4> QED
        BY <1>8, <3>2, <4>1, <4>2, <4>3
    <3> QED
      BY <3>1, <3>2
  <2> QED
    BY <2>1 DEF InBothOrNone
<1> QED
  BY <1>2, <1>6, <1>10, <1>11, <1>12 DEF Sound

(* The edge at a position of the list of i is allocated and ends at i.     *)
LEMMA OwnEdge ==
  ASSUME NEW g, NEW gone, Sound(g, gone), NEW i \in Values \ gone, NEW pos \in DOMAIN g.uses[i]
  PROVE  /\ g.uses[i][pos] \in Uses
         /\ Occurs(g.uses[i][pos], g.uses[i])
         /\ Allocated(g, g.uses[i][pos])
         /\ i \in Ends(g, g.uses[i][pos])
<1>1. g \in Graphs /\ ListsOwn(g, gone)
  BY DEF Sound
<1>2. g.uses[i] \in Seq(Uses)
  BY <1>1, ListType
<1>3. g.uses[i][pos] \in Uses
  BY <1>2
<1>4. Occurs(g.uses[i][pos], g.uses[i])
  BY DEF Occurs
<1> QED
  BY <1>1, <1>3, <1>4 DEF ListsOwn

(* Variables are not instructions, so they are never deleted.              *)
LEMMA VariableIsNoInstruction ==
  ASSUME NEW v \in Variables
  PROVE  v \in Values /\ v \notin Instructions
BY VariablesAssumption, NumInstAssumption DEF Values, Instructions

(* An operand replaced by a variable: the edge moves from the list of the  *)
(* value used before to the list of the variable.                          *)
LEMMA SetOperandSound ==
  ASSUME NEW g, NEW gone \in SUBSET Instructions, Sound(g, gone),
         NEW i \in Instructions \ gone, NEW pos \in DOMAIN g.uses[i], NEW v \in Variables
  PROVE  Sound(SetOperand(g, i, pos, v), gone)
<1> DEFINE u    == g.uses[i][pos]
           usee == g.edge[u].usee
           user == g.edge[u].user
           h    == RemoveUse(g, usee, u)
           n    == [h EXCEPT !.edge[u].usee = v]
           r    == AddUse(n, v, u)
<1>1. g \in Graphs /\ NoSelfUse(g) /\ ListsOwn(g, gone) /\ InBothOrNone(g, gone)
      /\ i \in Values /\ v \in Values \ gone /\ v \notin Instructions
  BY VariableIsNoInstruction DEF Sound, Values
<1>2. u \in Uses /\ Occurs(u, g.uses[i]) /\ Allocated(g, u) /\ i \in Ends(g, u)
  BY <1>1, OwnEdge
<1>3. g.edge[u] \in Edges /\ usee \in Values /\ user \in Values /\ user \in Instructions
      /\ Ends(g, u) = {usee, user} /\ usee # user
  <2>1. g.edge[u] \in Edges /\ usee \in Values /\ user \in Values /\ user \in Instructions
    BY <1>1, <1>2, EndsAreValues
  <2>2. usee # user
    BY <1>1, <1>2 DEF NoSelfUse
  <2>3. Ends(g, u) = {usee, user}
    BY DEF Ends
  <2> QED
    BY <2>1, <2>2, <2>3
<1>4. SetOperand(g, i, pos, v) = r
  BY DEF SetOperand, SetUsee
<1> HIDE DEF u
<1>5. h \in Graphs /\ h.edge = g.edge
  BY <1>1, <1>2, <1>3, RemoveUseFacts
<1>6. n \in Graphs /\ n.uses = h.uses /\ n.edge[u] = [usee |-> v, user |-> user]
      /\ \A x \in Uses \ {u} : n.edge[x] = g.edge[x]
  <2>1. [g.edge[u] EXCEPT !.usee = v] = [usee |-> v, user |-> user]
    BY <1>3 DEF Edges
  <2>2. [usee |-> v, user |-> user] \in Edges
    BY <1>1, <1>3 DEF Edges
  <2> DEFINE new == [usee |-> v, user |-> user]
  <2>3. n = [h EXCEPT !.edge[u] = new]
    <3>1. n = [h EXCEPT !.edge[u] = [@ EXCEPT !.usee = v]]
      BY DEF n
    <3> QED
      BY <1>5, <2>1, <3>1
  <2> HIDE DEF n, h, new
  <2>4. new \in Edges
    BY <2>2 DEF new
  <2>5. n \in Graphs /\ n.uses = h.uses /\ n.edge[u] = new
        /\ \A x \in Uses \ {u} : n.edge[x] = g.edge[x]
    BY <1>2, <1>5, <2>3, <2>4 DEF Graphs
  <2> QED
    BY <2>5 DEF new
<1> HIDE DEF n
<1>7. r \in Graphs /\ r.edge = n.edge
  BY <1>1, <1>2, <1>6, AddUseFacts
<1>8. ASSUME NEW w \in Values \ gone
      PROVE  /\ Distinct(r.uses[w])
             /\ \A x \in Uses : Occurs(x, r.uses[w])
                  <=> (Occurs(x, g.uses[w]) /\ ~(x = u /\ w = usee)) \/ (x = u /\ w = v)
  <2>1. Distinct(g.uses[w]) /\ (Occurs(u, g.uses[w]) => w \in {usee, user})
    BY <1>1, <1>2, <1>3 DEF ListsOwn
  <2>2. /\ \A x \in Uses : Occurs(x, h.uses[w]) <=> Occurs(x, g.uses[w]) /\ ~(x = u /\ w = usee)
        /\ Distinct(h.uses[w])
    BY <1>1, <1>2, <1>3, <2>1, RemoveUseOccurs
  <2> HIDE DEF h
  <2>3. w = v => ~Occurs(u, n.uses[w])
    BY <1>1, <1>2, <1>3, <1>6, <2>1, <2>2
  <2>4. /\ \A x : Occurs(x, r.uses[w]) <=> Occurs(x, n.uses[w]) \/ (x = u /\ w = v)
        /\ Distinct(n.uses[w]) /\ (w = v => ~Occurs(u, n.uses[w])) => Distinct(r.uses[w])
    BY <1>1, <1>2, <1>6, AddUseOccurs
  <2> HIDE DEF r, usee
  <2> QED
    BY <1>6, <2>2, <2>3, <2>4
<1> HIDE DEF r, h
<1>9. /\ Allocated(r, u) /\ r.edge[u] = [usee |-> v, user |-> user] /\ Ends(r, u) = {v, user}
      /\ \A x \in Uses \ {u} : /\ r.edge[x] = g.edge[x] /\ Ends(r, x) = Ends(g, x)
                               /\ Allocated(r, x) <=> Allocated(g, x)
  <2>1. [usee |-> v, user |-> user] # Freed
    BY <1>1, <1>3, FreedAssumption DEF Edges
  <2> QED
    BY <1>2, <1>6, <1>7, <2>1 DEF Allocated, Ends
<1>10. NoSelfUse(r)
  BY <1>1, <1>3, <1>9 DEF NoSelfUse
<1>11. ListsOwn(r, gone)
  <2>1. ASSUME NEW w \in Values \ gone, NEW x \in Uses, Occurs(x, r.uses[w])
        PROVE  Allocated(r, x) /\ w \in Ends(r, x)
    <3>1. CASE x = u
      <4>1. Occurs(u, g.uses[w]) => w \in {usee, user}
        BY <1>1, <1>2, <1>3 DEF ListsOwn
      <4>2. w = v \/ (Occurs(u, g.uses[w]) /\ w # usee)
        BY <1>8, <2>1, <3>1
      <4> QED
        BY <1>9, <3>1, <4>1, <4>2
    <3>2. CASE x # u
      BY <1>1, <1>8, <1>9, <2>1, <3>2 DEF ListsOwn
    <3> QED
      BY <3>1, <3>2
  <2> QED
    BY <1>8, <2>1 DEF ListsOwn
<1>12. InBothOrNone(r, gone)
  <2>1. ASSUME NEW x \in Uses, Allocated(r, x), Ends(r, x) \cap gone = {}
        PROVE  Occurs(x, r.uses[r.edge[x].usee]) <=> Occurs(x, r.uses[r.edge[x].user])
    <3>1. CASE x = u
      <4>1. user \in Values \ gone
        BY <1>3, <1>9, <2>1, <3>1
      <4>2. Occurs(u, g.uses[user])
        <5>1. CASE i = user
          BY <1>2, <5>1
        <5>2. CASE i = usee
          <6>1. Ends(g, u) \cap gone = {}
            BY <1>3, <4>1, <5>2
          <6> QED
            BY <1>1, <1>2, <5>2, <6>1 DEF InBothOrNone
        <5> QED
          BY <1>2, <1>3, <5>1, <5>2
      <4>3. Occurs(u, r.uses[user])
        BY <1>2, <1>3, <1>8, <4>1, <4>2
      <4>4. Occurs(u, r.uses[v])
        BY <1>1, <1>2, <1>8
      <4>5. r.edge[x].usee = v /\ r.edge[x].user = user
        BY <1>9, <3>1
      <4> QED
        BY <3>1, <4>3, <4>4, <4>5
    <3>2. CASE x # u
      <4>1. Allocated(g, x) /\ r.edge[x] = g.edge[x] /\ Ends(g, x) \cap gone = {}
        BY <1>9, <2>1, <3>2
      <4>2. g.edge[x].usee \in Values \ gone /\ g.edge[x].user \in Values \ gone
        BY <1>1, <4>1, EndsAreValues DEF Ends
      <4>3. Occurs(x, g.uses[g.edge[x].usee]) <=> Occurs(x, g.uses[g.edge[x].user])
        BY <1>1, <4>1 DEF InBothOrNone
      <4> QED
        BY <1>8, <3>2, <4>1, <4>2, <4>3
    <3> QED
      BY <3>1, <3>2
  <2> QED
    BY <2>1 DEF InBothOrNone
<1> QED
  BY <1>4, <1>7, <1>10, <1>11, <1>12 DEF Sound

-----------------------------------------------------------------------------
(* No edge is allocated in a new graph, and every list is empty.           *)
LEMMA InitIndInv ==
  ASSUME Init
  PROVE  IndInv
<1>1. graph.uses = [v \in Values |-> << >>] /\ graph.edge = [u \in Uses |-> Freed]
  BY DEF Init, NewGraph
<1>2. graph \in Graphs
  <2>1. graph = [uses |-> [v \in Values |-> << >>], edge |-> [u \in Uses |-> Freed]]
    BY DEF Init, NewGraph
  <2>2. << >> \in Seq(Uses)
    OBVIOUS
  <2>3. [v \in Values |-> << >>] \in [Values -> Seq(Uses)]
    BY <2>2
  <2>4. [u \in Uses |-> Freed] \in [Uses -> Edges \cup {Freed}]
    OBVIOUS
  <2> QED
    BY <2>1, <2>3, <2>4 DEF Graphs
<1>3. \A u \in Uses : ~Allocated(graph, u)
  BY <1>1 DEF Allocated
<1>4. ASSUME NEW v \in Values
      PROVE  Distinct(graph.uses[v]) /\ \A u : ~Occurs(u, graph.uses[v])
  <2>1. graph.uses[v] = << >>
    BY <1>1
  <2> QED
    BY <2>1 DEF Distinct, Occurs
<1>5. Sound(graph, dropped)
  BY <1>2, <1>3, <1>4 DEF Sound, NoSelfUse, ListsOwn, InBothOrNone
<1>6. walk \in Seq(Instructions \ dropped)
  BY DEF Init
<1> QED
  BY <1>5, <1>6 DEF Init, IndInv

(* A call between two walks that changes the graph only.                   *)
LEMMA GraphStep ==
  ASSUME IndInv, Idle, Sound(graph', dropped), fault' \in BOOLEAN,
         UNCHANGED << dropped, walk, ending >>
  PROVE  IndInv'
BY DEF IndInv, Idle

(* addOperand.                                                             *)
LEMMA AddOperandStep ==
  ASSUME IndInv, NEW i \in Instructions, NEW v \in Values, NEW u \in Uses, CallAddOperand(i, v, u)
  PROVE  IndInv'
<1>1. /\ i \in Instructions \ dropped /\ v \in Values \ dropped /\ ~Allocated(graph, u)
      /\ Sound(graph, dropped)
  BY DEF CallAddOperand, Free, Allocated, IndInv
<1>2. v # i
  BY VariableIsNoInstruction, NumInstAssumption DEF CallAddOperand, Values, Instructions
<1>3. Sound(graph', dropped)
  BY <1>1, <1>2, AddOperandSound DEF CallAddOperand
<1> QED
  BY <1>3, GraphStep DEF CallAddOperand, IndInv

(* setOperand.                                                             *)
LEMMA SetOperandStep ==
  ASSUME IndInv, NEW i \in Instructions, NEW pos \in DOMAIN graph.uses[i], NEW v \in Variables,
         CallSetOperand(i, pos, v)
  PROVE  IndInv'
<1>1. i \in Instructions \ dropped /\ Sound(graph, dropped) /\ dropped \in SUBSET Instructions
  BY DEF CallSetOperand, IndInv
<1>2. Sound(graph', dropped)
  BY <1>1, SetOperandSound DEF CallSetOperand
<1> QED
  BY <1>2, GraphStep DEF CallSetOperand

(* removeOperand, by its position.                                         *)
LEMMA RemoveOperandAtStep ==
  ASSUME IndInv, NEW i \in Instructions, NEW pos \in DOMAIN graph.uses[i], RemoveOperandAt(i, pos)
  PROVE  IndInv'
<1>1. i \in Values \ dropped /\ Sound(graph, dropped)
  BY DEF RemoveOperandAt, IndInv, Values
<1>2. graph.uses[i][pos] \in Uses /\ Allocated(graph, graph.uses[i][pos])
  BY <1>1, OwnEdge
<1>3. Sound(graph', dropped)
  BY <1>1, <1>2, DropFacts DEF RemoveOperandAt
<1> QED
  BY <1>3, GraphStep DEF RemoveOperandAt, Faults

(* removeOperand, by the value: the edge removed is at some position.      *)
LEMMA RemoveOperandStep ==
  ASSUME IndInv, NEW i \in Instructions, NEW v \in Values, RemoveOperand(i, v)
  PROVE  IndInv'
<1> DEFINE pos == CHOOSE k \in Using(graph, i, v) : \A j \in Using(graph, i, v) : k <= j
<1>1. RemoveOperandAt(i, pos)
  BY DEF RemoveOperand
<1> HIDE DEF pos
<1>2. pos \in DOMAIN graph.uses[i]
  BY <1>1 DEF RemoveOperandAt
<1> QED
  BY <1>1, <1>2, RemoveOperandAtStep

(* removeUse.                                                              *)
LEMMA RemoveUseStep ==
  ASSUME IndInv, NEW i \in Instructions, NEW pos \in DOMAIN graph.uses[i], CallRemoveUse(i, pos)
  PROVE  IndInv'
<1>1. i \in Values \ dropped /\ Sound(graph, dropped)
  BY DEF CallRemoveUse, IndInv, Values
<1>2. graph.uses[i][pos] \in Uses /\ Allocated(graph, graph.uses[i][pos])
  BY <1>1, OwnEdge
<1>3. Sound(graph', dropped)
  BY <1>1, <1>2, DetachSound DEF CallRemoveUse
<1> QED
  BY <1>3, GraphStep DEF CallRemoveUse, Faults

(* Clearing starts with an instruction that exists.                        *)
LEMMA ClearOperandsStep ==
  ASSUME IndInv, NEW i \in Instructions, ClearOperands(i)
  PROVE  IndInv'
<1>1. i \in Instructions \ dropped
  BY DEF ClearOperands
<1>2. << i >> \in Seq(Instructions \ dropped)
  BY <1>1
<1> QED
  BY <1>2 DEF ClearOperands, IndInv, Idle

(* With an instruction more deleted, less is required of the lists.        *)
LEMMA DeleteInstructionStep ==
  ASSUME IndInv, NEW i \in Instructions, DeleteInstruction(i)
  PROVE  IndInv'
<1>1. dropped' = dropped \cup {i} /\ graph' = graph /\ walk' = << >>
      /\ ending' = FALSE /\ fault' = fault
  BY DEF DeleteInstruction, Idle, IndInv
<1>2. Sound(graph, dropped)
  BY DEF IndInv
<1>3. Sound(graph, dropped \cup {i})
  BY <1>2 DEF Sound, ListsOwn, InBothOrNone
<1>4. << >> \in Seq(Instructions \ dropped')
  OBVIOUS
<1> QED
  BY <1>1, <1>3, <1>4 DEF IndInv

(* InterCode::Delete walks over every instruction that was not deleted.    *)
LEMMA DeleteCodeStep ==
  ASSUME IndInv, NEW code \in Codes, DeleteCode(code)
  PROVE  IndInv'
<1> DEFINE kept == Instructions \ dropped
           n    == Cardinality(kept)
<1>1. /\ walk' = code /\ ending' = TRUE
      /\ graph' = graph /\ dropped' = dropped /\ fault' = fault
  BY DEF DeleteCode
<1>2. /\ code \in [1..n -> kept]
      /\ \A i \in kept : \E k \in 1..n : code[k] = i
  BY DEF Codes, Bijection, Injection, Surjection
<1>3. n \in Nat
  <2>1. IsFiniteSet(Instructions)
    BY NumInstAssumption, FS_Interval DEF Instructions
  <2>2. IsFiniteSet(kept)
    BY <2>1, FS_Subset
  <2> QED
    BY <2>2, FS_CardinalityType
<1>4. code \in Seq(kept)
  <2> HIDE DEF kept, n
  <2> QED
    BY <1>2, <1>3
<1>5. StillToClear(graph, dropped, code)
  <2>1. ASSUME NEW u \in Uses, Allocated(graph, u), Ends(graph, u) \cap dropped = {}
        PROVE  Occurs(graph.edge[u].user, code)
    <3>1. graph.edge[u].user \in kept
      BY <2>1, EndsAreValues DEF IndInv, Sound, Ends
    <3> QED
      BY <1>2, <3>1 DEF Occurs
  <2> QED
    BY <2>1 DEF StillToClear
<1> HIDE DEF kept, n
<1> QED
  BY <1>1, <1>4, <1>5 DEF IndInv, kept

(* A turn of the loop frees an allocated edge, or goes on with the next    *)
(* instruction when the list of this one is empty.                         *)
LEMMA ClearStepStep ==
  ASSUME IndInv, ClearStep
  PROVE  IndInv'
<1> DEFINE i   == Head(walk)
           own == graph.uses[i]
<1>1. /\ Sound(graph, dropped) /\ walk \in Seq(Instructions \ dropped) /\ walk # << >>
      /\ ending' = ending /\ dropped' = dropped
  BY DEF IndInv, ClearStep
<1>2. i \in Instructions \ dropped /\ i \in Values \ dropped
  BY <1>1 DEF Values
<1>3. own \in Seq(Uses)
  BY <1>1, <1>2, ListType DEF Sound
<1>4. CASE own = << >>
  <2>1. walk' = Tail(walk) /\ graph' = graph /\ fault' = fault
    BY <1>4 DEF ClearStep
  <2>2. Tail(walk) \in Seq(Instructions \ dropped)
    BY <1>1
  <2>3. ASSUME NEW k \in DOMAIN walk, walk[k] # i PROVE Occurs(walk[k], Tail(walk))
    <3>1. k # 1 /\ k \in 1..Len(walk) /\ Len(walk) \in Nat
      BY <1>1, <2>3
    <3>2. k - 1 \in DOMAIN Tail(walk) /\ Tail(walk)[k - 1] = walk[k]
      BY <1>1, <3>1
    <3> QED
      BY <3>2 DEF Occurs
  <2>4. ASSUME ending, NEW u \in Uses, Allocated(graph, u), Ends(graph, u) \cap dropped = {},
               Occurs(u, graph.uses[graph.edge[u].user])
        PROVE  Occurs(graph.edge[u].user, Tail(walk))
    <3>1. Occurs(graph.edge[u].user, walk)
      BY <2>4 DEF IndInv, StillToClear
    <3>2. graph.edge[u].user # i
      BY <1>4, <2>4 DEF Occurs
    <3> HIDE DEF i
    <3> QED
      BY <2>3, <3>1, <3>2 DEF Occurs
  <2>5. ending => StillToClear(graph, dropped, Tail(walk))
    BY <2>4 DEF StillToClear
  <2> QED
    BY <1>1, <2>1, <2>2, <2>5 DEF IndInv
<1>5. CASE own # << >>
  <2> DEFINE u == own[1]
  <2>1. graph' = Drop(graph, u) /\ fault' \in BOOLEAN /\ walk' = walk
    BY <1>5 DEF ClearStep, Faults
  <2>2. 1 \in DOMAIN own
    BY <1>3, <1>5
  <2>3. u \in Uses /\ Allocated(graph, u)
    BY <1>1, <1>2, <2>2, OwnEdge
  <2> HIDE DEF u, own, i
  <2>4. /\ Sound(graph', dropped)
        /\ ~Allocated(graph', u)
        /\ \A x \in Uses \ {u} : graph'.edge[x] = graph.edge[x]
        /\ \A w \in Values \ dropped, x \in Uses : Occurs(x, graph'.uses[w]) => Occurs(x, graph.uses[w])
    BY <1>1, <2>1, <2>3, DropFacts
  <2>5. ASSUME ending, NEW x \in Uses, Allocated(graph', x), Ends(graph', x) \cap dropped = {},
               Occurs(x, graph'.uses[graph'.edge[x].user])
        PROVE  Occurs(graph'.edge[x].user, walk)
    <3>1. graph'.edge[x] = graph.edge[x]
      BY <2>4, <2>5
    <3>2. Allocated(graph, x) /\ Ends(graph, x) \cap dropped = {}
      BY <2>5, <3>1 DEF Allocated, Ends
    <3>3. graph.edge[x].user \in Values \ dropped
      BY <1>1, <3>2, EndsAreValues DEF Sound, Ends
    <3>4. Occurs(x, graph.uses[graph.edge[x].user])
      BY <2>4, <2>5, <3>1, <3>3
    <3> QED
      BY <2>5, <3>1, <3>2, <3>4 DEF IndInv, StillToClear
  <2>6. ending => StillToClear(graph', dropped, walk)
    BY <2>5 DEF StillToClear
  <2> QED
    BY <1>1, <2>1, <2>4, <2>6 DEF IndInv
<1> QED
  BY <1>4, <1>5

(* Every reachable graph satisfies the inductive invariant.                *)
LEMMA IndInvHolds == Spec => []IndInv
<1>1. Init => IndInv
  BY InitIndInv
<1>2. IndInv /\ [Next]_vars => IndInv'
  <2> SUFFICES ASSUME IndInv, [Next]_vars
               PROVE  IndInv'
    OBVIOUS
  <2>1. ASSUME NEW i \in Instructions, NEW v \in Values, NEW u \in Uses, CallAddOperand(i, v, u)
        PROVE  IndInv'
    BY <2>1, AddOperandStep
  <2>2. ASSUME NEW i \in Instructions, NEW pos \in DOMAIN graph.uses[i],
               \/ \E v \in Variables : CallSetOperand(i, pos, v)
               \/ RemoveOperandAt(i, pos)
               \/ CallRemoveUse(i, pos)
        PROVE  IndInv'
    BY <2>2, SetOperandStep, RemoveOperandAtStep, RemoveUseStep
  <2>3. ASSUME NEW i \in Instructions, NEW v \in Values, RemoveOperand(i, v) PROVE IndInv'
    BY <2>3, RemoveOperandStep
  <2>4. ASSUME NEW i \in Instructions, ClearOperands(i) \/ DeleteInstruction(i) PROVE IndInv'
    BY <2>4, ClearOperandsStep, DeleteInstructionStep
  <2>5. ASSUME NEW code \in Codes, DeleteCode(code) PROVE IndInv'
    BY <2>5, DeleteCodeStep
  <2>6. CASE ClearStep
    BY <2>6, ClearStepStep
  <2>7. CASE UNCHANGED vars
    BY <2>7 DEF vars, IndInv
  <2> QED
    BY <2>1, <2>2, <2>3, <2>4, <2>5, <2>6, <2>7 DEF Next
<1> QED
  BY <1>1, <1>2, PTL DEF Spec

(* Whatever is added, replaced, removed, cleared and deleted, in any       *)
(* order, the two ends of an edge agree on it.                             *)
THEOREM UseListsAgree == Spec => []EdgesMirrored
<1>1. IndInv => EdgesMirrored
  BY IndInvMirrored
<1> QED
  BY <1>1, IndInvHolds, PTL

(* When the code has been deleted, no edge is left that deleting it was to *)
(* free.                                                                   *)
THEOREM DeletingFreesEdges == Spec => []NothingLeaked
<1>1. IndInv => NothingLeaked
  BY IndInvNotLeaked
<1> QED
  BY <1>1, IndInvHolds, PTL
=============================================================================
