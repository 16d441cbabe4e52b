----------------------------- MODULE FoldLemmas -----------------------------
(***************************************************************************)
(* Folds over a sequence, for any operation and any property of what has   *)
(* been accumulated.  A module that folds instances this one with its own  *)
(* operation, and gives the lemmas that ask for it the well-ordering of    *)
(* the naturals (LeastElement of SequenceLemmas).                          *)
(***************************************************************************)
EXTENDS Integers

CONSTANTS
  Op(_, _),   \* the operation: what was accumulated, and the next element
  P(_, _)     \* a property of what was accumulated after so many elements

Greatest(s) == CHOOSE x \in s : \A y \in s : x >= y

(* FoldLeft computes by recursion on sets of positions.                    *)
Recursion(g, base, seq, m) ==
  g = [s \in SUBSET (1..m) |-> IF s = {} THEN base ELSE Op(g[s \ {Greatest(s)}], seq[Greatest(s)])]

Fold(base, seq) ==
  CHOOSE g : g = [s \in SUBSET DOMAIN seq |->
                    IF s = {} THEN base ELSE Op(g[s \ {Greatest(s)}], seq[Greatest(s)])]

(* The position that a set of positions ends with.                         *)
LEMMA GreatestIs ==
  ASSUME NEW m \in Nat, NEW s \in SUBSET (1..m), m \in s
  PROVE  Greatest(s) = m
<1>1. \A y \in s : y \in Int /\ m >= y
  OBVIOUS
<1>2. \A x \in s : (\A y \in s : x >= y) => x = m
  BY <1>1
<1> QED
  BY <1>1, <1>2 DEF Greatest

(* There is a function that satisfies the recursion, for positions up to   *)
(* any m: it is extended by the sets with the next position.               *)
LEMMA RecursionStep ==
  ASSUME NEW base, NEW seq, NEW m \in Nat, NEW g, Recursion(g, base, seq, m)
  PROVE  \E h : Recursion(h, base, seq, m + 1)
<1> DEFINE S == SUBSET (1..m)
           T == SUBSET (1..m + 1)
           h == [s \in T |-> IF m + 1 \in s THEN Op(g[s \ {m + 1}], seq[m + 1]) ELSE g[s]]
           E(f, s) == IF s = {} THEN base ELSE Op(f[s \ {Greatest(s)}], seq[Greatest(s)])
<1>1. /\ \A s \in T : m + 1 \in s => s \ {m + 1} \in S /\ s \ {m + 1} \in T /\ m + 1 \notin s \ {m + 1} /\ s # {}
      /\ \A s \in T : m + 1 \notin s => s \in S
  OBVIOUS
<1>2. \A s \in S : s \in T /\ m + 1 \notin s /\ g[s] = E(g, s)
  <2>1. \A s \in S : s \in T /\ m + 1 \notin s
    OBVIOUS
  <2>2. g = [s \in S |-> E(g, s)]
    BY DEF Recursion
  <2> HIDE DEF E, S
  <2>3. \A s \in S : g[s] = E(g, s)
    BY <2>2
  <2> QED
    BY <2>1, <2>3
<1>3. \A s \in S : h[s] = g[s]
  BY <1>2
<1>4. ASSUME NEW s \in T PROVE h[s] = E(h, s)
  <2>1. CASE m + 1 \in s
    <3>1. Greatest(s) = m + 1
      BY <2>1, GreatestIs
    <3>2. h[s] = Op(g[s \ {m + 1}], seq[m + 1])
      BY <2>1
    <3>3. h[s \ {m + 1}] = g[s \ {m + 1}] /\ s # {}
      BY <1>1, <1>3, <2>1
    <3> HIDE DEF h
    <3> QED
      BY <3>1, <3>2, <3>3
  <2>2. CASE m + 1 \notin s
    <3>1. s \in S /\ h[s] = g[s] /\ g[s] = E(g, s)
      BY <1>1, <1>2, <1>3, <2>2
    <3>2. CASE s = {}
      BY <3>1, <3>2
    <3>3. CASE s # {}
      <4>1. s \ {Greatest(s)} \in S
        BY <3>1
      <4>2. h[s \ {Greatest(s)}] = g[s \ {Greatest(s)}]
        BY <1>3, <4>1
      <4> HIDE DEF h
      <4> QED
        BY <3>1, <3>3, <4>2
    <3> QED
      BY <3>2, <3>3
  <2> QED
    BY <2>1, <2>2
<1>5. h = [s \in T |-> h[s]]
  OBVIOUS
<1> HIDE DEF h
<1>6. h = [s \in T |-> E(h, s)]
  BY <1>4, <1>5
<1> QED
  BY <1>6 DEF Recursion

(* So there is one for every m.                                            *)
LEMMA RecursionExists ==
  ASSUME NEW base, NEW seq, NEW n \in Nat,
         \A S \in SUBSET Nat : S # {} => \E x \in S : \A y \in S : x <= y
  PROVE  \E g : Recursion(g, base, seq, n)
<1> DEFINE Bad == {m \in Nat : ~\E g : Recursion(g, base, seq, m)}
<1>1. 0 \notin Bad
  <2>1. SUBSET (1..0) = {{}}
    OBVIOUS
  <2> DEFINE g == [s \in {{}} |-> base]
  <2>2. g = [s \in SUBSET (1..0) |-> IF s = {} THEN base ELSE Op(g[s \ {Greatest(s)}], seq[Greatest(s)])]
    BY <2>1
  <2> QED
    BY <2>2 DEF Recursion
<1>2. ASSUME NEW m \in Bad PROVE m # 0 /\ m - 1 \in Bad
  <2>1. m \in Nat /\ m # 0 /\ m - 1 \in Nat /\ (m - 1) + 1 = m
    BY <1>1
  <2> HIDE DEF Bad
  <2>2. ASSUME m - 1 \notin Bad PROVE FALSE
    <3>1. \E g : Recursion(g, base, seq, m - 1)
      BY <2>1, <2>2 DEF Bad
    <3>2. \E g : Recursion(g, base, seq, (m - 1) + 1)
      BY <2>1, <3>1, RecursionStep
    <3> QED
      BY <2>1, <3>2 DEF Bad
  <2> QED
    BY <2>1, <2>2
<1>3. Bad = {}
  <2>1. Bad \in SUBSET Nat
    OBVIOUS
  <2> HIDE DEF Bad
  <2>2. ASSUME Bad # {} PROVE FALSE
    <3>1. PICK m \in Bad : \A k \in Bad : m <= k
      BY <2>1, <2>2
    <3>2. m \in Nat /\ m - 1 \in Bad /\ m <= m - 1
      BY <1>2, <2>1, <3>1
    <3> QED
      BY <3>2
  <2> QED
    BY <2>2
<1> QED
  BY <1>3

(* What holds of the start, and what each turn preserves, holds of the     *)
(* result.                                                                 *)
THEOREM FoldInvariant ==
  ASSUME NEW base, NEW seq, NEW n \in Nat, DOMAIN seq = 1..n, P(0, base),
         \A S \in SUBSET Nat : S # {} => \E x \in S : \A y \in S : x <= y,
         \A t : \A k \in 1..n : P(k - 1, t) => P(k, Op(t, seq[k]))
  PROVE  P(n, Fold(base, seq)[1..n])
<1> DEFINE g == Fold(base, seq)
<1>1. Recursion(g, base, seq, n)
  <2>1. \E h : Recursion(h, base, seq, n)
    BY RecursionExists
  <2>2. Recursion(CHOOSE h : Recursion(h, base, seq, n), base, seq, n)
    BY <2>1
  <2>3. g = CHOOSE h : Recursion(h, base, seq, n)
    BY DEF Recursion, Fold
  <2> QED
    BY <2>2, <2>3
<1> HIDE DEF g
<1>2. g[1..0] = base
  <2>1. 1..0 = {} /\ {} \in SUBSET (1..n)
    OBVIOUS
  <2> QED
    BY <1>1, <2>1 DEF Recursion
<1>3. ASSUME NEW k \in 1..n PROVE g[1..k] = Op(g[1..k - 1], seq[k])
  <2>1. 1..k \in SUBSET (1..n) /\ 1..k # {} /\ k \in 1..k /\ k \in Nat /\ 1..k \in SUBSET (1..k)
    OBVIOUS
  <2>2. Greatest(1..k) = k
    BY <2>1, GreatestIs
  <2>3. (1..k) \ {k} = 1..k - 1
    BY <2>1
  <2> QED
    BY <1>1, <2>1, <2>2, <2>3 DEF Recursion
<1> DEFINE Bad == {k \in 0..n : ~P(k, g[1..k])}
<1>4. 0 \notin Bad
  BY <1>2
<1>5. ASSUME NEW k \in Bad PROVE k - 1 \in Bad
  <2>1. k \in 1..n /\ k - 1 \in 0..n /\ ~P(k, g[1..k])
    BY <1>4
  <2>2. ~P(k - 1, g[1..k - 1])
    BY <1>3, <2>1
  <2> QED
    BY <2>1, <2>2
<1>6. Bad = {}
  <2>1. Bad \in SUBSET Nat
    OBVIOUS
  <2> HIDE DEF Bad
  <2>2. ASSUME Bad # {} PROVE FALSE
    <3>1. PICK m \in Bad : \A k \in Bad : m <= k
      BY <2>1, <2>2
    <3>2. m \in Nat /\ m - 1 \in Bad /\ m <= m - 1
      BY <1>5, <2>1, <3>1
    <3> QED
      BY <3>2
  <2> QED
    BY <2>2
<1>7. P(n, g[1..n])
  BY <1>6
<1> QED
  BY <1>7 DEF g
=============================================================================
