--------------------------- MODULE SequenceLemmas ---------------------------
(***************************************************************************)
(* What the operators on sets and sequences that the models are built from *)
(* return, for the proofs to cite.                                         *)
(***************************************************************************)
EXTENDS Integers, Sequences, SequencesExt, SequenceTheorems, WellFoundedInduction, TLAPS

(* A nonempty set of numbers has a least element.                          *)
LEMMA LeastElement ==
  ASSUME NEW S \in SUBSET Nat, S # {}
  PROVE  \E x \in S : \A y \in S : x <= y
<1> DEFINE R == OpToRel(<, Nat)
<1>1. IsWellFoundedOn(R, Nat)
  BY NatLessThanWellFounded
<1>2. ASSUME NEW x \in Nat, NEW y \in Nat, x < y PROVE <<x, y>> \in R
  BY <1>2 DEF OpToRel
<1> HIDE DEF R
<1>3. PICK x \in S : \A y \in S : ~(<<y, x>> \in R)
  BY <1>1, WFMin
<1>4. ASSUME NEW y \in S PROVE x <= y
  <2>1. x \in Nat /\ y \in Nat
    OBVIOUS
  <2>2. ~(y < x)
    BY <2>1, <1>2, <1>3
  <2> QED
    BY <2>1, <2>2
<1> QED
  BY <1>4

(* Min is that element.                                                    *)
LEMMA MinIsMember ==
  ASSUME NEW S \in SUBSET Nat, S # {}
  PROVE  Min(S) \in S
BY LeastElement DEF Min

(* Erasing position k of a sequence keeps the others in their order.       *)
LEMMA Erase ==
  ASSUME NEW S, NEW s \in Seq(S), NEW k \in DOMAIN s
  PROVE  /\ RemoveAt(s, k) \in Seq(S)
         /\ Len(RemoveAt(s, k)) = Len(s) - 1
         /\ \A i \in 1..k - 1 : RemoveAt(s, k)[i] = s[i]
         /\ \A i \in k..Len(s) - 1 : RemoveAt(s, k)[i] = s[i + 1]
<1> DEFINE before == SubSeq(s, 1, k - 1)
           after  == SubSeq(s, k + 1, Len(s))
<1>1. k \in 1..Len(s) /\ Len(s) \in Nat
  OBVIOUS
<1>2. /\ before \in Seq(S) /\ Len(before) = k - 1
      /\ \A i \in 1..k - 1 : before[i] = s[i]
  BY <1>1
<1>3. /\ after \in Seq(S) /\ Len(after) = Len(s) - k
      /\ \A i \in 1..Len(s) - k : after[i] = s[k + i]
  BY <1>1
<1> HIDE DEF before, after
<1>4. /\ before \o after \in Seq(S)
      /\ Len(before \o after) = Len(s) - 1
  BY <1>1, <1>2, <1>3
<1>5. ASSUME NEW i \in 1..k - 1 PROVE (before \o after)[i] = s[i]
  BY <1>1, <1>2, <1>3
<1>6. ASSUME NEW i \in k..Len(s) - 1 PROVE (before \o after)[i] = s[i + 1]
  <2>1. i - (k - 1) \in 1..Len(s) - k /\ k + (i - (k - 1)) = i + 1
    BY <1>1
  <2>2. (before \o after)[i] = after[i - (k - 1)]
    BY <1>1, <1>2, <1>3, SMTT(40)
  <2>3. after[i - (k - 1)] = s[k + (i - (k - 1))]
    BY <1>3, <2>1
  <2> QED
    BY <2>1, <2>2, <2>3
<1>7. RemoveAt(s, k) = before \o after
  BY DEF RemoveAt, before, after
<1> QED
  BY <1>4, <1>5, <1>6, <1>7

(* Erasing a position of a sequence without repetitions removes its        *)
(* element and no other.                                                   *)
LEMMA EraseDistinct ==
  ASSUME NEW S, NEW s \in Seq(S), NEW k \in DOMAIN s,
         \A i, j \in DOMAIN s : s[i] = s[j] => i = j
  PROVE  /\ \A i, j \in DOMAIN RemoveAt(s, k) : RemoveAt(s, k)[i] = RemoveAt(s, k)[j] => i = j
         /\ \A e \in S : (\E i \in DOMAIN RemoveAt(s, k) : RemoveAt(s, k)[i] = e)
                           <=> (\E i \in DOMAIN s : s[i] = e) /\ e # s[k]
<1> DEFINE t == RemoveAt(s, k)
           old(i) == IF i < k THEN i ELSE i + 1
<1>1. /\ t \in Seq(S) /\ Len(t) = Len(s) - 1
      /\ \A i \in 1..k - 1 : t[i] = s[i]
      /\ \A i \in k..Len(s) - 1 : t[i] = s[i + 1]
  BY Erase
<1> HIDE DEF t
<1>2. k \in 1..Len(s) /\ Len(s) \in Nat /\ DOMAIN s = 1..Len(s) /\ DOMAIN t = 1..Len(s) - 1
  BY <1>1
<1>3. ASSUME NEW i \in DOMAIN t
      PROVE  old(i) \in DOMAIN s /\ old(i) # k /\ t[i] = s[old(i)]
  BY <1>1, <1>2
<1>4. ASSUME NEW i \in DOMAIN t, NEW j \in DOMAIN t, t[i] = t[j] PROVE i = j
  <2>1. old(i) = old(j)
    BY <1>3, <1>4
  <2> QED
    BY <1>2, <2>1
<1>5. ASSUME NEW i \in DOMAIN s, i # k PROVE \E j \in DOMAIN t : t[j] = s[i]
  <2>1. CASE i < k
    BY <1>1, <1>2, <2>1
  <2>2. CASE i > k
    <3>1. i - 1 \in k..Len(s) - 1 /\ i - 1 \in DOMAIN t /\ (i - 1) + 1 = i
      BY <1>2, <2>2
    <3> QED
      BY <1>1, <3>1
  <2> QED
    BY <1>2, <1>5, <2>1, <2>2
<1>6. ASSUME NEW e \in S
      PROVE  (\E i \in DOMAIN t : t[i] = e) <=> (\E i \in DOMAIN s : s[i] = e) /\ e # s[k]
  <2>1. ASSUME NEW i \in DOMAIN t, t[i] = e PROVE (\E j \in DOMAIN s : s[j] = e) /\ e # s[k]
    <3>1. old(i) \in DOMAIN s /\ old(i) # k /\ s[old(i)] = e
      BY <1>3, <2>1
    <3> HIDE DEF old
    <3> QED
      BY <3>1
  <2>2. ASSUME NEW i \in DOMAIN s, s[i] = e, e # s[k] PROVE \E j \in DOMAIN t : t[j] = e
    BY <1>5, <2>2
  <2> QED
    BY <2>1, <2>2
<1> QED
  BY <1>4, <1>6 DEF t

(* No element twice. *)
Distinct(s) == \A i, j \in DOMAIN s : s[i] = s[j] => i = j

Occurs(e, s) == \E k \in DOMAIN s : s[k] = e

(* Removing the first occurrence of an element from a sequence that has it *)
(* erases some position where it stands; otherwise nothing is removed.     *)
LEMMA RemoveFirstErases ==
  ASSUME NEW S, NEW s \in Seq(S), NEW e
  PROVE  \/ ~Occurs(e, s) /\ RemoveFirst(s, e) = s
         \/ \E k \in DOMAIN s : s[k] = e /\ RemoveFirst(s, e) = RemoveAt(s, k)
<1> DEFINE at == {i \in 1..Len(s) : s[i] = e}
<1>1. DOMAIN s = 1..Len(s) /\ Len(s) \in Nat
  OBVIOUS
<1>2. CASE at = {}
  BY <1>1, <1>2 DEF RemoveFirst, Occurs
<1>3. CASE at # {}
  <2>1. at \in SUBSET Nat
    BY <1>1
  <2>2. Min(at) \in at
    BY <1>3, <2>1, MinIsMember
  <2>3. SelectInSeq(s, LAMBDA v : v = e) = Min(at)
    BY <1>3 DEF SelectInSeq
  <2>4. RemoveFirst(s, e) = RemoveAt(s, Min(at))
    BY <1>3, <2>3 DEF RemoveFirst
  <2> QED
    BY <1>1, <2>2, <2>4
<1> QED
  BY <1>2, <1>3

(* From a sequence without repetitions it takes the element and no other.  *)
LEMMA RemoveFirstFacts ==
  ASSUME NEW S, NEW s \in Seq(S), NEW e
  PROVE  /\ RemoveFirst(s, e) \in Seq(S)
         /\ Distinct(s) => /\ Distinct(RemoveFirst(s, e))
                           /\ \A x \in S : Occurs(x, RemoveFirst(s, e)) <=> Occurs(x, s) /\ x # e
<1>1. CASE ~Occurs(e, s) /\ RemoveFirst(s, e) = s
  BY <1>1 DEF Occurs
<1>2. CASE \E k \in DOMAIN s : s[k] = e /\ RemoveFirst(s, e) = RemoveAt(s, k)
  <2>1. PICK k \in DOMAIN s : s[k] = e /\ RemoveFirst(s, e) = RemoveAt(s, k)
    BY <1>2
  <2>2. RemoveAt(s, k) \in Seq(S)
    BY Erase
  <2>3. ASSUME Distinct(s)
        PROVE  /\ Distinct(RemoveAt(s, k))
               /\ \A x \in S : Occurs(x, RemoveAt(s, k)) <=> Occurs(x, s) /\ x # s[k]
    BY <2>3, EraseDistinct DEF Distinct, Occurs
  <2> QED
    BY <2>1, <2>2, <2>3
<1> QED
  BY <1>1, <1>2, RemoveFirstErases

(* Appending adds the element and no other.                                *)
LEMMA AppendFacts ==
  ASSUME NEW S, NEW s \in Seq(S), NEW e \in S
  PROVE  /\ Append(s, e) \in Seq(S)
         /\ \A x : Occurs(x, Append(s, e)) <=> Occurs(x, s) \/ x = e
         /\ Distinct(s) /\ ~Occurs(e, s) => Distinct(Append(s, e))
<1> DEFINE t == Append(s, e)
<1>1. /\ t \in Seq(S) /\ DOMAIN s = 1..Len(s) /\ Len(s) \in Nat
      /\ DOMAIN t = DOMAIN s \cup {Len(s) + 1} /\ Len(s) + 1 \notin DOMAIN s
      /\ t[Len(s) + 1] = e
      /\ \A i \in DOMAIN s : t[i] = s[i]
  OBVIOUS
<1> HIDE DEF t
<1>2. ASSUME NEW x PROVE Occurs(x, t) <=> Occurs(x, s) \/ x = e
  BY <1>1 DEF Occurs
<1>3. ASSUME Distinct(s), ~Occurs(e, s) PROVE Distinct(t)
  BY <1>1, <1>3 DEF Distinct, Occurs
<1> QED
  BY <1>1, <1>2, <1>3 DEF t

-----------------------------------------------------------------------------
(* The sequences that FlattenSeq computes on its way: f[i] is the          *)
(* concatenation of the first i.                                           *)
Concatenates(f, ss, n) ==
  f = [i \in 1..n |-> IF i = 1 THEN ss[i] ELSE f[i - 1] \o ss[i]]

(* What it says of one of them.                                            *)
LEMMA ConcatenationAt ==
  ASSUME NEW f, NEW ss, NEW n, Concatenates(f, ss, n), NEW i \in 1..n
  PROVE  f[i] = IF i = 1 THEN ss[i] ELSE f[i - 1] \o ss[i]
BY DEF Concatenates

(* What it says of the last one.                                           *)
LEMMA ConcatenationLast ==
  ASSUME NEW tt, NEW n \in Nat, NEW g, Concatenates(g, tt, n + 1)
  PROVE  g[n + 1] = IF n = 0 THEN tt[n + 1] ELSE g[n] \o tt[n + 1]
<1> DEFINE m == n + 1
<1>1. m \in 1..m /\ m - 1 = n /\ (m = 1 <=> n = 0)
  OBVIOUS
<1>2. Concatenates(g, tt, m)
  OBVIOUS
<1> HIDE DEF m
<1>3. g[m] = IF m = 1 THEN tt[m] ELSE g[m - 1] \o tt[m]
  BY <1>1, <1>2, ConcatenationAt
<1>4. g[m] = IF n = 0 THEN tt[m] ELSE g[n] \o tt[m]
  BY <1>1, <1>3
<1> QED
  BY <1>4 DEF m

(* They exist, for every prefix of ss.                                     *)
LEMMA ConcatenationExists ==
  ASSUME NEW ss, NEW m \in Nat
  PROVE  \A n \in 1..m : \E f : Concatenates(f, ss, n)
<1> DEFINE Missing == {n \in 1..m : ~ \E f : Concatenates(f, ss, n)}
<1>1. SUFFICES ASSUME Missing # {} PROVE FALSE
  OBVIOUS
<1>2. PICK n \in Missing : \A k \in Missing : n <= k
  <2>1. Missing \in SUBSET Nat
    OBVIOUS
  <2> HIDE DEF Missing
  <2> QED
    BY <1>1, <2>1, LeastElement
<1>3. CASE n = 1
  <2> DEFINE g == [i \in 1..1 |-> ss[i]]
  <2>1. Concatenates(g, ss, 1)
    BY DEF Concatenates
  <2> QED
    BY <1>3, <2>1
<1>4. CASE n # 1
  <2>1. n - 1 \in 1..m /\ n - 1 \notin Missing
    BY <1>2, <1>4
  <2>2. PICK f : Concatenates(f, ss, n - 1)
    BY <2>1
  <2> DEFINE g == [i \in 1..n |-> IF i = n THEN f[n - 1] \o ss[n] ELSE f[i]]
  <2>3. ASSUME NEW i \in 1..n PROVE g[i] = IF i = 1 THEN ss[i] ELSE g[i - 1] \o ss[i]
    <3>1. CASE i = n
      <4>1. g[i] = f[n - 1] \o ss[n]
        BY <3>1
      <4>2. n - 1 \in 1..n /\ n - 1 # n
        BY <2>1
      <4>3. g[n - 1] = f[n - 1]
        BY <4>2
      <4> HIDE DEF g
      <4> QED
        BY <1>4, <3>1, <4>1, <4>3
    <3>2. CASE i # n
      <4>1. i \in 1..n - 1 /\ g[i] = f[i]
        BY <2>1, <3>2
      <4>2. f[i] = IF i = 1 THEN ss[i] ELSE f[i - 1] \o ss[i]
        <5> HIDE DEF g
        <5> QED
          BY <2>2, <4>1 DEF Concatenates
      <4>3. i # 1 => g[i - 1] = f[i - 1]
        BY <2>1, <4>1
      <4> HIDE DEF g
      <4> QED
        BY <4>1, <4>2, <4>3
    <3> QED
      BY <3>1, <3>2
  <2>4. g = [i \in 1..n |-> g[i]]
    OBVIOUS
  <2> HIDE DEF g
  <2>5. Concatenates(g, ss, n)
    BY <2>3, <2>4, Zenon DEF Concatenates
  <2> QED
    BY <2>5
<1> QED
  BY <1>3, <1>4

(* FlattenSeq unfolds into such a function.                                *)
LEMMA FlattenUnfolds ==
  ASSUME NEW ss, Len(ss) \in Nat, Len(ss) # 0
  PROVE  \E f : Concatenates(f, ss, Len(ss)) /\ FlattenSeq(ss) = f[Len(ss)]
<1> DEFINE f == CHOOSE g : Concatenates(g, ss, Len(ss))
<1>1. Concatenates(f, ss, Len(ss))
  <2>1. Len(ss) \in 1..Len(ss)
    OBVIOUS
  <2>2. \E g : Concatenates(g, ss, Len(ss))
    BY <2>1, ConcatenationExists
  <2> QED
    BY <2>2
<1>2. FlattenSeq(ss) = f[Len(ss)]
  BY DEF FlattenSeq, Concatenates
<1> HIDE DEF f
<1> QED
  BY <1>1, <1>2

(* The first n elements are the same.                                      *)
Agree(s, t, n) == \A i \in 1..n : s[i] = t[i]

(* Two of them agree where the sequences do.                               *)
LEMMA ConcatenationUnique ==
  ASSUME NEW ss, NEW tt, NEW n \in Nat, NEW m \in Nat, n <= m,
         Agree(ss, tt, n),
         NEW f, Concatenates(f, ss, n), NEW g, Concatenates(g, tt, m)
  PROVE  Agree(f, g, n)
<1> DEFINE Differ == {i \in 1..n : f[i] # g[i]}
<1>1. SUFFICES ASSUME Differ # {} PROVE FALSE
  BY DEF Agree
<1>2. PICK i \in Differ : \A k \in Differ : i <= k
  <2>1. Differ \in SUBSET Nat
    OBVIOUS
  <2> HIDE DEF Differ
  <2> QED
    BY <1>1, <2>1, LeastElement
<1>3. i \in 1..n /\ i \in 1..m
  BY <1>2
<1>4. /\ f[i] = IF i = 1 THEN ss[i] ELSE f[i - 1] \o ss[i]
      /\ g[i] = IF i = 1 THEN tt[i] ELSE g[i - 1] \o tt[i]
  BY <1>3, ConcatenationAt
<1>5. i # 1 => f[i - 1] = g[i - 1]
  <2>1. i # 1 => i - 1 \in 1..n /\ i - 1 \notin Differ
    BY <1>2, <1>3
  <2> QED
    BY <2>1
<1>6. f[i] = g[i]
  <2>1. ss[i] = tt[i]
    BY <1>3 DEF Agree
  <2> QED
    BY <1>4, <1>5, <2>1, Zenon
<1> QED
  BY <1>2, <1>6

(* Flattening no sequences.                                                *)
LEMMA FlattenEmpty == FlattenSeq(<< >>) = << >>
BY DEF FlattenSeq

(* The concatenation is a sequence of the same elements.                   *)
LEMMA FlattenType ==
  ASSUME NEW S, NEW ss \in Seq(Seq(S))
  PROVE  FlattenSeq(ss) \in Seq(S)
<1> DEFINE n == Len(ss)
<1>1. n \in Nat /\ \A i \in 1..n : ss[i] \in Seq(S)
  OBVIOUS
<1>2. CASE n = 0
  <2>1. ss = << >> /\ << >> \in Seq(S)
    BY <1>2
  <2> QED
    BY <2>1, FlattenEmpty
<1>3. CASE n # 0
  <2>1. PICK f : Concatenates(f, ss, n) /\ FlattenSeq(ss) = f[n]
    BY <1>1, <1>3, FlattenUnfolds
  <2> DEFINE Bad == {i \in 1..n : f[i] \notin Seq(S)}
  <2>2. SUFFICES ASSUME Bad # {} PROVE FALSE
    BY <1>1, <1>3, <2>1, SMTT(40)
  <2>3. PICK i \in Bad : \A k \in Bad : i <= k
    <3>1. Bad \in SUBSET Nat
      OBVIOUS
    <3> HIDE DEF Bad
    <3> QED
      BY <2>2, <3>1, LeastElement
  <2>4. i \in 1..n
    BY <2>3
  <2>5. f[i] = IF i = 1 THEN ss[i] ELSE f[i - 1] \o ss[i]
    BY <2>1, <2>4, ConcatenationAt
  <2>6. i # 1 => f[i - 1] \in Seq(S)
    <3>1. i # 1 => i - 1 \in 1..n /\ i - 1 \notin Bad
      BY <2>3, <2>4
    <3> QED
      BY <3>1
  <2>7. ss[i] \in Seq(S)
    BY <1>1, <2>4
  <2>8. f[i] \in Seq(S)
    BY <2>5, <2>6, <2>7
  <2> QED
    BY <2>3, <2>8
<1> QED
  BY <1>2, <1>3

(* One sequence more.                                                      *)
LEMMA FlattenAppend ==
  ASSUME NEW S, NEW ss \in Seq(Seq(S)), NEW s \in Seq(S)
  PROVE  /\ FlattenSeq(Append(ss, s)) = FlattenSeq(ss) \o s
         /\ FlattenSeq(Append(ss, s)) \in Seq(S)
<1> DEFINE tt == Append(ss, s)
           n  == Len(ss)
<1>0. FlattenSeq(ss) \in Seq(S)
  BY FlattenType
<1>1. /\ n \in Nat /\ Len(tt) = n + 1
      /\ tt[n + 1] = s /\ \A i \in 1..n : ss[i] = tt[i]
  OBVIOUS
<1> HIDE DEF tt
<1>2. PICK g : Concatenates(g, tt, n + 1) /\ FlattenSeq(tt) = g[n + 1]
  BY <1>1, FlattenUnfolds
<1>3. g[n + 1] = IF n = 0 THEN s ELSE g[n] \o s
  <2> HIDE DEF n
  <2> QED
    BY <1>1, <1>2, ConcatenationLast
<1>4. FlattenSeq(tt) = FlattenSeq(ss) \o s
  <2>1. CASE n = 0
    <3>1. ss = << >> /\ FlattenSeq(ss) = << >>
      BY <2>1, FlattenEmpty
    <3> QED
      BY <1>2, <1>3, <2>1, <3>1
  <2>2. CASE n # 0
    <3>1. PICK f : Concatenates(f, ss, n) /\ FlattenSeq(ss) = f[n]
      BY <1>1, <2>2, FlattenUnfolds
    <3>2. n + 1 \in Nat /\ n <= n + 1 /\ n \in 1..n
      BY <1>1, <2>2
    <3>3. Agree(f, g, n)
      <4> HIDE DEF n
      <4> DEFINE m == n + 1
      <4>1. Concatenates(g, tt, m) /\ m \in Nat /\ n <= m
        BY <1>2, <3>2
      <4> HIDE DEF m
      <4>2. n \in Nat /\ Agree(ss, tt, n) /\ Concatenates(f, ss, n)
        BY <1>1, <3>1 DEF Agree
      <4> QED
        BY <4>1, <4>2, ConcatenationUnique, Zenon
    <3>4. f[n] = g[n]
      BY <3>2, <3>3 DEF Agree
    <3> QED
      BY <1>2, <1>3, <2>2, <3>1, <3>4
  <2> QED
    BY <2>1, <2>2
<1> QED
  BY <1>0, <1>4 DEF tt


(* The elements of a concatenation are those of the one, then those of the *)
(* other.                                                                  *)
LEMMA ConcatElements ==
  ASSUME NEW S, NEW a \in Seq(S), NEW b \in Seq(S)
  PROVE  /\ a \o b \in Seq(S) /\ Len(a \o b) = Len(a) + Len(b) /\ Len(a) \in Nat /\ Len(b) \in Nat
         /\ \A i \in DOMAIN a : i \in DOMAIN (a \o b) /\ (a \o b)[i] = a[i]
         /\ \A j \in DOMAIN b : Len(a) + j \in DOMAIN (a \o b) /\ (a \o b)[Len(a) + j] = b[j]
         /\ \A i \in DOMAIN (a \o b) : i \in DOMAIN a \/ \E j \in DOMAIN b : i = Len(a) + j
<1> DEFINE c == a \o b
           m == Len(a)
           n == Len(b)
<1>1. /\ c \in Seq(S) /\ Len(c) = m + n
      /\ \A i \in 1..m + n : c[i] = IF i <= m THEN a[i] ELSE b[i - m]
  BY ConcatProperties
<1>2. DOMAIN a = 1..m /\ DOMAIN b = 1..n /\ m \in Nat /\ n \in Nat
  OBVIOUS
<1>3. DOMAIN c = 1..m + n
  BY <1>1
<1> HIDE DEF c, m, n
<1>4. ASSUME NEW i \in 1..m PROVE i \in 1..m + n /\ c[i] = a[i]
  BY <1>1, <1>2
<1>5. ASSUME NEW j \in 1..n PROVE m + j \in 1..m + n /\ c[m + j] = b[j]
  <2> DEFINE k == m + j
  <2>1. k \in 1..m + n /\ ~(k <= m) /\ k - m = j
    BY <1>2
  <2> HIDE DEF k
  <2>2. k \in 1..m + n /\ c[k] = b[k - m]
    BY <1>1, <2>1
  <2> QED
    BY <2>1, <2>2 DEF k
<1>6. ASSUME NEW i \in 1..m + n PROVE i \in 1..m \/ \E j \in 1..n : i = m + j
  <2>1. CASE i <= m
    BY <1>2, <2>1
  <2>2. CASE ~(i <= m)
    <3>1. i - m \in 1..n /\ i = m + (i - m)
      BY <1>2, <2>2
    <3> QED
      BY <3>1
  <2> QED
    BY <2>1, <2>2
<1> QED
  BY <1>1, <1>2, <1>3, <1>4, <1>5, <1>6 DEF c, m, n

-----------------------------------------------------------------------------
(* Where a sequence stands in a concatenation: behind elements of those in *)
(* front of it.                                                            *)
ElementsOf(c, ss, m) == \A q \in DOMAIN c : \E h \in 1..m : \E j \in DOMAIN ss[h] : c[q] = ss[h][j]

StandsAt(c, ss, i, o) ==
  /\ \A j \in DOMAIN ss[i] : o + j \in DOMAIN c /\ c[o + j] = ss[i][j]
  /\ \A q \in 1..o : q \in DOMAIN c /\ \E h \in 1..i - 1 : \E j \in DOMAIN ss[h] : c[q] = ss[h][j]

(* It stands behind those concatenated before it,                          *)
LEMMA StandsBehind ==
  ASSUME NEW S, NEW ss, NEW i \in Nat \ {0}, ss[i] \in Seq(S), NEW a \in Seq(S), ElementsOf(a, ss, i - 1)
  PROVE  \E o \in Nat : StandsAt(a \o ss[i], ss, i, o)
<1> DEFINE o == Len(a)
           b == ss[i]
           c == a \o b
<1>1. /\ o \in Nat /\ \A j \in DOMAIN b : o + j \in DOMAIN c /\ c[o + j] = b[j]
      /\ \A q \in DOMAIN a : q \in DOMAIN c /\ c[q] = a[q]
  <2>1. b \in Seq(S)
    OBVIOUS
  <2> HIDE DEF b, c
  <2>2. /\ Len(a) \in Nat
        /\ \A q \in DOMAIN a : q \in DOMAIN (a \o b) /\ (a \o b)[q] = a[q]
        /\ \A j \in DOMAIN b : Len(a) + j \in DOMAIN (a \o b) /\ (a \o b)[Len(a) + j] = b[j]
        /\ \A q \in DOMAIN (a \o b) : q \in DOMAIN a \/ \E j \in DOMAIN b : q = Len(a) + j
    BY <2>1, ConcatElements
  <2> QED
    BY <2>2 DEF c
<1>2. DOMAIN a = 1..o
  OBVIOUS
<1> HIDE DEF o, b, c
<1>3. \A q \in 1..o : q \in DOMAIN c /\ \E h \in 1..i - 1 : \E j \in DOMAIN ss[h] : c[q] = ss[h][j]
  BY <1>1, <1>2 DEF ElementsOf
<1>4. StandsAt(c, ss, i, o)
  BY <1>1, <1>3 DEF StandsAt, b
<1> QED
  BY <1>1, <1>4 DEF b, c

(* and does so still when more are put behind it.                          *)
LEMMA StandsBefore ==
  ASSUME NEW S, NEW ss, NEW i, NEW a \in Seq(S), NEW b \in Seq(S), NEW o, StandsAt(a, ss, i, o)
  PROVE  StandsAt(a \o b, ss, i, o)
<1> DEFINE c == a \o b
<1>1. \A q \in DOMAIN a : q \in DOMAIN c /\ c[q] = a[q]
  BY ConcatElements
<1> HIDE DEF c
<1>2. StandsAt(c, ss, i, o)
  BY <1>1 DEF StandsAt
<1> QED
  BY <1>2 DEF c

(* The elements of a concatenation are those of its parts.                 *)
LEMMA ElementsJoin ==
  ASSUME NEW S, NEW ss, NEW m \in Nat, ss[m + 1] \in Seq(S), NEW a \in Seq(S), ElementsOf(a, ss, m)
  PROVE  ElementsOf(a \o ss[m + 1], ss, m + 1)
<1> DEFINE b == ss[m + 1]
           c == a \o b
<1>1. /\ \A q \in DOMAIN a : c[q] = a[q]
      /\ \A j \in DOMAIN b : c[Len(a) + j] = b[j]
      /\ \A q \in DOMAIN c : q \in DOMAIN a \/ \E j \in DOMAIN b : q = Len(a) + j
  <2>1. b \in Seq(S)
    OBVIOUS
  <2> HIDE DEF b, c
  <2>2. /\ Len(a) \in Nat
        /\ \A q \in DOMAIN a : q \in DOMAIN (a \o b) /\ (a \o b)[q] = a[q]
        /\ \A j \in DOMAIN b : Len(a) + j \in DOMAIN (a \o b) /\ (a \o b)[Len(a) + j] = b[j]
        /\ \A q \in DOMAIN (a \o b) : q \in DOMAIN a \/ \E j \in DOMAIN b : q = Len(a) + j
    BY <2>1, ConcatElements, SMTT(40)
  <2>3. \A q \in DOMAIN a : c[q] = a[q]
    BY <2>2, Zenon DEF c
  <2>4. \A j \in DOMAIN b : c[Len(a) + j] = b[j]
    BY <2>2, Zenon DEF c
  <2>5. \A q \in DOMAIN c : q \in DOMAIN a \/ \E j \in DOMAIN b : q = Len(a) + j
    BY <2>2, Zenon DEF c
  <2> QED
    BY <2>3, <2>4, <2>5, Zenon
<1> HIDE DEF c
<1>2. 1..m \subseteq 1..m + 1 /\ m + 1 \in 1..m + 1
  OBVIOUS
<1>3. ASSUME NEW q \in DOMAIN c PROVE \E h \in 1..m + 1 : \E j \in DOMAIN ss[h] : c[q] = ss[h][j]
  <2>1. CASE q \in DOMAIN a
    <3>1. c[q] = a[q]
      BY <1>1, <2>1
    <3>2. \E h \in 1..m : \E j \in DOMAIN ss[h] : c[q] = ss[h][j]
      BY <2>1, <3>1 DEF ElementsOf
    <3> QED
      BY <1>2, <3>2
  <2>2. CASE q \notin DOMAIN a
    <3>1. PICK j \in DOMAIN b : q = Len(a) + j
      BY <1>1, <1>3, <2>2
    <3> QED
      BY <1>1, <1>2, <3>1
  <2> QED
    BY <2>1, <2>2
<1>4. ElementsOf(c, ss, m + 1)
  BY <1>3 DEF ElementsOf
<1> QED
  BY <1>4 DEF c

(* So every part stands somewhere in the concatenation of all.             *)
LEMMA FlattenPlaces ==
  ASSUME NEW S, NEW ss \in Seq(Seq(S))
  PROVE  /\ ElementsOf(FlattenSeq(ss), ss, Len(ss))
         /\ \A i \in DOMAIN ss : \E o \in Nat : StandsAt(FlattenSeq(ss), ss, i, o)
<1> DEFINE n == Len(ss)
<1>1. n \in Nat /\ DOMAIN ss = 1..n /\ \A i \in 1..n : ss[i] \in Seq(S)
  OBVIOUS
<1>2. CASE n = 0
  <2>1. ss = << >>
    BY <1>2
  <2>2. FlattenSeq(ss) = << >>
    BY <2>1, FlattenEmpty
  <2> QED
    BY <1>1, <1>2, <2>2 DEF ElementsOf
<1>3. CASE n # 0
  <2>1. PICK f : Concatenates(f, ss, n) /\ FlattenSeq(ss) = f[n]
    BY <1>1, <1>3, FlattenUnfolds
  <2> DEFINE Good(m) == /\ f[m] \in Seq(S) /\ ElementsOf(f[m], ss, m)
                        /\ \A i \in 1..m : \E o \in Nat : StandsAt(f[m], ss, i, o)
             Bad == {m \in 1..n : ~Good(m)}
  <2> HIDE DEF n
  <2>2. ASSUME NEW m \in 1..n, m # 1 => Good(m - 1) PROVE Good(m)
    <3>1. f[m] = IF m = 1 THEN ss[m] ELSE f[m - 1] \o ss[m]
      BY <2>1, ConcatenationAt
    <3>2. ss[m] \in Seq(S) /\ m \in Nat \ {0}
      BY <1>1
    <3>3. CASE m = 1
      <4>1. << >> \in Seq(S) /\ f[1] = << >> \o ss[1] /\ ss[1] \in Seq(S)
        BY <3>1, <3>2, <3>3
      <4>2. ElementsOf(<< >>, ss, 0)
        BY DEF ElementsOf
      <4>3. f[1] \in Seq(S) /\ ElementsOf(f[1], ss, 1)
        <5>1. 0 + 1 = 1
          OBVIOUS
        <5>2. ElementsOf(<< >> \o ss[0 + 1], ss, 0 + 1)
          BY <4>1, <4>2, <5>1, ElementsJoin
        <5> QED
          BY <3>2, <3>3, <4>1, <5>1, <5>2
      <4>4. \E o \in Nat : StandsAt(f[1], ss, 1, o)
        <5>1. 1 \in Nat \ {0} /\ ElementsOf(<< >>, ss, 1 - 1)
          BY <4>2
        <5>2. \E o \in Nat : StandsAt(<< >> \o ss[1], ss, 1, o)
          BY <4>1, <5>1, StandsBehind
        <5> QED
          BY <4>1, <5>2
      <4> QED
        BY <3>3, <4>3, <4>4
    <3>4. CASE m # 1
      <4> DEFINE k == m - 1
                 a == f[k]
      <4>1. k \in Nat /\ k + 1 = m /\ f[m] = a \o ss[m] /\ 1..m = 1..k \cup {m}
        <5>1. f[m] = a \o ss[m]
          BY <3>1, <3>4
        <5>2. k \in Nat /\ k + 1 = m
          BY <3>2, <3>4
        <5>3. \A x : x \in 1..m <=> x \in 1..k \/ x = m
          BY <3>2, <5>2
        <5> QED
          BY <5>1, <5>2, <5>3
      <4>2. /\ a \in Seq(S) /\ ElementsOf(a, ss, k)
            /\ \A i \in 1..k : \E o \in Nat : StandsAt(a, ss, i, o)
        BY <2>2, <3>4
      <4> HIDE DEF a
      <4>3. ElementsOf(f[m], ss, m)
        <5> HIDE DEF k
        <5>1. ElementsOf(a \o ss[k + 1], ss, k + 1)
          BY <3>2, <4>1, <4>2, ElementsJoin
        <5> QED
          BY <4>1, <5>1
      <4>4. \E o \in Nat : StandsAt(f[m], ss, m, o)
        <5>1. ElementsOf(a, ss, m - 1)
          BY <4>2
        <5>2. \E o \in Nat : StandsAt(a \o ss[m], ss, m, o)
          BY <3>2, <4>2, <5>1, StandsBehind
        <5> QED
          BY <4>1, <5>2
      <4>5. ASSUME NEW i \in 1..k PROVE \E o \in Nat : StandsAt(f[m], ss, i, o)
        <5>1. PICK o \in Nat : StandsAt(a, ss, i, o)
          BY <4>2
        <5>2. StandsAt(a \o ss[m], ss, i, o)
          BY <3>2, <4>2, <5>1, StandsBefore
        <5> QED
          BY <4>1, <5>2
      <4>6. f[m] \in Seq(S)
        BY <3>2, <4>1, <4>2
      <4> QED
        BY <4>1, <4>3, <4>4, <4>5, <4>6
    <3> QED
      BY <3>3, <3>4
  <2> HIDE DEF Good
  <2>3. SUFFICES ASSUME Bad # {} PROVE FALSE
    <3>1. n \in 1..n
      BY <1>1, <1>3
    <3>2. Bad = {} => Good(n)
      BY <3>1
    <3> QED
      BY <1>1, <2>1, <3>2 DEF Good, n
  <2>4. PICK m \in Bad : \A k \in Bad : m <= k
    <3>1. Bad \in SUBSET Nat
      OBVIOUS
    <3> HIDE DEF Bad
    <3> QED
      BY <2>3, <3>1, LeastElement
  <2>5. m \in 1..n /\ (m # 1 => Good(m - 1))
    <3>1. m \in 1..n
      BY <2>4
    <3>2. m # 1 => m - 1 \in 1..n /\ m - 1 \notin Bad
      BY <1>1, <2>4, <3>1
    <3> QED
      BY <3>1, <3>2
  <2> QED
    BY <2>2, <2>4, <2>5
<1> QED
  BY <1>2, <1>3
=============================================================================
