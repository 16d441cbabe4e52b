---------------------- MODULE RegisterAllocatorProofs ----------------------
(***************************************************************************)
(* The invariants of RegisterAllocator, proved for every set of values and *)
(* every number of registers, under any sequence of calls.                 *)
(*                                                                         *)
(* The three properties are inductive together: Consistent is what they    *)
(* say of the queue and the values, Marked what they say of the bitmap.    *)
(***************************************************************************)
EXTENDS RegisterAllocator, SequenceLemmas

Consistent(st) ==
  /\ \A v \in Vals : Loaded(st, v) <=> InQueue(st, v)
  /\ \A j, k \in DOMAIN st.regValues : st.regValues[j] = st.regValues[k] => j = k
  /\ \A v, w \in Vals : Loaded(st, v) /\ st.loadRegId[v] = st.loadRegId[w] => v = w

Marked(st) == \A v \in Vals : Loaded(st, v) => st.loadRegId[v] \in st.regBitmap

Good(st) ==
  /\ st \in Allocators
  /\ st.regBitmap \subseteq st.usedBitmap
  /\ Consistent(st)
  /\ Marked(st)

(* Register numbers are not the number that stands for no register.        *)
LEMMA NoRegIsNoRegister == NoReg \notin Regs
BY RegNumAssumption DEF NoReg, Regs

(* erase: the value at position k is off its register, and nothing else    *)
(* has changed.                                                            *)
LEMMA DequeueFacts ==
  ASSUME NEW st \in Allocators, Consistent(st), NEW k \in DOMAIN st.regValues
  PROVE  /\ Dequeue(st, k) \in Allocators
         /\ Dequeue(st, k).regBitmap = st.regBitmap
         /\ Dequeue(st, k).usedBitmap = st.usedBitmap
         /\ Dequeue(st, k).regValues = RemoveAt(st.regValues, k)
         /\ Dequeue(st, k).loadRegId = [st.loadRegId EXCEPT ![st.regValues[k]] = NoReg]
         /\ Consistent(Dequeue(st, k))
<1> DEFINE q   == st.regValues
           new == Dequeue(st, k)
<1>1. q \in Seq(Vals) /\ q[k] \in Vals /\ st.loadRegId \in [Vals -> Regs \cup {NoReg}]
  BY DEF Allocators
<1>2. RemoveAt(q, k) \in Seq(Vals)
  BY <1>1, Erase
<1>3. [st.loadRegId EXCEPT ![q[k]] = NoReg] \in [Vals -> Regs \cup {NoReg}]
  BY <1>1
<1>4. /\ new \in Allocators
      /\ new.regBitmap = st.regBitmap
      /\ new.usedBitmap = st.usedBitmap
      /\ new.regValues = RemoveAt(q, k)
      /\ new.loadRegId = [st.loadRegId EXCEPT ![q[k]] = NoReg]
  BY <1>2, <1>3 DEF Dequeue, Allocators
<1> HIDE DEF new
<1>5. /\ \A i, j \in DOMAIN new.regValues : new.regValues[i] = new.regValues[j] => i = j
      /\ \A v \in Vals : InQueue(new, v) <=> InQueue(st, v) /\ v # q[k]
  BY <1>1, <1>4, EraseDistinct DEF Consistent, InQueue
<1>6. \A v \in Vals : new.loadRegId[v] = IF v = q[k] THEN NoReg ELSE st.loadRegId[v]
  BY <1>1, <1>4
<1>7. \A v \in Vals : Loaded(new, v) <=> InQueue(new, v)
  BY <1>5, <1>6 DEF Loaded, Consistent
<1>8. \A v, w \in Vals : Loaded(new, v) /\ new.loadRegId[v] = new.loadRegId[w] => v = w
  BY <1>6 DEF Loaded, Consistent
<1> QED
  BY <1>4, <1>5, <1>7, <1>8 DEF Consistent, new

(* push_back: v is in register no, and nothing else has changed.           *)
LEMMA EnqueueFacts ==
  ASSUME NEW st \in Allocators, Consistent(st), NEW v \in Vals, NEW no \in Regs,
         ~Loaded(st, v), \A w \in Vals : st.loadRegId[w] # no
  PROVE  /\ Enqueue(st, v, no) \in Allocators
         /\ Enqueue(st, v, no).regBitmap = st.regBitmap
         /\ Enqueue(st, v, no).usedBitmap = st.usedBitmap
         /\ Enqueue(st, v, no).loadRegId = [st.loadRegId EXCEPT ![v] = no]
         /\ Consistent(Enqueue(st, v, no))
<1> DEFINE q   == st.regValues
           new == Enqueue(st, v, no)
<1>0. v # NullVal
  BY ValsAssumption
<1>1. q \in Seq(Vals) /\ st.loadRegId \in [Vals -> Regs \cup {NoReg}]
  BY DEF Allocators
<1>2. Append(q, v) \in Seq(Vals)
  BY <1>1
<1>3. [st.loadRegId EXCEPT ![v] = no] \in [Vals -> Regs \cup {NoReg}]
  BY <1>1
<1>4. /\ new \in Allocators
      /\ new.regBitmap = st.regBitmap
      /\ new.usedBitmap = st.usedBitmap
      /\ new.regValues = Append(q, v)
      /\ new.loadRegId = [st.loadRegId EXCEPT ![v] = no]
  BY <1>0, <1>2, <1>3 DEF Enqueue, Allocators
<1> HIDE DEF new
<1>5. /\ Len(q) \in Nat /\ DOMAIN q = 1..Len(q) /\ DOMAIN Append(q, v) = 1..Len(q) + 1
      /\ Append(q, v)[Len(q) + 1] = v
      /\ \A i \in DOMAIN q : Append(q, v)[i] = q[i]
  BY <1>1
<1>6. \A i \in DOMAIN q : q[i] # v
  BY DEF Consistent, InQueue
<1>7. \A i, j \in DOMAIN new.regValues : new.regValues[i] = new.regValues[j] => i = j
  <2> SUFFICES ASSUME NEW i \in DOMAIN new.regValues, NEW j \in DOMAIN new.regValues,
                      new.regValues[i] = new.regValues[j]
               PROVE  i = j
    OBVIOUS
  <2>1. /\ i \in 1..Len(q) + 1 /\ j \in 1..Len(q) + 1
        /\ Append(q, v)[i] = Append(q, v)[j]
    BY <1>4, <1>5
  <2>2. CASE i \in DOMAIN q /\ j \in DOMAIN q
    BY <1>5, <2>1, <2>2 DEF Consistent
  <2>3. CASE i = Len(q) + 1 \/ j = Len(q) + 1
    BY <1>5, <1>6, <2>1, <2>3
  <2> QED
    BY <1>5, <2>1, <2>2, <2>3
<1>8. \A w \in Vals : InQueue(new, w) <=> InQueue(st, w) \/ w = v
  BY <1>4, <1>5 DEF InQueue
<1>9. \A w \in Vals : new.loadRegId[w] = IF w = v THEN no ELSE st.loadRegId[w]
  BY <1>1, <1>4
<1>10. \A w \in Vals : Loaded(new, w) <=> InQueue(new, w)
  BY <1>8, <1>9, NoRegIsNoRegister DEF Loaded, Consistent
<1>11. \A u, w \in Vals : Loaded(new, u) /\ new.loadRegId[u] = new.loadRegId[w] => u = w
  BY <1>9 DEF Loaded, Consistent
<1> QED
  BY <1>4, <1>7, <1>10, <1>11 DEF Consistent, new

(* The bitmaps are independent of the queue.                               *)
LEMMA BitmapSetFacts ==
  ASSUME NEW st \in Allocators, Consistent(st), NEW no \in Regs
  PROVE  /\ BitmapSet(st, no) \in Allocators
         /\ BitmapSet(st, no).regBitmap = st.regBitmap \cup {no}
         /\ BitmapSet(st, no).usedBitmap = st.usedBitmap \cup {no}
         /\ BitmapSet(st, no).loadRegId = st.loadRegId
         /\ Consistent(BitmapSet(st, no))
<1>1. /\ BitmapSet(st, no) \in Allocators
      /\ BitmapSet(st, no).regBitmap = st.regBitmap \cup {no}
      /\ BitmapSet(st, no).usedBitmap = st.usedBitmap \cup {no}
      /\ BitmapSet(st, no).regValues = st.regValues
      /\ BitmapSet(st, no).loadRegId = st.loadRegId
  BY DEF BitmapSet, Allocators
<1> QED
  BY <1>1 DEF Consistent, Loaded, InQueue

(* Giving back a register leaves the queue and the record of used          *)
(* registers alone.                                                        *)
LEMMA BitmapResetFacts ==
  ASSUME NEW st \in Allocators, Consistent(st), NEW no
  PROVE  /\ BitmapReset(st, no) \in Allocators
         /\ BitmapReset(st, no).regBitmap = st.regBitmap \ {no}
         /\ BitmapReset(st, no).usedBitmap = st.usedBitmap
         /\ BitmapReset(st, no).regValues = st.regValues
         /\ BitmapReset(st, no).loadRegId = st.loadRegId
         /\ Consistent(BitmapReset(st, no))
<1>1. /\ BitmapReset(st, no) \in Allocators
      /\ BitmapReset(st, no).regBitmap = st.regBitmap \ {no}
      /\ BitmapReset(st, no).usedBitmap = st.usedBitmap
      /\ BitmapReset(st, no).regValues = st.regValues
      /\ BitmapReset(st, no).loadRegId = st.loadRegId
  BY DEF BitmapReset, Allocators
<1> QED
  BY <1>1 DEF Consistent, Loaded, InQueue

(* A register of which no value is a holder after it is given back.        *)
LEMMA FreeRegGood ==
  ASSUME NEW st, Good(st), NEW no \in Regs
  PROVE  /\ Good(FreeReg(st, no))
         /\ FreeReg(st, no).regBitmap = st.regBitmap \ {no}
         /\ FreeReg(st, no).usedBitmap = st.usedBitmap
         /\ \A v \in Vals : FreeReg(st, no).loadRegId[v] =
                              IF st.loadRegId[v] = no THEN NoReg ELSE st.loadRegId[v]
<1> DEFINE in == {k \in DOMAIN st.regValues : st.loadRegId[st.regValues[k]] = no}
           r  == BitmapReset(st, no)
<1>1. /\ st \in Allocators /\ Consistent(st) /\ no # NoReg
      /\ st.regValues \in Seq(Vals)
      /\ st.loadRegId \in [Vals -> Regs \cup {NoReg}]
  BY NoRegIsNoRegister DEF Good, Allocators
<1>2. /\ r \in Allocators /\ Consistent(r)
      /\ r.regBitmap = st.regBitmap \ {no} /\ r.usedBitmap = st.usedBitmap
      /\ r.regValues = st.regValues /\ r.loadRegId = st.loadRegId
  BY <1>1, BitmapResetFacts
<1>3. \A v \in Vals : st.loadRegId[v] = no => \E k \in in : st.regValues[k] = v
  BY <1>1 DEF Consistent, Loaded, InQueue
<1>4. CASE in = {}
  <2>1. FreeReg(st, no) = r
    BY <1>1, <1>4 DEF FreeReg
  <2>2. \A v \in Vals : st.loadRegId[v] # no
    BY <1>3, <1>4
  <2> HIDE DEF r
  <2>3. \A v \in Vals : r.loadRegId[v] = st.loadRegId[v]
    BY <1>2
  <2>4. Marked(r)
    BY <1>2, <2>2 DEF Marked, Good, Loaded
  <2>5. Good(r)
    BY <1>2, <2>4 DEF Good
  <2> QED
    BY <1>2, <2>1, <2>2, <2>3, <2>5
<1>5. CASE in # {}
  <2> DEFINE k   == Min(in)
             v0  == st.regValues[k]
             new == Dequeue(r, k)
  <2>1. k \in in
    <3>1. in \in SUBSET Nat
      BY <1>1
    <3> QED
      BY <1>5, <3>1, MinIsMember
  <2>2. k \in DOMAIN r.regValues /\ v0 \in Vals /\ st.loadRegId[v0] = no
    <3>1. k \in DOMAIN st.regValues /\ st.loadRegId[st.regValues[k]] = no
      <4> HIDE DEF k
      <4> QED
        BY <2>1
    <3> HIDE DEF r, k
    <3> QED
      BY <1>1, <1>2, <3>1
  <2>3. FreeReg(st, no) = new
    BY <1>1, <1>5 DEF FreeReg
  <2> HIDE DEF r, in, k, new
  <2>4. /\ new \in Allocators /\ Consistent(new)
        /\ new.regBitmap = r.regBitmap /\ new.usedBitmap = r.usedBitmap
        /\ new.loadRegId = [r.loadRegId EXCEPT ![v0] = NoReg]
    BY <1>2, <2>2, DequeueFacts DEF new
  <2>5. \A v \in Vals : st.loadRegId[v] = no => v = v0
    BY <1>1, <2>2 DEF Consistent, Loaded
  <2>6. \A v \in Vals : new.loadRegId[v] = IF st.loadRegId[v] = no THEN NoReg ELSE st.loadRegId[v]
    BY <1>1, <1>2, <2>2, <2>4, <2>5
  <2>7. Marked(new)
    BY <1>2, <2>4, <2>6 DEF Marked, Good, Loaded
  <2>8. Good(new)
    BY <1>2, <2>4, <2>7 DEF Good
  <2> QED
    BY <1>2, <2>3, <2>4, <2>6, <2>8
<1> QED
  BY <1>4, <1>5

(* A value is off its register after it is freed, and the register free.   *)
LEMMA FreeValGood ==
  ASSUME NEW st, Good(st), NEW v \in Vals, Loaded(st, v)
  PROVE  /\ Good(FreeVal(st, v))
         /\ FreeVal(st, v).regBitmap = st.regBitmap \ {st.loadRegId[v]}
         /\ FreeVal(st, v).loadRegId = [st.loadRegId EXCEPT ![v] = NoReg]
<1> DEFINE at  == {k \in DOMAIN st.regValues : st.regValues[k] = v}
           r   == BitmapReset(st, st.loadRegId[v])
           k   == Min(at)
           new == Dequeue(r, k)
<1>1. /\ st \in Allocators /\ Consistent(st)
      /\ st.regValues \in Seq(Vals)
      /\ st.loadRegId \in [Vals -> Regs \cup {NoReg}]
  BY DEF Good, Allocators
<1>2. /\ r \in Allocators /\ Consistent(r)
      /\ r.regBitmap = st.regBitmap \ {st.loadRegId[v]} /\ r.usedBitmap = st.usedBitmap
      /\ r.regValues = st.regValues /\ r.loadRegId = st.loadRegId
  BY <1>1, BitmapResetFacts
<1>3. k \in DOMAIN st.regValues /\ st.regValues[k] = v
  <2>1. at \in SUBSET Nat /\ at # {}
    BY <1>1 DEF Consistent, InQueue
  <2>2. k \in at
    BY <2>1, MinIsMember
  <2> HIDE DEF k
  <2> QED
    BY <2>2
<1>4. FreeVal(st, v) = new
  BY ValsAssumption DEF FreeVal, HasOne
<1> HIDE DEF r, k, new
<1>5. /\ new \in Allocators /\ Consistent(new)
      /\ new.regBitmap = r.regBitmap /\ new.usedBitmap = r.usedBitmap
      /\ new.loadRegId = [r.loadRegId EXCEPT ![v] = NoReg]
  <2>1. k \in DOMAIN r.regValues /\ r.regValues[k] = v
    BY <1>2, <1>3
  <2> QED
    BY <1>2, <2>1, DequeueFacts DEF new
<1>6. ASSUME NEW w \in Vals, Loaded(new, w) PROVE new.loadRegId[w] \in new.regBitmap
  <2>1. w # v /\ new.loadRegId[w] = st.loadRegId[w] /\ Loaded(st, w)
    BY <1>1, <1>2, <1>5, <1>6 DEF Loaded
  <2>2. st.loadRegId[w] # st.loadRegId[v]
    BY <1>1, <2>1 DEF Consistent
  <2> QED
    BY <1>2, <1>5, <2>1, <2>2 DEF Good, Marked
<1>7. Good(new)
  BY <1>2, <1>5, <1>6 DEF Good, Marked
<1> QED
  BY <1>2, <1>4, <1>5, <1>7

(* Putting v in register no, free until now.                               *)
LEMMA GrantGood ==
  ASSUME NEW st, st \in Allocators, st.regBitmap \subseteq st.usedBitmap,
         Consistent(st), Marked(st),
         NEW v \in Vals \cup {NullVal}, NEW no \in st.regBitmap,
         v \in Vals => ~Loaded(st, v),
         \A w \in Vals : st.loadRegId[w] # no
  PROVE  /\ Good(Enqueue(st, v, no))
         /\ Enqueue(st, v, no).regBitmap = st.regBitmap
         /\ v \in Vals  => Enqueue(st, v, no).loadRegId = [st.loadRegId EXCEPT ![v] = no]
         /\ v = NullVal => Enqueue(st, v, no).loadRegId = st.loadRegId
<1>1. CASE v = NullVal
  BY <1>1, ValsAssumption DEF Enqueue, Good
<1>2. CASE v \in Vals
  <2> DEFINE new == Enqueue(st, v, no)
  <2>1. no \in Regs /\ v # NullVal /\ st.loadRegId \in [Vals -> Regs \cup {NoReg}]
    BY <1>2, ValsAssumption DEF Allocators
  <2>2. /\ new \in Allocators /\ Consistent(new)
        /\ new.regBitmap = st.regBitmap /\ new.usedBitmap = st.usedBitmap
        /\ new.loadRegId = [st.loadRegId EXCEPT ![v] = no]
    BY <1>2, <2>1, EnqueueFacts
  <2> HIDE DEF new
  <2>3. Marked(new)
    BY <2>1, <2>2 DEF Marked, Loaded
  <2>4. Good(new)
    BY <2>2, <2>3 DEF Good
  <2> QED
    BY <2>1, <2>2, <2>4 DEF new
<1> QED
  BY <1>1, <1>2

(* No value is in a register that is not marked as in use.                 *)
LEMMA FreeIsUnheld ==
  ASSUME NEW st, Good(st), NEW no \in FreeRegs(st), NEW v \in Vals
  PROVE  st.loadRegId[v] # no
BY NoRegIsNoRegister DEF Good, Marked, Loaded, FreeRegs

(* An allocation that finds a free register.                               *)
LEMMA AllocateFree ==
  ASSUME NEW st, Good(st), NEW v \in Vals \cup {NullVal}, NEW no,
         ~HasOne(st, v), FreeRegs(st) # {}
  PROVE  LET r == Granted(st, v, no) IN
         /\ r \in FreeRegs(st)
         /\ Good(Allocate(st, v, no))
         /\ Allocate(st, v, no).regBitmap = st.regBitmap \cup {r}
         /\ v \in Vals  => Allocate(st, v, no).loadRegId = [st.loadRegId EXCEPT ![v] = r]
         /\ v = NullVal => Allocate(st, v, no).loadRegId = st.loadRegId
<1> DEFINE r  == Granted(st, v, no)
           s1 == BitmapSet(st, r)
<1>1. r \in FreeRegs(st)
  <2>1. FreeRegs(st) \in SUBSET Nat
    BY DEF FreeRegs, Regs
  <2>2. Min(FreeRegs(st)) \in FreeRegs(st)
    BY <2>1, MinIsMember
  <2> QED
    BY <2>2 DEF Granted
<1>2. Allocate(st, v, no) = Enqueue(s1, v, r)
  BY DEF Allocate, Spills
<1> HIDE DEF r
<1>3. r \in Regs /\ st \in Allocators /\ Consistent(st)
  BY <1>1 DEF Good, FreeRegs
<1>4. /\ s1 \in Allocators /\ Consistent(s1)
      /\ s1.regBitmap = st.regBitmap \cup {r} /\ s1.usedBitmap = st.usedBitmap \cup {r}
      /\ s1.loadRegId = st.loadRegId
  BY <1>3, BitmapSetFacts
<1> HIDE DEF s1
<1>5. s1.regBitmap \subseteq s1.usedBitmap /\ Marked(s1) /\ r \in s1.regBitmap
  BY <1>4 DEF Good, Marked, Loaded
<1>6. v \in Vals => ~Loaded(s1, v)
  BY <1>4, ValsAssumption DEF HasOne, Loaded
<1>7. \A w \in Vals : s1.loadRegId[w] # r
  BY <1>1, <1>4, FreeIsUnheld
<1>8. /\ Good(Enqueue(s1, v, r))
      /\ Enqueue(s1, v, r).regBitmap = s1.regBitmap
      /\ v \in Vals  => Enqueue(s1, v, r).loadRegId = [s1.loadRegId EXCEPT ![v] = r]
      /\ v = NullVal => Enqueue(s1, v, r).loadRegId = s1.loadRegId
  BY <1>4, <1>5, <1>6, <1>7, GrantGood
<1> QED
  BY <1>1, <1>2, <1>4, <1>8 DEF r

(* An allocation that spills: the register of the head of the queue.       *)
LEMMA AllocateSpill ==
  ASSUME NEW st, Good(st), NEW v \in Vals \cup {NullVal}, NEW no,
         ~HasOne(st, v), FreeRegs(st) = {}, st.regValues # << >>
  PROVE  LET r == st.loadRegId[Head(st.regValues)] IN
         /\ Head(st.regValues) \in Vals
         /\ Head(st.regValues) # v
         /\ r \in Regs
         /\ Good(Allocate(st, v, no))
         /\ Allocate(st, v, no).regBitmap = st.regBitmap
         /\ v \in Vals  => Allocate(st, v, no).loadRegId =
                             [st.loadRegId EXCEPT ![Head(st.regValues)] = NoReg, ![v] = r]
         /\ v = NullVal => Allocate(st, v, no).loadRegId =
                             [st.loadRegId EXCEPT ![Head(st.regValues)] = NoReg]
<1> DEFINE h  == Head(st.regValues)
           r  == st.loadRegId[h]
           s1 == Dequeue(st, 1)
<1>1. /\ st \in Allocators /\ Consistent(st) /\ Marked(st)
      /\ st.regValues \in Seq(Vals) /\ st.loadRegId \in [Vals -> Regs \cup {NoReg}]
      /\ st.regBitmap \subseteq Regs
  BY DEF Good, Allocators
<1>2. 1 \in DOMAIN st.regValues /\ h = st.regValues[1] /\ h \in Vals
  BY <1>1
<1>3. Loaded(st, h) /\ h # v /\ r \in Regs /\ r \in st.regBitmap
  <2>1. Loaded(st, h)
    BY <1>1, <1>2 DEF Consistent, InQueue
  <2> QED
    BY <1>1, <1>2, <2>1, ValsAssumption DEF HasOne, Loaded, Marked
<1>4. Granted(st, v, no) = r
  BY DEF Granted
<1>5. Allocate(st, v, no) = Enqueue(s1, v, r)
  BY <1>4 DEF Allocate, Spills
<1>6. /\ s1 \in Allocators /\ Consistent(s1)
      /\ s1.regBitmap = st.regBitmap /\ s1.usedBitmap = st.usedBitmap
      /\ s1.loadRegId = [st.loadRegId EXCEPT ![h] = NoReg]
  <2> HIDE DEF h
  <2> QED
    BY <1>1, <1>2, DequeueFacts
<1> HIDE DEF s1, r, h
<1>7. \A w \in Vals : s1.loadRegId[w] = IF w = h THEN NoReg ELSE st.loadRegId[w]
  BY <1>1, <1>2, <1>6
<1>8. \A w \in Vals : s1.loadRegId[w] # r
  <2>1. \A w \in Vals : st.loadRegId[w] = r => w = h
    BY <1>1, <1>2, <1>3 DEF Consistent, r
  <2> QED
    BY <1>3, <1>7, <2>1, NoRegIsNoRegister
<1>9. Marked(s1) /\ s1.regBitmap \subseteq s1.usedBitmap /\ r \in s1.regBitmap
  BY <1>1, <1>3, <1>6, <1>7 DEF Marked, Loaded, Good
<1>10. v \in Vals => ~Loaded(s1, v)
  BY <1>3, <1>7, ValsAssumption DEF HasOne, Loaded
<1>11. /\ Good(Enqueue(s1, v, r))
       /\ Enqueue(s1, v, r).regBitmap = s1.regBitmap
       /\ v \in Vals  => Enqueue(s1, v, r).loadRegId = [s1.loadRegId EXCEPT ![v] = r]
       /\ v = NullVal => Enqueue(s1, v, r).loadRegId = s1.loadRegId
  BY <1>6, <1>8, <1>9, <1>10, GrantGood, ZenonT(40)
<1> QED
  BY <1>2, <1>3, <1>5, <1>6, <1>11 DEF r, h

-----------------------------------------------------------------------------
(* What each call does, at once to the inductive invariant and to the pool *)
(* of registers.                                                           *)

(* Only a value in the register, or else the bitmap, decides its holder.   *)
LEMMA HolderIsVal ==
  ASSUME NEW st, Good(st), NEW v \in Vals, NEW no \in Regs, st.loadRegId[v] = no
  PROVE  Holder(st)[no] = v
BY NoRegIsNoRegister DEF Holder, Good, Consistent, Loaded

(* A register without a value is held anonymously, or free.                *)
LEMMA HolderIsNoVal ==
  ASSUME NEW st, NEW no \in Regs, \A v \in Vals : st.loadRegId[v] # no
  PROVE  Holder(st)[no] = IF no \in st.regBitmap THEN NullVal ELSE Nobody
BY DEF Holder

(* A register changes hands, the others do not.                            *)
SameElsewhere(st, new, r) ==
  \A no \in Regs \ {r} : /\ \A v \in Vals : st.loadRegId[v] = no <=> new.loadRegId[v] = no
                         /\ no \in st.regBitmap <=> no \in new.regBitmap

(* An allocator that differs only at register r differs only there as a    *)
(* pool.                                                                   *)
LEMMA HolderChange ==
  ASSUME NEW st, NEW new, NEW r \in Regs, SameElsewhere(st, new, r)
  PROVE  Holder(new) = [Holder(st) EXCEPT ![r] = Holder(new)[r]]
<1>1. ASSUME NEW no \in Regs \ {r} PROVE Holder(new)[no] = Holder(st)[no]
  <2>1. \A v \in Vals : new.loadRegId[v] = no <=> st.loadRegId[v] = no
    BY DEF SameElsewhere
  <2>2. no \in new.regBitmap <=> no \in st.regBitmap
    BY DEF SameElsewhere
  <2>3. CASE \E v \in Vals : st.loadRegId[v] = no
    <3>1. (CHOOSE v \in Vals : new.loadRegId[v] = no) = (CHOOSE v \in Vals : st.loadRegId[v] = no)
      BY <2>1
    <3> QED
      BY <2>1, <2>3, <3>1 DEF Holder
  <2>4. CASE ~\E v \in Vals : st.loadRegId[v] = no
    BY <2>1, <2>2, <2>4, HolderIsNoVal
  <2> QED
    BY <2>3, <2>4
<1>2. DOMAIN Holder(new) = Regs /\ DOMAIN Holder(st) = Regs
      /\ Holder(new) = [no \in Regs |-> Holder(new)[no]]
  BY DEF Holder
<1> QED
  BY <1>1, <1>2

(* A free register has nobody as its holder, and a value off its register  *)
(* is no holder.                                                           *)
LEMMA FreeHasNobody ==
  ASSUME NEW st, Good(st), NEW no \in Regs
  PROVE  no \in FreeRegs(st) <=> Holder(st)[no] = Nobody
<1>1. CASE \E v \in Vals : st.loadRegId[v] = no
  <2>1. PICK v \in Vals : st.loadRegId[v] = no
    BY <1>1
  <2>2. no \in st.regBitmap
    BY <2>1, NoRegIsNoRegister DEF Good, Marked, Loaded
  <2> QED
    BY <2>1, <2>2, HolderIsVal, ValsAssumption DEF FreeRegs
<1>2. CASE \A v \in Vals : st.loadRegId[v] # no
  BY <1>2, HolderIsNoVal, ValsAssumption DEF FreeRegs
<1> QED
  BY <1>1, <1>2

(* A value without a register holds none in the pool.                      *)
LEMMA NotLoadedHoldsNothing ==
  ASSUME NEW st, Good(st), NEW v \in Vals, ~Loaded(st, v), NEW no \in Regs
  PROVE  Holder(st)[no] # v
<1>1. CASE \E w \in Vals : st.loadRegId[w] = no
  <2>1. PICK w \in Vals : st.loadRegId[w] = no
    BY <1>1
  <2>2. Holder(st)[no] = w
    BY <2>1, HolderIsVal
  <2> QED
    BY <2>1, <2>2, NoRegIsNoRegister DEF Loaded
<1>2. CASE \A w \in Vals : st.loadRegId[w] # no
  BY <1>2, HolderIsNoVal, ValsAssumption
<1> QED
  BY <1>1, <1>2

(* Init *)
LEMMA InitGood == Init => Good(alloc) /\ Pool!Init
<1> SUFFICES ASSUME Init PROVE Good(alloc) /\ Pool!Init
  OBVIOUS
<1>1. /\ alloc.regBitmap = {} /\ alloc.usedBitmap = {} /\ alloc.regValues = << >>
      /\ alloc.loadRegId = [v \in Vals |-> NoReg] /\ alloc \in Allocators
  BY DEF Init, NewAllocator, Allocators
<1>2. Good(alloc)
  BY <1>1, NoRegIsNoRegister DEF Good, Consistent, Marked, Loaded, InQueue
<1>3. Holder(alloc) = [no \in Regs |-> Nobody]
  BY <1>1, NoRegIsNoRegister DEF Holder
<1> QED
  BY <1>2, <1>3 DEF Pool!Init

(* Free(int32_t) makes nobody the holder, and keeps the invariant.         *)
LEMMA FreeRegStep ==
  ASSUME NEW st, Good(st), NEW no \in Regs
  PROVE  /\ Good(FreeReg(st, no))
         /\ Holder(FreeReg(st, no)) = [Holder(st) EXCEPT ![no] = Nobody]
<1> DEFINE new == FreeReg(st, no)
<1>1. /\ Good(new) /\ new.regBitmap = st.regBitmap \ {no}
      /\ \A v \in Vals : new.loadRegId[v] = IF st.loadRegId[v] = no THEN NoReg ELSE st.loadRegId[v]
  BY FreeRegGood
<1> HIDE DEF new
<1>2. Holder(new)[no] = Nobody
  <2>1. \A v \in Vals : new.loadRegId[v] # no
    BY <1>1, NoRegIsNoRegister
  <2> QED
    BY <1>1, <2>1, HolderIsNoVal
<1>3. Holder(new) = [Holder(st) EXCEPT ![no] = Holder(new)[no]]
  <2>1. SameElsewhere(st, new, no)
    BY <1>1, NoRegIsNoRegister DEF SameElsewhere
  <2>2. no \in Regs
    BY <1>1, <1>2
  <2> QED
    BY <2>1, <2>2, HolderChange
<1> QED
  BY <1>1, <1>2, <1>3 DEF new

(* Free of a value releases its register, and keeps the invariant.         *)
(* invariant.                                                              *)
LEMMA FreeValStep ==
  ASSUME NEW st, Good(st), NEW v \in Vals, Loaded(st, v)
  PROVE  /\ st.loadRegId[v] \in Regs
         /\ Good(FreeVal(st, v))
         /\ Holder(FreeVal(st, v)) = [Holder(st) EXCEPT ![st.loadRegId[v]] = Nobody]
<1> DEFINE new == FreeVal(st, v)
           no  == st.loadRegId[v]
<1>1. /\ Good(new) /\ new.regBitmap = st.regBitmap \ {no}
      /\ new.loadRegId = [st.loadRegId EXCEPT ![v] = NoReg]
  BY FreeValGood
<1>2. no \in Regs /\ st.loadRegId \in [Vals -> Regs \cup {NoReg}]
      /\ \A w \in Vals : st.loadRegId[w] = no => w = v
  BY DEF Good, Allocators, Loaded, Consistent
<1> HIDE DEF new
<1>3. \A w \in Vals : new.loadRegId[w] = IF w = v THEN NoReg ELSE st.loadRegId[w]
  BY <1>1, <1>2
<1> HIDE DEF no
<1>4. st.loadRegId[v] = no
  BY DEF no
<1>5. Holder(new)[no] = Nobody
  <2>1. \A w \in Vals : new.loadRegId[w] # no
    BY <1>2, <1>3, NoRegIsNoRegister
  <2> QED
    BY <1>1, <1>2, <2>1, HolderIsNoVal
<1>6. Holder(new) = [Holder(st) EXCEPT ![no] = Holder(new)[no]]
  <2>1. SameElsewhere(st, new, no)
    BY <1>1, <1>2, <1>3, <1>4, NoRegIsNoRegister DEF SameElsewhere
  <2>2. no \in Regs
    BY <1>1, <1>2
  <2> QED
    BY <2>1, <2>2, HolderChange
<1> QED
  BY <1>1, <1>2, <1>5, <1>6 DEF new, no

(* Allocate with a free register gives that register to v.                 *)
LEMMA AllocateFreeStep ==
  ASSUME NEW st, Good(st), NEW v \in Vals \cup {NullVal}, NEW no,
         ~HasOne(st, v), FreeRegs(st) # {}
  PROVE  LET r == Granted(st, v, no) IN
         /\ r \in FreeRegs(st)
         /\ Good(Allocate(st, v, no))
         /\ Holder(Allocate(st, v, no)) = [Holder(st) EXCEPT ![r] = v]
<1> DEFINE r   == Granted(st, v, no)
           new == Allocate(st, v, no)
<1>1. /\ r \in FreeRegs(st) /\ Good(new) /\ new.regBitmap = st.regBitmap \cup {r}
      /\ v \in Vals  => new.loadRegId = [st.loadRegId EXCEPT ![v] = r]
      /\ v = NullVal => new.loadRegId = st.loadRegId
  BY AllocateFree
<1> HIDE DEF r, new
<1>2. r \in Regs /\ st.loadRegId \in [Vals -> Regs \cup {NoReg}]
      /\ \A w \in Vals : st.loadRegId[w] # r
  BY <1>1, FreeIsUnheld DEF Good, Allocators, FreeRegs
<1>3. v \in Vals => st.loadRegId[v] = NoReg
  BY ValsAssumption DEF HasOne, Loaded
<1>4. \A w \in Vals : new.loadRegId[w] = IF w = v THEN r ELSE st.loadRegId[w]
  BY <1>1, <1>2, ValsAssumption
<1>5. Holder(new)[r] = v
  <2>1. CASE v \in Vals
    BY <1>1, <1>2, <1>4, <2>1, HolderIsVal
  <2>2. CASE v = NullVal
    BY <1>1, <1>2, <1>4, <2>2, ValsAssumption, HolderIsNoVal
  <2> QED
    BY <2>1, <2>2
<1>6. Holder(new) = [Holder(st) EXCEPT ![r] = Holder(new)[r]]
  <2>1. SameElsewhere(st, new, r)
    BY <1>1, <1>2, <1>3, <1>4, NoRegIsNoRegister DEF SameElsewhere
  <2>2. r \in Regs
    BY <1>1, <1>2
  <2> QED
    BY <2>1, <2>2, HolderChange
<1> QED
  BY <1>1, <1>5, <1>6 DEF r, new

(* Allocate without a free register gives v the register of the oldest     *)
(* value.                                                                  *)
LEMMA AllocateSpillStep ==
  ASSUME NEW st, Good(st), NEW v \in Vals \cup {NullVal}, NEW no,
         ~HasOne(st, v), FreeRegs(st) = {}, st.regValues # << >>
  PROVE  LET r == st.loadRegId[Head(st.regValues)] IN
         /\ r \in Regs
         /\ Holder(st)[r] \in Vals
         /\ Good(Allocate(st, v, no))
         /\ Holder(Allocate(st, v, no)) = [Holder(st) EXCEPT ![r] = v]
<1> DEFINE h   == Head(st.regValues)
           r   == st.loadRegId[h]
           new == Allocate(st, v, no)
<1>1. /\ h \in Vals /\ h # v /\ r \in Regs /\ Good(new) /\ new.regBitmap = st.regBitmap
      /\ v \in Vals  => new.loadRegId = [st.loadRegId EXCEPT ![h] = NoReg, ![v] = r]
      /\ v = NullVal => new.loadRegId = [st.loadRegId EXCEPT ![h] = NoReg]
  BY AllocateSpill, ZenonT(40)
<1> HIDE DEF h, new
<1>2. st.loadRegId \in [Vals -> Regs \cup {NoReg}] /\ r \in st.regBitmap
      /\ \A w \in Vals : st.loadRegId[w] = r => w = h
  BY <1>1, NoRegIsNoRegister DEF Good, Allocators, Consistent, Marked, Loaded
<1>3. v \in Vals => st.loadRegId[v] = NoReg
  BY ValsAssumption DEF HasOne, Loaded
<1>4. \A w \in Vals : new.loadRegId[w] = IF w = v THEN r ELSE IF w = h THEN NoReg ELSE st.loadRegId[w]
  <2>1. CASE v \in Vals
    BY <1>1, <1>2, <2>1, ValsAssumption
  <2>2. CASE v = NullVal
    BY <1>1, <1>2, <2>2, ValsAssumption
  <2> QED
    BY <2>1, <2>2
<1>5. Holder(st)[r] = h
  BY <1>1, HolderIsVal
<1> HIDE DEF r
<1>6. st.loadRegId[h] = r
  BY DEF r
<1>7. Holder(new)[r] = v
  <2>1. CASE v \in Vals
    BY <1>1, <1>4, <2>1, HolderIsVal
  <2>2. CASE v = NullVal
    <3>1. \A w \in Vals : new.loadRegId[w] # r
      BY <1>1, <1>2, <1>4, <2>2, ValsAssumption, NoRegIsNoRegister
    <3> QED
      BY <1>1, <1>2, <2>2, <3>1, HolderIsNoVal
  <2> QED
    BY <2>1, <2>2
<1>8. Holder(new) = [Holder(st) EXCEPT ![r] = Holder(new)[r]]
  <2>1. SameElsewhere(st, new, r)
    BY <1>1, <1>3, <1>4, <1>6, NoRegIsNoRegister DEF SameElsewhere
  <2>2. r \in Regs
    BY <1>1, <1>2
  <2> QED
    BY <2>1, <2>2, HolderChange
<1> QED
  BY <1>1, <1>5, <1>7, <1>8 DEF r, h, new

-----------------------------------------------------------------------------
(* The calls as steps of the allocator and of the pool. *)

IndInv == Good(alloc) /\ crashed \in BOOLEAN

PoolStep == Pool!Next \/ Holder(alloc)' = Holder(alloc)

(* Four ways for a holder to change are steps of the pool.                 *)
LEMMA TakeStep ==
  ASSUME IndInv, NEW r \in FreeRegs(alloc), NEW v \in Vals \cup {NullVal},
         v \in Vals => ~Loaded(alloc, v),
         Holder(alloc)' = [Holder(alloc) EXCEPT ![r] = v]
  PROVE  PoolStep
<1>1. r \in Regs /\ Holder(alloc)[r] = Nobody
  BY FreeHasNobody DEF FreeRegs, IndInv
<1>2. Pool!MayReceive(v)
  BY NotLoadedHoldsNothing DEF Pool!MayReceive, Pool!Holds, IndInv
<1>3. Pool!Take(r, v)
  BY <1>1, <1>2 DEF Pool!Take
<1> QED
  BY <1>1, <1>3 DEF PoolStep, Pool!Next

(* A value loses its register when none is free.                           *)
LEMMA StealStep ==
  ASSUME IndInv, FreeRegs(alloc) = {}, NEW r \in Regs, NEW v \in Vals \cup {NullVal},
         v \in Vals => ~Loaded(alloc, v), Holder(alloc)[r] \in Vals,
         Holder(alloc)' = [Holder(alloc) EXCEPT ![r] = v]
  PROVE  PoolStep
<1>1. ~Pool!Holds(Nobody)
  BY FreeHasNobody DEF Pool!Holds, IndInv
<1>2. Pool!MayReceive(v)
  BY NotLoadedHoldsNothing DEF Pool!MayReceive, Pool!Holds, IndInv
<1>3. Pool!Steal(r, v)
  BY <1>1, <1>2 DEF Pool!Steal
<1> QED
  BY <1>3 DEF PoolStep, Pool!Next

(* A register is given back.                                               *)
LEMMA ReleaseStep ==
  ASSUME NEW r \in Regs, Holder(alloc)' = [Holder(alloc) EXCEPT ![r] = Nobody]
  PROVE  PoolStep
BY DEF PoolStep, Pool!Next, Pool!Release

(* A register is claimed by its number.                                    *)
LEMMA ClaimStep ==
  ASSUME NEW r \in Regs, Holder(alloc)' = [Holder(alloc) EXCEPT ![r] = NullVal]
  PROVE  PoolStep
BY DEF PoolStep, Pool!Next, Pool!Claim

(* What is said of the allocator that a call returns holds after the step. *)
LEMMA HolderPrime ==
  ASSUME NEW new, alloc' = new
  PROVE  Holder(alloc)' = Holder(new)
BY DEF Holder

(* Likewise for the invariant.                                             *)
LEMMA GoodPrime ==
  ASSUME NEW new, alloc' = new, Good(new)
  PROVE  Good(alloc)'
BY DEF Good, Consistent, Marked, Loaded, InQueue

(* One lemma per action.                                                   *)

(* Allocate(Value*, int32_t): the value has a register, one is free, one   *)
(* is taken from a value, or there is none to take.                        *)
LEMMA CallAllocateStep ==
  ASSUME IndInv, NEW v \in Vals \cup {NullVal}, NEW no \in Regs \cup {NoReg}, CallAllocate(v, no)
  PROVE  IndInv' /\ PoolStep
<1>1. CASE alloc' = alloc
  <2>1. crashed' \in BOOLEAN
    BY DEF CallAllocate, IndInv
  <2>2. Holder(alloc)' = Holder(alloc)
    BY <1>1, HolderPrime
  <2>3. Good(alloc)'
    BY <1>1, GoodPrime DEF IndInv
  <2> QED
    BY <2>1, <2>2, <2>3 DEF IndInv, PoolStep
<1>2. CASE alloc' # alloc
  <2>1. /\ alloc' = Allocate(alloc, v, no) /\ crashed' \in BOOLEAN
        /\ AllocateDefined(alloc, v) /\ ~HasOne(alloc, v)
    BY <1>2 DEF CallAllocate, IndInv, Allocate
  <2>2. v \in Vals => ~Loaded(alloc, v)
    BY <2>1, ValsAssumption DEF HasOne
  <2>3. Holder(alloc)' = Holder(Allocate(alloc, v, no))
    BY <2>1, HolderPrime
  <2>4. CASE FreeRegs(alloc) # {}
    <3>1. PICK r \in FreeRegs(alloc) :
            /\ Good(Allocate(alloc, v, no))
            /\ Holder(Allocate(alloc, v, no)) = [Holder(alloc) EXCEPT ![r] = v]
      BY <2>1, <2>4, AllocateFreeStep DEF IndInv
    <3>2. PoolStep
      BY <2>2, <2>3, <3>1, TakeStep
    <3> QED
      BY <2>1, <3>1, <3>2, GoodPrime DEF IndInv
  <2>5. CASE FreeRegs(alloc) = {}
    <3>1. alloc.regValues # << >>
      BY <2>1, <2>5 DEF AllocateDefined, Spills
    <3>2. PICK r \in Regs :
            /\ Holder(alloc)[r] \in Vals
            /\ Good(Allocate(alloc, v, no))
            /\ Holder(Allocate(alloc, v, no)) = [Holder(alloc) EXCEPT ![r] = v]
      BY <2>1, <2>5, <3>1, AllocateSpillStep DEF IndInv
    <3>3. PoolStep
      BY <2>2, <2>3, <2>5, <3>2, StealStep
    <3> QED
      BY <2>1, <3>2, <3>3, GoodPrime DEF IndInv
  <2> QED
    BY <2>4, <2>5
<1> QED
  BY <1>1, <1>2

(* Allocate(int32_t) takes the register from whoever has it.               *)
LEMMA CallClaimStep ==
  ASSUME IndInv, NEW no \in Regs, CallClaim(no)
  PROVE  IndInv' /\ PoolStep
<1> DEFINE s1  == IF no \in alloc.regBitmap THEN FreeReg(alloc, no) ELSE alloc
           new == BitmapSet(s1, no)
<1>1. alloc' = new /\ crashed' \in BOOLEAN
  BY DEF CallClaim, Claim, IndInv
<1>2. /\ Good(s1) /\ no \notin s1.regBitmap
      /\ Holder(s1) = [Holder(alloc) EXCEPT ![no] = Nobody]
  <2>1. CASE no \in alloc.regBitmap
    BY <2>1, FreeRegGood, FreeRegStep DEF IndInv
  <2>2. CASE no \notin alloc.regBitmap
    <3>1. Holder(alloc)[no] = Nobody
      BY <2>2, FreeHasNobody DEF FreeRegs, IndInv
    <3>2. Holder(alloc) = [Holder(alloc) EXCEPT ![no] = Nobody]
      BY <3>1 DEF Holder
    <3> QED
      BY <2>2, <3>2 DEF IndInv
  <2> QED
    BY <2>1, <2>2
<1> HIDE DEF s1
<1>3. /\ new \in Allocators /\ Consistent(new)
      /\ new.regBitmap = s1.regBitmap \cup {no} /\ new.usedBitmap = s1.usedBitmap \cup {no}
      /\ new.loadRegId = s1.loadRegId
  BY <1>2, BitmapSetFacts DEF Good
<1> HIDE DEF new
<1>4. Good(new)
  BY <1>2, <1>3 DEF Good, Marked, Loaded
<1>5. \A v \in Vals : new.loadRegId[v] # no
  BY <1>2, <1>3, FreeIsUnheld DEF FreeRegs
<1>6. Holder(new)[no] = NullVal
  BY <1>3, <1>5, HolderIsNoVal
<1>7. Holder(new) = [Holder(s1) EXCEPT ![no] = NullVal]
  <2>1. SameElsewhere(s1, new, no)
    BY <1>3 DEF SameElsewhere
  <2> QED
    BY <1>6, <2>1, HolderChange
<1>8. Holder(alloc)' = [Holder(alloc) EXCEPT ![no] = NullVal]
  <2>1. Holder(alloc)' = Holder(new)
    BY <1>1, HolderPrime
  <2> QED
    BY <1>2, <1>7, <2>1 DEF Holder
<1> QED
  BY <1>1, <1>4, <1>8, ClaimStep, GoodPrime DEF IndInv

(* Free of a value, which may have no register.                            *)
LEMMA CallFreeValStep ==
  ASSUME IndInv, NEW v \in Vals \cup {NullVal}, CallFreeVal(v)
  PROVE  IndInv' /\ PoolStep
<1>1. CASE ~HasOne(alloc, v)
  <2>1. alloc' = alloc /\ crashed' \in BOOLEAN
    BY <1>1 DEF CallFreeVal, FreeVal, IndInv
  <2> QED
    BY <2>1, GoodPrime, HolderPrime DEF IndInv, PoolStep
<1>2. CASE HasOne(alloc, v)
  <2>1. v \in Vals /\ Loaded(alloc, v)
    BY <1>2 DEF HasOne
  <2>2. alloc' = FreeVal(alloc, v) /\ crashed' \in BOOLEAN
    BY DEF CallFreeVal, IndInv
  <2>3. /\ alloc.loadRegId[v] \in Regs
        /\ Good(FreeVal(alloc, v))
        /\ Holder(FreeVal(alloc, v)) = [Holder(alloc) EXCEPT ![alloc.loadRegId[v]] = Nobody]
    BY <2>1, FreeValStep DEF IndInv
  <2>4. Holder(alloc)' = Holder(FreeVal(alloc, v))
    BY <2>2, HolderPrime
  <2> QED
    BY <2>2, <2>3, <2>4, ReleaseStep, GoodPrime DEF IndInv
<1> QED
  BY <1>1, <1>2

(* Free(int32_t), for a register that may be free already.                 *)
LEMMA CallFreeRegStep ==
  ASSUME IndInv, NEW no \in Regs \cup {NoReg}, CallFreeReg(no)
  PROVE  IndInv' /\ PoolStep
<1>1. CASE no = NoReg
  <2>1. alloc' = alloc /\ crashed' \in BOOLEAN
    BY <1>1 DEF CallFreeReg, FreeReg, IndInv
  <2> QED
    BY <2>1, GoodPrime, HolderPrime DEF IndInv, PoolStep
<1>2. CASE no \in Regs
  <2>1. alloc' = FreeReg(alloc, no) /\ crashed' \in BOOLEAN
    BY DEF CallFreeReg, IndInv
  <2>2. /\ Good(FreeReg(alloc, no))
        /\ Holder(FreeReg(alloc, no)) = [Holder(alloc) EXCEPT ![no] = Nobody]
    BY <1>2, FreeRegStep DEF IndInv
  <2>3. Holder(alloc)' = Holder(FreeReg(alloc, no))
    BY <2>1, HolderPrime
  <2> QED
    BY <1>2, <2>1, <2>2, <2>3, ReleaseStep, GoodPrime DEF IndInv
<1> QED
  BY <1>1, <1>2

(* Every call keeps the invariant and is a step of the pool.               *)
LEMMA NextStep ==
  ASSUME IndInv, [Next]_vars
  PROVE  IndInv' /\ PoolStep
<1>1. ASSUME NEW v \in Vals \cup {NullVal}, NEW no \in Regs \cup {NoReg}, CallAllocate(v, no)
      PROVE  IndInv' /\ PoolStep
  BY <1>1, CallAllocateStep
<1>2. ASSUME NEW no \in Regs, CallClaim(no) PROVE IndInv' /\ PoolStep
  BY <1>2, CallClaimStep
<1>3. ASSUME NEW v \in Vals \cup {NullVal}, CallFreeVal(v) PROVE IndInv' /\ PoolStep
  BY <1>3, CallFreeValStep
<1>4. ASSUME NEW no \in Regs \cup {NoReg}, CallFreeReg(no) PROVE IndInv' /\ PoolStep
  BY <1>4, CallFreeRegStep
<1>5. CASE UNCHANGED vars
  BY <1>5, GoodPrime, HolderPrime DEF vars, IndInv, PoolStep
<1> QED
  BY <1>1, <1>2, <1>3, <1>4, <1>5 DEF Next

(* The allocator is consistent after any calls.                            *)
LEMMA IndInvHolds == Spec => []IndInv
<1>1. Init => IndInv
  BY InitGood DEF Init, IndInv
<1>2. IndInv /\ [Next]_vars => IndInv'
  BY NextStep
<1> QED
  BY <1>1, <1>2, PTL DEF Spec

(* Whatever is called, the bitmap, the queue and the registers that values *)
(* remember agree, and no two values are in one register.                  *)
THEOREM AllocatorIsConsistent ==
  Spec => [](TypeOK /\ QueueMatchesRegisters /\ NoSharedRegister)
<1>1. IndInv => TypeOK /\ QueueMatchesRegisters /\ NoSharedRegister
  BY DEF IndInv, Good, Consistent, Marked, TypeOK, QueueMatchesRegisters, NoSharedRegister
<1> QED
  BY <1>1, IndInvHolds, PTL

(* Bitmap, queue and register numbers have their types after any calls.    *)
THEOREM AllocatorIsWellTyped == Spec => []TypeOK
<1>1. IndInv => TypeOK
  BY DEF IndInv, Good, Consistent, Marked, TypeOK
<1> QED
  BY <1>1, IndInvHolds, PTL

(* The queue holds exactly the values that remember a register.            *)
THEOREM QueueIsExact == Spec => []QueueMatchesRegisters
<1>1. IndInv => QueueMatchesRegisters
  BY DEF IndInv, Good, Consistent, Marked, TypeOK, QueueMatchesRegisters
<1> QED
  BY <1>1, IndInvHolds, PTL

(* The allocator is a pool of registers with one holder each: a register   *)
(* that is in use goes to another holder only if none is free, and then    *)
(* only from a value.                                                      *)
THEOREM AllocatorImplementsPool == Spec => ImplementsPool
<1>1. Init => Pool!Init
  BY InitGood
<1>2. IndInv /\ [Next]_vars => [Pool!Next]_(Holder(alloc))
  BY NextStep DEF PoolStep
<1> QED
  BY <1>1, <1>2, IndInvHolds, PTL DEF Spec, ImplementsPool, Pool!Spec
=============================================================================
