------------------------- MODULE RegisterAllocator -------------------------
(***************************************************************************)
(* The register allocator of the ARM32 back end                            *)
(* (backend/arm32/SimpleRegisterAllocator.cpp): a bitmap of the registers  *)
(* in use, and the queue of the values that were loaded into registers,    *)
(* oldest first.  Each value remembers its register (Value::getLoadRegId). *)
(*                                                                         *)
(* Every method is an operator on the allocator's state, so that the       *)
(* instruction selector can make several calls while it translates one     *)
(* instruction.  The actions are those calls, in any order a client of the *)
(* class may make them.                                                    *)
(***************************************************************************)
EXTENDS Integers, Sequences, SequencesExt

CONSTANTS
  Vals,               \* the IR values that get loaded into registers
  NullVal,            \* the null Value pointer: an allocation for no value
  Nobody,             \* in the properties: who holds a free register
  maxUsableRegNum     \* registers 0 .. maxUsableRegNum - 1 are handed out

ASSUME ValsAssumption == NullVal \notin Vals /\ Nobody \notin Vals \cup {NullVal}
ASSUME RegNumAssumption == maxUsableRegNum \in Nat \ {0}

Regs  == 0 .. maxUsableRegNum - 1
NoReg == -1

-----------------------------------------------------------------------------
NewAllocator ==
  [regBitmap |-> {}, usedBitmap |-> {}, regValues |-> << >>,
   loadRegId |-> [v \in Vals |-> NoReg]]

Loaded(st, v) == st.loadRegId[v] # NoReg

(* Wrong: the register is not recorded as used. *)
BitmapSetUnrecorded(st, no) == [st EXCEPT !.regBitmap = @ \cup {no}]

BitmapSet(st, no) == [st EXCEPT !.regBitmap = @ \cup {no}, !.usedBitmap = @ \cup {no}]

(* Wrong: the value stays in the queue. *)
DequeueLate(st, k) == [st EXCEPT !.loadRegId[st.regValues[k]] = NoReg]

(* Takes the value at position k of the queue off its register. *)
Dequeue(st, k) ==
  [st EXCEPT !.loadRegId[st.regValues[k]] = NoReg, !.regValues = RemoveAt(@, k)]

(* Records that v was loaded into register no; nothing for no value. *)
Enqueue(st, v, no) ==
  IF v = NullVal THEN st
  ELSE [st EXCEPT !.loadRegId[v] = no, !.regValues = Append(@, v)]

(* The register a call of Allocate returns: the one the value has, else    *)
(* the one asked for, else the lowest free one, else the register of the   *)
(* value that is longest in the queue.                                     *)
HasOne(st, v) == v # NullVal /\ Loaded(st, v)

FreeRegs(st) == Regs \ st.regBitmap

(* Wrong: the bitmap is searched for any register. *)
GrantedLowest(st, v, no) == IF HasOne(st, v) THEN st.loadRegId[v] ELSE Min(Regs)

(* Wrong: the bitmap is searched from its end. *)
GrantedHighest(st, v, no) ==
  IF HasOne(st, v) THEN st.loadRegId[v]
  ELSE IF FreeRegs(st) # {} THEN Max(FreeRegs(st))
  ELSE st.loadRegId[Head(st.regValues)]

Granted(st, v, no) ==
  IF HasOne(st, v) THEN st.loadRegId[v]
  ELSE IF no \in FreeRegs(st) THEN no
  ELSE IF FreeRegs(st) # {} THEN Min(FreeRegs(st))
  ELSE st.loadRegId[Head(st.regValues)]

Spills(st, v) == FreeRegs(st) = {} /\ ~HasOne(st, v)

(* Taking the front of the empty queue is undefined. *)
AllocateDefined(st, v) == Spills(st, v) => st.regValues # << >>

Allocate(st, v, no) ==
  LET granted == Granted(st, v, no)
  IN  IF HasOne(st, v) THEN st
      ELSE IF Spills(st, v) THEN Enqueue(Dequeue(st, 1), v, granted)
      ELSE Enqueue(BitmapSet(st, granted), v, granted)

BitmapReset(st, no) == [st EXCEPT !.regBitmap = @ \ {no}]

FreeReg(st, no) ==
  LET in == {k \in DOMAIN st.regValues : st.loadRegId[st.regValues[k]] = no}
  IN  IF no = NoReg THEN st
      ELSE IF in = {} THEN BitmapReset(st, no)
      ELSE Dequeue(BitmapReset(st, no), Min(in))

FreeVal(st, v) ==
  LET at == {k \in DOMAIN st.regValues : st.regValues[k] = v}
  IN  IF ~HasOne(st, v) THEN st
      ELSE Dequeue(BitmapReset(st, st.loadRegId[v]), Min(at))

(* Allocate(int32_t): takes the register from whoever has it. *)
Claim(st, no) ==
  BitmapSet(IF no \in st.regBitmap THEN FreeReg(st, no) ELSE st, no)

-----------------------------------------------------------------------------
VARIABLES
  alloc,    \* the allocator
  crashed   \* an undefined operation was executed

vars == << alloc, crashed >>

Init == alloc = NewAllocator /\ crashed = FALSE

(* Wrong: the register asked for is taken from its holder. *)
CallAllocateInsisting(v, no) ==
  /\ ~crashed /\ no # NoReg /\ ~HasOne(alloc, v)
  /\ alloc' = Enqueue(Claim(alloc, no), v, no) /\ UNCHANGED crashed

CallAllocate(v, no) ==
  /\ ~crashed
  /\ IF AllocateDefined(alloc, v)
     THEN alloc' = Allocate(alloc, v, no) /\ UNCHANGED crashed
     ELSE crashed' = TRUE /\ UNCHANGED alloc

CallClaim(no) == ~crashed /\ alloc' = Claim(alloc, no) /\ UNCHANGED crashed

CallFreeVal(v) == ~crashed /\ alloc' = FreeVal(alloc, v) /\ UNCHANGED crashed

CallFreeReg(no) == ~crashed /\ alloc' = FreeReg(alloc, no) /\ UNCHANGED crashed

Next ==
  \/ \E v \in Vals \cup {NullVal}, no \in Regs \cup {NoReg} : CallAllocate(v, no)
  \/ \E no \in Regs : CallClaim(no)
  \/ \E v \in Vals \cup {NullVal} : CallFreeVal(v)
  \/ \E no \in Regs \cup {NoReg} : CallFreeReg(no)

Spec == Init /\ [][Next]_vars

-----------------------------------------------------------------------------
(* Properties *)

Allocators ==
  [regBitmap  : SUBSET Regs,
   usedBitmap : SUBSET Regs,
   regValues  : Seq(Vals),
   loadRegId  : [Vals -> Regs \cup {NoReg}]]

(* The type invariant.  A value in a register keeps the bit of that        *)
(* register set, and every register in use was recorded as used.           *)
TypeOK ==
  /\ alloc \in Allocators
  /\ crashed \in BOOLEAN
  /\ alloc.regBitmap \subseteq alloc.usedBitmap

InQueue(st, v) == \E k \in DOMAIN st.regValues : st.regValues[k] = v

(* The queue holds exactly the values that are in a register, each once,   *)
(* and their registers are marked as in use: the three records the         *)
(* allocator keeps of the same fact never disagree.                        *)
QueueMatchesRegisters ==
  /\ \A v \in Vals : Loaded(alloc, v) <=> InQueue(alloc, v)
  /\ \A j, k \in DOMAIN alloc.regValues : alloc.regValues[j] = alloc.regValues[k] => j = k
  /\ \A v \in Vals : Loaded(alloc, v) => alloc.loadRegId[v] \in alloc.regBitmap

(* No two values are ever in the same register.                            *)
NoSharedRegister ==
  \A v, w \in Vals : Loaded(alloc, v) /\ alloc.loadRegId[v] = alloc.loadRegId[w] => v = w

(* The pool: who holds each register.                                      *)
Holder(st) ==
  [no \in Regs |->
    IF \E v \in Vals : st.loadRegId[v] = no
    THEN CHOOSE v \in Vals : st.loadRegId[v] = no
    ELSE IF no \in st.regBitmap THEN NullVal ELSE Nobody]

Pool == INSTANCE RegisterPool WITH Anonymous <- NullVal, holder <- Holder(alloc)

(* The allocator implements a pool in which every register has one holder: *)
(* a value, or no value (NullVal), or nobody.                              *)
ImplementsPool == Pool!Spec
=============================================================================
