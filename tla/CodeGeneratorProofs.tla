------------------------ MODULE CodeGeneratorProofs ------------------------
(***************************************************************************)
(* What the back end promises for every module the IR generator delivers:  *)
(* slots do not overlap, offsets can be encoded, branches arrive, and      *)
(* every register that an instruction takes is given back.                 *)
(*                                                                         *)
(* The instruction selector accumulates a record while it translates an    *)
(* instruction, some of it in loops over the operands of a call; so first  *)
(* comes what every part of it does to that record, then what a step does  *)
(* to the state.  For the registers it comes to the lists of edges: the    *)
(* two operands of an addition are the first two edges in its list, since  *)
(* they were added before any user of its result.                          *)
(***************************************************************************)
EXTENDS CodeGenerator, SequenceLemmas, FiniteSetTheorems

-----------------------------------------------------------------------------
(* Sequences of instructions *)

IsSeq(c) == c \in Seq({c[i] : i \in DOMAIN c})

(* An instruction that is neither a label nor a branch to one.             *)
Plain(inst) == inst.op # ":" /\ inst.op # "b"

PlainCode(c) == IsSeq(c) /\ \A i \in DOMAIN c : Plain(c[i])

(* The code c goes on from the code b with instructions of that kind.      *)
Continues(b, c) ==
  /\ IsSeq(c)
  /\ \A i \in DOMAIN b : i \in DOMAIN c /\ c[i] = b[i]
  /\ \A i \in DOMAIN c : i \in DOMAIN b \/ Plain(c[i])

(* The sequence c is a and then b.                                         *)
Joined(a, b, c) ==
  /\ IsSeq(c)
  /\ Len(a) \in Nat /\ Len(b) \in Nat /\ Len(c) = Len(a) + Len(b)
  /\ DOMAIN a = 1..Len(a) /\ DOMAIN b = 1..Len(b) /\ DOMAIN c = 1..Len(a) + Len(b)
  /\ \A i \in DOMAIN a : i \in DOMAIN c /\ c[i] = a[i]
  /\ \A j \in DOMAIN b : Len(a) + j \in DOMAIN c /\ c[Len(a) + j] = b[j]
  /\ \A i \in DOMAIN c : i \in DOMAIN a \/ \E j \in DOMAIN b : i = Len(a) + j

(* What concatenation puts where.                                          *)
LEMMA IsSeqConcat ==
  ASSUME NEW a, NEW b, IsSeq(a), IsSeq(b), NEW c, c = a \o b
  PROVE  Joined(a, b, c)
<1> DEFINE S == {a[i] : i \in DOMAIN a} \cup {b[i] : i \in DOMAIN b}
<1>1. a \in Seq(S) /\ b \in Seq(S)
  <2>1. ASSUME NEW T, T \subseteq S, NEW s \in Seq(T) PROVE s \in Seq(S)
    <3>1. Len(s) \in Nat /\ s = [i \in 1..Len(s) |-> s[i]] /\ \A i \in 1..Len(s) : s[i] \in T
      OBVIOUS
    <3>2. \A i \in 1..Len(s) : s[i] \in S
      BY <2>1, <3>1, Zenon
    <3> HIDE DEF S
    <3>3. [i \in 1..Len(s) |-> s[i]] \in Seq(S)
      BY <3>1, <3>2, IsASeq
    <3> QED
      BY <3>1, <3>3, Zenon
  <2>2. a \in Seq({a[i] : i \in DOMAIN a}) /\ b \in Seq({b[i] : i \in DOMAIN b})
    BY DEF IsSeq
  <2>3. {a[i] : i \in DOMAIN a} \subseteq S /\ {b[i] : i \in DOMAIN b} \subseteq S
    OBVIOUS
  <2> HIDE DEF S
  <2> QED
    BY <2>1, <2>2, <2>3
<1> HIDE DEF S
<1>2. /\ c \in Seq(S) /\ Len(c) = Len(a) + Len(b) /\ Len(a) \in Nat /\ Len(b) \in Nat
      /\ \A i \in DOMAIN a : i \in DOMAIN c /\ c[i] = a[i]
      /\ \A j \in DOMAIN b : Len(a) + j \in DOMAIN c /\ c[Len(a) + j] = b[j]
      /\ \A i \in DOMAIN c : i \in DOMAIN a \/ \E j \in DOMAIN b : i = Len(a) + j
  BY <1>1, ConcatElements
<1>3. DOMAIN a = 1..Len(a) /\ DOMAIN b = 1..Len(b) /\ DOMAIN c = 1..Len(a) + Len(b)
  BY <1>1, <1>2
<1>4. IsSeq(c)
  <2>1. \A i \in 1..Len(c) : c[i] \in {c[j] : j \in DOMAIN c}
    BY <1>2, <1>3
  <2>2. c = [i \in 1..Len(c) |-> c[i]]
    <3> SUFFICES ASSUME NEW d \in Seq(S) PROVE d = [i \in 1..Len(d) |-> d[i]]
      BY <1>2
    <3> QED
      OBVIOUS
  <2> DEFINE V == {c[j] : j \in DOMAIN c}
  <2>3. Len(c) \in Nat
    BY <1>2
  <2> HIDE DEF V
  <2>4. [i \in 1..Len(c) |-> c[i]] \in Seq(V)
    BY <2>1, <2>3, IsASeq DEF V
  <2> QED
    BY <2>2, <2>4 DEF IsSeq, V
<1> QED
  BY <1>2, <1>3, <1>4 DEF Joined

(* So is code of both kinds.                                               *)
LEMMA PlainConcat ==
  ASSUME NEW a, NEW b, PlainCode(a), PlainCode(b)
  PROVE  PlainCode(a \o b)
<1> SUFFICES ASSUME NEW c, c = a \o b PROVE PlainCode(c)
  OBVIOUS
<1>1. Joined(a, b, c)
  BY IsSeqConcat DEF PlainCode
<1> QED
  BY <1>1 DEF PlainCode, Joined

(* Code goes on when plain code is emitted.                                *)
LEMMA ContinuesPlain ==
  ASSUME NEW b, NEW c, Continues(b, c), NEW new, PlainCode(new)
  PROVE  Continues(b, c \o new)
<1> SUFFICES ASSUME NEW d, d = c \o new PROVE Continues(b, d)
  OBVIOUS
<1>1. Joined(c, new, d)
  BY IsSeqConcat DEF PlainCode, Continues
<1> QED
  BY <1>1 DEF PlainCode, Continues, Joined

(* No code is plain code.                                                  *)
LEMMA PlainNone == PlainCode(<< >>)
BY DEF PlainCode, IsSeq

(* So is one plain instruction.                                            *)
LEMMA PlainOne ==
  ASSUME NEW x, Plain(x)
  PROVE  PlainCode(<< x >>)
BY DEF PlainCode, IsSeq

-----------------------------------------------------------------------------
(* The sequences of ILocArm32 *)

LEMMA PlainInst ==
  ASSUME NEW op, NEW result, NEW arg1, NEW arg2, op # ":", op # "b"
  PROVE  PlainCode(<< ArmInst(op, result, arg1, arg2) >>)
<1>1. Plain(ArmInst(op, result, arg1, arg2))
  BY DEF Plain, ArmInst
<1> QED
  BY <1>1, PlainOne

(* Loading a number, of 16 bits or more, is plain code.                    *)
LEMMA LoadImmPlain ==
  ASSUME NEW rs, NEW n
  PROVE  PlainCode(load_imm(rs, n))
<1>1. PlainCode(<< ArmInst("movw", R(rs), Lower(n), Blank) >>)
  BY PlainInst DEF Lower, Operand
<1>2. PlainCode(<< ArmInst("movt", R(rs), Upper(n), Blank) >>)
  BY PlainInst DEF Upper, Operand
<1> QED
  BY <1>1, <1>2, PlainConcat, PlainNone DEF load_imm

(* Loading the address of a global variable is.                            *)
LEMMA LoadSymbolPlain ==
  ASSUME NEW rs, NEW id
  PROVE  PlainCode(load_symbol(rs, id))
<1>1. Plain(ArmInst("movw", R(rs), AddrLower(id), Blank)) /\ Plain(ArmInst("movt", R(rs), AddrUpper(id), Blank))
  BY DEF Plain, ArmInst, AddrLower, AddrUpper, Operand
<1>2. load_symbol(rs, id) = << ArmInst("movw", R(rs), AddrLower(id), Blank), ArmInst("movt", R(rs), AddrUpper(id), Blank) >>
  BY DEF load_symbol
<1> QED
  BY <1>1, <1>2 DEF PlainCode, IsSeq

(* An access to memory, by an offset or by a register.                     *)
LEMMA AccessPlain ==
  ASSUME NEW r, NEW base, NEW off
  PROVE  /\ PlainCode(<< Ldr(r, Disp(base, off)) >>) /\ PlainCode(<< Str(r, Disp(base, off)) >>)
         /\ PlainCode(<< Ldr(r, Index(base, off)) >>) /\ PlainCode(<< Str(r, Index(base, off)) >>)
<1>1. Plain(Ldr(r, Disp(base, off))) /\ Plain(Str(r, Disp(base, off)))
  BY DEF Plain, Ldr, Str, ArmInst, Disp, Operand
<1>2. Plain(Ldr(r, Index(base, off))) /\ Plain(Str(r, Index(base, off)))
  BY DEF Plain, Ldr, Str, ArmInst, Index, Operand
<1> QED
  BY <1>1, <1>2, PlainOne

(* Loading any value is: an offset that does not exist is loaded first.    *)
LEMMA LoadVarPlain ==
  ASSUME NEW at, NEW rs, NEW v
  PROVE  PlainCode(load_var(at, rs, v))
<1>1. \A rd, rx : PlainCode(mov_reg(rd, rx))
  <2>1. \A rd, rx : Plain(Mov(rd, rx))
    BY DEF Plain, Mov, ArmInst, R, Operand
  <2> QED
    BY <2>1, PlainOne, PlainNone DEF mov_reg
<1>2. \A base, off : PlainCode(load_base(rs, base, off))
  <2> SUFFICES ASSUME NEW base, NEW off PROVE PlainCode(load_base(rs, base, off))
    OBVIOUS
  <2>1. PlainCode(load_imm(rs, off) \o << Ldr(rs, Index(base, rs)) >>)
    BY LoadImmPlain, AccessPlain, PlainConcat
  <2> QED
    BY <2>1, AccessPlain DEF load_base
<1>3. \A id : PlainCode(load_symbol(rs, id) \o << Ldr(rs, Disp(rs, 0)) >>)
  BY LoadSymbolPlain, AccessPlain, PlainConcat
<1> QED
  BY <1>1, <1>2, <1>3, LoadImmPlain DEF load_var

(* And so is storing to any value.                                         *)
LEMMA StoreVarPlain ==
  ASSUME NEW at, NEW src, NEW v, NEW tmp
  PROVE  PlainCode(store_var(at, src, v, tmp))
<1>1. \A rd, rx : PlainCode(mov_reg(rd, rx))
  <2>1. \A rd, rx : Plain(Mov(rd, rx))
    BY DEF Plain, Mov, ArmInst, R, Operand
  <2> QED
    BY <2>1, PlainOne, PlainNone DEF mov_reg
<1>2. \A base, off : PlainCode(store_base(src, base, off, tmp))
  <2> SUFFICES ASSUME NEW base, NEW off PROVE PlainCode(store_base(src, base, off, tmp))
    OBVIOUS
  <2>1. PlainCode(load_imm(tmp, off) \o << Str(src, Index(base, tmp)) >>)
    BY LoadImmPlain, AccessPlain, PlainConcat
  <2> QED
    BY <2>1, AccessPlain DEF store_base
<1>3. \A id : PlainCode(load_symbol(tmp, id) \o << Str(src, Disp(tmp, 0)) >>)
  BY LoadSymbolPlain, AccessPlain, PlainConcat
<1> QED
  BY <1>1, <1>2, <1>3 DEF store_var

(* So is allocating the frame, by an immediate or by a register.           *)
LEMMA AllocStackPlain ==
  ASSUME NEW dep, NEW cnt, NEW tmp
  PROVE  PlainCode(allocStack(dep, cnt, tmp))
<1> DEFINE out  == Outgoing(cnt)
           off  == dep + out
           base == ArmInst("add", R(FP), R(SP), Imm(out))
           sub  == ArmInst("sub", R(SP), R(SP), Imm(off))
           subr == ArmInst("sub", R(SP), R(SP), R(tmp))
<1>1. Plain(base)
  BY DEF Plain, ArmInst, R, Operand
<1>2. Plain(sub)
  BY DEF Plain, ArmInst, R, Imm, Operand
<1>3. Plain(subr)
  BY DEF Plain, ArmInst, R, Operand
<1>4. allocStack(dep, cnt, tmp) =
        IF off = 0 THEN << >>
        ELSE IF constExpr(Bits(off)) THEN << sub, base >> ELSE load_imm(tmp, off) \o << subr, base >>
  BY DEF allocStack
<1> HIDE DEF off, base, sub, subr
<1>5. PlainCode(<< subr, base >>) /\ PlainCode(<< sub, base >>)
  BY <1>1, <1>2, <1>3 DEF PlainCode, IsSeq
<1>6. PlainCode(load_imm(tmp, off) \o << subr, base >>)
  BY <1>5, LoadImmPlain, PlainConcat
<1> QED
  BY <1>4, <1>5, <1>6, PlainNone

-----------------------------------------------------------------------------
(* The use lists stay lists, whatever is connected.                        *)

ListsOK(g) ==
  /\ g = [uses |-> g.uses, edge |-> g.edge]
  /\ DOMAIN g.uses = IRVals
  /\ \A v \in IRVals : IsSeq(g.uses[v])

(* What is known of every sequence.                                        *)
LEMMA SeqIs ==
  ASSUME NEW S, NEW s \in Seq(S)
  PROVE  IsSeq(s) /\ Len(s) \in Nat /\ DOMAIN s = 1..Len(s)
<1>1. Len(s) \in Nat /\ DOMAIN s = 1..Len(s) /\ s = [i \in 1..Len(s) |-> s[i]]
  OBVIOUS
<1> DEFINE V == {s[i] : i \in DOMAIN s}
<1>2. \A i \in 1..Len(s) : s[i] \in V
  BY <1>1
<1> HIDE DEF V
<1>3. [i \in 1..Len(s) |-> s[i]] \in Seq(V)
  BY <1>1, <1>2, IsASeq
<1> QED
  BY <1>1, <1>3 DEF IsSeq, V

(* Adding to a use list and removing from one keeps the lists.             *)
LEMMA UseLists ==
  ASSUME NEW g, ListsOK(g), NEW v, NEW u, NEW e
  PROVE  ListsOK(AddUse(g, v, u)) /\ ListsOK(RemoveUse(g, v, u)) /\ ListsOK([g EXCEPT !.edge = e])
<1>1. ASSUME NEW s, IsSeq(s) PROVE IsSeq(Append(s, u)) /\ IsSeq(RemoveFirst(s, u))
  <2> DEFINE S == {s[i] : i \in DOMAIN s} \cup {u}
  <2>1. s \in Seq({s[i] : i \in DOMAIN s}) /\ u \in S
    BY <1>1 DEF IsSeq
  <2>2. s \in Seq(S)
    <3>1. Len(s) \in Nat /\ s = [i \in 1..Len(s) |-> s[i]] /\ \A i \in 1..Len(s) : s[i] \in {s[j] : j \in DOMAIN s}
      BY <2>1
    <3>2. \A i \in 1..Len(s) : s[i] \in S
      BY <3>1
    <3> HIDE DEF S
    <3>3. [i \in 1..Len(s) |-> s[i]] \in Seq(S)
      BY <3>1, <3>2, IsASeq
    <3> QED
      BY <3>1, <3>3, Zenon
  <2> HIDE DEF S
  <2>3. Append(s, u) \in Seq(S) /\ RemoveFirst(s, u) \in Seq(S)
    BY <2>1, <2>2, RemoveFirstFacts
  <2> QED
    BY <2>3, SeqIs
<1>2. g = [uses |-> g.uses, edge |-> g.edge] /\ DOMAIN g.uses = IRVals /\ \A w \in IRVals : IsSeq(g.uses[w])
  BY DEF ListsOK
<1>3. ASSUME NEW l, v \in IRVals => IsSeq(l) PROVE ListsOK([g EXCEPT !.uses[v] = l])
  <2> DEFINE h == [g EXCEPT !.uses[v] = l]
             us == [g.uses EXCEPT ![v] = l]
  <2>1. h = [uses |-> us, edge |-> g.edge]
    BY <1>2
  <2>2. DOMAIN us = IRVals /\ \A w \in IRVals : us[w] = IF w = v THEN l ELSE g.uses[w]
    BY <1>2
  <2> HIDE DEF h, us
  <2>3. h.uses = us /\ h = [uses |-> h.uses, edge |-> h.edge]
    BY <2>1
  <2>4. ListsOK(h)
    BY <1>2, <1>3, <2>2, <2>3 DEF ListsOK
  <2> QED
    BY <2>4 DEF h
<1>4. ListsOK(AddUse(g, v, u))
  <2>1. v \in IRVals => IsSeq(Append(g.uses[v], u))
    BY <1>1, <1>2
  <2>2. AddUse(g, v, u) = [g EXCEPT !.uses[v] = Append(g.uses[v], u)]
    BY DEF AddUse
  <2> QED
    BY <1>3, <2>1, <2>2
<1>5. ListsOK(RemoveUse(g, v, u))
  <2>1. v \in IRVals => IsSeq(RemoveFirst(g.uses[v], u))
    BY <1>1, <1>2
  <2>2. RemoveUse(g, v, u) = [g EXCEPT !.uses[v] = RemoveFirst(g.uses[v], u)]
    BY DEF RemoveUse
  <2> QED
    BY <1>3, <2>1, <2>2
<1>6. [g EXCEPT !.edge = e] = [uses |-> g.uses, edge |-> e]
  BY <1>2
<1> QED
  BY <1>2, <1>4, <1>5, <1>6 DEF ListsOK

(* So does giving a user another operand,                                  *)
LEMMA SetOperandLists ==
  ASSUME NEW g, ListsOK(g), NEW i, NEW k, NEW v
  PROVE  ListsOK(SetOperand(g, i, k, v))
<1> DEFINE u == g.uses[i][k]
           h == RemoveUse(g, g.edge[u].usee, u)
           e == [h.edge EXCEPT ![u].usee = v]
<1>1. ListsOK(h)
  BY UseLists
<1>2. [h EXCEPT !.edge[u].usee = v] = [h EXCEPT !.edge = e]
  <2> HIDE DEF u, h
  <2> QED
    BY <1>1 DEF ListsOK
<1> HIDE DEF e
<1>3. ListsOK(AddUse([h EXCEPT !.edge = e], v, u))
  BY <1>1, UseLists
<1>4. SetUsee(g, u, v) = AddUse([h EXCEPT !.edge[u].usee = v], v, u)
  BY DEF SetUsee
<1> HIDE DEF h
<1>5. ListsOK(SetUsee(g, u, v))
  BY <1>2, <1>3, <1>4
<1> QED
  BY <1>5 DEF SetOperand

(* and making an edge.                                                     *)
LEMMA LinkLists ==
  ASSUME NEW g, ListsOK(g), NEW e
  PROVE  ListsOK(Link(g, e))
<1> DEFINE u == FreeUse(g)
           d == [g.edge EXCEPT ![u] = [usee |-> e.usee, user |-> e.user]]
           h == [g EXCEPT !.edge = d]
<1>1. NewUse(g, e.user, e.usee, u) = h
  <2> HIDE DEF u
  <2> QED
    BY DEF NewUse, ListsOK
<1>2. ListsOK(h)
  BY UseLists
<1> HIDE DEF h
<1>3. ListsOK(AddUse(AddUse(h, e.user, u), e.usee, u))
  BY <1>2, UseLists
<1> QED
  BY <1>1, <1>3 DEF Link, AddOperand

ListsTurn(k, g) == ListsOK(g)

Linking == INSTANCE FoldLemmas WITH Op <- Link, P <- ListsTurn

(* The fold that connects is that of FoldLemmas.                           *)
LEMMA LinkingIs ==
  ASSUME NEW g, NEW edges
  PROVE  FoldLeft(Link, g, edges) = Linking!Fold(g, edges)[DOMAIN edges]
BY DEF FoldLeft, MapThenFoldSet, Max, Linking!Fold, Linking!Greatest

(* So making any number of edges keeps the lists,                          *)
LEMMA FoldLists ==
  ASSUME NEW g, ListsOK(g), NEW n \in Nat, NEW edges, DOMAIN edges = 1..n
  PROVE  ListsOK(FoldLeft(Link, g, edges))
<1>1. ListsTurn(0, g) /\ \A h : \A k \in 1..n : ListsTurn(k - 1, h) => ListsTurn(k, Link(h, edges[k]))
  BY LinkLists DEF ListsTurn
<1>2. ListsTurn(n, Linking!Fold(g, edges)[1..n])
  BY <1>1, LeastElement, Linking!FoldInvariant
<1> QED
  BY <1>2, LinkingIs DEF ListsTurn

(* as connecting a user with its operands does.                            *)
LEMMA ConnectLists ==
  ASSUME NEW g, ListsOK(g), NEW i, NEW a, NEW b
  PROVE  ListsOK(Connect(g, i, << a, b >>)) /\ ListsOK(Connect(g, i, << a >>))
<1>1. DOMAIN Operands(i, << a, b >>) = 1..2 /\ DOMAIN Operands(i, << a >>) = 1..1
  BY DEF Operands
<1> QED
  BY <1>1, FoldLists DEF Connect

-----------------------------------------------------------------------------
(* What a handler of the selector leaves alone: code is added behind what  *)
(* there is, and only the places of arguments get new addresses.           *)

IsSelection(t) ==
  t = [asm |-> t.asm, alloc |-> t.alloc, graph |-> t.graph, id |-> t.id, deleted |-> t.deleted, addr |-> t.addr]

SameSlots(at, bt) == DOMAIN bt = DOMAIN at /\ \A v \in DOMAIN at : v.kind # "mem" => bt[v] = at[v]

Kept(code, at, t) == IsSelection(t) /\ Continues(code, t.asm) /\ SameSlots(at, t.addr) /\ ListsOK(t.graph)

(* Emitting plain code keeps it.                                           *)
LEMMA EmitKeeps ==
  ASSUME NEW code, NEW at, NEW t, Kept(code, at, t), NEW new, PlainCode(new)
  PROVE  Kept(code, at, Emit(t, new))
<1> DEFINE longer == t.asm \o new
<1>1. Continues(code, longer)
  BY ContinuesPlain DEF Kept
<1>2. Emit(t, new) = [t EXCEPT !.asm = longer]
  BY DEF Emit
<1> HIDE DEF longer
<1>3. [t EXCEPT !.asm = longer] = [asm |-> longer, alloc |-> t.alloc, graph |-> t.graph, id |-> t.id,
                                   deleted |-> t.deleted, addr |-> t.addr]
  BY DEF Kept, IsSelection
<1> QED
  BY <1>1, <1>2, <1>3 DEF Kept, IsSelection

(* So do the other changes of a selection.                                 *)
LEMMA OthersKeep ==
  ASSUME NEW code, NEW at, NEW t, Kept(code, at, t), NEW x
  PROVE  /\ Kept(code, at, [t EXCEPT !.alloc = x])
         /\ ListsOK(x) => Kept(code, at, [t EXCEPT !.graph = x])
         /\ Kept(code, at, [t EXCEPT !.id = x])
         /\ Kept(code, at, [t EXCEPT !.deleted = x])
<1>1. t = [asm |-> t.asm, alloc |-> t.alloc, graph |-> t.graph, id |-> t.id, deleted |-> t.deleted, addr |-> t.addr]
  BY DEF Kept, IsSelection
<1>2. [t EXCEPT !.alloc = x] = [asm |-> t.asm, alloc |-> x, graph |-> t.graph, id |-> t.id,
                                deleted |-> t.deleted, addr |-> t.addr]
  BY <1>1
<1>3. [t EXCEPT !.graph = x] = [asm |-> t.asm, alloc |-> t.alloc, graph |-> x, id |-> t.id,
                                deleted |-> t.deleted, addr |-> t.addr]
  BY <1>1
<1>4. [t EXCEPT !.id = x] = [asm |-> t.asm, alloc |-> t.alloc, graph |-> t.graph, id |-> x,
                             deleted |-> t.deleted, addr |-> t.addr]
  BY <1>1
<1>5. [t EXCEPT !.deleted = x] = [asm |-> t.asm, alloc |-> t.alloc, graph |-> t.graph, id |-> t.id,
                                  deleted |-> x, addr |-> t.addr]
  BY <1>1
<1>6. Continues(code, t.asm) /\ SameSlots(at, t.addr) /\ ListsOK(t.graph)
  BY DEF Kept
<1> QED
  BY <1>2, <1>3, <1>4, <1>5, <1>6 DEF Kept, IsSelection

(* A move loads and stores, by way of a register if neither is one.        *)
LEMMA AssignKeeps ==
  ASSUME NEW code, NEW at, NEW t, Kept(code, at, t), NEW result, NEW arg
  PROVE  Kept(code, at, translate_assign(t, result, arg))
<1> DEFINE from == RegId(arg)
           to   == RegId(result)
           r    == RA!Granted(t.alloc, NullVal, NoReg)
           al   == RA!FreeReg(RA!Allocate(t.alloc, NullVal, NoReg), r)
           u    == [t EXCEPT !.alloc = al]
           copy == load_var(u.addr, r, arg) \o store_var(u.addr, r, result, TMP)
<1>1. Kept(code, at, u) /\ u.addr = t.addr
  <2> HIDE DEF al
  <2>1. u.addr = t.addr
    BY DEF Kept, IsSelection
  <2> QED
    BY <2>1, OthersKeep
<1>2. translate_assign(t, result, arg) =
        IF from # NoReg THEN Emit(t, store_var(t.addr, from, result, TMP))
        ELSE IF to # NoReg THEN Emit(t, load_var(t.addr, to, arg))
        ELSE Emit(u, copy)
  <2>1. u.addr = t.addr
    BY <1>1
  <2> HIDE DEF r
  <2>2. [t EXCEPT !.alloc = RA!FreeReg(RA!Allocate(@, NullVal, NoReg), r)] = u
    BY DEF Kept, IsSelection
  <2> HIDE DEF u
  <2> QED
    BY <2>1, <2>2 DEF translate_assign, r
<1> HIDE DEF from, to, r, u
<1>3. PlainCode(copy)
  BY LoadVarPlain, StoreVarPlain, PlainConcat
<1>4. Kept(code, at, Emit(u, copy))
  BY <1>1, <1>3, EmitKeeps
<1>5. Kept(code, at, Emit(t, store_var(t.addr, from, result, TMP))) /\ Kept(code, at, Emit(t, load_var(t.addr, to, arg)))
  BY LoadVarPlain, StoreVarPlain, EmitKeeps
<1> HIDE DEF copy
<1> QED
  BY <1>2, <1>4, <1>5

(* A value is loaded into a register.                                      *)
LEMMA InRegisterKeeps ==
  ASSUME NEW code, NEW at, NEW t, Kept(code, at, t), NEW v
  PROVE  Kept(code, at, InRegister(t, v).s)
<1> DEFINE r == RA!Granted(t.alloc, v, NoReg)
           al == RA!Allocate(t.alloc, v, NoReg)
           u == [t EXCEPT !.alloc = al]
<1>1. InRegister(t, v).s = IF RegId(v) # NoReg THEN t ELSE Emit(u, load_var(t.addr, r, v))
  <2> HIDE DEF r
  <2>1. [t EXCEPT !.alloc = RA!Allocate(@, v, NoReg)] = u
    BY DEF Kept, IsSelection
  <2> HIDE DEF u
  <2> QED
    BY <2>1 DEF InRegister, r
<1> HIDE DEF r, al
<1>2. Kept(code, at, Emit(u, load_var(t.addr, r, v)))
  BY OthersKeep, LoadVarPlain, EmitKeeps
<1> HIDE DEF u
<1> QED
  BY <1>1, <1>2

(* An addition or subtraction loads twice, computes and stores.            *)
LEMMA TwoOperatorKeeps ==
  ASSUME NEW code, NEW at, NEW t, Kept(code, at, t), NEW result, NEW op \in {"add", "sub"}
  PROVE  Kept(code, at, translate_two_operator(t, result, op))
<1> DEFINE arg1  == OperandAt(t.graph, result, 1)
           arg2  == OperandAt(t.graph, result, 2)
           left  == InRegister(t, arg1)
           right == InRegister(left.s, arg2)
           r     == RA!Granted(right.s.alloc, result, NoReg)
           al    == RA!Allocate(right.s.alloc, result, NoReg)
           u     == [right.s EXCEPT !.alloc = al]
           inst  == ArmInst(op, R(r), R(left.reg), R(right.reg))
           done  == Emit(u, << inst >> \o store_var(t.addr, r, result, TMP))
           freed == [done EXCEPT !.alloc = FreeAll(done.alloc, arg1, arg2, result)]
<1>1. Kept(code, at, right.s)
  BY InRegisterKeeps
<1>2. translate_two_operator(t, result, op) = freed
  <2> HIDE DEF arg1, arg2, left, right, r
  <2>1. [right.s EXCEPT !.alloc = RA!Allocate(@, result, NoReg)] = u
    BY <1>1 DEF Kept, IsSelection
  <2> HIDE DEF u
  <2>2. [done EXCEPT !.alloc = FreeAll(@, arg1, arg2, result)] = freed
    <3> HIDE DEF done
    <3> QED
      OBVIOUS
  <2> DEFINE n == [right.s EXCEPT !.alloc = RA!Allocate(@, result, NoReg)]
             d == Emit(n, << ArmInst(op, R(r), R(left.reg), R(right.reg)) >> \o store_var(t.addr, r, result, TMP))
  <2>3. translate_two_operator(t, result, op) = [d EXCEPT !.alloc = FreeAll(@, arg1, arg2, result)]
    BY Zenon DEF translate_two_operator, arg1, arg2, left, right, r
  <2>4. n = u
    BY <2>1
  <2> HIDE DEF n
  <2>5. d = done
    BY <2>1, <2>4
  <2> HIDE DEF d, done
  <2> QED
    BY <2>2, <2>3, <2>5, Zenon
<1> HIDE DEF left, right, r, al
<1>3. Kept(code, at, u)
  BY <1>1, OthersKeep
<1>4. PlainCode(<< inst >>)
  <2>1. Plain(inst)
    <3> HIDE DEF r
    <3>1. CASE op = "add"
      BY <3>1 DEF Plain, ArmInst, R, Operand
    <3>2. CASE op = "sub"
      BY <3>2 DEF Plain, ArmInst, R, Operand
    <3> QED
      BY <3>1, <3>2
  <2> HIDE DEF inst
  <2> QED
    BY <2>1, PlainOne
<1> HIDE DEF u, inst
<1>5. Kept(code, at, done)
  BY <1>3, <1>4, StoreVarPlain, PlainConcat, EmitKeeps
<1> HIDE DEF done
<1>6. Kept(code, at, freed)
  BY <1>5, OthersKeep
<1> HIDE DEF freed
<1> QED
  BY <1>2, <1>6

(* A move that exists while it is translated adds edges and is a move.     *)
LEMMA TempMoveKeeps ==
  ASSUME NEW code, NEW at, NEW t, Kept(code, at, t), NEW result, NEW arg
  PROVE  Kept(code, at, TempMove(t, result, arg))
<1> DEFINE id == t.id + 1
           g  == Connect(t.graph, InstVal(id), << result, arg >>)
           t1 == [t EXCEPT !.id = id]
           m  == [t1 EXCEPT !.graph = g]
           a1 == OperandAt(m.graph, InstVal(id), 1)
           a2 == OperandAt(m.graph, InstVal(id), 2)
           w  == translate_assign(m, a1, a2)
           z  == [w EXCEPT !.deleted = w.deleted \cup {InstVal(id)}]
<1>1. TempMove(t, result, arg) = z
  <2>1. [t EXCEPT !.id = id, !.graph = Connect(@, InstVal(id), << result, arg >>)] = m
    <3> DEFINE i == InstVal(id)
    <3> HIDE DEF id, i
    <3> QED
      BY DEF Kept, IsSelection, i
  <2>2. [w EXCEPT !.deleted = @ \cup {InstVal(id)}] = z
    <3> HIDE DEF w
    <3> QED
      OBVIOUS
  <2>3. TempMove(t, result, arg) =
          LET n == [t EXCEPT !.id = id, !.graph = Connect(@, InstVal(id), << result, arg >>)]
          IN  [translate_assign(n, OperandAt(n.graph, InstVal(id), 1), OperandAt(n.graph, InstVal(id), 2))
                 EXCEPT !.deleted = @ \cup {InstVal(id)}]
    BY DEF TempMove
  <2> HIDE DEF id, m
  <2> QED
    BY <2>1, <2>2, <2>3, Zenon
<1>0. ListsOK(g)
  BY ConnectLists DEF Kept
<1> HIDE DEF id, g
<1>2. Kept(code, at, t1)
  BY OthersKeep
<1> HIDE DEF t1
<1>3. Kept(code, at, m)
  BY <1>0, <1>2, OthersKeep
<1> HIDE DEF m, a1, a2
<1>4. Kept(code, at, w)
  BY <1>3, AssignKeeps
<1> HIDE DEF w
<1>5. Kept(code, at, z)
  BY <1>4, OthersKeep
<1> HIDE DEF z
<1> QED
  BY <1>1, <1>5

-----------------------------------------------------------------------------
(* The loops over the operands of a call                                   *)

(* A turn, and what holds after every turn. *)
StackTurn(t, k)    == StackOperand(t, This, k)
RegisterTurn(t, k) == TempMove(t, Reg(k - 1), OperandAt(t.graph, This, k))
KeptTurn(k, t)     == Kept(asm, addr, t)

Stacking == INSTANCE FoldLemmas WITH Op <- StackTurn, P <- KeptTurn
Loading  == INSTANCE FoldLemmas WITH Op <- RegisterTurn, P <- KeptTurn

(* The folds of the module are those of FoldLemmas.                        *)
LEMMA StackingIs ==
  ASSUME NEW t, NEW seq
  PROVE  FoldLeft(LAMBDA u, k : StackOperand(u, This, k), t, seq) = Stacking!Fold(t, seq)[DOMAIN seq]
BY DEF FoldLeft, MapThenFoldSet, Max, Stacking!Fold, Stacking!Greatest, StackTurn

(* And the fold over the first four operands.                              *)
LEMMA LoadingIs ==
  ASSUME NEW t, NEW seq
  PROVE  FoldLeft(LAMBDA u, k : TempMove(u, Reg(k - 1), OperandAt(u.graph, This, k)), t, seq)
           = Loading!Fold(t, seq)[DOMAIN seq]
BY DEF FoldLeft, MapThenFoldSet, Max, Loading!Fold, Loading!Greatest, RegisterTurn

(* An operand on the stack gets an address and is moved there.             *)
LEMMA StackOperandKeeps ==
  ASSUME NEW code, NEW at, NEW t, Kept(code, at, t), NEW call, NEW k
  PROVE  Kept(code, at, StackOperand(t, call, k))
<1> DEFINE place == Val("mem", Func.name, k)
           slot  == [base |-> SP, off |-> 4 * (k - 5)]
           bt    == [t.addr EXCEPT ![place] = slot]
           u     == [asm |-> t.asm, alloc |-> t.alloc, graph |-> t.graph, id |-> t.id, deleted |-> t.deleted,
                     addr |-> bt]
           arg   == OperandAt(t.graph, call, k)
<1>1. StackOperand(t, call, k) = TempMove(u, place, arg)
  <2>1. [t EXCEPT !.addr[place] = slot] = u
    <3> HIDE DEF place, slot
    <3> QED
      BY DEF Kept, IsSelection
  <2> HIDE DEF u, arg
  <2> QED
    BY <2>1 DEF StackOperand, arg
<1>2. SameSlots(at, bt)
  <2>1. place.kind = "mem"
    BY DEF Val
  <2> HIDE DEF place, slot
  <2> QED
    BY <2>1 DEF Kept, SameSlots
<1> HIDE DEF bt
<1>3. Kept(code, at, u)
  BY <1>2 DEF Kept, IsSelection
<1> HIDE DEF u, place, arg
<1> QED
  BY <1>1, <1>3, TempMoveKeeps

(* All of them keep what is kept by each.                                  *)
LEMMA StackingKeeps ==
  ASSUME NEW t, Kept(asm, addr, t), NEW n \in Nat, NEW seq, DOMAIN seq = 1..n
  PROVE  Kept(asm, addr, FoldLeft(LAMBDA u, k : StackOperand(u, This, k), t, seq))
<1>1. KeptTurn(0, t) /\ \A u : \A k \in 1..n : KeptTurn(k - 1, u) => KeptTurn(k, StackTurn(u, seq[k]))
  BY StackOperandKeeps DEF KeptTurn, StackTurn
<1>2. KeptTurn(n, Stacking!Fold(t, seq)[1..n])
  BY <1>1, LeastElement, Stacking!FoldInvariant
<1> QED
  BY <1>2, StackingIs DEF KeptTurn

(* The same for the operands in registers.                                 *)
LEMMA LoadingKeeps ==
  ASSUME NEW t, Kept(asm, addr, t), NEW n \in Nat, NEW seq, DOMAIN seq = 1..n
  PROVE  Kept(asm, addr, FoldLeft(LAMBDA u, k : TempMove(u, Reg(k - 1), OperandAt(u.graph, This, k)), t, seq))
<1>1. KeptTurn(0, t) /\ \A u : \A k \in 1..n : KeptTurn(k - 1, u) => KeptTurn(k, RegisterTurn(u, seq[k]))
  BY TempMoveKeeps DEF KeptTurn, RegisterTurn
<1>2. KeptTurn(n, Loading!Fold(t, seq)[1..n])
  BY <1>1, LeastElement, Loading!FoldInvariant
<1> QED
  BY <1>2, LoadingIs DEF KeptTurn

(* A call: its operands are moved, then it branches, then its result is    *)
(* moved; nothing of that is a branch to a label.                          *)
LEMMA CallKeeps ==
  ASSUME NEW t, Kept(asm, addr, t), This \in IRVals, NEW inst
  PROVE  Kept(asm, addr, translate_call(t, This, inst))
<1> DEFINE num     == OperandNum(t.graph, This)
           claimed == IF num = 0 THEN t ELSE [t EXCEPT !.alloc = ClaimAll(t.alloc)]
           stacked == FoldLeft(LAMBDA u, k : StackOperand(u, This, k), claimed, [j \in 1 .. Max({num - 4, 0}) |-> 4 + j])
           passed  == FoldLeft(LAMBDA u, k : TempMove(u, Reg(k - 1), OperandAt(u.graph, This, k)),
                               stacked, [k \in 1 .. Min({num, 4}) |-> k])
           called  == Emit(passed, << ArmInst("bl", Symbol(inst.target.func), Blank, Blank) >>)
           freed   == IF num = 0 THEN called ELSE [called EXCEPT !.alloc = FreeRegs(called.alloc)]
<1>1. translate_call(t, This, inst) = IF HasResult(inst) THEN TempMove(freed, This, Reg(0)) ELSE freed
  BY Zenon DEF translate_call
<1>2. num \in Nat
  BY SeqIs DEF Kept, ListsOK, OperandNum, IsSeq
<1>3. Max({num - 4, 0}) \in Nat /\ Min({num, 4}) \in Nat
  <2> HIDE DEF num
  <2>1. Min({num, 4}) \in {num, 4}
    BY <1>2, MinIsMember
  <2>2. Max({num - 4, 0}) \in {num - 4, 0} /\ Max({num - 4, 0}) >= 0
    <3>1. \E x \in {num - 4, 0} : \A y \in {num - 4, 0} : x >= y
      BY <1>2
    <3> QED
      BY <3>1 DEF Max
  <2> QED
    BY <1>2, <2>1, <2>2
<1> HIDE DEF num
<1>4. Kept(asm, addr, claimed)
  BY OthersKeep
<1> HIDE DEF claimed
<1>5. Kept(asm, addr, stacked)
  BY <1>3, <1>4, StackingKeeps
<1> HIDE DEF stacked
<1>6. Kept(asm, addr, passed)
  BY <1>3, <1>5, LoadingKeeps
<1> HIDE DEF passed
<1>7. Kept(asm, addr, called)
  <2>1. PlainCode(<< ArmInst("bl", Symbol(inst.target.func), Blank, Blank) >>)
    BY PlainInst DEF Blank, Operand
  <2> QED
    BY <1>6, <2>1, EmitKeeps
<1> HIDE DEF called
<1>8. Kept(asm, addr, freed)
  BY <1>7, OthersKeep
<1> HIDE DEF freed
<1> QED
  BY <1>1, <1>8, TempMoveKeeps

(* The prologue, whatever the size of the frame.                           *)
LEMMA EntryKeeps ==
  ASSUME NEW code, NEW at, NEW t, Kept(code, at, t)
  PROVE  Kept(code, at, translate_entry(t))
<1>1. PlainCode(<< ArmInst("push", List(ProtectedRegs), Blank, Blank) >>)
  BY PlainInst DEF Blank, Operand
<1>2. PlainCode(<< ArmInst("push", List(ProtectedRegs), Blank, Blank) >> \o allocStack(maxDep, Func.maxFuncCallArgCnt, TMP))
  BY <1>1, AllocStackPlain, PlainConcat
<1> QED
  BY <1>2, EmitKeeps DEF translate_entry

(* The epilogue.                                                           *)
LEMMA ExitKeeps ==
  ASSUME NEW code, NEW at, NEW t, Kept(code, at, t), NEW exit
  PROVE  Kept(code, at, translate_exit(t, exit))
<1> DEFINE a == ArmInst("add", R(FP), R(FP), Imm(maxDep))
           b == Mov(SP, FP)
           c == ArmInst("pop", List(ProtectedRegs), Blank, Blank)
           d == ArmInst("bx", R(LX), Blank, Blank)
           v == OperandAt(t.graph, exit, 1)
<1>1. Plain(a) /\ Plain(b) /\ Plain(c) /\ Plain(d)
  BY DEF Plain, ArmInst, Mov, Blank, R, Operand
<1>2. translate_exit(t, exit) = Emit(t, load_var(t.addr, 0, v) \o << a, b, c, d >>)
  BY DEF translate_exit
<1> HIDE DEF a, b, c, d, v
<1>3. PlainCode(<< a, b, c, d >>)
  BY <1>1 DEF PlainCode, IsSeq
<1>4. PlainCode(load_var(t.addr, 0, v) \o << a, b, c, d >>)
  BY <1>3, LoadVarPlain, PlainConcat
<1> QED
  BY <1>2, <1>4, EmitKeeps

-----------------------------------------------------------------------------
(* The code of a function while its calls are rewritten                    *)

(* The sequence c is seq with new put in at position i.                    *)
InsertedAt(seq, i, new, c) ==
  /\ IsSeq(c)
  /\ Len(seq) \in Nat /\ Len(new) \in Nat /\ DOMAIN seq = 1..Len(seq) /\ DOMAIN new = 1..Len(new)
  /\ DOMAIN c = 1..Len(seq) + Len(new) /\ Len(c) = Len(seq) + Len(new)
  /\ \A j \in 1..i - 1 : c[j] = seq[j]
  /\ \A j \in DOMAIN new : c[i - 1 + j] = new[j]
  /\ \A j \in i..Len(seq) : c[j + Len(new)] = seq[j]
  /\ \A p \in DOMAIN c : \/ p \in 1..i - 1
                         \/ \E j \in DOMAIN new : p = i - 1 + j
                         \/ \E j \in i..Len(seq) : p = j + Len(new)

(* That is what Inserted makes.                                            *)
LEMMA InsertedIs ==
  ASSUME NEW seq, IsSeq(seq), NEW new, IsSeq(new), NEW i \in 1..Len(seq) + 1
  PROVE  InsertedAt(seq, i, new, Inserted(seq, i, new))
<1> DEFINE front == SubSeq(seq, 1, i - 1)
           back  == SubSeq(seq, i, Len(seq))
           mid   == front \o new
           c     == mid \o back
           n     == Len(seq)
           m     == Len(new)
<1>1. n \in Nat /\ DOMAIN seq = 1..n /\ m \in Nat /\ DOMAIN new = 1..m
  BY SeqIs DEF IsSeq
<1>2. i \in 1..n + 1
  OBVIOUS
<1>3. /\ IsSeq(front) /\ Len(front) = i - 1 /\ DOMAIN front = 1..i - 1 /\ \A j \in 1..i - 1 : front[j] = seq[j]
      /\ IsSeq(back) /\ Len(back) = n - i + 1 /\ DOMAIN back = 1..n - i + 1
      /\ \A j \in 1..n - i + 1 : back[j] = seq[i + j - 1]
  <2> DEFINE S == {seq[j] : j \in DOMAIN seq}
  <2>1. seq \in Seq(S)
    BY DEF IsSeq
  <2> HIDE DEF S
  <2>2. front \in Seq(S) /\ back \in Seq(S)
    BY <1>1, <1>2, <2>1
  <2>3. Len(front) = i - 1 /\ \A j \in 1..i - 1 : front[j] = seq[j]
    BY <1>1, <1>2, <2>1
  <2>4. Len(back) = n - i + 1 /\ \A j \in 1..n - i + 1 : back[j] = seq[i + j - 1]
    BY <1>1, <1>2, <2>1
  <2> HIDE DEF front, back, n
  <2>5. IsSeq(front) /\ DOMAIN front = 1..Len(front) /\ IsSeq(back) /\ DOMAIN back = 1..Len(back)
    BY <2>2, SeqIs
  <2> QED
    BY <2>3, <2>4, <2>5
<1> HIDE DEF front, back, n, m
<1>4. Joined(front, new, mid)
  BY <1>3, IsSeqConcat
<1>5. Joined(mid, back, c)
  <2>1. IsSeq(mid) /\ IsSeq(back)
    BY <1>3, <1>4 DEF Joined
  <2>2. c = mid \o back
    OBVIOUS
  <2> HIDE DEF mid, c
  <2> QED
    BY <2>1, <2>2, IsSeqConcat
<1> HIDE DEF mid, c
<1>6. /\ Len(mid) = i - 1 + m /\ DOMAIN mid = 1..i - 1 + m
      /\ \A j \in 1..i - 1 : mid[j] = seq[j]
      /\ \A j \in 1..m : mid[i - 1 + j] = new[j]
  BY <1>1, <1>2, <1>3, <1>4 DEF Joined, m
<1>7. /\ IsSeq(c) /\ DOMAIN c = 1..n + m
      /\ \A j \in 1..i - 1 + m : c[j] = mid[j]
      /\ \A j \in 1..n - i + 1 : c[i - 1 + m + j] = seq[i + j - 1]
  <2>1. Len(mid) + Len(back) = n + m
    BY <1>1, <1>2, <1>3, <1>6
  <2>2. IsSeq(c) /\ DOMAIN c = 1..n + m
    BY <1>5, <2>1 DEF Joined
  <2>3. \A j \in 1..i - 1 + m : c[j] = mid[j]
    BY <1>5, <1>6 DEF Joined
  <2>4. \A j \in 1..n - i + 1 : c[i - 1 + m + j] = seq[i + j - 1]
    BY <1>3, <1>5, <1>6 DEF Joined
  <2> QED
    BY <2>2, <2>3, <2>4
<1>8. Len(c) = n + m
  BY <1>1, <1>7, SeqIs DEF IsSeq
<1>9. \A j \in i..n : c[j + m] = seq[j]
  <2> SUFFICES ASSUME NEW j \in i..n PROVE c[j + m] = seq[j]
    OBVIOUS
  <2> DEFINE l == j - i + 1
  <2>1. l \in 1..n - i + 1 /\ i - 1 + m + l = j + m /\ i + l - 1 = j
    BY <1>1, <1>2
  <2> QED
    BY <1>7, <2>1
<1>10. \A j \in 1..m : c[i - 1 + j] = new[j]
  <2> SUFFICES ASSUME NEW j \in 1..m PROVE c[i - 1 + j] = new[j]
    OBVIOUS
  <2>1. i - 1 + j \in 1..i - 1 + m
    BY <1>1, <1>2
  <2> QED
    BY <1>6, <1>7, <2>1
<1>11. \A j \in 1..i - 1 : c[j] = seq[j]
  <2> SUFFICES ASSUME NEW j \in 1..i - 1 PROVE c[j] = seq[j]
    OBVIOUS
  <2>1. j \in 1..i - 1 + m
    BY <1>1, <1>2
  <2> QED
    BY <1>6, <1>7, <2>1
<1>12. ASSUME NEW p \in 1..n + m
       PROVE  p \in 1..i - 1 \/ (\E j \in 1..m : p = i - 1 + j) \/ \E j \in i..n : p = j + m
  <2>1. CASE p < i
    BY <1>1, <1>2, <2>1
  <2>2. CASE p >= i /\ p < i + m
    <3>1. p - i + 1 \in 1..m /\ p = i - 1 + (p - i + 1)
      BY <1>1, <1>2, <2>2
    <3> QED
      BY <3>1
  <2>3. CASE p >= i + m
    <3>1. p - m \in i..n /\ p = (p - m) + m
      BY <1>1, <1>2, <2>3
    <3> QED
      BY <3>1
  <2> QED
    BY <1>1, <1>2, <2>1, <2>2, <2>3
<1>13. InsertedAt(seq, i, new, c)
  BY <1>1, <1>7, <1>8, <1>9, <1>10, <1>11, <1>12 DEF InsertedAt, n, m
<1>14. Inserted(seq, i, new) = c
  BY DEF Inserted, c, mid, front, back
<1> QED
  BY <1>13, <1>14

(* The code of the function name, with instructions numbered up to n.      *)
CodeOK(c, n, name) ==
  /\ IsSeq(c) /\ n \in Nat
  /\ \A i \in DOMAIN c : c[i].id \in 1..n
  /\ \A i \in DOMAIN c : c[i].op = "call" => Val("inst", name, c[i].id) \in IRVals
  /\ \A i, j \in DOMAIN c : c[i].id = c[j].id => i = j
  /\ \E k \in DOMAIN c : ExitLabel(c, name, k)

(* Instructions put in have new numbers, and are neither labels nor jumps. *)
Fresh(new, n, m) ==
  /\ IsSeq(new)
  /\ \A j \in DOMAIN new : new[j].op \in {"move", "arg"} /\ new[j].id \in n + 1..m
  /\ \A i, j \in DOMAIN new : new[i].id = new[j].id => i = j

(* Putting in fresh instructions leaves code that is well numbered, with   *)
(* its label and jumps.                                                    *)
LEMMA InsertedCode ==
  ASSUME NEW seq, NEW n, NEW name, CodeOK(seq, n, name), NEW i \in 1..Len(seq) + 1,
         NEW m \in Nat, n <= m, NEW new, Fresh(new, n, m)
  PROVE  CodeOK(Inserted(seq, i, new), m, name)
<1> DEFINE c == Inserted(seq, i, new)
<1>1. InsertedAt(seq, i, new, c)
  BY InsertedIs DEF CodeOK, Fresh
<1> HIDE DEF c
<1>2. /\ n \in Nat /\ Len(seq) \in Nat /\ Len(new) \in Nat /\ DOMAIN seq = 1..Len(seq) /\ DOMAIN new = 1..Len(new)
      /\ IsSeq(c) /\ DOMAIN c = 1..Len(seq) + Len(new)
  BY <1>1 DEF InsertedAt, CodeOK
(* Every element of the new code is one of the old or one put in.          *)
<1> DEFINE Old(p, j) == j \in DOMAIN seq /\ c[p] = seq[j] /\ p = (IF j < i THEN j ELSE j + Len(new))
           New(p, j) == j \in DOMAIN new /\ c[p] = new[j] /\ p = i - 1 + j
<1>3. ASSUME NEW p \in DOMAIN c PROVE (\E j : Old(p, j)) \/ (\E j : New(p, j))
  <2>1. CASE p \in 1..i - 1
    <3>1. Old(p, p)
      BY <1>1, <1>2, <2>1 DEF InsertedAt
    <3> QED
      BY <3>1
  <2>2. ASSUME NEW j \in DOMAIN new, p = i - 1 + j PROVE New(p, j)
    BY <1>1, <2>2 DEF InsertedAt
  <2>3. ASSUME NEW j \in i..Len(seq), p = j + Len(new) PROVE Old(p, j)
    BY <1>1, <1>2, <2>3 DEF InsertedAt
  <2> HIDE DEF Old, New
  <2> QED
    BY <1>1, <2>1, <2>2, <2>3 DEF InsertedAt
<1>4. \A p : /\ \A j : Old(p, j) => c[p] = seq[j] /\ j \in DOMAIN seq /\ c[p].id \in 1..n
             /\ \A j : New(p, j) => c[p] = new[j] /\ j \in DOMAIN new /\ c[p].id \in n + 1..m /\ c[p].op \in {"move", "arg"}
  BY DEF CodeOK, Fresh
<1>5. ASSUME NEW p \in DOMAIN c PROVE c[p].id \in 1..m /\ (c[p].op = "call" => Val("inst", name, c[p].id) \in IRVals)
  <2>1. ASSUME NEW j, Old(p, j) PROVE c[p].id \in 1..m /\ (c[p].op = "call" => Val("inst", name, c[p].id) \in IRVals)
    BY <1>2, <1>4, <2>1 DEF CodeOK
  <2>2. ASSUME NEW j, New(p, j) PROVE c[p].id \in 1..m /\ (c[p].op = "call" => Val("inst", name, c[p].id) \in IRVals)
    BY <1>2, <1>4, <2>2, SMTT(40)
  <2> HIDE DEF Old, New
  <2> QED
    BY <1>3, <2>1, <2>2, SMTT(40)
<1>6. ASSUME NEW p \in DOMAIN c, NEW q \in DOMAIN c, c[p].id = c[q].id PROVE p = q
  <2>1. ASSUME NEW j, Old(p, j), NEW k, Old(q, k) PROVE p = q
    <3>1. j = k
      BY <1>4, <1>6, <2>1 DEF CodeOK
    <3> QED
      BY <2>1, <3>1
  <2>2. ASSUME NEW j, New(p, j), NEW k, New(q, k) PROVE p = q
    <3>1. j = k
      BY <1>4, <1>6, <2>2 DEF Fresh
    <3> QED
      BY <2>2, <3>1
  <2>3. ASSUME NEW x, x \in 1..n, x \in n + 1..m PROVE FALSE
    BY <1>2, <2>3
  <2>4. \A j, k : ~(Old(p, j) /\ New(q, k)) /\ ~(New(p, j) /\ Old(q, k))
    <3> HIDE DEF Old, New
    <3> QED
      BY <1>4, <1>6, <2>3
  <2> HIDE DEF Old, New
  <2> QED
    BY <1>3, <2>1, <2>2, <2>4
<1>7. \E k \in DOMAIN c : ExitLabel(c, name, k)
  <2>1. PICK k \in DOMAIN seq : ExitLabel(seq, name, k)
    BY DEF CodeOK
  <2> DEFINE l == IF k < i THEN k ELSE k + Len(new)
  <2>2. l \in DOMAIN c /\ Old(l, k)
    BY <1>1, <1>2 DEF InsertedAt
  <2>3. ASSUME NEW p \in DOMAIN c
        PROVE  (c[p].op = "label" <=> p = l) /\ (c[p].op = "goto" => c[p].target = Val("inst", name, c[l].id))
    <3>1. ASSUME NEW j, Old(p, j)
          PROVE  (c[p].op = "label" <=> p = l) /\ (c[p].op = "goto" => c[p].target = Val("inst", name, c[l].id))
      <4>1. c[p] = seq[j] /\ c[l] = seq[k] /\ j \in DOMAIN seq
        BY <2>2, <3>1
      <4>2. p = l <=> j = k
        BY <1>2, <3>1
      <4> HIDE DEF Old, l
      <4> QED
        BY <2>1, <4>1, <4>2 DEF ExitLabel
    <3>2. ASSUME NEW j, New(p, j)
          PROVE  (c[p].op = "label" <=> p = l) /\ (c[p].op = "goto" => c[p].target = Val("inst", name, c[l].id))
      <4>1. c[p].op \in {"move", "arg"}
        BY <1>4, <3>2
      <4>2. p # l
        BY <1>2, <3>2
      <4> QED
        BY <4>1, <4>2
    <3> HIDE DEF Old, New, l
    <3> QED
      BY <1>3, <3>1, <3>2
  <2> HIDE DEF l, Old
  <2> QED
    BY <2>2, <2>3 DEF ExitLabel
<1>8. CodeOK(c, m, name)
  BY <1>2, <1>5, <1>6, <1>7 DEF CodeOK
<1> QED
  BY <1>8 DEF c

-----------------------------------------------------------------------------
(* The moves into the places of arguments                                  *)

(* What was made so far: moves with the next numbers.                      *)
PassingOK(st) ==
  /\ st = [g |-> st.g, moves |-> st.moves, at |-> st.at, id |-> st.id]
  /\ ListsOK(st.g)
  /\ IsSeq(st.moves)
  /\ st.id = created + Len(st.moves)
  /\ \A j \in DOMAIN st.moves : st.moves[j] = Move(created + j)

(* One more argument: one more move, with the next number.                 *)
LEMMA PassedOK ==
  ASSUME created \in Nat, NEW st, PassingOK(st), NEW call, NEW k, NEW place
  PROVE  PassingOK(Passed(st, call, k, place))
<1> DEFINE id == st.id + 1
           a  == Connect(st.g, InstVal(id), << place, OperandAt(st.g, call, k) >>)
           g  == SetOperand(a, call, k, place)
           ms == Append(st.moves, Move(id))
<1>1. ListsOK(g)
  <2>1. ListsOK(a)
    BY ConnectLists DEF PassingOK
  <2> HIDE DEF a
  <2> QED
    BY <2>1, SetOperandLists
<1>2. /\ IsSeq(ms) /\ Len(ms) = Len(st.moves) + 1
      /\ id = created + Len(ms)
      /\ \A j \in DOMAIN ms : ms[j] = Move(created + j)
  <2> DEFINE S == {Move(created + j) : j \in Nat}
             n == Len(st.moves)
  <2>1. n \in Nat /\ DOMAIN st.moves = 1..n /\ id = created + n + 1 /\ \A j \in 1..n : st.moves[j] = Move(created + j)
    BY SeqIs DEF PassingOK, IsSeq
  <2>2. st.moves \in Seq(S)
    <3>1. \A j \in 1..n : st.moves[j] \in S
      BY <2>1
    <3>2. st.moves = [j \in 1..n |-> st.moves[j]]
      BY <2>1 DEF PassingOK, IsSeq
    <3> HIDE DEF S, n
    <3>3. [j \in 1..n |-> st.moves[j]] \in Seq(S)
      BY <2>1, <3>1, IsASeq, SMTT(40)
    <3> QED
      BY <3>2, <3>3, Zenon
  <2>3. id = created + (n + 1) /\ n + 1 \in Nat
    BY <2>1
  <2> HIDE DEF id
  <2>4. Move(id) \in S
    BY <2>3
  <2> DEFINE m == Move(id)
  <2> HIDE DEF S, m
  <2>5. ms \in Seq(S) /\ Len(ms) = n + 1 /\ \A j \in 1..n : ms[j] = st.moves[j] /\ ms[n + 1] = m
    BY <2>1, <2>2, <2>4 DEF m
  <2>6. ms[n + 1] = m
    BY <2>1, <2>2, <2>4 DEF m
  <2> HIDE DEF ms, n
  <2>7. IsSeq(ms) /\ DOMAIN ms = 1..n + 1
    BY <2>5, SeqIs
  <2>8. ASSUME NEW j \in 1..n + 1 PROVE ms[j] = Move(created + j)
    <3>1. CASE j = n + 1
      BY <2>3, <2>6, <3>1 DEF m
    <3>2. CASE j # n + 1
      <4>1. j \in 1..n
        BY <2>1, <3>2
      <4> QED
        BY <2>1, <2>5, <4>1
    <3> QED
      BY <3>1, <3>2
  <2> QED
    BY <2>3, <2>5, <2>7, <2>8 DEF n
<1>3. Passed(st, call, k, place) = [g |-> g, moves |-> ms, at |-> st.at, id |-> id]
  <2>1. Passed(st, call, k, place) =
          [st EXCEPT !.g = SetOperand(Connect(@, InstVal(id), << place, OperandAt(@, call, k) >>), call, k, place),
                     !.moves = Append(@, Move(id)), !.id = @ + 1]
    BY DEF Passed
  <2>2. [st EXCEPT !.g = SetOperand(Connect(@, InstVal(id), << place, OperandAt(@, call, k) >>), call, k, place),
                   !.moves = Append(@, Move(id)), !.id = @ + 1] = [st EXCEPT !.g = g, !.moves = ms, !.id = id]
    <3> DEFINE i == InstVal(id)
               m == Move(id)
    <3> HIDE DEF i, m
    <3> QED
      BY DEF PassingOK
  <2> HIDE DEF g, ms, id
  <2>3. [st EXCEPT !.g = g, !.moves = ms, !.id = id] = [g |-> g, moves |-> ms, at |-> st.at, id |-> id]
    <3>1. st = [g |-> st.g, moves |-> st.moves, at |-> st.at, id |-> st.id]
      BY DEF PassingOK
    <3> DEFINE t == [st EXCEPT !.g = g]
               u == [t EXCEPT !.moves = ms]
               v == [u EXCEPT !.id = id]
    <3>2. t = [g |-> g, moves |-> st.moves, at |-> st.at, id |-> st.id]
      BY <3>1
    <3>3. [st EXCEPT !.g = g, !.moves = ms, !.id = id] = v
      OBVIOUS
    <3> HIDE DEF t
    <3>4. u = [g |-> g, moves |-> ms, at |-> st.at, id |-> st.id]
      BY <3>2
    <3> HIDE DEF u
    <3>5. v = [g |-> g, moves |-> ms, at |-> st.at, id |-> id]
      BY <3>4
    <3> QED
      BY <3>3, <3>5
  <2> QED
    BY <2>1, <2>2, <2>3
<1> HIDE DEF g, ms, id
<1> QED
  BY <1>1, <1>2, <1>3 DEF PassingOK

PassStackTurn(st, k)    == PassStack(st, This, k)
PassRegisterTurn(st, k) == PassRegister(st, This, k)
PassingTurn(k, st)      == PassingOK(st)

StackPasses    == INSTANCE FoldLemmas WITH Op <- PassStackTurn, P <- PassingTurn
RegisterPasses == INSTANCE FoldLemmas WITH Op <- PassRegisterTurn, P <- PassingTurn

(* The folds over the operands of a call are those of FoldLemmas.          *)
LEMMA StackPassesIs ==
  ASSUME NEW t, NEW seq
  PROVE  FoldLeft(LAMBDA st, k : PassStack(st, This, k), t, seq) = StackPasses!Fold(t, seq)[DOMAIN seq]
BY DEF FoldLeft, MapThenFoldSet, Max, StackPasses!Fold, StackPasses!Greatest, PassStackTurn

(* The other one.                                                          *)
LEMMA RegisterPassesIs ==
  ASSUME NEW t, NEW seq
  PROVE  FoldLeft(LAMBDA st, k : PassRegister(st, This, k), t, seq) = RegisterPasses!Fold(t, seq)[DOMAIN seq]
BY DEF FoldLeft, MapThenFoldSet, Max, RegisterPasses!Fold, RegisterPasses!Greatest, PassRegisterTurn

(* A turn of the loop over the arguments on the stack.                     *)
LEMMA PassStackOK ==
  ASSUME created \in Nat, NEW st, PassingOK(st), NEW k
  PROVE  PassingOK(PassStackTurn(st, k))
<1> DEFINE place == Val("mem", Func.name, k)
           u     == Passed(st, This, k, place)
           x     == [base |-> SP, off |-> 4 * (k - 5)]
           v     == [u EXCEPT !.at = (place :> x) @@ u.at]
<1>1. PassingOK(u)
  BY PassedOK
<1>2. PassStackTurn(st, k) = IF k > OperandNum(st.g, This) THEN st ELSE v
  BY Zenon DEF PassStackTurn, PassStack
<1> HIDE DEF u
<1>3. PassingOK(v)
  <2> DEFINE y == (place :> x) @@ u.at
  <2> HIDE DEF y
  <2>1. [u EXCEPT !.at = y] = [g |-> u.g, moves |-> u.moves, at |-> y, id |-> u.id]
    BY <1>1 DEF PassingOK
  <2>2. PassingOK([u EXCEPT !.at = y])
    BY <1>1, <2>1 DEF PassingOK
  <2> QED
    BY <2>2 DEF y
<1> HIDE DEF v
<1> QED
  BY <1>2, <1>3

(* A turn of the loop over those in registers.                             *)
LEMMA PassRegisterOK ==
  ASSUME created \in Nat, NEW st, PassingOK(st), NEW k
  PROVE  PassingOK(PassRegisterTurn(st, k))
BY PassedOK, Zenon DEF PassRegisterTurn, PassRegister

(* The loops make moves, turn after turn.                                  *)
LEMMA StackPassesOK ==
  ASSUME created \in Nat, NEW st, PassingOK(st), NEW n \in Nat, NEW seq, DOMAIN seq = 1..n
  PROVE  PassingOK(FoldLeft(LAMBDA u, k : PassStack(u, This, k), st, seq))
<1>1. PassingTurn(0, st) /\ \A u : \A k \in 1..n : PassingTurn(k - 1, u) => PassingTurn(k, PassStackTurn(u, seq[k]))
  BY PassStackOK DEF PassingTurn
<1>2. PassingTurn(n, StackPasses!Fold(st, seq)[1..n])
  BY <1>1, LeastElement, StackPasses!FoldInvariant
<1> QED
  BY <1>2, StackPassesIs DEF PassingTurn

(* The other loop.                                                         *)
LEMMA RegisterPassesOK ==
  ASSUME created \in Nat, NEW st, PassingOK(st), NEW n \in Nat, NEW seq, DOMAIN seq = 1..n
  PROVE  PassingOK(FoldLeft(LAMBDA u, k : PassRegister(u, This, k), st, seq))
<1>1. PassingTurn(0, st) /\ \A u : \A k \in 1..n : PassingTurn(k - 1, u) => PassingTurn(k, PassRegisterTurn(u, seq[k]))
  BY PassRegisterOK DEF PassingTurn
<1>2. PassingTurn(n, RegisterPasses!Fold(st, seq)[1..n])
  BY <1>1, LeastElement, RegisterPasses!FoldInvariant
<1> QED
  BY <1>2, RegisterPassesIs DEF PassingTurn

(* All the moves of a call.                                                *)
LEMMA PassingIsOK ==
  ASSUME created \in Nat, ListsOK(graph)
  PROVE  PassingOK(Passing(This))
<1>1. PassingOK([g |-> graph, moves |-> << >>, at |-> addr, id |-> created])
  BY DEF PassingOK, IsSeq
<1>2. \E n \in Nat : DOMAIN [j \in 1 .. MaxOperands - 4 |-> 4 + j] = 1..n
  <2>1. CASE MaxOperands >= 4
    <3>1. MaxOperands - 4 \in Nat
      BY <2>1, MaxOperandsAssumption
    <3> QED
      BY <3>1
  <2>2. CASE ~(MaxOperands >= 4)
    <3>1. 1..MaxOperands - 4 = 1..0
      BY <2>2, MaxOperandsAssumption
    <3> QED
      BY <3>1
  <2> QED
    BY <2>1, <2>2
<1>3. DOMAIN << 1, 2, 3, 4 >> = 1..4 /\ 4 \in Nat
  OBVIOUS
<1> QED
  BY <1>1, <1>2, <1>3, StackPassesOK, RegisterPassesOK, Zenon DEF Passing

-----------------------------------------------------------------------------
(* The module as it is delivered                                           *)

Ends == [usee : IRVals, user : IRVals]

Connections(fns) == FlattenSeq([i \in DOMAIN fns |-> AllOperands(fns[i])])

(* The operands of an instruction, and of all the instructions, as edges.  *)
LEMMA OperandsType ==
  ASSUME NEW user \in IRVals, NEW vals \in Seq(IRVals)
  PROVE  Operands(user, vals) \in Seq(Ends)
<1>1. Len(vals) \in Nat /\ DOMAIN vals = 1..Len(vals) /\ \A k \in 1..Len(vals) : vals[k] \in IRVals
  OBVIOUS
<1>2. \A k \in 1..Len(vals) : [usee |-> vals[k], user |-> user] \in Ends
  BY <1>1 DEF Ends
<1> HIDE DEF Ends
<1>3. [k \in 1..Len(vals) |-> [usee |-> vals[k], user |-> user]] \in Seq(Ends)
  BY <1>1, <1>2, IsASeq
<1> QED
  BY <1>1, <1>3 DEF Operands

(* What is known of a function.                                            *)
LEMMA FunctionFacts ==
  ASSUME NEW fn, IsFunction(fn)
  PROVE  /\ Len(fn.code) \in Nat /\ DOMAIN fn.code = 1..Len(fn.code) /\ fn.vars \in Nat
         /\ \A i \in DOMAIN fn.code : IsInst(fn.code[i], fn)
<1>1. fn \in [name : {fn.name}, builtin : BOOLEAN, vars : Nat, voids : SUBSET Nat, code : Seq(Range(fn.code)),
             existFuncCall : BOOLEAN, maxFuncCallArgCnt : Nat]
  BY DEF IsFunction
<1>2. fn.code \in Seq(Range(fn.code)) /\ fn.vars \in Nat
  BY <1>1
<1> DEFINE S == Range(fn.code)
<1> HIDE DEF S
<1>3. fn.code \in Seq(S)
  BY <1>2 DEF S
<1> QED
  BY <1>2, <1>3, SeqIs DEF IsFunction

(* And of its instructions.                                                *)
LEMMA InstFacts ==
  ASSUME NEW fn, IsFunction(fn), NEW i \in DOMAIN fn.code
  PROVE  /\ fn.code[i].id \in 1..Len(fn.code) /\ fn.code[i].args \in Seq(IRVals)
         /\ Val("inst", fn.name, fn.code[i].id) \in IRVals
<1> DEFINE inst == fn.code[i]
<1>1. IsInst(inst, fn)
  BY FunctionFacts
<1> HIDE DEF inst
<1> QED
  BY <1>1 DEF IsInst, inst

(* The edges of a function.                                                *)
LEMMA AllOperandsType ==
  ASSUME NEW fn, IsFunction(fn)
  PROVE  AllOperands(fn) \in Seq(Ends)
<1> DEFINE l     == Len(fn.code)
           of(n) == Operands(Val("inst", fn.name, n), ById(fn, n).args)
<1>1. l \in Nat /\ DOMAIN fn.code = 1..l
  BY FunctionFacts
<1>2. ASSUME NEW n \in 1..l PROVE of(n) \in Seq(Ends)
  <2>1. \E i \in DOMAIN fn.code : fn.code[i].id = n
    BY <1>1 DEF IsFunction
  <2> DEFINE i == CHOOSE j \in DOMAIN fn.code : fn.code[j].id = n
  <2>2. i \in DOMAIN fn.code /\ fn.code[i].id = n
    BY <2>1
  <2>3. ById(fn, n) = fn.code[i]
    BY DEF ById
  <2> HIDE DEF i
  <2>4. Val("inst", fn.name, n) \in IRVals /\ ById(fn, n).args \in Seq(IRVals)
    BY <2>2, <2>3, InstFacts
  <2> QED
    BY <2>4, OperandsType
<1> HIDE DEF l, of
<1>3. [n \in 1..l |-> of(n)] \in Seq(Seq(Ends))
  BY <1>1, <1>2, IsASeq
<1>4. FlattenSeq([n \in 1..l |-> of(n)]) \in Seq(Ends)
  BY <1>3, FlattenType
<1> QED
  BY <1>1, <1>4 DEF AllOperands, of

(* The edges of a module.                                                  *)
LEMMA ConnectionsType ==
  ASSUME NEW fns, IsModule(fns)
  PROVE  Connections(fns) \in Seq(Ends)
<1> DEFINE n == Len(fns)
           S == Range(fns)
<1>1. fns \in Seq(S) /\ \A i \in DOMAIN fns : IsFunction(fns[i])
  BY DEF IsModule
<1> HIDE DEF S
<1>2. n \in Nat /\ DOMAIN fns = 1..n
  BY <1>1
<1>3. \A i \in 1..n : AllOperands(fns[i]) \in Seq(Ends)
  BY <1>1, <1>2, AllOperandsType
<1> HIDE DEF n
<1>4. [i \in 1..n |-> AllOperands(fns[i])] \in Seq(Seq(Ends))
  BY <1>2, <1>3, IsASeq
<1>5. FlattenSeq([i \in 1..n |-> AllOperands(fns[i])]) \in Seq(Ends)
  BY <1>4, FlattenType
<1> QED
  BY <1>2, <1>5 DEF Connections

(* So the graph of a module that is delivered has proper use lists.        *)
LEMMA ConnectedLists ==
  ASSUME NEW fns, IsModule(fns)
  PROVE  ListsOK(Connected(fns))
<1> DEFINE g == NewGraph(IRVals, Uses)
           e == Connections(fns)
<1>1. ListsOK(g)
  BY DEF NewGraph, ListsOK, IsSeq
<1>2. e \in Seq(Ends)
  BY ConnectionsType
<1>3. Connected(fns) = FoldLeft(Link, g, e)
  BY DEF Connected, Connections
<1> HIDE DEF g, e
<1>4. Len(e) \in Nat /\ DOMAIN e = 1..Len(e)
  BY <1>2, SeqIs
<1> QED
  BY <1>1, <1>3, <1>4, FoldLists

-----------------------------------------------------------------------------
(* The invariant of the code generator                                     *)

IsRecord(f) ==
  /\ f = [name |-> f.name, builtin |-> f.builtin, vars |-> f.vars, voids |-> f.voids, code |-> f.code,
          existFuncCall |-> f.existFuncCall, maxFuncCallArgCnt |-> f.maxFuncCallArgCnt]
  /\ f.vars \in Nat

(* The functions behind the current one are as they were delivered.        *)
FuncsOK(fs, c) ==
  /\ IsSeq(fs) /\ Len(fs) \in Nat /\ DOMAIN fs = 1..Len(fs) /\ c \in 0..Len(fs)
  /\ \A i \in DOMAIN fs : IsRecord(fs[i]) /\ (i > c => IsFunction(fs[i]))
  /\ \A i, j \in DOMAIN fs : fs[i].name = fs[j].name => i = j

(* What is known of a function that is being compiled, in each phase.      *)
Rewriting == cur # 0 /\ pos \in Nat \ {0} /\ CodeOK(insts, created, Func.name)
Translating == cur # 0 /\ pos \in Nat \ {0} /\ \E n : CodeOK(insts, n, Func.name)

CodeInv ==
  /\ FuncsOK(funcs, cur) /\ ListsOK(graph)
  /\ phase \in {"next", "calls", "args", "select", "finished"}
  /\ phase \in {"calls", "args"} => Rewriting
  /\ phase = "args" => pos <= Len(insts) /\ insts[pos].op = "call"
  /\ phase = "select" => Translating
  /\ IsSeq(asm)

(* A function that is delivered is a record with code.                     *)
LEMMA DeliveredIs ==
  ASSUME NEW f, IsFunction(f)
  PROVE  IsRecord(f)
<1>1. f \in [name : {f.name}, builtin : BOOLEAN, vars : Nat, voids : SUBSET Nat, code : Seq(Range(f.code)),
             existFuncCall : BOOLEAN, maxFuncCallArgCnt : Nat]
  BY DEF IsFunction
<1> DEFINE S == Seq(Range(f.code))
<1> HIDE DEF S
<1>2. f \in [name : {f.name}, builtin : BOOLEAN, vars : Nat, voids : SUBSET Nat, code : S,
             existFuncCall : BOOLEAN, maxFuncCallArgCnt : Nat]
  BY <1>1 DEF S
<1> QED
  BY <1>2 DEF IsRecord

(* Its code, as the back end takes it over.                                *)
LEMMA DeliveredCode ==
  ASSUME NEW f, IsFunction(f), ~f.builtin
  PROVE  CodeOK([i \in DOMAIN f.code |-> LET inst == f.code[i] IN IRInst(inst.op, inst.id, inst.target, inst.void)],
                Len(f.code), f.name)
<1> DEFINE n == Len(f.code)
           e(i) == IRInst(f.code[i].op, f.code[i].id, f.code[i].target, f.code[i].void)
           c == [i \in 1..n |-> e(i)]
<1>1. n \in Nat /\ DOMAIN f.code = 1..n
  BY FunctionFacts
<1>2. IsSeq(c)
  <2> DEFINE V == {e(i) : i \in 1..n}
  <2> HIDE DEF n, e
  <2>1. c \in Seq(V)
    <3>1. \A i \in 1..n : e(i) \in V
      BY DEF V
    <3> HIDE DEF V
    <3> QED
      BY <1>1, <3>1, IsASeq
  <2> QED
    BY <2>1, SeqIs
<1>3. \A i \in 1..n : /\ c[i].op = f.code[i].op /\ c[i].id = f.code[i].id /\ c[i].target = f.code[i].target
                      /\ c[i].id \in 1..n /\ Val("inst", f.name, c[i].id) \in IRVals
  BY <1>1, InstFacts DEF IRInst
<1>4. \A i, j \in 1..n : c[i].id = c[j].id => i = j
  <2>1. \A i, j \in 1..n : f.code[i].id = f.code[j].id => i = j
    BY <1>1 DEF IsFunction
  <2> HIDE DEF n, c
  <2> QED
    BY <1>3, <2>1
<1>5. \E k \in 1..n : ExitLabel(c, f.name, k)
  <2>1. PICK k \in 1..n : ExitLabel(f.code, f.name, k)
    BY <1>1 DEF IsFunction
  <2> HIDE DEF n
  <2>2. DOMAIN c = 1..n
    OBVIOUS
  <2> HIDE DEF c
  <2>3. ExitLabel(c, f.name, k)
    BY <1>1, <1>3, <2>1, <2>2 DEF ExitLabel
  <2> QED
    BY <2>3
<1>6. CodeOK(c, n, f.name)
  <2> HIDE DEF n
  <2>1. DOMAIN c = 1..n
    OBVIOUS
  <2> HIDE DEF c
  <2> QED
    BY <1>1, <1>2, <1>3, <1>4, <1>5, <2>1 DEF CodeOK
<1>7. [i \in DOMAIN f.code |-> LET inst == f.code[i] IN IRInst(inst.op, inst.id, inst.target, inst.void)] = c
  BY <1>1
<1> QED
  BY <1>6, <1>7

(* The invariant holds at the beginning.                                   *)
LEMMA InitCode == Init => CodeInv
<1> SUFFICES ASSUME Init PROVE CodeInv
  OBVIOUS
<1>1. IsModule(funcs) /\ graph = Connected(funcs)
  BY InputsAssumption DEF Init
<1>2. FuncsOK(funcs, 0)
  <2> DEFINE S == Range(funcs)
  <2>1. funcs \in Seq(S)
    BY <1>1 DEF IsModule
  <2> HIDE DEF S
  <2>2. IsSeq(funcs) /\ Len(funcs) \in Nat /\ DOMAIN funcs = 1..Len(funcs)
    BY <2>1, SeqIs
  <2> QED
    BY <1>1, <2>2, DeliveredIs DEF IsModule, FuncsOK
<1>3. ListsOK(graph)
  BY <1>1, ConnectedLists
<1>4. cur = 0 /\ phase = "next" /\ asm = << >>
  BY DEF Init, Unstarted
<1> QED
  BY <1>2, <1>3, <1>4 DEF CodeInv, IsSeq

(* One instruction put in is fresh.                                        *)
LEMMA FreshOne ==
  ASSUME NEW n \in Nat, NEW x, x.op \in {"move", "arg"}, x.id = n + 1
  PROVE  Fresh(<< x >>, n, n + 1) /\ Len(<< x >>) = 1 /\ DOMAIN << x >> = 1..1 /\ IsSeq(<< x >>)
<1>1. Len(<< x >>) = 1 /\ DOMAIN << x >> = 1..1 /\ << x >>[1] = x /\ << x >> \in Seq({x})
  OBVIOUS
<1>2. IsSeq(<< x >>)
  BY <1>1, SeqIs
<1> DEFINE new == << x >>
<1>3. Len(new) = 1 /\ DOMAIN new = 1..1 /\ new[1] = x /\ IsSeq(new)
  BY <1>1, <1>2
<1> HIDE DEF new
<1>4. \A j \in DOMAIN new : new[j] = x /\ j = 1
  BY <1>3
<1>5. Fresh(new, n, n + 1)
  BY <1>3, <1>4 DEF Fresh
<1> QED
  BY <1>3, <1>5 DEF new

(* An interval tells its length.                                           *)
LEMMA SameLength ==
  ASSUME NEW a \in Nat, NEW b \in Nat, 1..a = 1..b
  PROVE  a = b
<1>1. a > b => a \in 1..a /\ a \notin 1..b
  OBVIOUS
<1>2. b > a => b \in 1..b /\ b \notin 1..a
  OBVIOUS
<1> QED
  BY <1>1, <1>2

(* The steps that rewrite the calls keep it.                               *)
LEMMA NextFunctionCode ==
  ASSUME CodeInv, NextFunction
  PROVE  CodeInv'
<1> DEFINE f == funcs[cur + 1]
<1>1. /\ phase = "next" /\ cur < Len(funcs) /\ cur' = cur + 1 /\ Begin(f)
      /\ funcs' = funcs /\ graph' = graph /\ asm' = asm
  BY DEF NextFunction, Begin
<1>2. FuncsOK(funcs, cur + 1) /\ cur + 1 # 0 /\ cur + 1 \in DOMAIN funcs
  BY <1>1 DEF CodeInv, FuncsOK
<1>3. IsFunction(f)
  BY <1>1 DEF CodeInv, FuncsOK
<1> HIDE DEF f
<1>4. phase' \in {"next", "calls"} /\ (phase' = "calls" => pos' = 1 /\ CodeOK(insts', created', f.name))
  BY <1>1, <1>3, DeliveredCode DEF Begin
<1>5. Func' = f
  BY <1>1 DEF Func, f
<1> QED
  BY <1>1, <1>2, <1>4, <1>5 DEF CodeInv, Rewriting

(* Nothing to do for an instruction that is no call.                       *)
LEMMA SkipInstCode ==
  ASSUME CodeInv, SkipInst
  PROVE  CodeInv'
BY DEF CodeInv, SkipInst, Rewriting, Func

(* The moves of the arguments go in front of the call, which stays the     *)
(* current instruction.                                                    *)
LEMMA PassArgumentsCode ==
  ASSUME CodeInv, PassArguments
  PROVE  CodeInv'
<1> DEFINE st == Passing(This)
<1>1. /\ phase = "calls" /\ pos <= Len(insts) /\ insts[pos].op = "call"
      /\ graph' = st.g /\ addr' = st.at /\ created' = st.id
      /\ insts' = Inserted(insts, pos, st.moves) /\ pos' = pos + Len(st.moves)
      /\ phase' = "args" /\ funcs' = funcs /\ cur' = cur /\ asm' = asm
  BY DEF PassArguments, This
<1>2. CodeOK(insts, created, Func.name) /\ created \in Nat /\ pos \in 1..Len(insts)
  BY <1>1 DEF CodeInv, Rewriting, CodeOK, IsSeq
<1>3. PassingOK(st)
  BY <1>2, PassingIsOK DEF CodeInv
<1> HIDE DEF st
<1>4. Len(st.moves) \in Nat /\ DOMAIN st.moves = 1..Len(st.moves) /\ IsSeq(st.moves)
  BY <1>3, SeqIs DEF PassingOK, IsSeq
<1>5. Fresh(st.moves, created, st.id) /\ st.id \in Nat /\ created <= st.id
  <2>1. st.id = created + Len(st.moves) /\ \A j \in DOMAIN st.moves : st.moves[j] = Move(created + j)
    BY <1>3 DEF PassingOK
  <2>2. \A j \in DOMAIN st.moves : st.moves[j].op = "move" /\ st.moves[j].id = created + j
    <3>1. \A x : Move(x).op = "move" /\ Move(x).id = x
      BY DEF Move, IRInst
    <3> QED
      BY <2>1, <3>1
  <2>3. \A j \in DOMAIN st.moves : created + j \in created + 1..st.id
    BY <1>2, <1>4, <2>1
  <2>4. \A i, j \in DOMAIN st.moves : created + i = created + j => i = j
    BY <1>2, <1>4
  <2> QED
    BY <1>2, <1>4, <2>1, <2>2, <2>3, <2>4 DEF Fresh
<1>6. CodeOK(insts', created', Func.name)
  BY <1>1, <1>2, <1>5, InsertedCode
<1>7. InsertedAt(insts, pos, st.moves, insts')
  BY <1>1, <1>2, <1>4, InsertedIs DEF CodeOK
<1>8. pos' \in Nat \ {0} /\ pos' <= Len(insts') /\ insts'[pos'] = insts[pos]
  BY <1>1, <1>2, <1>4, <1>7 DEF InsertedAt
<1>9. ListsOK(graph')
  BY <1>1, <1>3 DEF PassingOK
<1>10. Func' = Func
  BY <1>1 DEF Func
<1> QED
  BY <1>1, <1>6, <1>8, <1>9, <1>10 DEF CodeInv, Rewriting

(* So does every ARG.                                                      *)
LEMMA MakeArgCode ==
  ASSUME CodeInv, MakeArg
  PROVE  CodeInv'
<1> DEFINE m == created + 1
           new == << ArgInst(m) >>
<1>1. /\ phase = "args" /\ created' = m /\ pos' = pos + 1 /\ phase' = phase
      /\ insts' = Inserted(insts, pos, new)
      /\ graph' = Connect(graph, InstVal(created'), << OperandAt(graph, InstVal(insts[pos].id), turn) >>)
      /\ funcs' = funcs /\ cur' = cur /\ asm' = asm
  BY DEF MakeArg
<1>2. CodeOK(insts, created, Func.name) /\ created \in Nat /\ pos \in 1..Len(insts) /\ insts[pos].op = "call"
  BY <1>1 DEF CodeInv, Rewriting, CodeOK, IsSeq
<1>3. m \in Nat /\ created <= m /\ ArgInst(m).op = "arg" /\ ArgInst(m).id = m
  BY <1>2 DEF ArgInst, IRInst
<1>4. Fresh(new, created, m) /\ Len(new) = 1 /\ DOMAIN new = 1..1 /\ IsSeq(new)
  BY <1>2, <1>3, FreshOne
<1> HIDE DEF new
<1>5. CodeOK(insts', created', Func.name)
  BY <1>1, <1>2, <1>3, <1>4, InsertedCode
<1>6. InsertedAt(insts, pos, new, insts')
  BY <1>1, <1>2, <1>4, InsertedIs DEF CodeOK
<1>7. pos' \in Nat \ {0} /\ pos' <= Len(insts') /\ insts'[pos'] = insts[pos]
  BY <1>1, <1>2, <1>4, <1>6 DEF InsertedAt
<1>8. ListsOK(graph')
  BY <1>1, ConnectLists DEF CodeInv
<1>9. Func' = Func
  BY <1>1 DEF Func
<1> QED
  BY <1>1, <1>2, <1>5, <1>7, <1>8, <1>9 DEF CodeInv, Rewriting

(* The move of the result goes behind the call.                            *)
LEMMA TakeResultCode ==
  ASSUME CodeInv, TakeResult
  PROVE  CodeInv'
<1>1. phase = "args" /\ phase' = "calls" /\ funcs' = funcs /\ cur' = cur /\ asm' = asm /\ Func' = Func
  BY DEF TakeResult, Func
<1>2. CodeOK(insts, created, Func.name) /\ created \in Nat /\ pos \in 1..Len(insts)
  BY <1>1 DEF CodeInv, Rewriting, CodeOK, IsSeq
<1>3. CASE HasResult(insts[pos])
  <2> DEFINE m == created + 1
             new == << Move(m) >>
  <2>1. /\ created' = m /\ pos' = pos + 2 /\ insts' = Inserted(insts, pos + 1, new)
        /\ graph' = Connect(graph, InstVal(created'), << InstVal(insts[pos].id), Reg(0) >>)
    BY <1>3 DEF TakeResult
  <2>2. Fresh(new, created, m) /\ m \in Nat /\ created <= m
    <3>1. m \in Nat /\ created <= m /\ Move(m).op = "move" /\ Move(m).id = m
      BY <1>2 DEF Move, IRInst
    <3> QED
      BY <1>2, <3>1, FreshOne
  <2> HIDE DEF new
  <2>3. CodeOK(insts', created', Func.name)
    <3>1. pos + 1 \in 1..Len(insts) + 1
      BY <1>2 DEF CodeOK, IsSeq
    <3> QED
      BY <1>2, <2>1, <2>2, <3>1, InsertedCode
  <2>4. ListsOK(graph')
    BY <2>1, ConnectLists DEF CodeInv
  <2> QED
    BY <1>1, <1>2, <2>1, <2>3, <2>4 DEF CodeInv, Rewriting
<1>4. CASE ~HasResult(insts[pos])
  <2>1. pos' = pos + 1 /\ created' = created /\ graph' = graph /\ insts' = insts
    BY <1>4 DEF TakeResult
  <2> QED
    BY <1>1, <1>2, <2>1 DEF CodeInv, Rewriting
<1> QED
  BY <1>3, <1>4

(* With the frame laid out, the selector begins with no code.              *)
LEMMA AllocateStackCode ==
  ASSUME CodeInv, AllocateStack
  PROVE  CodeInv'
<1>1. /\ phase = "calls" /\ phase' = "select" /\ pos' = 1 /\ asm' = << >>
      /\ funcs' = funcs /\ cur' = cur /\ insts' = insts /\ graph' = graph
  BY DEF AllocateStack
<1>2. IsSeq(<< >>)
  BY DEF IsSeq
<1> QED
  BY <1>1, <1>2 DEF CodeInv, Rewriting, Translating, Func

(* The function takes its rewritten code; the others stay as they are.     *)
LEMMA FinishFunctionCode ==
  ASSUME CodeInv, FinishFunction
  PROVE  CodeInv'
<1> DEFINE fs == [funcs EXCEPT ![cur].code = insts]
           f  == [funcs[cur] EXCEPT !.code = insts]
<1>1. phase = "select" /\ phase' = "next" /\ funcs' = fs /\ cur' = cur /\ asm' = asm /\ graph' = graph
  BY DEF FinishFunction
<1>2. cur \in DOMAIN funcs /\ fs = [funcs EXCEPT ![cur] = f]
  BY <1>1 DEF CodeInv, Translating, FuncsOK
<1>3. IsRecord(f) /\ f.name = funcs[cur].name
  <2>1. IsRecord(funcs[cur])
    BY <1>2 DEF CodeInv, FuncsOK
  <2> DEFINE g == funcs[cur]
  <2> HIDE DEF g
  <2>2. IsRecord([g EXCEPT !.code = insts]) /\ [g EXCEPT !.code = insts].name = g.name
    BY <2>1 DEF IsRecord, g
  <2> QED
    BY <2>2 DEF g
<1> HIDE DEF f
<1>4. FuncsOK(fs, cur)
  <2>1. DOMAIN fs = DOMAIN funcs /\ DOMAIN funcs = 1..Len(funcs) /\ Len(funcs) \in Nat
    BY <1>2 DEF CodeInv, FuncsOK
  <2>2. \A i \in DOMAIN funcs : fs[i] = IF i = cur THEN f ELSE funcs[i]
    BY <1>2
  <2> HIDE DEF fs
  <2>3. Len(fs) = Len(funcs) /\ IsSeq(fs)
    <3> DEFINE n == Len(funcs)
               V == {fs[i] : i \in 1..n}
    <3>1. fs = [i \in 1..n |-> fs[i]]
      BY <1>2, <2>1 DEF fs
    <3>2. n \in Nat /\ \A i \in 1..n : fs[i] \in V
      BY <2>1
    <3> HIDE DEF V, n
    <3>3. [i \in 1..n |-> fs[i]] \in Seq(V)
      BY <3>2, IsASeq
    <3>4. fs \in Seq(V)
      BY <3>1, <3>3
    <3>5. IsSeq(fs) /\ Len(fs) \in Nat /\ DOMAIN fs = 1..Len(fs)
      BY <3>4, SeqIs
    <3>6. DOMAIN fs = 1..n
      BY <2>1 DEF n
    <3>7. Len(fs) = n
      <4>1. 1..Len(fs) = 1..n
        BY <3>5, <3>6
      <4> QED
        BY <3>2, <3>5, <4>1, SameLength, Zenon
    <3> QED
      BY <3>5, <3>7 DEF n
  <2> QED
    BY <1>2, <1>3, <2>1, <2>2, <2>3 DEF CodeInv, FuncsOK
<1> QED
  BY <1>1, <1>4 DEF CodeInv

(* The steps of the instruction selector but for labels and jumps.         *)
PlainSelection ==
  \/ SelectEntry \/ SelectExit \/ SelectAssign \/ SelectTwoOperator("add") \/ SelectTwoOperator("sub")
  \/ SelectCall \/ SelectArg

(* What the selector changes with the next instruction, of that kind.      *)
Selected ==
  /\ phase = "select" /\ pos <= Len(insts) /\ pos' = pos + 1
  /\ ListsOK(graph') /\ SameSlots(addr, addr')
  /\ UNCHANGED << funcs, cur, phase, insts, maxDep, labelName, output >>

(* A handler that keeps what it should leaves such a state.                *)
LEMMA SelectKept ==
  ASSUME phase = "select", pos <= Len(insts), NEW s, Kept(asm, addr, s), Select(s)
  PROVE  Selected /\ Continues(asm, asm')
<1>1. /\ asm' = s.asm /\ graph' = s.graph /\ addr' = s.addr /\ pos' = pos + 1
      /\ UNCHANGED << funcs, cur, phase, insts, maxDep, labelName, output >>
  BY DEF Select
<1> QED
  BY <1>1 DEF Kept, Selected

(* Before the handler, everything is as it is.                             *)
LEMMA SelectionKept ==
  ASSUME CodeInv
  PROVE  Kept(asm, addr, Selection)
<1>1. IsSelection(Selection) /\ Selection.asm = asm /\ Selection.addr = addr /\ Selection.graph = graph
  BY DEF Selection, IsSelection
<1> QED
  BY <1>1 DEF Kept, CodeInv, Continues, SameSlots

(* Each of these steps adds plain code.                                    *)
LEMMA SelectPlainly ==
  ASSUME CodeInv, PlainSelection
  PROVE  Selected /\ Continues(asm, asm') /\ insts[pos].op \notin {"label", "goto"}
<1>1. Kept(asm, addr, Selection)
  BY SelectionKept
<1>2. phase = "select" /\ pos <= Len(insts) /\ insts[pos].op \notin {"label", "goto"}
  BY DEF PlainSelection, SelectEntry, SelectExit, SelectAssign, SelectTwoOperator, SelectCall, SelectArg, Selecting
<1>3. CASE SelectEntry
  BY <1>1, <1>2, <1>3, EntryKeeps, SelectKept DEF SelectEntry
<1>4. CASE SelectExit
  BY <1>1, <1>2, <1>4, ExitKeeps, SelectKept DEF SelectExit
<1>5. CASE SelectAssign
  BY <1>1, <1>2, <1>5, AssignKeeps, SelectKept DEF SelectAssign
<1>6. CASE SelectTwoOperator("add")
  BY <1>1, <1>2, <1>6, TwoOperatorKeeps, SelectKept DEF SelectTwoOperator
<1>7. CASE SelectTwoOperator("sub")
  BY <1>1, <1>2, <1>7, TwoOperatorKeeps, SelectKept DEF SelectTwoOperator
<1>8. CASE SelectCall
  <2>1. PICK n : CodeOK(insts, n, Func.name)
    BY <1>2 DEF CodeInv, Translating
  <2>2. pos \in DOMAIN insts /\ insts[pos].op = "call"
    BY <1>2, <1>8, <2>1, SeqIs DEF SelectCall, Selecting, CodeInv, Translating, CodeOK, IsSeq
  <2>3. This \in IRVals
    BY <2>1, <2>2 DEF CodeOK, This, InstVal
  <2>4. Kept(asm, addr, translate_call(Selection, This, insts[pos]))
    BY <1>1, <2>3, CallKeeps
  <2>5. Select(translate_call(Selection, This, insts[pos]))
    BY <1>8 DEF SelectCall
  <2> QED
    BY <1>2, <2>4, <2>5, SelectKept
<1>9. CASE SelectArg
  BY <1>1, <1>2, <1>9, SelectKept DEF SelectArg
<1> QED
  BY <1>2, <1>3, <1>4, <1>5, <1>6, <1>7, <1>8, <1>9 DEF PlainSelection

(* Labels and jumps are instructions of their own.                         *)
LabelInst == ArmInst(":", Label(labelName[This]), Blank, Blank)
GotoInst  == ArmInst("b", Label(labelName[insts[pos].target]), Blank, Blank)

(* A handler that emits one instruction.                                   *)
LEMMA SelectOne ==
  ASSUME CodeInv, phase = "select", pos <= Len(insts), NEW inst, Select(Emit(Selection, << inst >>))
  PROVE  Selected /\ asm' = asm \o << inst >>
<1>1. Emit(Selection, << inst >>).asm = asm \o << inst >> /\ Emit(Selection, << inst >>).graph = graph
      /\ Emit(Selection, << inst >>).addr = addr
  BY DEF Emit, Selection
<1>2. /\ asm' = asm \o << inst >> /\ graph' = graph /\ addr' = addr /\ pos' = pos + 1
      /\ UNCHANGED << funcs, cur, phase, insts, maxDep, labelName, output >>
  BY <1>1 DEF Select
<1> QED
  BY <1>2 DEF Selected, CodeInv, SameSlots

(* A label,                                                                *)
LEMMA SelectLabelIs ==
  ASSUME CodeInv, SelectLabel
  PROVE  Selected /\ asm' = asm \o << LabelInst >> /\ insts[pos].op = "label"
<1>1. phase = "select" /\ pos <= Len(insts) /\ insts[pos].op = "label" /\ Select(Emit(Selection, << LabelInst >>))
  BY DEF SelectLabel, Selecting, LabelInst
<1> QED
  BY <1>1, SelectOne

(* and a jump.                                                             *)
LEMMA SelectGotoIs ==
  ASSUME CodeInv, SelectGoto
  PROVE  Selected /\ asm' = asm \o << GotoInst >> /\ insts[pos].op = "goto"
<1>1. phase = "select" /\ pos <= Len(insts) /\ insts[pos].op = "goto" /\ Select(Emit(Selection, << GotoInst >>))
  BY DEF SelectGoto, Selecting, GotoInst
<1> QED
  BY <1>1, SelectOne

(* So the selector only adds to the code, and what it adds can be encoded. *)
LEMMA SelectedCode ==
  ASSUME CodeInv, Selected, IsSeq(asm')
  PROVE  CodeInv'
<1>1. phase = "select" /\ phase' = "select" /\ funcs' = funcs /\ cur' = cur /\ insts' = insts /\ pos' = pos + 1
      /\ Func' = Func /\ ListsOK(graph')
  BY DEF Selected, Func
<1>2. Translating
  BY <1>1 DEF CodeInv
<1>3. Translating'
  BY <1>1, <1>2 DEF Translating
<1> QED
  BY <1>1, <1>3 DEF CodeInv

(* One instruction more.                                                   *)
LEMMA OneMore ==
  ASSUME NEW c, IsSeq(c), NEW x
  PROVE  IsSeq(c \o << x >>)
<1>1. << x >> \in Seq({x})
  OBVIOUS
<1>2. IsSeq(<< x >>)
  BY <1>1, SeqIs
<1> QED
  BY <1>2, IsSeqConcat DEF Joined

(* The steps of the instruction selector keep the invariant.               *)
LEMMA SelectionCode ==
  ASSUME CodeInv, PlainSelection \/ SelectLabel \/ SelectGoto
  PROVE  CodeInv'
<1>1. CASE PlainSelection
  <2>1. Selected /\ Continues(asm, asm')
    BY <1>1, SelectPlainly
  <2>2. IsSeq(asm')
    BY <2>1 DEF Continues
  <2> QED
    BY <2>1, <2>2, SelectedCode
<1>2. CASE SelectLabel
  BY <1>2, SelectLabelIs, OneMore, SelectedCode DEF CodeInv
<1>3. CASE SelectGoto
  BY <1>3, SelectGotoIs, OneMore, SelectedCode DEF CodeInv
<1> QED
  BY <1>1, <1>2, <1>3

(* Every step of the code generator is one of these.                       *)
LEMMA NextCode ==
  ASSUME CodeInv, [Next]_vars
  PROVE  CodeInv'
<1>1. CASE NextFunction
  BY <1>1, NextFunctionCode
<1>2. CASE Finish
  BY <1>2 DEF Finish, CodeInv
<1>3. CASE SkipInst
  BY <1>3, SkipInstCode
<1>4. CASE PassArguments
  BY <1>4, PassArgumentsCode
<1>5. CASE MakeArg
  BY <1>5, MakeArgCode
<1>6. CASE TakeResult
  BY <1>6, TakeResultCode
<1>7. CASE AllocateStack
  BY <1>7, AllocateStackCode
<1>8. CASE PlainSelection \/ SelectLabel \/ SelectGoto
  BY <1>8, SelectionCode
<1>9. CASE FinishFunction
  BY <1>9, FinishFunctionCode
<1>10. CASE UNCHANGED vars
  BY <1>10 DEF vars, CodeInv, Rewriting, Translating, Func
<1> QED
  BY <1>1, <1>2, <1>3, <1>4, <1>5, <1>6, <1>7, <1>8, <1>9, <1>10 DEF Next, PlainSelection

-----------------------------------------------------------------------------
(* Labels and jumps                                                        *)

(* The labels and jumps in c are those of one label, defined once at most. *)
OneLabel(c, l) ==
  /\ IsSeq(c)
  /\ \A i \in DOMAIN c : c[i].op \in {":", "b"} => c[i].result = Label(l)
  /\ \A i, j \in DOMAIN c : c[i].op = ":" /\ c[j].op = ":" => i = j

HasLabel(c) == \E i \in DOMAIN c : c[i].op = ":"
HasJump(c)  == \E i \in DOMAIN c : c[i].op = "b"

(* The labels in c are numbered below n and defined once, and all jumps    *)
(* arrive.                                                                 *)
LabelsOK(c, n) ==
  /\ IsSeq(c)
  /\ \A i \in DOMAIN c : c[i].op = ":" => \E l \in 0..n - 1 : c[i].result = Label(l)
  /\ \A i, j \in DOMAIN c : c[i].op = ":" /\ c[j].op = ":" /\ c[i].result = c[j].result => i = j
  /\ \A i \in DOMAIN c : c[i].op = "b" => \E j \in DOMAIN c : c[j].op = ":" /\ c[j].result = c[i].result

(* One turn of the loop that removes labels, and what holds after it.      *)
StaysTurn(kept, inst) == IF Stays(inst, asm) THEN Append(kept, inst) ELSE kept

StayedTurn(k, c) ==
  /\ IsSeq(c)
  /\ \A i \in DOMAIN c : \E j \in 1..k : c[i] = asm[j] /\ Stays(asm[j], asm)
  /\ \A j \in 1..k : Stays(asm[j], asm) => \E i \in DOMAIN c : c[i] = asm[j]
  /\ \A i, j \in DOMAIN c : c[i].op = ":" /\ c[j].op = ":" => i = j

Deleting == INSTANCE FoldLemmas WITH Op <- StaysTurn, P <- StayedTurn

(* The fold that removes labels is that of FoldLemmas.                     *)
LEMMA DeletingIs ==
  ASSUME NEW seq
  PROVE  FoldLeft(LAMBDA kept, inst : IF Stays(inst, asm) THEN Append(kept, inst) ELSE kept, << >>, seq)
           = Deleting!Fold(<< >>, seq)[DOMAIN seq]
BY DEF FoldLeft, MapThenFoldSet, Max, Deleting!Fold, Deleting!Greatest, StaysTurn

(* Appending puts one more element behind the others.                      *)
LEMMA AppendedIs ==
  ASSUME NEW c, IsSeq(c), NEW x
  PROVE  /\ IsSeq(Append(c, x)) /\ Len(c) \in Nat /\ DOMAIN c = 1..Len(c)
         /\ DOMAIN Append(c, x) = 1..Len(c) + 1
         /\ \A i \in 1..Len(c) : Append(c, x)[i] = c[i]
         /\ Append(c, x)[Len(c) + 1] = x
<1> DEFINE S == {c[i] : i \in DOMAIN c} \cup {x}
<1>1. c \in Seq(S) /\ x \in S
  <2>1. Len(c) \in Nat /\ DOMAIN c = 1..Len(c) /\ c = [i \in 1..Len(c) |-> c[i]]
    BY SeqIs DEF IsSeq
  <2>2. \A i \in 1..Len(c) : c[i] \in S
    BY <2>1
  <2>3. x \in S
    OBVIOUS
  <2> HIDE DEF S
  <2> QED
    BY <2>1, <2>2, <2>3, IsASeq
<1> HIDE DEF S
<1> DEFINE d == Append(c, x)
<1>2. /\ d \in Seq(S) /\ Len(d) = Len(c) + 1
      /\ \A i \in 1..Len(c) : d[i] = c[i]
      /\ d[Len(c) + 1] = x
  BY <1>1
<1> HIDE DEF d
<1>3. IsSeq(c) /\ Len(c) \in Nat /\ DOMAIN c = 1..Len(c)
  BY <1>1, SeqIs
<1>4. IsSeq(d) /\ Len(d) \in Nat /\ DOMAIN d = 1..Len(d)
  BY <1>2, SeqIs
<1>5. DOMAIN d = 1..Len(c) + 1
  BY <1>2, <1>4
<1> QED
  BY <1>2, <1>3, <1>4, <1>5 DEF d

(* A turn keeps the instruction or leaves it out.                          *)
LEMMA StaysTurnOK ==
  ASSUME NEW l, OneLabel(asm, l), NEW k \in 1..Len(asm), NEW c, StayedTurn(k - 1, c)
  PROVE  StayedTurn(k, StaysTurn(c, asm[k]))
<1>1. Len(asm) \in Nat /\ DOMAIN asm = 1..Len(asm)
  BY SeqIs DEF OneLabel, IsSeq
<1>2. \A j \in 1..k : j \in 1..k - 1 \/ j = k
  BY <1>1
<1>3. CASE ~Stays(asm[k], asm)
  <2>1. StaysTurn(c, asm[k]) = c
    BY <1>3 DEF StaysTurn
  <2>2. StayedTurn(k, c)
    BY <1>1, <1>2, <1>3 DEF StayedTurn
  <2> QED
    BY <2>1, <2>2
<1>4. CASE Stays(asm[k], asm)
  <2> DEFINE x == asm[k]
             d == Append(c, x)
             n == Len(c)
  <2>1. StaysTurn(c, asm[k]) = d
    BY <1>4 DEF StaysTurn
  <2>2. /\ IsSeq(d) /\ n \in Nat /\ DOMAIN c = 1..n /\ DOMAIN d = 1..n + 1
        /\ \A i \in 1..n : d[i] = c[i]
        /\ d[n + 1] = x
    BY AppendedIs DEF StayedTurn
  <2> HIDE DEF d, n
  <2>3. \A i \in DOMAIN d : i \in 1..n \/ i = n + 1
    BY <2>2
  <2>4. \A i \in DOMAIN d : \E j \in 1..k : d[i] = asm[j] /\ Stays(asm[j], asm)
    <3> SUFFICES ASSUME NEW i \in DOMAIN d PROVE \E j \in 1..k : d[i] = asm[j] /\ Stays(asm[j], asm)
      OBVIOUS
    <3>1. CASE i \in 1..n
      <4>1. PICK j \in 1..k - 1 : c[i] = asm[j] /\ Stays(asm[j], asm)
        BY <2>2, <3>1 DEF StayedTurn
      <4>2. j \in 1..k
        BY <1>1
      <4> QED
        BY <2>2, <3>1, <4>1, <4>2
    <3>2. CASE i = n + 1
      <4>1. k \in 1..k
        BY <1>1
      <4> QED
        BY <1>4, <2>2, <3>2, <4>1
    <3> QED
      BY <2>3, <3>1, <3>2
  <2>5. \A j \in 1..k : Stays(asm[j], asm) => \E i \in DOMAIN d : d[i] = asm[j]
    <3> SUFFICES ASSUME NEW j \in 1..k, Stays(asm[j], asm) PROVE \E i \in DOMAIN d : d[i] = asm[j]
      OBVIOUS
    <3>1. CASE j \in 1..k - 1
      <4>1. PICK i \in DOMAIN c : c[i] = asm[j]
        BY <3>1 DEF StayedTurn
      <4>2. i \in 1..n /\ i \in DOMAIN d
        BY <2>2
      <4> QED
        BY <2>2, <4>1, <4>2
    <3>2. CASE j = k
      <4>1. n + 1 \in DOMAIN d
        BY <2>2
      <4> QED
        BY <2>2, <3>2, <4>1
    <3> QED
      BY <1>2, <3>1, <3>2
  <2>6. \A i, j \in DOMAIN d : d[i].op = ":" /\ d[j].op = ":" => i = j
    <3>1. \A i \in 1..n : d[i].op = ":" => x.op # ":"
      <4> SUFFICES ASSUME NEW i \in 1..n, d[i].op = ":", x.op = ":" PROVE FALSE
        OBVIOUS
      <4>1. PICK j \in 1..k - 1 : c[i] = asm[j]
        BY <2>2 DEF StayedTurn
      <4>2. j \in DOMAIN asm /\ k \in DOMAIN asm /\ j # k
        BY <1>1
      <4>3. asm[j].op = ":" /\ asm[k].op = ":"
        BY <2>2, <4>1
      <4> QED
        BY <4>2, <4>3 DEF OneLabel
    <3>2. \A i, j \in 1..n : d[i].op = ":" /\ d[j].op = ":" => i = j
      BY <2>2 DEF StayedTurn
    <3> HIDE DEF x
    <3> QED
      BY <2>2, <2>3, <3>1, <3>2
  <2>7. StayedTurn(k, d)
    BY <2>2, <2>4, <2>5, <2>6 DEF StayedTurn
  <2> QED
    BY <2>1, <2>7
<1> QED
  BY <1>3, <1>4

(* What is left of a function still has its label if it has a jump to it.  *)
LEMMA DeletedIs ==
  ASSUME NEW l, OneLabel(asm, l), HasLabel(asm)
  PROVE  /\ OneLabel(deleteUsedLabel(asm), l)
         /\ HasJump(deleteUsedLabel(asm)) => HasLabel(deleteUsedLabel(asm))
<1> DEFINE n == Len(asm)
           c == deleteUsedLabel(asm)
<1>1. n \in Nat /\ DOMAIN asm = 1..n
  BY SeqIs DEF OneLabel, IsSeq
<1>2. StayedTurn(0, << >>)
  <2>1. IsSeq(<< >>) /\ DOMAIN << >> = {} /\ 1..0 = {}
    BY DEF IsSeq
  <2> QED
    BY <2>1 DEF StayedTurn
<1>3. \A d : \A k \in 1..n : StayedTurn(k - 1, d) => StayedTurn(k, StaysTurn(d, asm[k]))
  BY StaysTurnOK
<1>4. StayedTurn(n, Deleting!Fold(<< >>, asm)[1..n])
  BY <1>1, <1>2, <1>3, LeastElement, Deleting!FoldInvariant
<1>5. StayedTurn(n, c)
  <2>1. c = Deleting!Fold(<< >>, asm)[DOMAIN asm]
    BY DeletingIs, Zenon DEF deleteUsedLabel
  <2> QED
    BY <1>1, <1>4, <2>1
<1> HIDE DEF c, n
<1>6. \A i \in DOMAIN c : \E j \in DOMAIN asm : c[i] = asm[j]
  BY <1>1, <1>5 DEF StayedTurn
<1>7. OneLabel(c, l)
  BY <1>5, <1>6 DEF OneLabel, StayedTurn
<1>8. ASSUME NEW i \in DOMAIN c, c[i].op = "b" PROVE HasLabel(c)
  <2>1. PICK j \in DOMAIN asm : c[i] = asm[j]
    BY <1>6
  <2>2. PICK k \in DOMAIN asm : asm[k].op = ":"
    BY DEF HasLabel
  <2>3. asm[j].op = "b" /\ asm[k].result = asm[j].result
    BY <1>8, <2>1, <2>2 DEF OneLabel
  <2>4. Stays(asm[k], asm)
    BY <2>3 DEF Stays
  <2>5. \E m \in DOMAIN c : c[m] = asm[k]
    BY <1>1, <1>5, <2>4 DEF StayedTurn
  <2> QED
    BY <2>2, <2>5 DEF HasLabel
<1> QED
  BY <1>7, <1>8 DEF HasJump, c

(* The code of the next function joins that of the functions before.       *)
LEMMA OutputGrows ==
  ASSUME NEW c, NEW n \in Nat, LabelsOK(c, n), NEW x, x.op = "func",
         NEW d, OneLabel(d, n), HasJump(d) => HasLabel(d)
  PROVE  LabelsOK(c \o << x >> \o d, n + 1)
<1> DEFINE one  == << x >>
           head == c \o one
           all  == head \o d
<1>1. DOMAIN one = 1..1 /\ one[1] = x /\ IsSeq(one)
  <2>1. one \in Seq({x}) /\ one[1] = x /\ Len(one) = 1
    OBVIOUS
  <2> QED
    BY <2>1, SeqIs
<1> HIDE DEF one
<1>2. Joined(c, one, head)
  BY <1>1, IsSeqConcat DEF LabelsOK
<1> HIDE DEF head
<1>3. Joined(head, d, all)
  <2>1. IsSeq(head) /\ IsSeq(d)
    BY <1>2 DEF OneLabel, Joined
  <2> QED
    BY <2>1, IsSeqConcat
<1> HIDE DEF all
<1>4. \A i \in DOMAIN head : i \in DOMAIN c \/ head[i] = x
  <2>1. \A j \in DOMAIN one : one[j] = x
    BY <1>1
  <2> QED
    BY <1>2, <2>1 DEF Joined
<1>5. \A i \in DOMAIN c : i \in DOMAIN head /\ head[i] = c[i]
  BY <1>2 DEF Joined
(* Every label or jump is one of those before, or one of the new function. *)
<1> DEFINE Old(p) == p \in DOMAIN c /\ all[p] = c[p]
           New(p, j) == j \in DOMAIN d /\ all[p] = d[j] /\ p = Len(head) + j
<1>6. \A p \in DOMAIN all : all[p].op \in {":", "b"} => Old(p) \/ \E j : New(p, j)
  BY <1>3, <1>4, <1>5 DEF Joined
<1>7. \A i \in DOMAIN c : i \in DOMAIN all /\ all[i] = c[i]
  BY <1>3, <1>5 DEF Joined
<1>8. \A j \in DOMAIN d : Len(head) + j \in DOMAIN all /\ all[Len(head) + j] = d[j]
  BY <1>3 DEF Joined
<1>9. \A l \in 0..n - 1 : Label(l) # Label(n)
  <2>1. \A l : Label(l).n = l
    BY DEF Label, Operand
  <2> QED
    BY <2>1
<1>10. \A p \in DOMAIN all : all[p].op = ":" => \E l \in 0..n : all[p].result = Label(l)
  <2> SUFFICES ASSUME NEW p \in DOMAIN all, all[p].op = ":" PROVE \E l \in 0..n : all[p].result = Label(l)
    OBVIOUS
  <2>1. ASSUME Old(p) PROVE \E l \in 0..n : all[p].result = Label(l)
    <3>1. PICK l \in 0..n - 1 : c[p].result = Label(l)
      BY <2>1 DEF LabelsOK
    <3>2. l \in 0..n
      OBVIOUS
    <3> QED
      BY <2>1, <3>1, <3>2
  <2>2. ASSUME NEW j, New(p, j) PROVE \E l \in 0..n : all[p].result = Label(l)
    <3>1. all[p].result = Label(n) /\ n \in 0..n
      BY <2>2 DEF OneLabel
    <3> QED
      BY <3>1
  <2> QED
    BY <1>6, <2>1, <2>2
<1>11. ASSUME NEW p \in DOMAIN all, NEW q \in DOMAIN all, all[p].op = ":", all[q].op = ":", all[p].result = all[q].result
       PROVE  p = q
  <2>1. \A r \in DOMAIN all : Old(r) /\ all[r].op = ":" => \E l \in 0..n - 1 : all[r].result = Label(l)
    BY DEF LabelsOK
  <2>2. \A r \in DOMAIN all : \A j : New(r, j) /\ all[r].op = ":" => all[r].result = Label(n)
    BY DEF OneLabel
  <2>3. CASE Old(p) /\ Old(q)
    BY <1>11, <2>3 DEF LabelsOK
  <2>4. ASSUME NEW i, NEW j, New(p, i), New(q, j) PROVE p = q
    BY <1>11, <2>4 DEF OneLabel
  <2>5. \A j : ~(Old(p) /\ New(q, j)) /\ ~(New(p, j) /\ Old(q))
    BY <1>9, <1>11, <2>1, <2>2
  <2> HIDE DEF Old, New
  <2> QED
    BY <1>6, <1>11, <2>3, <2>4, <2>5
<1>12. ASSUME NEW p \in DOMAIN all, all[p].op = "b"
       PROVE  \E q \in DOMAIN all : all[q].op = ":" /\ all[q].result = all[p].result
  <2>1. ASSUME Old(p) PROVE \E q \in DOMAIN all : all[q].op = ":" /\ all[q].result = all[p].result
    <3>1. PICK q \in DOMAIN c : c[q].op = ":" /\ c[q].result = c[p].result
      BY <1>12, <2>1 DEF LabelsOK
    <3> QED
      BY <1>7, <2>1, <3>1
  <2>2. ASSUME NEW j, New(p, j) PROVE \E q \in DOMAIN all : all[q].op = ":" /\ all[q].result = all[p].result
    <3>1. PICK i \in DOMAIN d : d[i].op = ":"
      BY <1>12, <2>2 DEF HasJump, HasLabel
    <3>2. d[i].result = d[j].result
      BY <1>12, <2>2, <3>1 DEF OneLabel
    <3> QED
      BY <1>8, <2>2, <3>1, <3>2
  <2> QED
    BY <1>6, <1>12, <2>1, <2>2
<1>13. LabelsOK(all, n + 1)
  <2>1. n + 1 - 1 = n /\ IsSeq(all)
    BY <1>3 DEF Joined
  <2> QED
    BY <1>10, <1>11, <1>12, <2>1 DEF LabelsOK
<1> QED
  BY <1>13 DEF all, head, one

(* How many labels have names.                                             *)
Taken == Cardinality(DOMAIN labelName)

(* The functions whose labels have names: those up to the current one.     *)
Named == IF phase \in {"calls", "args"} THEN cur - 1 ELSE cur

(* The code of the current function has the label that has the last name,  *)
(* once the selector has passed it.                                        *)
Branching(k) ==
  /\ k \in DOMAIN insts /\ ExitLabel(insts, Func.name, k)
  /\ InstVal(insts[k].id) \in DOMAIN labelName /\ labelName[InstVal(insts[k].id)] = Taken - 1
  /\ IF pos > k THEN HasLabel(asm) ELSE ~HasLabel(asm)

LabelInv ==
  /\ IsFiniteSet(DOMAIN labelName)
  /\ \A v \in DOMAIN labelName : \E i \in 1..Named : v.func = funcs[i].name
  /\ phase # "select" => LabelsOK(output, Taken)
  /\ phase = "select" => LabelsOK(output, Taken - 1) /\ OneLabel(asm, Taken - 1) /\ \E k \in DOMAIN insts : Branching(k)

(* It is a number.                                                         *)
LEMMA TakenIs == ASSUME LabelInv PROVE Taken \in Nat
BY FS_CardinalityType DEF LabelInv, Taken

(* At the beginning there are none.                                        *)
LEMMA InitLabels == Init => LabelInv
<1> SUFFICES ASSUME Init PROVE LabelInv
  OBVIOUS
<1>1. phase = "next" /\ labelName = << >> /\ output = << >>
  BY DEF Init, Unstarted
<1>2. DOMAIN labelName = {} /\ IsFiniteSet({}) /\ Taken = 0
  BY <1>1, FS_EmptySet DEF Taken
<1>3. LabelsOK(<< >>, 0)
  BY DEF LabelsOK, IsSeq
<1> QED
  BY <1>1, <1>2, <1>3 DEF LabelInv

(* Until the frame is laid out, names and output stay as they are.         *)
LEMMA RewritingLabels ==
  ASSUME CodeInv, LabelInv,
         NextFunction \/ Finish \/ SkipInst \/ PassArguments \/ MakeArg \/ TakeResult \/ UNCHANGED vars
  PROVE  LabelInv'
<1>1. CASE NextFunction
  <2>1. /\ phase = "next" /\ cur' = cur + 1 /\ phase' \in {"next", "calls"}
        /\ funcs' = funcs /\ labelName' = labelName /\ output' = output
    BY <1>1 DEF NextFunction, Begin
  <2>2. Named = cur /\ Named' \in {cur, cur + 1} /\ cur \in Nat
    <3>1. cur \in Nat
      BY DEF CodeInv, FuncsOK
    <3> QED
      BY <2>1, <3>1 DEF Named
  <2>3. \A i \in 1..Named : i \in 1..Named'
    BY <2>2
  <2> QED
    BY <2>1, <2>3 DEF LabelInv, Taken
<1>2. CASE Finish \/ SkipInst \/ PassArguments \/ MakeArg \/ TakeResult
  <2>1. /\ funcs' = funcs /\ labelName' = labelName /\ output' = output /\ cur' = cur
        /\ phase # "select" /\ phase' # "select" /\ (phase' \in {"calls", "args"} <=> phase \in {"calls", "args"})
    BY <1>2 DEF Finish, SkipInst, PassArguments, MakeArg, TakeResult
  <2> QED
    BY <2>1 DEF LabelInv, Taken, Named
<1>3. CASE UNCHANGED vars
  BY <1>3 DEF vars, LabelInv, Taken, Named, Branching, InstVal, Func
<1> QED
  BY <1>1, <1>2, <1>3

(* A function has one label, and its name is the next.                     *)
LEMMA AllocateStackLabels ==
  ASSUME CodeInv, LabelInv, AllocateStack
  PROVE  LabelInv'
<1>1. /\ phase = "calls" /\ phase' = "select" /\ pos' = 1 /\ asm' = << >> /\ output' = output
      /\ funcs' = funcs /\ cur' = cur /\ insts' = insts
  BY DEF AllocateStack
<1>2. CodeOK(insts, created, Func.name) /\ cur \in 1..Len(funcs) /\ Len(funcs) \in Nat /\ DOMAIN funcs = 1..Len(funcs)
  BY <1>1 DEF CodeInv, Rewriting, FuncsOK
<1>3. PICK k \in DOMAIN insts : ExitLabel(insts, Func.name, k)
  BY <1>2 DEF CodeOK
<1>4. k \in Nat /\ k >= 1
  BY <1>2, <1>3, SeqIs DEF CodeOK, IsSeq
<1> DEFINE v      == InstVal(insts[k].id)
           labels == {i \in DOMAIN insts : insts[i].op = "label"}
           named  == {InstVal(insts[i].id) : i \in labels}
           next   == LabelNames(labels)[CHOOSE i \in labels : InstVal(insts[i].id) = v]
<1>5. labels = {k} /\ named = {v}
  <2>1. labels = {k}
    BY <1>3 DEF ExitLabel
  <2> HIDE DEF labels
  <2> QED
    BY <2>1
<1>6. /\ DOMAIN labelName' = DOMAIN labelName \cup named
      /\ v \in named => labelName'[v] = next
  <2>1. labelName' = [w \in DOMAIN labelName \cup named |->
                       IF w \in named THEN LabelNames(labels)[CHOOSE i \in labels : InstVal(insts[i].id) = w]
                       ELSE labelName[w]]
    BY Zenon DEF AllocateStack
  <2> HIDE DEF labels, named, v
  <2> QED
    BY <2>1 DEF next
<1>7. LabelNames(labels)[k] = Taken
  <2>1. {j \in {k} : j < k} = {}
    BY <1>4
  <2>2. LabelNames({k})[k] = Cardinality(DOMAIN labelName) + Cardinality({j \in {k} : j < k})
    BY DEF LabelNames
  <2>3. LabelNames({k})[k] = Taken + 0 /\ Taken \in Nat
    BY <2>1, <2>2, FS_EmptySet, TakenIs DEF Taken
  <2> HIDE DEF labels
  <2> QED
    BY <1>5, <2>3
<1>8. (CHOOSE i \in {k} : InstVal(insts[i].id) = v) = k
  OBVIOUS
<1>9. next = Taken
  <2> HIDE DEF labels
  <2> QED
    BY <1>5, <1>7, <1>8
<1> HIDE DEF labels, named, next
<1>10. DOMAIN labelName' = DOMAIN labelName \cup {v} /\ labelName'[v] = Taken
  BY <1>5, <1>6, <1>9
<1>11. v.func = Func.name /\ Func = funcs[cur]
  BY DEF InstVal, Val, Func
<1>12. v \notin DOMAIN labelName
  <2>1. ASSUME v \in DOMAIN labelName PROVE FALSE
    <3>1. PICK i \in 1..cur - 1 : v.func = funcs[i].name
      BY <1>1, <2>1 DEF LabelInv, Named
    <3>2. i \in DOMAIN funcs /\ cur \in DOMAIN funcs /\ i # cur
      BY <1>2
    <3> QED
      BY <1>11, <3>1, <3>2 DEF CodeInv, FuncsOK
  <2> QED
    BY <2>1
<1>13. IsFiniteSet(DOMAIN labelName') /\ Taken' = Taken + 1
  BY <1>10, <1>12, FS_AddElement DEF LabelInv, Taken
<1>14. \A w \in DOMAIN labelName' : \E i \in 1..Named' : w.func = funcs'[i].name
  <2>1. Named = cur - 1 /\ Named' = cur
    BY <1>1 DEF Named
  <2>2. \A i \in 1..Named : i \in 1..Named'
    BY <1>2, <2>1
  <2>3. cur \in 1..Named'
    BY <1>2, <2>1
  <2>4. \A w \in DOMAIN labelName : \E i \in 1..Named' : w.func = funcs'[i].name
    BY <1>1, <2>2 DEF LabelInv
  <2>5. \E i \in 1..Named' : v.func = funcs'[i].name
    BY <1>1, <1>11, <2>3
  <2> QED
    BY <1>10, <2>4, <2>5
<1>15. Taken' - 1 = Taken /\ LabelsOK(output', Taken' - 1)
  <2>1. Taken' - 1 = Taken
    BY <1>13, TakenIs
  <2> QED
    BY <1>1, <2>1 DEF LabelInv
<1>16. OneLabel(<< >>, Taken) /\ ~HasLabel(<< >>)
  BY DEF OneLabel, HasLabel, IsSeq
<1>17. Branching(k)'
  <2>1. InstVal(insts[k].id)' = v /\ Func' = Func
    BY <1>1 DEF InstVal, Func
  <2>2. ~(pos' > k)
    BY <1>1, <1>4
  <2> QED
    BY <1>1, <1>3, <1>10, <1>15, <1>16, <2>1, <2>2 DEF Branching
<1>18. OneLabel(asm', Taken' - 1)
  BY <1>1, <1>15, <1>16
<1> QED
  BY <1>1, <1>3, <1>13, <1>14, <1>15, <1>17, <1>18 DEF LabelInv

(* What the selector leaves of the invariant to be shown.                  *)
LEMMA SelectedLabels ==
  ASSUME CodeInv, LabelInv, Selected, OneLabel(asm', Taken - 1), NEW k \in DOMAIN insts, Branching(k),
         IF pos + 1 > k THEN HasLabel(asm') ELSE ~HasLabel(asm')
  PROVE  LabelInv'
<1>1. /\ phase = "select" /\ phase' = phase /\ funcs' = funcs /\ cur' = cur /\ insts' = insts
      /\ labelName' = labelName /\ output' = output /\ pos' = pos + 1
  BY DEF Selected
<1>2. Taken' = Taken /\ Named' = Named /\ Func' = Func /\ InstVal(insts[k].id)' = InstVal(insts[k].id)
  BY <1>1 DEF Taken, Named, Func, InstVal
<1>3. Branching(k)'
  BY <1>1, <1>2 DEF Branching
<1> QED
  BY <1>1, <1>2, <1>3 DEF LabelInv

(* The selector emits the label where it stands, and jumps to it.          *)
LEMMA SelectionLabels ==
  ASSUME CodeInv, LabelInv, PlainSelection \/ SelectLabel \/ SelectGoto
  PROVE  LabelInv'
<1> DEFINE l == Taken - 1
<1>1. Selected
  BY SelectPlainly, SelectLabelIs, SelectGotoIs
<1>2. phase = "select" /\ pos <= Len(insts)
  BY <1>1 DEF Selected
<1>3. OneLabel(asm, l) /\ Translating
  BY <1>2 DEF LabelInv, CodeInv
<1>4. PICK k \in DOMAIN insts : Branching(k)
  BY <1>2 DEF LabelInv
<1>5. ExitLabel(insts, Func.name, k) /\ labelName[InstVal(insts[k].id)] = l
      /\ (IF pos > k THEN HasLabel(asm) ELSE ~HasLabel(asm))
  BY <1>4 DEF Branching
<1>6. pos \in DOMAIN insts /\ k \in Nat /\ pos \in Nat
  <2>1. IsSeq(insts)
    BY <1>3 DEF Translating, CodeOK
  <2>2. Len(insts) \in Nat /\ DOMAIN insts = 1..Len(insts)
    BY <2>1, SeqIs DEF IsSeq
  <2> QED
    BY <1>2, <1>3, <2>2 DEF Translating
<1> HIDE DEF l
<1>7. CASE PlainSelection
  <2>1. Continues(asm, asm') /\ pos # k
    BY <1>5, <1>6, <1>7, SelectPlainly DEF ExitLabel
  <2>2. \A i \in DOMAIN asm' : asm'[i].op \in {":", "b"} => i \in DOMAIN asm /\ asm'[i] = asm[i]
    BY <2>1 DEF Continues, Plain
  <2>3. OneLabel(asm', l)
    BY <1>3, <2>1, <2>2 DEF OneLabel, Continues
  <2>4. HasLabel(asm') <=> HasLabel(asm)
    BY <2>1, <2>2 DEF HasLabel, Continues
  <2>5. pos + 1 > k <=> pos > k
    BY <1>6, <2>1
  <2>6. IF pos + 1 > k THEN HasLabel(asm') ELSE ~HasLabel(asm')
    BY <1>5, <2>4, <2>5
  <2> QED
    BY <1>1, <1>4, <2>3, <2>6, SelectedLabels DEF l
<1>8. ASSUME NEW inst, asm' = asm \o << inst >>
      PROVE  /\ IsSeq(asm') /\ Len(asm) + 1 \in DOMAIN asm' /\ asm'[Len(asm) + 1] = inst
             /\ \A i \in DOMAIN asm : i \in DOMAIN asm' /\ asm'[i] = asm[i]
             /\ \A i \in DOMAIN asm' : i \in DOMAIN asm \/ i = Len(asm) + 1
  <2> DEFINE new == << inst >>
  <2>1. DOMAIN new = 1..1 /\ new[1] = inst /\ IsSeq(new)
    <3>1. new \in Seq({inst}) /\ new[1] = inst /\ Len(new) = 1
      OBVIOUS
    <3> QED
      BY <3>1, SeqIs
  <2> HIDE DEF new
  <2>2. IsSeq(asm)
    BY <1>3 DEF OneLabel
  <2>3. asm' = asm \o new
    BY <1>8 DEF new
  <2>4. Joined(asm, new, asm')
    BY <2>1, <2>2, <2>3, IsSeqConcat
  <2> QED
    BY <2>1, <2>4 DEF Joined
<1>9. CASE SelectLabel
  <2>1. asm' = asm \o << LabelInst >> /\ pos = k
    BY <1>5, <1>6, <1>9, SelectLabelIs DEF ExitLabel
  <2>2. LabelInst.op = ":" /\ LabelInst.result = Label(l)
    BY <1>5, <2>1 DEF LabelInst, ArmInst, This
  <2>3. ~HasLabel(asm)
    BY <1>5, <1>6, <2>1
  <2>4. \A i \in DOMAIN asm' : asm'[i].op = ":" => i = Len(asm) + 1
    BY <1>8, <2>1, <2>3 DEF HasLabel
  <2>5. OneLabel(asm', l)
    BY <1>3, <1>8, <2>1, <2>2, <2>4 DEF OneLabel
  <2>6. HasLabel(asm')
    BY <1>8, <2>1, <2>2 DEF HasLabel
  <2>7. pos + 1 > k
    BY <1>6, <2>1
  <2> QED
    BY <1>1, <1>4, <2>5, <2>6, <2>7, SelectedLabels DEF l
<1>10. CASE SelectGoto
  <2>1. asm' = asm \o << GotoInst >> /\ pos # k /\ insts[pos].target = InstVal(insts[k].id)
    BY <1>5, <1>6, <1>10, SelectGotoIs DEF ExitLabel, InstVal
  <2>2. GotoInst.op = "b" /\ GotoInst.result = Label(l)
    BY <1>5, <2>1 DEF GotoInst, ArmInst
  <2>3. \A i \in DOMAIN asm' : asm'[i].op = ":" => i \in DOMAIN asm
    BY <1>8, <2>1, <2>2
  <2>4. OneLabel(asm', l)
    BY <1>3, <1>8, <2>1, <2>2, <2>3 DEF OneLabel
  <2>5. HasLabel(asm') <=> HasLabel(asm)
    BY <1>8, <2>1, <2>3 DEF HasLabel
  <2>6. pos + 1 > k <=> pos > k
    BY <1>6, <2>1
  <2>7. IF pos + 1 > k THEN HasLabel(asm') ELSE ~HasLabel(asm')
    BY <1>5, <2>5, <2>6
  <2> QED
    BY <1>1, <1>4, <2>4, <2>7, SelectedLabels DEF l
<1> QED
  BY <1>7, <1>9, <1>10

(* A finished function adds its label and the jumps to it to the file.     *)
LEMMA FinishFunctionLabels ==
  ASSUME CodeInv, LabelInv, FinishFunction
  PROVE  LabelInv'
<1> DEFINE x == ArmInst("func", Symbol(Func.name), Blank, Blank)
           d == deleteUsedLabel(asm)
           l == Taken - 1
<1>1. /\ phase = "select" /\ pos > Len(insts) /\ phase' = "next" /\ cur' = cur /\ labelName' = labelName
      /\ funcs' = [funcs EXCEPT ![cur].code = insts] /\ output' = output \o << x >> \o d
  BY DEF FinishFunction
<1>2. PICK k \in DOMAIN insts : Branching(k)
  BY <1>1 DEF LabelInv
<1>3. HasLabel(asm)
  <2>1. IsSeq(insts) /\ pos \in Nat
    BY <1>1 DEF CodeInv, Translating, CodeOK
  <2>2. Len(insts) \in Nat /\ DOMAIN insts = 1..Len(insts)
    BY <2>1, SeqIs DEF IsSeq
  <2>3. pos > k
    BY <1>1, <2>1, <2>2
  <2> QED
    BY <1>2, <2>3 DEF Branching
<1>4. LabelsOK(output, l) /\ OneLabel(asm, l)
  BY <1>1 DEF LabelInv
<1>5. l \in Nat /\ Taken = l + 1
  <2>1. DOMAIN labelName # {} /\ IsFiniteSet(DOMAIN labelName)
    BY <1>2 DEF Branching, LabelInv
  <2>2. Taken # 0 /\ Taken \in Nat
    BY <2>1, FS_EmptySet, FS_CardinalityType DEF Taken
  <2> QED
    BY <2>2
<1> HIDE DEF l
<1>6. OneLabel(d, l) /\ (HasJump(d) => HasLabel(d))
  BY <1>3, <1>4, DeletedIs
<1>7. x.op = "func"
  BY DEF ArmInst
<1> HIDE DEF x, d
<1>8. LabelsOK(output', Taken)
  BY <1>1, <1>4, <1>5, <1>6, <1>7, OutputGrows
<1>9. \A v \in DOMAIN labelName : \E i \in 1..cur : v.func = funcs'[i].name
  <2>1. \A i \in DOMAIN funcs : funcs'[i].name = funcs[i].name
    <3> SUFFICES ASSUME NEW i \in DOMAIN funcs PROVE funcs'[i].name = funcs[i].name
      OBVIOUS
    <3>1. IsRecord(funcs[i])
      BY DEF CodeInv, FuncsOK
    <3> DEFINE g == funcs[i]
    <3>2. funcs'[i] = IF i = cur THEN [g EXCEPT !.code = insts] ELSE g
      BY <1>1
    <3> HIDE DEF g
    <3>3. IsRecord(g)
      BY <3>1 DEF g
    <3>4. [g EXCEPT !.code = insts].name = g.name
      BY <3>3 DEF IsRecord
    <3> QED
      BY <3>2, <3>4 DEF g
  <2>2. \A i \in 1..cur : i \in DOMAIN funcs
    BY DEF CodeInv, FuncsOK
  <2>3. Named = cur
    BY <1>1 DEF Named
  <2> QED
    BY <2>1, <2>2, <2>3 DEF LabelInv
<1> QED
  BY <1>1, <1>8, <1>9 DEF LabelInv, Taken, Named

(* Every step keeps it.                                                    *)
LEMMA NextLabels ==
  ASSUME CodeInv, LabelInv, [Next]_vars
  PROVE  LabelInv'
<1>1. CASE NextFunction \/ Finish \/ SkipInst \/ PassArguments \/ MakeArg \/ TakeResult \/ UNCHANGED vars
  BY <1>1, RewritingLabels
<1>2. CASE AllocateStack
  BY <1>2, AllocateStackLabels
<1>3. CASE PlainSelection \/ SelectLabel \/ SelectGoto
  BY <1>3, SelectionLabels
<1>4. CASE FinishFunction
  BY <1>4, FinishFunctionLabels
<1> QED
  BY <1>1, <1>2, <1>3, <1>4 DEF Next, PlainSelection

(* In the assembly file of any module, every label is defined once and     *)
(* every branch finds its label, those removed as unused notwithstanding.  *)
THEOREM BranchesAreResolved == Spec => []BranchesResolved
<1>1. Init => CodeInv /\ LabelInv
  BY InitCode, InitLabels
<1>2. CodeInv /\ LabelInv /\ [Next]_vars => CodeInv' /\ LabelInv'
  BY NextCode, NextLabels
<1>3. LabelInv => BranchesResolved
  <2> SUFFICES ASSUME LabelInv, NEW i \in DOMAIN output, IsLabel(output[i]) \/ output[i].op = "b"
               PROVE  Cardinality({j \in DOMAIN output : IsLabel(output[j]) /\ output[j].result = output[i].result}) = 1
    BY DEF BranchesResolved
  <2>1. PICK n : LabelsOK(output, n)
    BY DEF LabelInv
  <2>2. PICK j \in DOMAIN output : output[j].op = ":" /\ output[j].result = output[i].result
    BY <2>1 DEF LabelsOK, IsLabel
  <2>3. {k \in DOMAIN output : IsLabel(output[k]) /\ output[k].result = output[i].result} = {j}
    BY <2>1, <2>2 DEF LabelsOK, IsLabel
  <2> QED
    BY <2>3, FS_Singleton
<1> QED
  BY <1>1, <1>2, <1>3, PTL DEF Spec

-----------------------------------------------------------------------------
(* The frame                                                               *)

(* No variable is declared void: the front ends accept such variables, the *)
(* back end gives them no bytes, and then slots do coincide.               *)
NoVoids == \A fns \in Inputs : \A i \in DOMAIN fns : fns[i].voids = {}

(* The places of the frame are numbered, variables before temporaries.     *)
Below(i) == Cardinality({j \in Temps : j < i})
Place(v) == IF v.kind = "local" THEN v.id - 1 ELSE Func.vars + Below(CHOOSE i \in Temps : insts[i].id = v.id)
Places   == Func.vars + Cardinality(Temps)

FrameInv ==
  /\ \A i \in DOMAIN funcs : funcs[i].voids = {}
  /\ phase = "select" => /\ maxDep = FrameSize
                         /\ \A v \in InFrame : v \in DOMAIN addr /\ addr[v] = SlotAddress(v)

(* Positions of temporaries are counted in their order.                    *)
LEMMA BelowIs ==
  ASSUME IsSeq(insts)
  PROVE  /\ IsFiniteSet(Temps) /\ Cardinality(Temps) \in Nat
         /\ \A i \in Temps : i \in DOMAIN insts /\ i \in Nat /\ Below(i) \in Nat /\ Below(i) < Cardinality(Temps)
         /\ \A i, j \in Temps : i < j => Below(i) < Below(j)
<1>1. Len(insts) \in Nat /\ DOMAIN insts = 1..Len(insts)
  BY SeqIs DEF IsSeq
<1>2. Temps \subseteq DOMAIN insts
  BY DEF Temps
<1> HIDE DEF Temps
<1>3. IsFiniteSet(Temps) /\ Cardinality(Temps) \in Nat
  <2>1. IsFiniteSet(1..Len(insts))
    BY <1>1, FS_Interval
  <2> QED
    BY <1>1, <1>2, <2>1, FS_Subset, FS_CardinalityType
<1>4. \A i \in Temps : i \in Nat /\ i \in DOMAIN insts
  BY <1>1, <1>2
<1> DEFINE before(i) == {j \in Temps : j < i}
<1>5. ASSUME NEW i PROVE IsFiniteSet(before(i)) /\ Cardinality(before(i)) \in Nat
  BY <1>3, FS_Subset, FS_CardinalityType
<1>6. ASSUME NEW i \in Temps
      PROVE  IsFiniteSet(before(i) \cup {i}) /\ Cardinality(before(i) \cup {i}) = Below(i) + 1
  <2>1. i \notin before(i)
    BY <1>4
  <2> QED
    BY <1>5, <2>1, FS_AddElement DEF Below
<1>7. ASSUME NEW i \in Temps PROVE Below(i) \in Nat /\ Below(i) < Cardinality(Temps)
  <2>1. before(i) \cup {i} \subseteq Temps
    OBVIOUS
  <2>2. Cardinality(before(i) \cup {i}) <= Cardinality(Temps)
    BY <1>3, <2>1, FS_Subset
  <2>3. Below(i) \in Nat
    BY <1>5 DEF Below
  <2> QED
    BY <1>3, <1>6, <2>2, <2>3
<1>8. ASSUME NEW i \in Temps, NEW j \in Temps, i < j PROVE Below(i) < Below(j)
  <2>1. before(i) \cup {i} \subseteq before(j)
    BY <1>4, <1>8
  <2>2. Cardinality(before(i) \cup {i}) <= Cardinality(before(j))
    BY <1>5, <2>1, FS_Subset
  <2>3. Below(j) = Cardinality(before(j))
    BY DEF Below
  <2> QED
    BY <1>6, <1>7, <2>2, <2>3
<1> QED
  BY <1>3, <1>4, <1>7, <1>8

(* Values of the frame have different places.                              *)
LEMMA PlacesDiffer ==
  ASSUME phase = "select", CodeInv
  PROVE  /\ Places \in Nat
         /\ \A v \in InFrame : Place(v) \in 0..Places - 1
         /\ \A v, w \in InFrame : Place(v) = Place(w) => v = w
<1>1. /\ IsSeq(insts) /\ Func.vars \in Nat
      /\ \A i, j \in DOMAIN insts : insts[i].id = insts[j].id => i = j
  <2>1. cur \in DOMAIN funcs
    BY DEF CodeInv, Translating, FuncsOK
  <2> QED
    BY <2>1 DEF CodeInv, Translating, FuncsOK, IsRecord, CodeOK, Func
<1>2. /\ Cardinality(Temps) \in Nat
      /\ \A i \in Temps : i \in DOMAIN insts /\ i \in Nat /\ Below(i) \in Nat /\ Below(i) < Cardinality(Temps)
      /\ \A i, j \in Temps : i < j => Below(i) < Below(j)
  BY <1>1, BelowIs
<1> HIDE DEF Temps, Below
<1>3. Places \in Nat
  BY <1>1, <1>2 DEF Places
<1>4. ASSUME NEW v \in InFrame
      PROVE  \/ \E i \in 1..Func.vars : v = Local(i) /\ Place(v) = i - 1
             \/ \E i \in Temps : v = InstVal(insts[i].id) /\ Place(v) = Func.vars + Below(i)
  <2>1. CASE v \in {Local(i) : i \in 1..Func.vars}
    <3>1. PICK i \in 1..Func.vars : v = Local(i)
      BY <2>1
    <3>2. v.kind = "local" /\ v.id = i
      BY <3>1 DEF Local, Val
    <3> QED
      BY <3>1, <3>2 DEF Place
  <2>2. CASE v \in {InstVal(insts[i].id) : i \in Temps}
    <3>1. PICK i \in Temps : v = InstVal(insts[i].id)
      BY <2>2
    <3>2. v.kind = "inst" /\ v.id = insts[i].id
      BY <3>1 DEF InstVal, Val
    <3>3. (CHOOSE j \in Temps : insts[j].id = v.id) = i
      BY <1>1, <1>2, <3>2
    <3> QED
      BY <3>1, <3>2, <3>3 DEF Place
  <2> QED
    BY <2>1, <2>2 DEF InFrame
<1>5. ASSUME NEW v \in InFrame PROVE Place(v) \in 0..Places - 1
  <2>1. ASSUME NEW i \in 1..Func.vars, Place(v) = i - 1 PROVE Place(v) \in 0..Places - 1
    BY <1>1, <1>2, <2>1 DEF Places
  <2>2. ASSUME NEW i \in Temps, Place(v) = Func.vars + Below(i) PROVE Place(v) \in 0..Places - 1
    BY <1>1, <1>2, <2>2 DEF Places
  <2> QED
    BY <1>4, <2>1, <2>2
<1>6. ASSUME NEW v \in InFrame, NEW w \in InFrame, Place(v) = Place(w) PROVE v = w
  <2>1. ASSUME NEW i \in 1..Func.vars, NEW j \in 1..Func.vars, i - 1 = j - 1 PROVE i = j
    BY <1>1, <2>1
  <2>2. ASSUME NEW i \in 1..Func.vars, NEW j \in Temps, i - 1 = Func.vars + Below(j) PROVE FALSE
    BY <1>1, <1>2, <2>2
  <2>3. ASSUME NEW i \in Temps, NEW j \in Temps, Func.vars + Below(i) = Func.vars + Below(j) PROVE i = j
    <3>1. ~(i < j) /\ ~(j < i)
      BY <1>1, <1>2, <2>3
    <3> QED
      BY <1>2, <3>1
  <2> QED
    BY <1>4, <1>6, <2>1, <2>2, <2>3
<1> QED
  BY <1>3, <1>5, <1>6

(* The address of a value is four times its place, as no value is void.    *)
LEMMA SlotsArePlaces ==
  ASSUME phase = "select", CodeInv, FrameInv
  PROVE  /\ \A v \in InFrame : SlotAddress(v) = [base |-> FP, off |-> 4 * Place(v)]
         /\ FrameSize = 4 * Places
<1>1. Func.vars \in Nat /\ Func.voids = {} /\ IsSeq(insts)
  <2>1. cur \in DOMAIN funcs
    BY DEF CodeInv, Translating, FuncsOK
  <2> QED
    BY <2>1 DEF CodeInv, Translating, FuncsOK, IsRecord, CodeOK, Func, FrameInv
<1>2. ASSUME NEW k \in Nat PROVE Sized(1..k) = 4 * k
  <2>1. (1..k) \ Func.voids = 1..k
    BY <1>1
  <2>2. Cardinality(1..k) = k
    <3>1. 1 \in Int /\ k \in Int /\ (IF 1 > k THEN 0 ELSE k - 1 + 1) = k
      OBVIOUS
    <3> QED
      BY <3>1, FS_Interval
  <2> QED
    BY <2>1, <2>2 DEF Sized
<1>3. Cardinality(Temps) \in Nat /\ \A i \in Temps : Below(i) \in Nat
  BY <1>1, BelowIs
<1>4. FrameSize = 4 * Places
  BY <1>1, <1>2, <1>3, SMTT(40) DEF FrameSize, Places
<1>5. ASSUME NEW v \in InFrame PROVE SlotAddress(v) = [base |-> FP, off |-> 4 * Place(v)]
  <2> DEFINE i == CHOOSE j \in Temps : insts[j].id = v.id
  <2>1. SlotAddress(v) = [base |-> FP, off |-> IF v.kind = "local" THEN Sized(1 .. v.id - 1)
                                               ELSE Sized(1 .. Func.vars) + 4 * Below(i)]
    BY DEF SlotAddress, Below
  <2>2. CASE v.kind = "local"
    <3>1. v.id \in 1..Func.vars
      <4>1. \A j \in Temps : InstVal(insts[j].id).kind # "local"
        BY DEF InstVal, Val
      <4>2. PICK j \in 1..Func.vars : v = Local(j)
        BY <2>2, <4>1 DEF InFrame
      <4> QED
        BY <4>2 DEF Local, Val
    <3>2. v.id - 1 \in Nat
      BY <1>1, <3>1
    <3>3. Sized(1 .. v.id - 1) = 4 * (v.id - 1)
      BY <1>2, <3>2
    <3> QED
      BY <2>1, <2>2, <3>3 DEF Place
  <2>3. CASE v.kind # "local"
    <3>1. i \in Temps
      <4>1. \A j \in 1..Func.vars : Local(j).kind = "local"
        BY DEF Local, Val
      <4>2. PICK j \in Temps : v = InstVal(insts[j].id)
        BY <2>3, <4>1 DEF InFrame
      <4>3. v.id = insts[j].id
        BY <4>2 DEF InstVal, Val
      <4> QED
        BY <4>3
    <3>2. Below(i) \in Nat
      BY <1>3, <3>1
    <3> HIDE DEF i
    <3>3. Sized(1 .. Func.vars) + 4 * Below(i) = 4 * (Func.vars + Below(i))
      BY <1>1, <1>2, <3>2, SMTT(40)
    <3> QED
      BY <2>1, <2>3, <3>3, ZenonT(40) DEF Place, i
  <2> QED
    BY <2>2, <2>3
<1> QED
  BY <1>4, <1>5

(* At the beginning no frame is laid out.                                  *)
LEMMA InitFrame == NoVoids /\ Init => FrameInv
BY DEF NoVoids, Init, Unstarted, FrameInv

(* The frame is laid out once, and the selector changes only the addresses *)
(* of the places of arguments.                                             *)
LEMMA NextFrame ==
  ASSUME CodeInv, FrameInv, [Next]_vars
  PROVE  FrameInv'
<1>1. CASE NextFunction \/ Finish \/ SkipInst \/ PassArguments \/ MakeArg \/ TakeResult
  <2>1. funcs' = funcs /\ phase' # "select"
    BY <1>1 DEF NextFunction, Begin, Finish, SkipInst, PassArguments, MakeArg, TakeResult, FrameInv, CodeInv
  <2> QED
    BY <2>1 DEF FrameInv
<1>2. CASE AllocateStack
  <2>1. /\ funcs' = funcs /\ cur' = cur /\ insts' = insts /\ maxDep' = FrameSize
        /\ addr' = [v \in DOMAIN addr \cup InFrame |-> IF v \in InFrame THEN SlotAddress(v) ELSE addr[v]]
    BY <1>2, Zenon DEF AllocateStack
  <2>2. InFrame' = InFrame /\ FrameSize' = FrameSize /\ \A v : SlotAddress(v)' = SlotAddress(v)
    BY <2>1 DEF InFrame, Temps, Func, Local, InstVal, FrameSize, Sized, SlotAddress
  <2>3. \A v \in InFrame : v \in DOMAIN addr' /\ addr'[v] = SlotAddress(v)
    BY <2>1
  <2> QED
    BY <2>1, <2>2, <2>3 DEF FrameInv
<1>3. CASE PlainSelection \/ SelectLabel \/ SelectGoto
  <2>1. Selected
    BY <1>3, SelectPlainly, SelectLabelIs, SelectGotoIs
  <2>2. /\ phase = "select" /\ funcs' = funcs /\ cur' = cur /\ insts' = insts /\ maxDep' = maxDep
        /\ SameSlots(addr, addr')
    BY <2>1 DEF Selected
  <2>3. InFrame' = InFrame /\ FrameSize' = FrameSize /\ \A v : SlotAddress(v)' = SlotAddress(v)
    BY <2>2 DEF InFrame, Temps, Func, Local, InstVal, FrameSize, Sized, SlotAddress
  <2>4. \A v \in InFrame : v.kind # "mem"
    BY DEF InFrame, Local, InstVal, Val
  <2>5. \A v \in InFrame : v \in DOMAIN addr' /\ addr'[v] = SlotAddress(v)
    BY <2>2, <2>4 DEF SameSlots, FrameInv
  <2> QED
    BY <2>2, <2>3, <2>5 DEF FrameInv
<1>4. CASE FinishFunction
  <2>1. funcs' = [funcs EXCEPT ![cur].code = insts] /\ phase' # "select"
    BY <1>4 DEF FinishFunction
  <2>2. \A i \in DOMAIN funcs : funcs'[i].voids = funcs[i].voids
    <3> SUFFICES ASSUME NEW i \in DOMAIN funcs PROVE funcs'[i].voids = funcs[i].voids
      OBVIOUS
    <3> DEFINE g == funcs[i]
    <3>1. IsRecord(g)
      BY DEF CodeInv, FuncsOK
    <3>2. funcs'[i] = IF i = cur THEN [g EXCEPT !.code = insts] ELSE g
      BY <2>1
    <3> HIDE DEF g
    <3>3. [g EXCEPT !.code = insts].voids = g.voids
      BY <3>1 DEF IsRecord
    <3> QED
      BY <3>2, <3>3 DEF g
  <2> QED
    BY <2>1, <2>2 DEF FrameInv
<1>5. CASE UNCHANGED vars
  <2>1. funcs' = funcs /\ cur' = cur /\ insts' = insts /\ maxDep' = maxDep /\ addr' = addr /\ phase' = phase
    BY <1>5 DEF vars
  <2>2. InFrame' = InFrame /\ FrameSize' = FrameSize /\ \A v : SlotAddress(v)' = SlotAddress(v)
    BY <2>1 DEF InFrame, Temps, Func, Local, InstVal, FrameSize, Sized, SlotAddress
  <2> QED
    BY <2>1, <2>2 DEF FrameInv
<1> QED
  BY <1>1, <1>2, <1>3, <1>4, <1>5 DEF Next, PlainSelection

(* In a module without void variables, with frames of any size: no two     *)
(* variables or temporaries of a function share a slot, and all slots are  *)
(* inside the frame.                                                       *)
THEOREM SlotsAreDisjoint == NoVoids /\ Spec => []FrameSlotsDisjoint
<1>1. NoVoids /\ Init => CodeInv /\ FrameInv
  BY InitCode, InitFrame
<1>2. CodeInv /\ FrameInv /\ [Next]_vars => CodeInv' /\ FrameInv'
  BY NextCode, NextFrame
<1>3. CodeInv /\ FrameInv => FrameSlotsDisjoint
  <2> SUFFICES ASSUME CodeInv, FrameInv, phase = "select"
               PROVE  /\ \A v \in InFrame : addr[v].base = FP
                      /\ Cardinality({addr[v].off : v \in InFrame}) = Cardinality(InFrame)
                      /\ \A o \in {addr[v].off : v \in InFrame} : o % 4 = 0 /\ o + 4 <= maxDep
    BY DEF FrameSlotsDisjoint
  <2>1. /\ Places \in Nat
        /\ \A v \in InFrame : Place(v) \in 0..Places - 1
        /\ \A v, w \in InFrame : Place(v) = Place(w) => v = w
    BY PlacesDiffer
  <2>2. maxDep = 4 * Places /\ \A v \in InFrame : addr[v].base = FP /\ addr[v].off = 4 * Place(v)
    BY SlotsArePlaces DEF FrameInv
  <2> HIDE DEF InFrame, Places, Place
  <2> DEFINE offsets == {addr[v].off : v \in InFrame}
             f == [v \in InFrame |-> Place(v)]
             h == [v \in InFrame |-> addr[v].off]
  <2>3. IsFiniteSet(InFrame)
    <3>1. f \in Injection(InFrame, 0..Places - 1)
      BY <2>1 DEF Injection, IsInjective
    <3>2. IsFiniteSet(0..Places - 1)
      <4>1. Places - 1 \in Int
        BY <2>1
      <4> QED
        BY <4>1, FS_Interval
    <3> QED
      BY <3>1, <3>2, FS_Injection
  <2>4. h \in Bijection(InFrame, offsets)
    <3>1. \A v, w \in InFrame : addr[v].off = addr[w].off => v = w
      <4>1. \A p, q \in 0..Places - 1 : 4 * p = 4 * q => p = q
        BY <2>1
      <4> QED
        BY <2>1, <2>2, <4>1
    <3> QED
      BY <3>1 DEF Bijection, Injection, Surjection, IsInjective
  <2>5. Cardinality(offsets) = Cardinality(InFrame)
    <3>1. ExistsBijection(InFrame, offsets)
      BY <2>4 DEF ExistsBijection
    <3> HIDE DEF offsets
    <3> QED
      BY <2>3, <3>1, FS_Bijection
  <2>6. \A v \in InFrame : addr[v].off % 4 = 0 /\ addr[v].off + 4 <= maxDep
    <3>1. \A p \in 0..Places - 1 : (4 * p) % 4 = 0 /\ 4 * p + 4 <= 4 * Places
      BY <2>1
    <3> QED
      BY <2>1, <2>2, <3>1
  <2> QED
    BY <2>2, <2>5, <2>6
<1> QED
  BY <1>1, <1>2, <1>3, PTL DEF Spec

-----------------------------------------------------------------------------
(* The registers.  Between two instructions none is in use; while a call   *)
(* is translated, the first four are claimed, for no value.                *)

Allocator(al) ==
  al = [regBitmap |-> al.regBitmap, usedBitmap |-> al.usedBitmap, regValues |-> al.regValues,
        loadRegId |-> al.loadRegId]

Claimed(al, n, m) ==
  /\ Allocator(al) /\ al.regBitmap = n..m - 1 /\ al.usedBitmap \subseteq 0..4
  /\ al.regValues = << >> /\ al.loadRegId = [v \in IRVals |-> RA!NoReg]

(* What marking a register changes.                                        *)
LEMMA Marked ==
  ASSUME NEW al, Allocator(al), NEW x, NEW y
  PROVE  [al EXCEPT !.regBitmap = x, !.usedBitmap = y]
           = [regBitmap |-> x, usedBitmap |-> y, regValues |-> al.regValues, loadRegId |-> al.loadRegId]
<1> DEFINE bl == [al EXCEPT !.regBitmap = x]
<1>1. bl = [regBitmap |-> x, usedBitmap |-> al.usedBitmap, regValues |-> al.regValues, loadRegId |-> al.loadRegId]
  BY DEF Allocator
<1> HIDE DEF bl
<1>2. [bl EXCEPT !.usedBitmap = y]
        = [regBitmap |-> x, usedBitmap |-> y, regValues |-> al.regValues, loadRegId |-> al.loadRegId]
  BY <1>1
<1> QED
  BY <1>2 DEF bl

(* What taking the mark of a register away changes.                        *)
LEMMA Unmarked ==
  ASSUME NEW al, Allocator(al), NEW x, NEW bl, bl = [al EXCEPT !.regBitmap = x]
  PROVE  /\ Allocator(bl) /\ bl.regBitmap = x /\ bl.usedBitmap = al.usedBitmap
         /\ bl.regValues = al.regValues /\ bl.loadRegId = al.loadRegId
<1>1. bl = [regBitmap |-> x, usedBitmap |-> al.usedBitmap, regValues |-> al.regValues, loadRegId |-> al.loadRegId]
  BY DEF Allocator
<1> QED
  BY <1>1 DEF Allocator

(* The least of the numbers from some number on.                           *)
LEMMA MinFrom ==
  ASSUME NEW n \in Nat, NEW S, n \in S, \A x \in S : x \in Nat /\ n <= x
  PROVE  RA!Min(S) = n
<1>1. \A x \in S : (\A y \in S : x <= y) => x = n
  OBVIOUS
<1> QED
  BY <1>1 DEF RA!Min

(* Claiming the next register.                                             *)
LEMMA ClaimNext ==
  ASSUME NEW al, NEW n \in 0..3, Claimed(al, 0, n)
  PROVE  Claimed(RA!Claim(al, n), 0, n + 1)
<1> DEFINE x == al.regBitmap \cup {n}
           y == al.usedBitmap \cup {n}
           bl == [al EXCEPT !.regBitmap = x, !.usedBitmap = y]
<1>1. Allocator(al) /\ n \notin al.regBitmap
  BY DEF Claimed
<1>2. RA!Claim(al, n) = bl
  BY <1>1, Zenon DEF RA!Claim, RA!BitmapSet
<1>3. x = 0..(n + 1) - 1 /\ y \subseteq 0..4
  BY DEF Claimed
<1> HIDE DEF x, y, bl
<1>4. /\ Allocator(bl) /\ bl.regBitmap = x /\ bl.usedBitmap = y
      /\ bl.regValues = al.regValues /\ bl.loadRegId = al.loadRegId
  <2>1. bl = [regBitmap |-> x, usedBitmap |-> y, regValues |-> al.regValues, loadRegId |-> al.loadRegId]
    BY <1>1, Marked DEF bl
  <2> QED
    BY <2>1 DEF Allocator
<1> QED
  BY <1>2, <1>3, <1>4 DEF Claimed

(* What freeing a register that holds no value changes.                    *)
LEMMA FreeUnnamed ==
  ASSUME NEW al, Allocator(al), al.regValues = << >>, NEW n \in Nat
  PROVE  /\ Allocator(RA!FreeReg(al, n))
         /\ RA!FreeReg(al, n).regBitmap = al.regBitmap \ {n} /\ RA!FreeReg(al, n).usedBitmap = al.usedBitmap
         /\ RA!FreeReg(al, n).regValues = << >> /\ RA!FreeReg(al, n).loadRegId = al.loadRegId
<1> DEFINE x == al.regBitmap \ {n}
           cl == [al EXCEPT !.regBitmap = x]
<1>1. {k \in DOMAIN al.regValues : al.loadRegId[al.regValues[k]] = n} = {} /\ n # RA!NoReg
  BY DEF RA!NoReg
<1>2. RA!FreeReg(al, n) = cl
  BY <1>1, Zenon DEF RA!FreeReg, RA!BitmapReset
<1> HIDE DEF x
<1>3. /\ Allocator(cl) /\ cl.regBitmap = x /\ cl.usedBitmap = al.usedBitmap
      /\ cl.regValues = al.regValues /\ cl.loadRegId = al.loadRegId
  BY Unmarked
<1> HIDE DEF cl
<1> QED
  BY <1>2, <1>3 DEF x

(* Freeing the first of those that are claimed.                            *)
LEMMA FreeNext ==
  ASSUME NEW al, NEW n \in 0..3, Claimed(al, n, 4)
  PROVE  Claimed(RA!FreeReg(al, n), n + 1, 4)
<1>1. n \in Nat /\ (n..4 - 1) \ {n} = n + 1..4 - 1
  OBVIOUS
<1> DEFINE bl == RA!FreeReg(al, n)
<1>2. /\ Allocator(bl) /\ bl.regBitmap = al.regBitmap \ {n} /\ bl.usedBitmap = al.usedBitmap
      /\ bl.regValues = << >> /\ bl.loadRegId = al.loadRegId
  BY <1>1, FreeUnnamed, Zenon DEF Claimed
<1> HIDE DEF bl
<1>3. Claimed(bl, n + 1, 4)
  BY <1>1, <1>2, Zenon DEF Claimed
<1> QED
  BY <1>3 DEF bl

(* A register that is allocated for no value and freed at once: the lowest *)
(* that is free, which is not one of the last.                             *)
LEMMA Borrowed ==
  ASSUME NEW al, NEW n \in {0, 4}, Claimed(al, 0, n)
  PROVE  Claimed(RA!FreeReg(RA!Allocate(al, NullVal, NoReg), RA!Granted(al, NullVal, NoReg)), 0, n)
<1>1. Allocator(al) /\ RA!FreeRegs(al) = n..10
  BY DEF RA!FreeRegs, RA!Regs, Claimed
<1>2. RA!Granted(al, NullVal, NoReg) = n /\ RA!Allocate(al, NullVal, NoReg) = RA!BitmapSet(al, n)
  <2>1. ~RA!HasOne(al, NullVal)
    BY DEF RA!HasOne
  <2>2. NoReg \notin n..10 /\ n..10 # {} /\ RA!Min(n..10) = n
    BY MinFrom DEF NoReg
  <2>3. RA!Granted(al, NullVal, NoReg) = n
    BY <1>1, <2>1, <2>2, Zenon DEF RA!Granted
  <2>4. ~RA!Spills(al, NullVal)
    BY <1>1, <2>2, Zenon DEF RA!Spills
  <2>5. RA!Allocate(al, NullVal, NoReg) = RA!Enqueue(RA!BitmapSet(al, n), NullVal, n)
    BY <2>1, <2>3, <2>4, Zenon DEF RA!Allocate
  <2> QED
    BY <2>3, <2>5 DEF RA!Enqueue
<1> DEFINE x  == al.regBitmap \cup {n}
           y  == al.usedBitmap \cup {n}
           bl == [al EXCEPT !.regBitmap = x, !.usedBitmap = y]
<1>3. RA!BitmapSet(al, n) = bl
  BY Zenon DEF RA!BitmapSet
<1>4. x \ {n} = 0..n - 1 /\ y \subseteq 0..4
  BY DEF Claimed
<1> HIDE DEF x, y, bl
<1>5. /\ Allocator(bl) /\ bl.regBitmap = x /\ bl.usedBitmap = y
      /\ bl.regValues = al.regValues /\ bl.loadRegId = al.loadRegId
  <2>1. bl = [regBitmap |-> x, usedBitmap |-> y, regValues |-> al.regValues, loadRegId |-> al.loadRegId]
    BY <1>1, Marked DEF bl
  <2> QED
    BY <2>1 DEF Allocator
<1>6. /\ Allocator(RA!FreeReg(bl, n)) /\ RA!FreeReg(bl, n).regBitmap = x \ {n} /\ RA!FreeReg(bl, n).usedBitmap = y
      /\ RA!FreeReg(bl, n).regValues = << >> /\ RA!FreeReg(bl, n).loadRegId = al.loadRegId
  <2>1. al.regValues = << >> /\ n \in Nat
    BY DEF Claimed
  <2>2. Allocator(bl) /\ bl.regValues = << >>
    BY <1>5, <2>1, Zenon
  <2>3. /\ Allocator(RA!FreeReg(bl, n))
        /\ RA!FreeReg(bl, n).regBitmap = bl.regBitmap \ {n} /\ RA!FreeReg(bl, n).usedBitmap = bl.usedBitmap
        /\ RA!FreeReg(bl, n).regValues = << >> /\ RA!FreeReg(bl, n).loadRegId = bl.loadRegId
    BY <2>1, <2>2, FreeUnnamed, Zenon
  <2> QED
    BY <1>5, <2>3, Zenon
<1>7. Claimed(RA!FreeReg(bl, n), 0, n)
  <2> DEFINE f == RA!FreeReg(bl, n)
  <2>1. /\ Allocator(f) /\ f.regBitmap = x \ {n} /\ f.usedBitmap = y
        /\ f.regValues = << >> /\ f.loadRegId = al.loadRegId
    BY <1>6
  <2> HIDE DEF f
  <2>2. Claimed(f, 0, n)
    BY <1>4, <2>1 DEF Claimed
  <2> QED
    BY <2>2 DEF f
<1> QED
  BY <1>2, <1>3, <1>7

ClaimTurn(al, no)     == RA!Claim(al, no)
ClaimedTurn(k, al)    == Claimed(al, 0, k)
FreeTurn(al, no)      == RA!FreeReg(al, no)
FreedTurn(k, al)      == Claimed(al, k, 4)

Claiming == INSTANCE FoldLemmas WITH Op <- ClaimTurn, P <- ClaimedTurn
Freeing  == INSTANCE FoldLemmas WITH Op <- FreeTurn, P <- FreedTurn

(* The registers of the arguments are claimed, and freed again.            *)
LEMMA ArgumentRegisters ==
  ASSUME NEW al
  PROVE  /\ Claimed(al, 0, 0) => Claimed(ClaimAll(al), 0, 4)
         /\ Claimed(al, 0, 4) => Claimed(FreeRegs(al), 0, 0)
<1> DEFINE four == << 0, 1, 2, 3 >>
<1>1. DOMAIN four = 1..4 /\ \A k \in 1..4 : four[k] = k - 1 /\ four[k] \in 0..3 /\ four[k] + 1 = k
  OBVIOUS
<1>2. ClaimAll(al) = Claiming!Fold(al, four)[DOMAIN four]
  BY DEF ClaimAll, FoldLeft, MapThenFoldSet, Max, Claiming!Fold, Claiming!Greatest, ClaimTurn
<1>3. FreeRegs(al) = Freeing!Fold(al, four)[DOMAIN four]
  BY DEF FreeRegs, FoldLeft, MapThenFoldSet, Max, Freeing!Fold, Freeing!Greatest, FreeTurn
<1> HIDE DEF four
<1>4. ASSUME Claimed(al, 0, 0) PROVE Claimed(ClaimAll(al), 0, 4)
  <2>1. \A bl : \A k \in 1..4 : ClaimedTurn(k - 1, bl) => ClaimedTurn(k, ClaimTurn(bl, four[k]))
    <3> SUFFICES ASSUME NEW bl, NEW k \in 1..4, Claimed(bl, 0, k - 1) PROVE Claimed(RA!Claim(bl, four[k]), 0, k)
      BY DEF ClaimedTurn, ClaimTurn
    <3>1. four[k] = k - 1 /\ k - 1 \in 0..3 /\ (k - 1) + 1 = k
      BY <1>1
    <3> DEFINE m == k - 1
    <3>2. m \in 0..3 /\ Claimed(bl, 0, m) /\ four[k] = m /\ m + 1 = k
      BY <3>1
    <3> HIDE DEF m
    <3>3. Claimed(RA!Claim(bl, m), 0, m + 1)
      BY <3>2, ClaimNext
    <3> QED
      BY <3>2, <3>3
  <2>2. ClaimedTurn(0, al)
    BY <1>4 DEF ClaimedTurn
  <2>3. ClaimedTurn(4, Claiming!Fold(al, four)[1..4])
    BY <1>1, <2>1, <2>2, LeastElement, Claiming!FoldInvariant
  <2> QED
    BY <1>1, <1>2, <2>3 DEF ClaimedTurn
<1>5. ASSUME Claimed(al, 0, 4) PROVE Claimed(FreeRegs(al), 0, 0)
  <2>1. \A bl : \A k \in 1..4 : FreedTurn(k - 1, bl) => FreedTurn(k, FreeTurn(bl, four[k]))
    <3> SUFFICES ASSUME NEW bl, NEW k \in 1..4, Claimed(bl, k - 1, 4) PROVE Claimed(RA!FreeReg(bl, four[k]), k, 4)
      BY DEF FreedTurn, FreeTurn
    <3>1. four[k] = k - 1 /\ k - 1 \in 0..3 /\ (k - 1) + 1 = k
      BY <1>1
    <3> DEFINE m == k - 1
    <3>2. m \in 0..3 /\ Claimed(bl, m, 4) /\ four[k] = m /\ m + 1 = k
      BY <3>1
    <3> HIDE DEF m
    <3>3. Claimed(RA!FreeReg(bl, m), m + 1, 4)
      BY <3>2, FreeNext
    <3> QED
      BY <3>2, <3>3
  <2>2. FreedTurn(0, al)
    BY <1>5 DEF FreedTurn
  <2>3. FreedTurn(4, Freeing!Fold(al, four)[1..4])
    BY <1>1, <2>1, <2>2, LeastElement, Freeing!FoldInvariant
  <2>4. Claimed(FreeRegs(al), 4, 4)
    BY <1>1, <1>3, <2>3 DEF FreedTurn
  <2>5. 4..4 - 1 = 0..0 - 1
    OBVIOUS
  <2> QED
    BY <2>4, <2>5, Zenon DEF Claimed
<1> QED
  BY <1>4, <1>5

(* While an addition is translated, the lowest registers hold the values   *)
(* in W, and no others; every register in use holds one of them.           *)
Held(al, W, n) ==
  /\ Allocator(al) /\ al.usedBitmap \subseteq 0..4
  /\ al.regValues \in Seq(IRVals) /\ Distinct(al.regValues)
  /\ al.loadRegId \in [IRVals -> (0..n - 1) \cup {-1}]
  /\ \A v \in IRVals : al.loadRegId[v] # -1 <=> Occurs(v, al.regValues)
  /\ \A v, w \in IRVals : al.loadRegId[v] # -1 /\ al.loadRegId[v] = al.loadRegId[w] => v = w
  /\ \A r : r \in al.regBitmap <=> \E v \in IRVals : al.loadRegId[v] = r /\ r # -1
  /\ \A v \in IRVals : al.loadRegId[v] # -1 => v \in W

(* No register in use means that no value is held, and the other way round. *)
LEMMA HeldFromIdle ==
  ASSUME NEW al, Claimed(al, 0, 0)
  PROVE  Held(al, {}, 0)
<1>1. /\ Allocator(al) /\ al.usedBitmap \subseteq 0..4 /\ al.regValues = << >>
      /\ al.loadRegId = [v \in IRVals |-> -1] /\ al.regBitmap = 0..0 - 1
  BY DEF Claimed, RA!NoReg
<1>2. /\ al.regValues \in Seq(IRVals) /\ DOMAIN al.regValues = {} /\ al.regBitmap = {}
      /\ al.loadRegId \in [IRVals -> (0..0 - 1) \cup {-1}] /\ \A v \in IRVals : al.loadRegId[v] = -1
  BY <1>1
<1> QED
  BY <1>1, <1>2 DEF Held, Distinct, Occurs

(* The converse.                                                           *)
LEMMA IdleFromHeld ==
  ASSUME NEW al, NEW n, Held(al, {}, n)
  PROVE  Claimed(al, 0, 0)
<1>1. /\ Allocator(al) /\ al.usedBitmap \subseteq 0..4 /\ al.regValues \in Seq(IRVals)
      /\ DOMAIN al.loadRegId = IRVals /\ al.loadRegId = [v \in IRVals |-> al.loadRegId[v]]
  BY DEF Held
<1>2. \A v \in IRVals : al.loadRegId[v] = -1
  BY DEF Held
<1>3. al.regValues = << >>
  <2>1. \A k \in DOMAIN al.regValues : al.regValues[k] \in IRVals
    BY <1>1
  <2>2. DOMAIN al.regValues = {}
    BY <1>2, <2>1 DEF Held, Occurs
  <2> SUFFICES ASSUME NEW s \in Seq(IRVals), DOMAIN s = {} PROVE s = << >>
    BY <1>1, <2>2
  <2>3. Len(s) \in Nat /\ DOMAIN s = 1..Len(s)
    OBVIOUS
  <2>4. Len(s) = 0
    BY <2>3
  <2> QED
    BY <2>4
<1>4. al.regBitmap = 0..0 - 1
  BY <1>2 DEF Held
<1>5. al.loadRegId = [v \in IRVals |-> RA!NoReg]
  BY <1>1, <1>2 DEF RA!NoReg
<1> QED
  BY <1>1, <1>3, <1>4, <1>5, Zenon DEF Claimed

(* A record that is changed in all its fields.                             *)
LEMMA Enqueued ==
  ASSUME NEW al, Allocator(al), NEW v, v # NullVal, NEW r
  PROVE  RA!Enqueue(RA!BitmapSet(al, r), v, r)
           = [regBitmap |-> al.regBitmap \cup {r}, usedBitmap |-> al.usedBitmap \cup {r},
              regValues |-> Append(al.regValues, v), loadRegId |-> [al.loadRegId EXCEPT ![v] = r]]
<1> DEFINE x  == al.regBitmap \cup {r}
           y  == al.usedBitmap \cup {r}
           bl == [al EXCEPT !.regBitmap = x, !.usedBitmap = y]
           l  == [al.loadRegId EXCEPT ![v] = r]
           q  == Append(al.regValues, v)
           cl == [bl EXCEPT !.loadRegId = l]
<1>1. RA!BitmapSet(al, r) = bl
  BY Zenon DEF RA!BitmapSet
<1>2. bl = [regBitmap |-> x, usedBitmap |-> y, regValues |-> al.regValues, loadRegId |-> al.loadRegId]
  <2> HIDE DEF x, y
  <2> QED
    BY Marked
<1> HIDE DEF bl
<1>3. RA!Enqueue(bl, v, r) = [cl EXCEPT !.regValues = q]
  <2>1. bl.loadRegId = al.loadRegId /\ bl.regValues = al.regValues
    BY <1>2
  <2>2. RA!Enqueue(bl, v, r) = [bl EXCEPT !.loadRegId = [bl.loadRegId EXCEPT ![v] = r], !.regValues = Append(bl.regValues, v)]
    BY DEF RA!Enqueue
  <2> QED
    BY <2>1, <2>2
<1> HIDE DEF x, y, l, q
<1>4. cl = [regBitmap |-> x, usedBitmap |-> y, regValues |-> al.regValues, loadRegId |-> l]
  BY <1>2
<1> HIDE DEF cl
<1>5. [cl EXCEPT !.regValues = q] = [regBitmap |-> x, usedBitmap |-> y, regValues |-> q, loadRegId |-> l]
  BY <1>4
<1> QED
  BY <1>1, <1>3, <1>5 DEF x, y, l, q

(* Allocating for a value: it is held as well, in one of the registers     *)
(* counted so far or in the next.                                          *)
LEMMA HoldAllocated ==
  ASSUME NEW al, NEW W, NEW n \in 0..4, Held(al, W, n), NEW v \in IRVals
  PROVE  Held(RA!Allocate(al, v, NoReg), W \cup {v}, n + 1)
<1>1. v # NullVal
  BY ValuesAssumption
<1>2. CASE al.loadRegId[v] # -1
  <2>1. RA!Allocate(al, v, NoReg) = al
    BY <1>1, <1>2 DEF RA!Allocate, RA!HasOne, RA!Loaded, RA!NoReg
  <2>2. al.loadRegId \in [IRVals -> (0..(n + 1) - 1) \cup {-1}]
    <3>1. (0..n - 1) \cup {-1} \subseteq (0..(n + 1) - 1) \cup {-1}
      OBVIOUS
    <3> QED
      BY <3>1 DEF Held
  <2>3. \A w \in IRVals : al.loadRegId[w] # -1 => w \in W \cup {v}
    BY DEF Held
  <2> QED
    BY <2>1, <2>2, <2>3 DEF Held
<1>3. CASE al.loadRegId[v] = -1
  <2> DEFINE r == RA!Min(RA!FreeRegs(al))
             q == Append(al.regValues, v)
             l == [al.loadRegId EXCEPT ![v] = r]
             b == al.regBitmap \cup {r}
             u == al.usedBitmap \cup {r}
             bl == RA!Allocate(al, v, NoReg)
  <2>1. ~RA!HasOne(al, v)
    BY <1>3 DEF RA!HasOne, RA!Loaded, RA!NoReg
  <2>2. n \in RA!FreeRegs(al) /\ RA!FreeRegs(al) \subseteq 0..10 /\ NoReg \notin RA!FreeRegs(al)
    BY DEF RA!FreeRegs, RA!Regs, NoReg, Held
  <2>3. r \in RA!FreeRegs(al) /\ r <= n
    <3> DEFINE S == RA!FreeRegs(al)
    <3>1. S \in SUBSET Nat /\ n \in S
      BY <2>2
    <3> HIDE DEF S
    <3>2. \E x \in S : \A y \in S : x <= y
      BY <3>1, LeastElement
    <3>3. RA!Min(S) \in S /\ RA!Min(S) <= n
      BY <3>1, <3>2 DEF RA!Min
    <3> QED
      BY <3>3 DEF S
  <2>4. r \in 0..(n + 1) - 1 /\ r # -1 /\ r \notin al.regBitmap
    BY <2>2, <2>3 DEF RA!FreeRegs
  <2>5. bl = [regBitmap |-> b, usedBitmap |-> u, regValues |-> q, loadRegId |-> l]
    <3>1. RA!Granted(al, v, NoReg) = r
      BY <2>1, <2>2, Zenon DEF RA!Granted
    <3>2. ~RA!Spills(al, v)
      BY <2>2, Zenon DEF RA!Spills
    <3>3. bl = RA!Enqueue(RA!BitmapSet(al, r), v, r)
      BY <2>1, <3>1, <3>2, Zenon DEF RA!Allocate
    <3> HIDE DEF r
    <3> QED
      BY <1>1, <3>3, Enqueued DEF Held
  <2> HIDE DEF r, bl
  <2>6. /\ al.regValues \in Seq(IRVals) /\ Distinct(al.regValues) /\ al.loadRegId \in [IRVals -> (0..n - 1) \cup {-1}]
        /\ \A w \in IRVals : al.loadRegId[w] # -1 <=> Occurs(w, al.regValues)
    BY DEF Held
  <2>7. /\ q \in Seq(IRVals) /\ Len(al.regValues) \in Nat /\ DOMAIN al.regValues = 1..Len(al.regValues)
        /\ DOMAIN q = 1..Len(al.regValues) + 1 /\ q[Len(al.regValues) + 1] = v
        /\ \A i \in 1..Len(al.regValues) : q[i] = al.regValues[i]
    BY <2>6
  <2>8. DOMAIN l = IRVals /\ \A w \in IRVals : l[w] = IF w = v THEN r ELSE al.loadRegId[w]
    BY <2>6
  <2>9. l \in [IRVals -> (0..(n + 1) - 1) \cup {-1}]
    <3>1. \A w \in IRVals : l[w] \in (0..(n + 1) - 1) \cup {-1}
      BY <2>4, <2>6, <2>8
    <3>2. l = [w \in IRVals |-> l[w]]
      BY <2>6
    <3> HIDE DEF l
    <3> QED
      BY <3>1, <3>2
  <2> HIDE DEF q, l
  <2>10. ~Occurs(v, al.regValues)
    BY <1>3, <2>6
  <2>11. Distinct(q)
    <3> DEFINE m == Len(al.regValues)
    <3> SUFFICES ASSUME NEW i \in 1..m + 1, NEW j \in 1..m + 1, q[i] = q[j] PROVE i = j
      BY <2>7 DEF Distinct
    <3>1. \A k \in 1..m : q[k] = al.regValues[k] /\ q[k] # v
      BY <2>7, <2>10 DEF Occurs
    <3>2. \A k, p \in 1..m : al.regValues[k] = al.regValues[p] => k = p
      BY <2>6, <2>7 DEF Distinct
    <3>3. q[m + 1] = v /\ m \in Nat
      BY <2>7
    <3> HIDE DEF m
    <3>4. i = m + 1 \/ i \in 1..m
      BY <3>3
    <3>5. j = m + 1 \/ j \in 1..m
      BY <3>3
    <3> QED
      BY <3>1, <3>2, <3>3, <3>4, <3>5
  <2>12. \A w \in IRVals : l[w] # -1 <=> Occurs(w, q)
    <3>1. \A w \in IRVals : Occurs(w, q) <=> Occurs(w, al.regValues) \/ w = v
      BY <2>7 DEF Occurs
    <3> QED
      BY <2>4, <2>6, <2>8, <3>1
  <2>13. \A w \in IRVals : l[w] = r <=> w = v
    <3>1. \A w \in IRVals : al.loadRegId[w] # r
      BY <2>4 DEF Held
    <3> QED
      BY <2>8, <3>1
  <2>14. \A w, x \in IRVals : l[w] # -1 /\ l[w] = l[x] => w = x
    BY <2>8, <2>13 DEF Held
  <2>15. \A x : x \in b <=> \E w \in IRVals : l[w] = x /\ x # -1
    <3> SUFFICES ASSUME NEW x PROVE x \in b <=> \E w \in IRVals : l[w] = x /\ x # -1
      OBVIOUS
    <3>1. CASE x = r
      BY <2>4, <2>8, <3>1
    <3>2. CASE x # r
      BY <1>3, <2>4, <2>8, <2>13, <3>2 DEF Held
    <3> QED
      BY <3>1, <3>2
  <2>16. \A w \in IRVals : l[w] # -1 => w \in W \cup {v}
    BY <2>8 DEF Held
  <2>17. u \subseteq 0..4
    BY <2>4 DEF Held
  <2> HIDE DEF b, u
  <2>18. bl.regBitmap = b /\ bl.usedBitmap = u /\ bl.regValues = q /\ bl.loadRegId = l /\ Allocator(bl)
    BY <2>5 DEF Allocator
  <2>19. Held(bl, W \cup {v}, n + 1)
    BY <2>7, <2>9, <2>11, <2>12, <2>14, <2>15, <2>16, <2>17, <2>18 DEF Held
  <2> QED
    BY <2>19 DEF bl
<1> QED
  BY <1>2, <1>3

(* Freeing a value: it is not held any more, whether it was or not.        *)
LEMMA HoldFreed ==
  ASSUME NEW al, NEW W, NEW n \in Nat, Held(al, W, n), NEW v \in IRVals
  PROVE  Held(RA!FreeVal(al, v), W \ {v}, n)
<1>1. v # NullVal
  BY ValuesAssumption
<1>2. CASE al.loadRegId[v] = -1
  <2>1. RA!FreeVal(al, v) = al
    BY <1>2 DEF RA!FreeVal, RA!HasOne, RA!Loaded, RA!NoReg
  <2>2. \A w \in IRVals : al.loadRegId[w] # -1 => w \in W \ {v}
    BY <1>2 DEF Held
  <2> QED
    BY <2>1, <2>2 DEF Held
<1>3. CASE al.loadRegId[v] # -1
  <2> DEFINE r  == al.loadRegId[v]
             at == {i \in DOMAIN al.regValues : al.regValues[i] = v}
             k  == RA!Min(at)
             q  == RemoveAt(al.regValues, k)
             l  == [al.loadRegId EXCEPT ![v] = -1]
             b  == al.regBitmap \ {r}
             bl == [al EXCEPT !.regBitmap = b]
             cl == RA!FreeVal(al, v)
  <2>1. /\ al.regValues \in Seq(IRVals) /\ Distinct(al.regValues) /\ al.loadRegId \in [IRVals -> (0..n - 1) \cup {-1}]
        /\ \A w \in IRVals : al.loadRegId[w] # -1 <=> Occurs(w, al.regValues)
    BY DEF Held
  <2>2. k \in DOMAIN al.regValues /\ al.regValues[k] = v
    <3>1. at # {} /\ at \in SUBSET Nat
      BY <1>3, <2>1 DEF Occurs
    <3> HIDE DEF at
    <3>2. k \in at
      BY <3>1, MinIsMember DEF Min, RA!Min
    <3> QED
      BY <3>2 DEF at
  <2>3. /\ Allocator(bl) /\ bl.regBitmap = b /\ bl.usedBitmap = al.usedBitmap
        /\ bl.regValues = al.regValues /\ bl.loadRegId = al.loadRegId
    <3> HIDE DEF b
    <3>1. Allocator(al)
      BY DEF Held
    <3> QED
      BY <3>1, Unmarked
  <2>4. cl = [[bl EXCEPT !.loadRegId = l] EXCEPT !.regValues = q]
    <3>1. cl = RA!Dequeue(bl, k)
      BY <1>1, <1>3, Zenon DEF RA!FreeVal, RA!HasOne, RA!Loaded, RA!NoReg, RA!BitmapReset
    <3>2. RA!Dequeue(bl, k) = [bl EXCEPT !.loadRegId = [bl.loadRegId EXCEPT ![bl.regValues[k]] = RA!NoReg],
                                         !.regValues = RemoveAt(bl.regValues, k)]
      BY DEF RA!Dequeue, RemoveAt, RA!RemoveAt
    <3> HIDE DEF bl, k
    <3> QED
      BY <2>2, <2>3, <3>1, <3>2 DEF RA!NoReg
  <2> HIDE DEF k, q, l, b, bl
  <2>5. cl = [regBitmap |-> b, usedBitmap |-> al.usedBitmap, regValues |-> q, loadRegId |-> l]
    <3> DEFINE dl == [bl EXCEPT !.loadRegId = l]
    <3>1. dl = [regBitmap |-> b, usedBitmap |-> al.usedBitmap, regValues |-> al.regValues, loadRegId |-> l]
      BY <2>3 DEF Allocator
    <3> HIDE DEF dl
    <3>2. [dl EXCEPT !.regValues = q] = [regBitmap |-> b, usedBitmap |-> al.usedBitmap, regValues |-> q, loadRegId |-> l]
      BY <3>1
    <3> QED
      BY <2>4, <3>2 DEF dl
  <2> HIDE DEF cl
  <2>6. q \in Seq(IRVals) /\ Distinct(q) /\ \A w \in IRVals : Occurs(w, q) <=> Occurs(w, al.regValues) /\ w # v
    <3>1. q \in Seq(IRVals)
      BY <2>1, <2>2, Erase DEF q
    <3>2. \A i, j \in DOMAIN al.regValues : al.regValues[i] = al.regValues[j] => i = j
      BY <2>1 DEF Distinct
    <3>3. /\ \A i, j \in DOMAIN q : q[i] = q[j] => i = j
          /\ \A e \in IRVals : (\E i \in DOMAIN q : q[i] = e)
                                 <=> (\E i \in DOMAIN al.regValues : al.regValues[i] = e) /\ e # al.regValues[k]
      BY <2>1, <2>2, <3>2, EraseDistinct DEF q
    <3> QED
      BY <2>2, <3>1, <3>3 DEF Distinct, Occurs
  <2>7. \A w \in IRVals : l[w] = IF w = v THEN -1 ELSE al.loadRegId[w]
    BY <2>1 DEF l
  <2>8. l \in [IRVals -> (0..n - 1) \cup {-1}]
    BY <2>1 DEF l
  <2>9. \A w \in IRVals : l[w] # -1 <=> Occurs(w, q)
    BY <2>1, <2>6, <2>7
  <2>10. \A w, x \in IRVals : l[w] # -1 /\ l[w] = l[x] => w = x
    BY <2>7 DEF Held
  <2>11. \A x : x \in b <=> \E w \in IRVals : l[w] = x /\ x # -1
    <3>1. \A x : x \in al.regBitmap <=> \E w \in IRVals : al.loadRegId[w] = x /\ x # -1
      BY DEF Held
    <3>2. \A w \in IRVals : al.loadRegId[w] = r => w = v
      BY <1>3 DEF Held
    <3> QED
      BY <1>3, <2>7, <3>1, <3>2 DEF b
  <2>12. \A w \in IRVals : l[w] # -1 => w \in W \ {v}
    BY <2>7 DEF Held
  <2>13. cl.regBitmap = b /\ cl.usedBitmap = al.usedBitmap /\ cl.regValues = q /\ cl.loadRegId = l /\ Allocator(cl)
    BY <2>5 DEF Allocator
  <2>14. Held(cl, W \ {v}, n)
    BY <2>6, <2>8, <2>9, <2>10, <2>11, <2>12, <2>13 DEF Held
  <2> QED
    BY <2>14 DEF cl
<1> QED
  BY <1>2, <1>3

-----------------------------------------------------------------------------
(* The operands of additions                                               *)

(* As many Use objects as are asked for, and none that looks unallocated:  *)
(* the bound of a run does not bite.                                       *)
EnoughUses == Uses = Nat \ {0} /\ \A v, i : [usee |-> v, user |-> i] # Freed

(* There are always some that are not allocated.                           *)
Linked(g) == DOMAIN g.edge = Uses /\ \E m \in Nat : \A u \in Uses : u > m => g.edge[u] = Freed

(* The first two edges in the list of an instruction lead to values that   *)
(* it uses, whatever instructions that use its result were added behind.   *)
ToOperand(g, w, u) == u \in Uses /\ \E v \in IRVals : v # w /\ \E i : g.edge[u] = [usee |-> v, user |-> i]

TwoOperands(g, w) ==
  /\ w \in IRVals /\ w.kind = "inst"
  /\ \A k \in {1, 2} : k \in DOMAIN g.uses[w] /\ ToOperand(g, w, g.uses[w][k])

GraphOK(g) == ListsOK(g) /\ Linked(g)

Keeps(g, h) == GraphOK(h) /\ \A w : TwoOperands(g, w) => TwoOperands(h, w)

(* Keeping is reflexive and transitive.                                    *)
LEMMA KeepsAll ==
  ASSUME NEW g, GraphOK(g), NEW h, NEW j, Keeps(g, h), Keeps(h, j)
  PROVE  Keeps(g, g) /\ Keeps(g, j)
BY DEF Keeps

(* There is an edge to be had.                                             *)
LEMMA FreshUse ==
  ASSUME EnoughUses, NEW g, Linked(g)
  PROVE  FreeUse(g) \in Uses /\ g.edge[FreeUse(g)] = Freed
<1> DEFINE S == {u \in Uses : g.edge[u] = Freed}
<1>1. Uses = Nat \ {0}
  BY DEF EnoughUses
<1>2. PICK m \in Nat : \A u \in Uses : u > m => g.edge[u] = Freed
  BY DEF Linked
<1>3. m + 1 \in S /\ S \in SUBSET Nat
  BY <1>1, <1>2
<1>4. \E x \in S : \A y \in S : x <= y
  <2> HIDE DEF S
  <2> QED
    BY <1>3, LeastElement
<1>5. \E u \in Uses : g.edge[u] = Freed /\ \A w \in 1 .. u - 1 : g.edge[w] # Freed
  BY <1>1, <1>4
<1> QED
  BY <1>5 DEF FreeUse

(* One use list changes, and all else stays, when an edge is added         *)
LEMMA AddUseIs ==
  ASSUME NEW g, ListsOK(g), NEW v, NEW u, NEW h, h = AddUse(g, v, u)
  PROVE  /\ h.edge = g.edge
         /\ \A w \in IRVals : h.uses[w] = IF w = v THEN Append(g.uses[v], u) ELSE g.uses[w]
<1> DEFINE l  == Append(g.uses[v], u)
           us == [g.uses EXCEPT ![v] = l]
<1>1. g = [uses |-> g.uses, edge |-> g.edge] /\ DOMAIN g.uses = IRVals
  BY DEF ListsOK
<1>2. h = [uses |-> us, edge |-> g.edge]
  BY <1>1 DEF AddUse
<1> HIDE DEF l
<1>3. DOMAIN us = IRVals /\ \A w \in IRVals : us[w] = IF w = v THEN l ELSE g.uses[w]
  BY <1>1
<1> HIDE DEF us
<1> QED
  BY <1>2, <1>3 DEF l

(* or removed.                                                             *)
LEMMA RemoveUseIs ==
  ASSUME NEW g, ListsOK(g), NEW v, NEW u, NEW h, h = RemoveUse(g, v, u)
  PROVE  /\ h.edge = g.edge
         /\ \A w \in IRVals : h.uses[w] = IF w = v THEN RemoveFirst(g.uses[v], u) ELSE g.uses[w]
<1> DEFINE l  == RemoveFirst(g.uses[v], u)
           us == [g.uses EXCEPT ![v] = l]
<1>1. g = [uses |-> g.uses, edge |-> g.edge] /\ DOMAIN g.uses = IRVals
  BY DEF ListsOK
<1>2. h = [uses |-> us, edge |-> g.edge]
  BY <1>1 DEF RemoveUse
<1> HIDE DEF l
<1>3. DOMAIN us = IRVals /\ \A w \in IRVals : us[w] = IF w = v THEN l ELSE g.uses[w]
  BY <1>1
<1> HIDE DEF us
<1> QED
  BY <1>2, <1>3 DEF l

(* Lists that begin as before have the operands they had.                  *)
LEMMA SameBeginnings ==
  ASSUME NEW g, NEW h, ListsOK(h), Linked(h),
         NEW w, TwoOperands(g, w),
         \A k \in {1, 2} : /\ k \in DOMAIN h.uses[w] /\ h.uses[w][k] = g.uses[w][k]
                           /\ h.edge[g.uses[w][k]] = g.edge[g.uses[w][k]]
  PROVE  TwoOperands(h, w)
BY DEF TwoOperands, ToOperand

(* Adding an edge to a list adds it behind.                                *)
LEMMA AddUseKeeps ==
  ASSUME NEW g, GraphOK(g), NEW v, NEW u
  PROVE  Keeps(g, AddUse(g, v, u))
<1> DEFINE h == AddUse(g, v, u)
<1>1. ListsOK(g) /\ ListsOK(h)
  BY UseLists DEF GraphOK
<1>2. /\ h.edge = g.edge
      /\ \A w \in IRVals : h.uses[w] = IF w = v THEN Append(g.uses[v], u) ELSE g.uses[w]
  BY <1>1, AddUseIs
<1> HIDE DEF h
<1>3. Linked(h)
  BY <1>2 DEF GraphOK, Linked
<1>4. ASSUME NEW w, TwoOperands(g, w) PROVE TwoOperands(h, w)
  <2>1. IsSeq(g.uses[w]) /\ w \in IRVals /\ \A k \in {1, 2} : k \in DOMAIN g.uses[w]
    BY <1>1, <1>4 DEF ListsOK, TwoOperands
  <2>2. \A k \in {1, 2} : k \in DOMAIN h.uses[w] /\ h.uses[w][k] = g.uses[w][k]
    <3>1. CASE w # v
      BY <1>2, <2>1, <3>1
    <3>2. CASE w = v
      <4> DEFINE c == g.uses[w]
                 d == Append(c, u)
      <4>1. h.uses[w] = d
        BY <1>2, <2>1, <3>2
      <4> HIDE DEF c
      <4>2. /\ Len(c) \in Nat /\ DOMAIN c = 1..Len(c) /\ DOMAIN d = 1..Len(c) + 1
            /\ \A i \in 1..Len(c) : d[i] = c[i]
        <5>1. IsSeq(c)
          BY <2>1 DEF c
        <5> QED
          BY <5>1, AppendedIs
      <4> HIDE DEF d
      <4>3. \A k \in {1, 2} : k \in DOMAIN c
        BY <2>1 DEF c
      <4>4. \A k \in {1, 2} : k \in DOMAIN d /\ d[k] = c[k]
        BY <4>2, <4>3
      <4> QED
        BY <4>1, <4>4 DEF c
    <3> QED
      BY <3>1, <3>2
  <2> QED
    BY <1>1, <1>2, <1>3, <1>4, <2>2, SameBeginnings
<1> QED
  BY <1>1, <1>3, <1>4 DEF Keeps, GraphOK, h

(* Making an edge: a free Use object is taken, and put into both lists.    *)
LEMMA LinkKeeps ==
  ASSUME EnoughUses, NEW g, GraphOK(g), NEW e
  PROVE  Keeps(g, Link(g, e))
<1> DEFINE u == FreeUse(g)
           d == [g.edge EXCEPT ![u] = [usee |-> e.usee, user |-> e.user]]
           h == [g EXCEPT !.edge = d]
<1>0. ListsOK(g) /\ Linked(g)
  BY DEF GraphOK
<1>1. NewUse(g, e.user, e.usee, u) = h
  <2> HIDE DEF u
  <2> QED
    BY <1>0 DEF NewUse, ListsOK
<1>2. ListsOK(h)
  BY <1>0, UseLists
<1>3. u \in Uses /\ g.edge[u] = Freed /\ Uses = Nat \ {0}
  BY <1>0, FreshUse DEF EnoughUses
<1> HIDE DEF u
<1>4. h.edge = d /\ h.uses = g.uses
  BY <1>0 DEF ListsOK
<1>5. DOMAIN d = Uses /\ \A w \in Uses : w # u => d[w] = g.edge[w]
  BY <1>0 DEF Linked
<1> HIDE DEF d, h
<1>6. Linked(h)
  <2>1. PICK m \in Nat : \A w \in Uses : w > m => g.edge[w] = Freed
    BY <1>0 DEF Linked
  <2>2. m + u \in Nat /\ \A w \in Uses : w > m + u => d[w] = Freed
    BY <1>3, <1>5, <2>1
  <2> QED
    BY <1>4, <1>5, <2>2 DEF Linked
<1>7. ASSUME NEW w, TwoOperands(g, w) PROVE TwoOperands(h, w)
  <2>1. \A k \in {1, 2} : /\ k \in DOMAIN g.uses[w] /\ g.uses[w][k] \in Uses /\ g.edge[g.uses[w][k]] # Freed
    BY <1>7 DEF TwoOperands, ToOperand, EnoughUses
  <2>2. \A k \in {1, 2} : /\ k \in DOMAIN h.uses[w] /\ h.uses[w][k] = g.uses[w][k]
                          /\ h.edge[g.uses[w][k]] = g.edge[g.uses[w][k]]
    BY <1>3, <1>4, <1>5, <2>1
  <2> QED
    BY <1>2, <1>6, <1>7, <2>2, SameBeginnings
<1>8. Keeps(g, h)
  BY <1>2, <1>6, <1>7 DEF Keeps, GraphOK
<1> DEFINE a == AddUse(h, e.user, u)
<1>9. Keeps(h, a)
  BY <1>8, AddUseKeeps DEF Keeps
<1> HIDE DEF a
<1>10. Keeps(a, AddUse(a, e.usee, u))
  BY <1>9, AddUseKeeps DEF Keeps
<1>11. Link(g, e) = AddUse(a, e.usee, u)
  BY <1>1 DEF Link, AddOperand, u, a
<1> QED
  BY <1>8, <1>9, <1>10, <1>11 DEF Keeps

(* An element behind the first two is removed.                             *)
LEMMA RemoveBehind ==
  ASSUME NEW s, IsSeq(s), 1 \in DOMAIN s, 2 \in DOMAIN s, NEW u, s[1] # u, s[2] # u
  PROVE  \A k \in {1, 2} : k \in DOMAIN RemoveFirst(s, u) /\ RemoveFirst(s, u)[k] = s[k]
<1> DEFINE S == {s[i] : i \in DOMAIN s}
           t == RemoveFirst(s, u)
<1>1. s \in Seq(S)
  BY DEF IsSeq
<1> HIDE DEF S
<1>2. \/ t = s
      \/ \E i \in DOMAIN s : s[i] = u /\ t = RemoveAt(s, i)
  BY <1>1, RemoveFirstErases
<1>3. CASE t = s
  BY <1>3
<1>4. ASSUME NEW i \in DOMAIN s, s[i] = u, t = RemoveAt(s, i) PROVE \A k \in {1, 2} : k \in DOMAIN t /\ t[k] = s[k]
  <2>1. /\ t \in Seq(S) /\ Len(t) = Len(s) - 1 /\ \A k \in 1..i - 1 : t[k] = s[k]
    BY <1>1, <1>4, Erase
  <2>2. i \in 3..Len(s) /\ Len(s) \in Nat
    BY <1>1, <1>4
  <2> HIDE DEF t
  <2>3. DOMAIN t = 1..Len(s) - 1
    BY <2>1, <2>2
  <2>4. 1 \in 1..i - 1 /\ 2 \in 1..i - 1 /\ 1 \in 1..Len(s) - 1 /\ 2 \in 1..Len(s) - 1
    BY <2>2
  <2> QED
    BY <2>1, <2>3, <2>4
<1> QED
  BY <1>2, <1>3, <1>4

(* An edge gets another usee, no result of an instruction: it leaves the   *)
(* list of the value it led to, which is not that of its user.             *)
LEMMA SetUseeKeeps ==
  ASSUME EnoughUses, NEW g, GraphOK(g), NEW u, NEW v \in IRVals, v.kind # "inst"
  PROVE  Keeps(g, SetUsee(g, u, v))
<1> DEFINE x == g.edge[u].usee
           a == RemoveUse(g, x, u)
           d == [g.edge EXCEPT ![u].usee = v]
           h == [a EXCEPT !.edge = d]
<1>0. ListsOK(g) /\ Linked(g) /\ Uses = Nat \ {0}
  BY DEF GraphOK, EnoughUses
<1>1. ListsOK(a)
  BY <1>0, UseLists
<1>2. /\ a.edge = g.edge
      /\ \A w \in IRVals : a.uses[w] = IF w = x THEN RemoveFirst(g.uses[x], u) ELSE g.uses[w]
  <2> HIDE DEF x
  <2> QED
    BY <1>0, RemoveUseIs
<1> HIDE DEF a
<1>3. ListsOK(h) /\ h.edge = d /\ h.uses = a.uses
  <2> HIDE DEF d
  <2>1. ListsOK([a EXCEPT !.edge = d])
    BY <1>1, UseLists
  <2> QED
    BY <1>1, <2>1 DEF ListsOK
<1>4. SetUsee(g, u, v) = AddUse(h, v, u)
  <2>1. [a EXCEPT !.edge[u].usee = v] = h
    BY <1>1, <1>2 DEF ListsOK
  <2> HIDE DEF h
  <2> QED
    BY <2>1 DEF SetUsee, a
<1>5. /\ DOMAIN d = Uses /\ \A w \in Uses : w # u => d[w] = g.edge[w]
      /\ u \in Uses => d[u] = [g.edge[u] EXCEPT !.usee = v]
  BY <1>0 DEF Linked
<1> HIDE DEF d, h
<1>6. Linked(h)
  <2>1. PICK m \in Nat : \A w \in Uses : w > m => g.edge[w] = Freed
    BY <1>0 DEF Linked
  <2>2. \E n \in Nat : n >= m /\ (u \in Uses => u <= n)
    <3>1. CASE u \in Uses /\ u > m
      BY <1>0, <3>1
    <3>2. CASE ~(u \in Uses /\ u > m)
      BY <1>0, <3>2
    <3> QED
      BY <3>1, <3>2
  <2>3. PICK n \in Nat : n >= m /\ (u \in Uses => u <= n)
    BY <2>2
  <2>4. \A w \in Uses : w > n => w # u /\ w > m
    BY <1>0, <2>3
  <2>5. \A w \in Uses : w > n => d[w] = Freed
    BY <1>5, <2>1, <2>4
  <2> QED
    BY <1>3, <1>5, <2>5 DEF Linked
<1>7. ASSUME NEW w, TwoOperands(g, w) PROVE TwoOperands(h, w)
  <2>1. /\ w \in IRVals /\ w.kind = "inst" /\ IsSeq(g.uses[w])
        /\ \A k \in {1, 2} : k \in DOMAIN g.uses[w] /\ ToOperand(g, w, g.uses[w][k])
    BY <1>0, <1>7 DEF TwoOperands, ListsOK
  <2>2. \A k \in {1, 2} : k \in DOMAIN a.uses[w] /\ a.uses[w][k] = g.uses[w][k]
    <3>1. CASE x # w
      BY <1>2, <2>1, <3>1
    <3>2. CASE x = w
      <4> DEFINE l == g.uses[w]
      <4>1. \A k \in {1, 2} : k \in DOMAIN l /\ l[k] # u
        <5> SUFFICES ASSUME NEW k \in {1, 2}, l[k] = u PROVE FALSE
          BY <2>1
        <5>1. ToOperand(g, w, u)
          BY <2>1
        <5>2. PICK y \in IRVals : y # w /\ \E i : g.edge[u] = [usee |-> y, user |-> i]
          BY <5>1 DEF ToOperand
        <5> QED
          BY <3>2, <5>2
      <4>2. a.uses[w] = RemoveFirst(l, u) /\ IsSeq(l)
        BY <1>2, <2>1, <3>2
      <4> HIDE DEF l
      <4>3. \A k \in {1, 2} : k \in DOMAIN RemoveFirst(l, u) /\ RemoveFirst(l, u)[k] = l[k]
        BY <4>1, <4>2, RemoveBehind
      <4> QED
        BY <4>2, <4>3 DEF l
    <3> QED
      BY <3>1, <3>2
  <2>3. v # w
    BY <2>1
  <2>4. ASSUME NEW k \in {1, 2} PROVE k \in DOMAIN h.uses[w] /\ ToOperand(h, w, h.uses[w][k])
    <3> DEFINE p == g.uses[w][k]
    <3>1. k \in DOMAIN h.uses[w] /\ h.uses[w][k] = p /\ ToOperand(g, w, p)
      BY <1>3, <2>1, <2>2
    <3> HIDE DEF p
    <3>2. CASE p # u
      BY <1>3, <1>5, <3>1, <3>2 DEF ToOperand
    <3>3. CASE p = u
      <4>1. PICK y \in IRVals : y # w /\ \E i : g.edge[u] = [usee |-> y, user |-> i]
        BY <3>1, <3>3 DEF ToOperand
      <4>2. PICK i : g.edge[u] = [usee |-> y, user |-> i]
        BY <4>1
      <4>3. u \in Uses /\ d[u] = [usee |-> v, user |-> i]
        BY <1>5, <3>1, <3>3, <4>2 DEF ToOperand
      <4> QED
        BY <1>3, <2>3, <3>1, <3>3, <4>3 DEF ToOperand
    <3> QED
      BY <3>1, <3>2, <3>3
  <2> QED
    BY <2>1, <2>4 DEF TwoOperands
<1>8. Keeps(g, h)
  BY <1>3, <1>6, <1>7 DEF Keeps, GraphOK
<1>9. Keeps(h, AddUse(h, v, u))
  BY <1>8, AddUseKeeps DEF Keeps
<1> QED
  BY <1>4, <1>8, <1>9 DEF Keeps

(* So does giving an instruction such an operand.                          *)
LEMMA SetOperandKeeps ==
  ASSUME EnoughUses, NEW g, GraphOK(g), NEW i, NEW k, NEW v \in IRVals, v.kind # "inst"
  PROVE  Keeps(g, SetOperand(g, i, k, v))
<1>1. Keeps(g, SetUsee(g, g.uses[i][k], v))
  BY SetUseeKeeps
<1>2. Keeps(g, g)
  BY DEF Keeps
<1> QED
  BY <1>1, <1>2 DEF SetOperand

KeepsTurn(k, g) == Keeps(graph, g)

Connecting == INSTANCE FoldLemmas WITH Op <- Link, P <- KeepsTurn

(* Connecting a user with one operand or two keeps the operands there are. *)
LEMMA ConnectKeeps ==
  ASSUME EnoughUses, NEW g, Keeps(graph, g), NEW i, NEW a, NEW b
  PROVE  Keeps(graph, Connect(g, i, << a, b >>)) /\ Keeps(graph, Connect(g, i, << a >>))
<1>1. \A h : \A e : Keeps(graph, h) => Keeps(graph, Link(h, e))
  <2> SUFFICES ASSUME NEW h, NEW e, Keeps(graph, h) PROVE Keeps(graph, Link(h, e))
    OBVIOUS
  <2>1. GraphOK(h)
    BY DEF Keeps
  <2>2. Keeps(h, Link(h, e))
    BY <2>1, LinkKeeps
  <2> QED
    BY <2>2 DEF Keeps
<1>2. \A edges : FoldLeft(Link, g, edges) = Connecting!Fold(g, edges)[DOMAIN edges]
  BY DEF FoldLeft, MapThenFoldSet, Max, Connecting!Fold, Connecting!Greatest
<1>3. ASSUME NEW n \in Nat, NEW edges, DOMAIN edges = 1..n PROVE Keeps(graph, FoldLeft(Link, g, edges))
  <2>1. KeepsTurn(0, g) /\ \A h : \A k \in 1..n : KeepsTurn(k - 1, h) => KeepsTurn(k, Link(h, edges[k]))
    BY <1>1 DEF KeepsTurn
  <2>2. KeepsTurn(n, Connecting!Fold(g, edges)[1..n])
    BY <1>3, <2>1, LeastElement, Connecting!FoldInvariant
  <2> QED
    BY <1>2, <1>3, <2>2 DEF KeepsTurn
<1>4. DOMAIN Operands(i, << a, b >>) = 1..2 /\ DOMAIN Operands(i, << a >>) = 1..1
  BY DEF Operands
<1> QED
  BY <1>3, <1>4 DEF Connect

(* So does passing an argument: what becomes the operand of the call is a  *)
(* register or a place on the stack.                                       *)
LEMMA PassedKeeps ==
  ASSUME EnoughUses, created \in Nat, NEW st, PassingOK(st), Keeps(graph, st.g), NEW call, NEW k,
         NEW place \in IRVals, place.kind # "inst"
  PROVE  Keeps(graph, Passed(st, call, k, place).g)
<1> DEFINE a == Connect(st.g, InstVal(st.id + 1), << place, OperandAt(st.g, call, k) >>)
           b == SetOperand(a, call, k, place)
<1>1. Keeps(graph, a)
  BY ConnectKeeps
<1>2. Keeps(a, b)
  <2> HIDE DEF a
  <2> QED
    BY <1>1, SetOperandKeeps DEF Keeps
<1>3. Keeps(graph, b)
  <2> HIDE DEF a, b
  <2> QED
    BY <1>1, <1>2 DEF Keeps
<1>4. Passed(st, call, k, place).g = b
  <2>1. st = [g |-> st.g, moves |-> st.moves, at |-> st.at, id |-> st.id]
    BY DEF PassingOK
  <2>2. PICK x, y, z : st = [g |-> st.g, moves |-> x, at |-> y, id |-> z]
    BY <2>1
  <2> HIDE DEF b
  <2>3. [st EXCEPT !.g = b, !.moves = Append(@, Move(st.id + 1)), !.id = @ + 1].g = b
    BY <2>2
  <2> QED
    BY <2>3 DEF Passed, b
<1> QED
  BY <1>3, <1>4

OnStack(name) == \A k \in 5..MaxOperands : Val("mem", name, k) \in IRVals

PlacesThere == OnStack(Func.name)

PassedTurn(k, st) == PassingOK(st) /\ Keeps(graph, st.g)

StackKept    == INSTANCE FoldLemmas WITH Op <- PassStackTurn, P <- PassedTurn
RegisterKept == INSTANCE FoldLemmas WITH Op <- PassRegisterTurn, P <- PassedTurn

(* A turn of the loop over the arguments on the stack,                     *)
LEMMA PassStackKeeps ==
  ASSUME EnoughUses, created \in Nat, PlacesThere, NEW st, PassingOK(st), Keeps(graph, st.g),
         NEW k \in 5..MaxOperands
  PROVE  PassingOK(PassStackTurn(st, k)) /\ Keeps(graph, PassStackTurn(st, k).g)
<1> DEFINE place == Val("mem", Func.name, k)
           u     == Passed(st, This, k, place)
           x     == [base |-> SP, off |-> 4 * (k - 5)]
           v     == [u EXCEPT !.at = (place :> x) @@ u.at]
<1>1. PassingOK(st) /\ Keeps(graph, st.g)
  OBVIOUS
<1>2. place \in IRVals /\ place.kind # "inst"
  BY DEF PlacesThere, OnStack, Val
<1>3. PassingOK(u) /\ Keeps(graph, u.g)
  <2> HIDE DEF place
  <2> QED
    BY <1>1, <1>2, PassedOK, PassedKeeps
<1>4. PassStackTurn(st, k) = IF k > OperandNum(st.g, This) THEN st ELSE v
  BY Zenon DEF PassStackTurn, PassStack
<1>5. PassingOK(PassStackTurn(st, k))
  BY <1>1, PassStackOK
<1>6. v.g = u.g
  <2> DEFINE y == (place :> x) @@ u.at
  <2>1. u = [g |-> u.g, moves |-> u.moves, at |-> u.at, id |-> u.id]
    BY <1>3 DEF PassingOK
  <2> HIDE DEF y, u
  <2>2. PICK p, q, r : u = [g |-> u.g, moves |-> p, at |-> q, id |-> r]
    BY <2>1
  <2>3. [u EXCEPT !.at = y].g = u.g
    BY <2>2
  <2> QED
    BY <2>3 DEF y
<1> HIDE DEF u, v
<1> QED
  BY <1>1, <1>3, <1>4, <1>5, <1>6

(* and over the others.                                                    *)
LEMMA PassRegisterKeeps ==
  ASSUME EnoughUses, created \in Nat, NEW st, PassingOK(st), Keeps(graph, st.g),
         NEW k \in 1..4
  PROVE  PassingOK(PassRegisterTurn(st, k)) /\ Keeps(graph, PassRegisterTurn(st, k).g)
<1>1. PassingOK(st) /\ Keeps(graph, st.g)
  OBVIOUS
<1>2. Reg(k - 1) \in IRVals /\ Reg(k - 1).kind # "inst"
  <2>1. k - 1 \in 0..3
    OBVIOUS
  <2> QED
    BY <2>1, PlacesAssumption DEF Reg, Val
<1> DEFINE place == Reg(k - 1)
           u     == Passed(st, This, k, place)
<1> HIDE DEF place
<1>3. PassingOK(u) /\ Keeps(graph, u.g)
  BY <1>1, <1>2, PassedOK, PassedKeeps DEF place
<1>4. PassRegisterTurn(st, k) = u \/ PassRegisterTurn(st, k) = st
  BY Zenon DEF PassRegisterTurn, PassRegister, place
<1> HIDE DEF u
<1> QED
  BY <1>1, <1>3, <1>4

(* Passing all the arguments of a call keeps the operands of additions.    *)
LEMMA PassingKeeps ==
  ASSUME EnoughUses, created \in Nat, PlacesThere, GraphOK(graph)
  PROVE  Keeps(graph, Passing(This).g)
<1> DEFINE st0   == [g |-> graph, moves |-> << >>, at |-> addr, id |-> created]
           five  == [j \in 1 .. MaxOperands - 4 |-> 4 + j]
           four  == << 1, 2, 3, 4 >>
           stack == FoldLeft(LAMBDA st, k : PassStack(st, This, k), st0, five)
           all   == FoldLeft(LAMBDA st, k : PassRegister(st, This, k), stack, four)
<1>1. Passing(This) = all
  BY Zenon DEF Passing
<1>2. PassedTurn(0, st0)
  BY DEF PassedTurn, PassingOK, IsSeq, GraphOK, Keeps
<1>3. PICK n \in Nat : 1..MaxOperands - 4 = 1..n
  <2>1. CASE MaxOperands >= 4
    BY <2>1, MaxOperandsAssumption
  <2>2. CASE ~(MaxOperands >= 4)
    <3>1. 1..MaxOperands - 4 = 1..0
      BY <2>2, MaxOperandsAssumption
    <3> QED
      BY <3>1
  <2> QED
    BY <2>1, <2>2
<1>4. DOMAIN five = 1..n /\ \A k \in 1..n : five[k] \in 5..MaxOperands
  <2>1. \A k \in 1..MaxOperands - 4 : 4 + k \in 5..MaxOperands
    BY MaxOperandsAssumption
  <2> QED
    BY <1>3, <2>1
<1>5. DOMAIN four = 1..4 /\ \A k \in 1..4 : four[k] \in 1..4
  OBVIOUS
<1>6. stack = StackKept!Fold(st0, five)[DOMAIN five]
  BY DEF FoldLeft, MapThenFoldSet, Max, StackKept!Fold, StackKept!Greatest, PassStackTurn
<1>7. all = RegisterKept!Fold(stack, four)[DOMAIN four]
  BY DEF FoldLeft, MapThenFoldSet, Max, RegisterKept!Fold, RegisterKept!Greatest, PassRegisterTurn
<1> HIDE DEF st0, five, four, stack, all
<1>8. PassedTurn(0, stack)
  <2>1. \A u : \A k \in 1..n : PassedTurn(k - 1, u) => PassedTurn(k, PassStackTurn(u, five[k]))
    BY <1>4, PassStackKeeps DEF PassedTurn
  <2>2. PassedTurn(n, StackKept!Fold(st0, five)[1..n])
    BY <1>2, <1>4, <2>1, LeastElement, StackKept!FoldInvariant
  <2> QED
    BY <1>4, <1>6, <2>2 DEF PassedTurn
<1>9. PassedTurn(0, all)
  <2>1. \A u : \A k \in 1..4 : PassedTurn(k - 1, u) => PassedTurn(k, PassRegisterTurn(u, four[k]))
    BY <1>5, PassRegisterKeeps DEF PassedTurn
  <2>2. PassedTurn(4, RegisterKept!Fold(stack, four)[1..4])
    BY <1>5, <1>8, <2>1, LeastElement, RegisterKept!FoldInvariant
  <2> QED
    BY <1>5, <1>7, <2>2 DEF PassedTurn
<1> QED
  BY <1>1, <1>9 DEF PassedTurn

-----------------------------------------------------------------------------
(* What the handlers of the selector keep: the operands of additions, and  *)
(* no register in use, or the first n while a call is translated.          *)

SelOK(t, n) == IsSelection(t) /\ Keeps(graph, t.graph) /\ Claimed(t.alloc, 0, n)

(* The fields of a selection that is changed in one of them,               *)
LEMMA SelectionFields ==
  ASSUME NEW t, IsSelection(t), NEW x
  PROVE  /\ IsSelection([t EXCEPT !.alloc = x]) /\ [t EXCEPT !.alloc = x].alloc = x
         /\ [t EXCEPT !.alloc = x].graph = t.graph /\ [t EXCEPT !.alloc = x].addr = t.addr
         /\ IsSelection([t EXCEPT !.asm = x]) /\ [t EXCEPT !.asm = x].alloc = t.alloc
         /\ [t EXCEPT !.asm = x].graph = t.graph /\ [t EXCEPT !.asm = x].addr = t.addr
<1>1. t = [asm |-> t.asm, alloc |-> t.alloc, graph |-> t.graph, id |-> t.id, deleted |-> t.deleted, addr |-> t.addr]
  BY DEF IsSelection
<1>2. [t EXCEPT !.alloc = x] = [asm |-> t.asm, alloc |-> x, graph |-> t.graph, id |-> t.id,
                                deleted |-> t.deleted, addr |-> t.addr]
  BY <1>1
<1>3. [t EXCEPT !.asm = x] = [asm |-> x, alloc |-> t.alloc, graph |-> t.graph, id |-> t.id,
                              deleted |-> t.deleted, addr |-> t.addr]
  BY <1>1
<1> QED
  BY <1>2, <1>3 DEF IsSelection

(* and what such a change keeps.                                           *)
LEMMA OthersOK ==
  ASSUME NEW n, NEW t, SelOK(t, n), NEW x
  PROVE  /\ SelOK([t EXCEPT !.asm = x], n) /\ SelOK([t EXCEPT !.id = x], n)
         /\ SelOK([t EXCEPT !.deleted = x], n) /\ SelOK([t EXCEPT !.addr = x], n)
         /\ Keeps(graph, x) => SelOK([t EXCEPT !.graph = x], n)
<1>1. t = [asm |-> t.asm, alloc |-> t.alloc, graph |-> t.graph, id |-> t.id, deleted |-> t.deleted, addr |-> t.addr]
  BY DEF SelOK, IsSelection
<1>2. [t EXCEPT !.asm = x] = [asm |-> x, alloc |-> t.alloc, graph |-> t.graph, id |-> t.id,
                              deleted |-> t.deleted, addr |-> t.addr]
  BY <1>1
<1>3. [t EXCEPT !.graph = x] = [asm |-> t.asm, alloc |-> t.alloc, graph |-> x, id |-> t.id,
                                deleted |-> t.deleted, addr |-> t.addr]
  BY <1>1
<1>4. [t EXCEPT !.id = x] = [asm |-> t.asm, alloc |-> t.alloc, graph |-> t.graph, id |-> x,
                             deleted |-> t.deleted, addr |-> t.addr]
  BY <1>1
<1>5. [t EXCEPT !.deleted = x] = [asm |-> t.asm, alloc |-> t.alloc, graph |-> t.graph, id |-> t.id,
                                  deleted |-> x, addr |-> t.addr]
  BY <1>1
<1>6. [t EXCEPT !.addr = x] = [asm |-> t.asm, alloc |-> t.alloc, graph |-> t.graph, id |-> t.id,
                               deleted |-> t.deleted, addr |-> x]
  BY <1>1
<1>7. SelOK([t EXCEPT !.asm = x], n) /\ SelOK([t EXCEPT !.id = x], n)
  BY <1>2, <1>4 DEF SelOK, IsSelection
<1>8. SelOK([t EXCEPT !.deleted = x], n) /\ SelOK([t EXCEPT !.addr = x], n)
  BY <1>5, <1>6 DEF SelOK, IsSelection
<1>9. Keeps(graph, x) => SelOK([t EXCEPT !.graph = x], n)
  BY <1>3 DEF SelOK, IsSelection
<1> QED
  BY <1>7, <1>8, <1>9

(* Emitting code changes nothing else.                                     *)
LEMMA EmitIs ==
  ASSUME NEW t, IsSelection(t), NEW code, NEW n
  PROVE  /\ IsSelection(Emit(t, code)) /\ Emit(t, code).alloc = t.alloc /\ Emit(t, code).graph = t.graph
         /\ Emit(t, code).addr = t.addr
         /\ SelOK(t, n) => SelOK(Emit(t, code), n)
<1> DEFINE longer == t.asm \o code
<1>1. Emit(t, code) = [t EXCEPT !.asm = longer]
  BY DEF Emit
<1> HIDE DEF longer
<1>2. /\ IsSelection([t EXCEPT !.asm = longer]) /\ [t EXCEPT !.asm = longer].alloc = t.alloc
      /\ [t EXCEPT !.asm = longer].graph = t.graph /\ [t EXCEPT !.asm = longer].addr = t.addr
  BY SelectionFields
<1>3. SelOK(t, n) => SelOK([t EXCEPT !.asm = longer], n)
  BY OthersOK
<1> QED
  BY <1>1, <1>2, <1>3

(* A move may borrow a register for a moment.                              *)
LEMMA AssignOK ==
  ASSUME NEW n \in {0, 4}, NEW t, SelOK(t, n), NEW result, NEW arg
  PROVE  SelOK(translate_assign(t, result, arg), n)
<1> DEFINE from == RegId(arg)
           to   == RegId(result)
           r    == RA!Granted(t.alloc, NullVal, NoReg)
           al   == RA!FreeReg(RA!Allocate(t.alloc, NullVal, NoReg), r)
           u    == [t EXCEPT !.alloc = al]
           copy == load_var(u.addr, r, arg) \o store_var(u.addr, r, result, TMP)
<1>0. IsSelection(t) /\ Keeps(graph, t.graph) /\ Claimed(t.alloc, 0, n)
  BY DEF SelOK
<1>1. Claimed(al, 0, n)
  BY <1>0, Borrowed
<1>2. translate_assign(t, result, arg) =
        IF from # NoReg THEN Emit(t, store_var(t.addr, from, result, TMP))
        ELSE IF to # NoReg THEN Emit(t, load_var(t.addr, to, arg))
        ELSE Emit(u, copy)
  <2>1. u.addr = t.addr
    <3> HIDE DEF al
    <3> QED
      BY <1>0, SelectionFields
  <2> HIDE DEF r
  <2>2. [t EXCEPT !.alloc = RA!FreeReg(RA!Allocate(@, NullVal, NoReg), r)] = u
    BY <1>0 DEF IsSelection
  <2> HIDE DEF u
  <2> QED
    BY <2>1, <2>2 DEF translate_assign, r
<1> HIDE DEF from, to, r, copy
<1>3. SelOK(u, n)
  <2> HIDE DEF al
  <2>1. IsSelection(u) /\ u.graph = t.graph /\ u.alloc = al
    BY <1>0, SelectionFields, ZenonT(40)
  <2> HIDE DEF u
  <2> QED
    BY <1>0, <1>1, <2>1 DEF SelOK
<1> HIDE DEF u
<1>4. IsSelection(u)
  BY <1>3 DEF SelOK
<1>5. SelOK(Emit(u, copy), n)
  BY <1>3, <1>4, EmitIs
<1>6. SelOK(Emit(t, store_var(t.addr, from, result, TMP)), n) /\ SelOK(Emit(t, load_var(t.addr, to, arg)), n)
  BY <1>0, EmitIs
<1> QED
  BY <1>2, <1>5, <1>6

(* So may a move that exists while it is translated.                       *)
LEMMA TempMoveOK ==
  ASSUME EnoughUses, NEW n \in {0, 4}, NEW t, SelOK(t, n), NEW result, NEW arg
  PROVE  SelOK(TempMove(t, result, arg), n)
<1> DEFINE id == t.id + 1
           g  == Connect(t.graph, InstVal(id), << result, arg >>)
           t1 == [t EXCEPT !.id = id]
           m  == [t1 EXCEPT !.graph = g]
           a1 == OperandAt(m.graph, InstVal(id), 1)
           a2 == OperandAt(m.graph, InstVal(id), 2)
           w  == translate_assign(m, a1, a2)
           z  == [w EXCEPT !.deleted = w.deleted \cup {InstVal(id)}]
<1>0. IsSelection(t) /\ Keeps(graph, t.graph)
  BY DEF SelOK
<1>1. TempMove(t, result, arg) = z
  <2>1. [t EXCEPT !.id = id, !.graph = Connect(@, InstVal(id), << result, arg >>)] = m
    <3> DEFINE i == InstVal(id)
    <3> HIDE DEF id, i
    <3> QED
      BY <1>0 DEF IsSelection, i
  <2>2. [w EXCEPT !.deleted = @ \cup {InstVal(id)}] = z
    <3> HIDE DEF w
    <3> QED
      OBVIOUS
  <2>3. TempMove(t, result, arg) =
          LET i == [t EXCEPT !.id = id, !.graph = Connect(@, InstVal(id), << result, arg >>)]
          IN  [translate_assign(i, OperandAt(i.graph, InstVal(id), 1), OperandAt(i.graph, InstVal(id), 2))
                 EXCEPT !.deleted = @ \cup {InstVal(id)}]
    BY DEF TempMove
  <2> HIDE DEF id, m
  <2> QED
    BY <2>1, <2>2, <2>3, Zenon
<1>2. Keeps(graph, g)
  <2> HIDE DEF id
  <2> QED
    BY <1>0, ConnectKeeps
<1> HIDE DEF id, g
<1>3. SelOK(t1, n) /\ IsSelection(t1)
  <2>1. SelOK(t1, n)
    BY OthersOK
  <2> QED
    BY <2>1 DEF SelOK
<1> HIDE DEF t1
<1>4. SelOK(m, n)
  BY <1>2, <1>3, OthersOK
<1> HIDE DEF m, a1, a2
<1>5. SelOK(w, n) /\ IsSelection(w)
  <2>1. SelOK(w, n)
    BY <1>4, AssignOK
  <2> QED
    BY <2>1 DEF SelOK
<1> HIDE DEF w
<1>6. SelOK(z, n)
  BY <1>5, OthersOK
<1> HIDE DEF z
<1> QED
  BY <1>1, <1>6

(* So does an operand that goes to the stack.                              *)
LEMMA StackOperandOK ==
  ASSUME EnoughUses, NEW n \in {0, 4}, NEW t, SelOK(t, n), NEW call, NEW k
  PROVE  SelOK(StackOperand(t, call, k), n)
<1> DEFINE place == Val("mem", Func.name, k)
           slot  == [base |-> SP, off |-> 4 * (k - 5)]
           bt    == [t.addr EXCEPT ![place] = slot]
           u     == [t EXCEPT !.addr = bt]
           arg   == OperandAt(t.graph, call, k)
<1>0. IsSelection(t)
  BY DEF SelOK
<1>1. u.graph = t.graph
  <2> HIDE DEF bt
  <2> QED
    BY <1>0 DEF IsSelection
<1>2. StackOperand(t, call, k) = TempMove(u, place, arg)
  <2>1. [t EXCEPT !.addr[place] = slot] = u
    <3> HIDE DEF place, slot
    <3> QED
      BY <1>0 DEF IsSelection
  <2> HIDE DEF u, arg
  <2> QED
    BY <2>1 DEF StackOperand, arg
<1> HIDE DEF bt
<1>3. SelOK(u, n)
  BY OthersOK
<1> HIDE DEF u, place, arg
<1> QED
  BY <1>2, <1>3, TempMoveOK

(* As many registers are claimed for a call as there are for arguments,    *)
(* and none if it has no arguments.                                        *)
Reserved         == IF OperandNum(graph, This) = 0 THEN 0 ELSE 4
ReservedTurn(k, t) == SelOK(t, Reserved)

StackReserved    == INSTANCE FoldLemmas WITH Op <- StackTurn, P <- ReservedTurn
RegisterReserved == INSTANCE FoldLemmas WITH Op <- RegisterTurn, P <- ReservedTurn

(* The loops over the operands of a call keep what each turn keeps.        *)
LEMMA LoopsOK ==
  ASSUME EnoughUses, NEW t, SelOK(t, Reserved), NEW n \in Nat, NEW seq, DOMAIN seq = 1..n
  PROVE  /\ SelOK(FoldLeft(LAMBDA u, k : StackOperand(u, This, k), t, seq), Reserved)
         /\ SelOK(FoldLeft(LAMBDA u, k : TempMove(u, Reg(k - 1), OperandAt(u.graph, This, k)), t, seq), Reserved)
<1>1. Reserved \in {0, 4}
  BY DEF Reserved
<1>2. FoldLeft(LAMBDA u, k : StackOperand(u, This, k), t, seq) = StackReserved!Fold(t, seq)[DOMAIN seq]
  BY DEF FoldLeft, MapThenFoldSet, Max, StackReserved!Fold, StackReserved!Greatest, StackTurn
<1>3. FoldLeft(LAMBDA u, k : TempMove(u, Reg(k - 1), OperandAt(u.graph, This, k)), t, seq)
        = RegisterReserved!Fold(t, seq)[DOMAIN seq]
  BY DEF FoldLeft, MapThenFoldSet, Max, RegisterReserved!Fold, RegisterReserved!Greatest, RegisterTurn
<1>4. ReservedTurn(n, StackReserved!Fold(t, seq)[1..n])
  <2>1. ReservedTurn(0, t) /\ \A u : \A k \in 1..n : ReservedTurn(k - 1, u) => ReservedTurn(k, StackTurn(u, seq[k]))
    BY <1>1, StackOperandOK DEF ReservedTurn, StackTurn
  <2> QED
    BY <2>1, LeastElement, StackReserved!FoldInvariant
<1>5. ReservedTurn(n, RegisterReserved!Fold(t, seq)[1..n])
  <2>1. ReservedTurn(0, t) /\ \A u : \A k \in 1..n : ReservedTurn(k - 1, u) => ReservedTurn(k, RegisterTurn(u, seq[k]))
    BY <1>1, TempMoveOK DEF ReservedTurn, RegisterTurn
  <2> QED
    BY <2>1, LeastElement, RegisterReserved!FoldInvariant
<1> QED
  BY <1>2, <1>3, <1>4, <1>5 DEF ReservedTurn

(* Other registers are in use than before.                                 *)
LEMMA AllocOK ==
  ASSUME NEW n, NEW m, NEW t, SelOK(t, n), NEW al, Claimed(al, 0, m)
  PROVE  SelOK([t EXCEPT !.alloc = al], m)
<1> DEFINE u == [t EXCEPT !.alloc = al]
<1>1. IsSelection(t) /\ Keeps(graph, t.graph)
  BY DEF SelOK
<1>2. IsSelection(u) /\ u.alloc = al /\ u.graph = t.graph
  BY <1>1, SelectionFields
<1> HIDE DEF u
<1>3. SelOK(u, m)
  BY <1>1, <1>2 DEF SelOK
<1> QED
  BY <1>3 DEF u

(* A call claims the registers of the arguments and gives them back.       *)
LEMMA CallOK ==
  ASSUME EnoughUses, NEW t, SelOK(t, 0), t.graph = graph, This \in IRVals, NEW inst
  PROVE  SelOK(translate_call(t, This, inst), 0)
<1> DEFINE num     == OperandNum(t.graph, This)
           claimed == IF num = 0 THEN t ELSE [t EXCEPT !.alloc = ClaimAll(t.alloc)]
           stacked == FoldLeft(LAMBDA u, k : StackOperand(u, This, k), claimed, [j \in 1 .. Max({num - 4, 0}) |-> 4 + j])
           passed  == FoldLeft(LAMBDA u, k : TempMove(u, Reg(k - 1), OperandAt(u.graph, This, k)),
                               stacked, [k \in 1 .. Min({num, 4}) |-> k])
           called  == Emit(passed, << ArmInst("bl", Symbol(inst.target.func), Blank, Blank) >>)
           freed   == IF num = 0 THEN called ELSE [called EXCEPT !.alloc = FreeRegs(called.alloc)]
<1>1. translate_call(t, This, inst) = IF HasResult(inst) THEN TempMove(freed, This, Reg(0)) ELSE freed
  BY Zenon DEF translate_call
<1>2. num \in Nat
  <2>1. IsSeq(t.graph.uses[This])
    BY DEF SelOK, Keeps, GraphOK, ListsOK
  <2> QED
    BY <2>1, SeqIs DEF OperandNum, IsSeq
<1>3. Max({num - 4, 0}) \in Nat /\ Min({num, 4}) \in Nat
  <2> HIDE DEF num
  <2>1. Min({num, 4}) \in {num, 4}
    BY <1>2, MinIsMember
  <2>2. Max({num - 4, 0}) \in {num - 4, 0} /\ Max({num - 4, 0}) >= 0
    <3>1. \E x \in {num - 4, 0} : \A y \in {num - 4, 0} : x >= y
      BY <1>2
    <3> QED
      BY <3>1 DEF Max
  <2> QED
    BY <1>2, <2>1, <2>2
<1>4. Reserved = IF num = 0 THEN 0 ELSE 4
  BY DEF Reserved
<1> HIDE DEF num
<1>5. SelOK(claimed, Reserved)
  <2> DEFINE al == ClaimAll(t.alloc)
  <2>1. Claimed(al, 0, 4)
    BY ArgumentRegisters DEF SelOK
  <2> HIDE DEF al
  <2>2. SelOK([t EXCEPT !.alloc = al], 4)
    BY <2>1, AllocOK
  <2> QED
    BY <1>4, <2>2 DEF al
<1> HIDE DEF claimed
<1>6. SelOK(stacked, Reserved)
  BY <1>3, <1>5, LoopsOK
<1> HIDE DEF stacked
<1>7. SelOK(passed, Reserved)
  BY <1>3, <1>6, LoopsOK
<1> HIDE DEF passed
<1>8. SelOK(called, Reserved)
  BY <1>7, EmitIs DEF SelOK
<1> HIDE DEF called
<1>9. SelOK(freed, 0)
  <2>1. CASE num = 0
    BY <1>4, <1>8, <2>1
  <2>2. CASE num # 0
    <3> DEFINE al == FreeRegs(called.alloc)
    <3>1. SelOK(called, 4)
      BY <1>4, <1>8, <2>2
    <3>2. Claimed(al, 0, 0)
      BY <3>1, ArgumentRegisters DEF SelOK
    <3> HIDE DEF al
    <3>3. SelOK([called EXCEPT !.alloc = al], 0)
      BY <3>1, <3>2, AllocOK
    <3> QED
      BY <2>2, <3>3 DEF al
  <2> QED
    BY <2>1, <2>2
<1> HIDE DEF freed
<1>10. SelOK(TempMove(freed, This, Reg(0)), 0)
  BY <1>9, TempMoveOK
<1> QED
  BY <1>1, <1>9, <1>10

(* While an addition is translated: what is held, and the graph is left.   *)
Holding(t, W, n) == IsSelection(t) /\ t.graph = graph /\ Held(t.alloc, W, n)

(* More values may be held, in more registers.                             *)
LEMMA HeldMore ==
  ASSUME NEW al, NEW W, NEW n \in Nat, Held(al, W, n), NEW v
  PROVE  Held(al, W \cup {v}, n + 1)
<1>1. (0..n - 1) \cup {-1} \subseteq (0..(n + 1) - 1) \cup {-1}
  OBVIOUS
<1>2. al.loadRegId \in [IRVals -> (0..(n + 1) - 1) \cup {-1}]
  BY <1>1 DEF Held
<1>3. \A w \in IRVals : al.loadRegId[w] # -1 => w \in W \cup {v}
  BY DEF Held
<1> QED
  BY <1>2, <1>3 DEF Held

(* Changing what is held, and emitting code.                               *)
LEMMA HoldingNext ==
  ASSUME NEW t, NEW W, NEW n, Holding(t, W, n), NEW V, NEW m, NEW al, Held(al, V, m), NEW code
  PROVE  /\ Holding([t EXCEPT !.alloc = al], V, m) /\ Holding(Emit([t EXCEPT !.alloc = al], code), V, m)
         /\ [t EXCEPT !.alloc = al].alloc = al
<1> DEFINE u == [t EXCEPT !.alloc = al]
<1>1. IsSelection(t) /\ t.graph = graph
  BY DEF Holding
<1>2. IsSelection(u) /\ u.alloc = al /\ u.graph = t.graph
  BY <1>1, SelectionFields
<1> HIDE DEF u
<1>3. Holding(u, V, m)
  BY <1>1, <1>2 DEF Holding
<1> DEFINE e == Emit(u, code)
<1>4. IsSelection(e) /\ e.alloc = u.alloc /\ e.graph = u.graph
  BY <1>2, EmitIs
<1> HIDE DEF e
<1>5. Holding(e, V, m)
  BY <1>1, <1>2, <1>4 DEF Holding
<1> QED
  BY <1>2, <1>3, <1>5 DEF e, u

(* A value is loaded into a register, unless it is one.                    *)
LEMMA InRegisterHolds ==
  ASSUME NEW t, NEW W, NEW n \in 0..4, Holding(t, W, n), NEW v \in IRVals
  PROVE  Holding(InRegister(t, v).s, W \cup {v}, n + 1)
<1> DEFINE r  == RA!Granted(t.alloc, v, NoReg)
           al == RA!Allocate(t.alloc, v, NoReg)
           u  == [t EXCEPT !.alloc = al]
<1>1. InRegister(t, v).s = IF RegId(v) # NoReg THEN t ELSE Emit(u, load_var(t.addr, r, v))
  <2> HIDE DEF r
  <2>1. [t EXCEPT !.alloc = RA!Allocate(@, v, NoReg)] = u
    BY DEF Holding, IsSelection
  <2> HIDE DEF u
  <2> QED
    BY <2>1 DEF InRegister, r
<1>2. Held(al, W \cup {v}, n + 1)
  BY HoldAllocated DEF Holding
<1> HIDE DEF r, al
<1>3. Holding(Emit(u, load_var(t.addr, r, v)), W \cup {v}, n + 1)
  BY <1>2, HoldingNext
<1> HIDE DEF u
<1>4. Holding(t, W \cup {v}, n + 1)
  <2>1. n \in Nat /\ Held(t.alloc, W, n)
    BY DEF Holding
  <2>2. Held(t.alloc, W \cup {v}, n + 1)
    BY <2>1, HeldMore
  <2> QED
    BY <2>2 DEF Holding
<1> QED
  BY <1>1, <1>3, <1>4

(* The values of an addition are freed, whichever of them were held.       *)
LEMMA FreeAllIdle ==
  ASSUME NEW al, NEW a \in IRVals, NEW b \in IRVals, NEW c \in IRVals, NEW n \in Nat,
         Held(al, (({} \cup {a}) \cup {b}) \cup {c}, n)
  PROVE  Claimed(FreeAll(al, a, b, c), 0, 0)
<1> DEFINE W == (({} \cup {a}) \cup {b}) \cup {c}
           x == RA!FreeVal(al, a)
           y == RA!FreeVal(x, b)
           z == RA!FreeVal(y, c)
<1>1. Held(x, W \ {a}, n)
  BY HoldFreed
<1>2. Held(y, (W \ {a}) \ {b}, n)
  <2> HIDE DEF x
  <2> QED
    BY <1>1, HoldFreed
<1>3. Held(z, ((W \ {a}) \ {b}) \ {c}, n)
  <2> HIDE DEF y
  <2> QED
    BY <1>2, HoldFreed
<1>4. ((W \ {a}) \ {b}) \ {c} = {}
  OBVIOUS
<1>5. FreeAll(al, a, b, c) = z
  BY DEF FreeAll
<1> HIDE DEF W, z
<1> QED
  BY <1>3, <1>4, <1>5, IdleFromHeld

(* An addition of two operands gives back the three registers it takes.    *)
LEMMA TwoOperatorOK ==
  ASSUME NEW t, SelOK(t, 0), t.graph = graph, NEW result \in IRVals, TwoOperands(graph, result), NEW op
  PROVE  SelOK(translate_two_operator(t, result, op), 0)
<1> DEFINE arg1  == OperandAt(t.graph, result, 1)
           arg2  == OperandAt(t.graph, result, 2)
           left  == InRegister(t, arg1)
           right == InRegister(left.s, arg2)
           r     == RA!Granted(right.s.alloc, result, NoReg)
           al    == RA!Allocate(right.s.alloc, result, NoReg)
           u     == [right.s EXCEPT !.alloc = al]
           code  == << ArmInst(op, R(r), R(left.reg), R(right.reg)) >> \o store_var(t.addr, r, result, TMP)
           done  == Emit(u, code)
           freed == [done EXCEPT !.alloc = FreeAll(done.alloc, arg1, arg2, result)]
<1>1. arg1 \in IRVals /\ arg2 \in IRVals
  <2>1. ASSUME NEW k \in {1, 2} PROVE OperandAt(graph, result, k) \in IRVals
    <3>1. ToOperand(graph, result, graph.uses[result][k])
      BY DEF TwoOperands
    <3>2. PICK v \in IRVals : \E i : graph.edge[graph.uses[result][k]] = [usee |-> v, user |-> i]
      BY <3>1 DEF ToOperand
    <3> QED
      BY <3>2 DEF OperandAt
  <2> QED
    BY <2>1
<1>2. Holding(t, {}, 0)
  BY HeldFromIdle DEF SelOK, Holding
<1> HIDE DEF arg1, arg2
<1>3. Holding(left.s, {} \cup {arg1}, 0 + 1)
  BY <1>1, <1>2, InRegisterHolds
<1>4. 0 + 1 \in 0..4 /\ (0 + 1) + 1 \in 0..4 /\ ((0 + 1) + 1) + 1 \in Nat
  OBVIOUS
<1>5. Holding(right.s, ({} \cup {arg1}) \cup {arg2}, (0 + 1) + 1)
  <2> HIDE DEF left
  <2> QED
    BY <1>1, <1>3, <1>4, InRegisterHolds
<1>6. translate_two_operator(t, result, op) = freed
  <2> HIDE DEF left, right, r
  <2>1. [right.s EXCEPT !.alloc = RA!Allocate(@, result, NoReg)] = u
    BY <1>5 DEF Holding, IsSelection
  <2> HIDE DEF u
  <2>2. [done EXCEPT !.alloc = FreeAll(@, arg1, arg2, result)] = freed
    <3> HIDE DEF done
    <3> QED
      OBVIOUS
  <2> DEFINE n == [right.s EXCEPT !.alloc = RA!Allocate(@, result, NoReg)]
             d == Emit(n, << ArmInst(op, R(r), R(left.reg), R(right.reg)) >> \o store_var(t.addr, r, result, TMP))
  <2>3. translate_two_operator(t, result, op) = [d EXCEPT !.alloc = FreeAll(@, arg1, arg2, result)]
    BY Zenon DEF translate_two_operator, arg1, arg2, left, right, r
  <2>4. n = u
    BY <2>1
  <2> HIDE DEF n
  <2>5. d = done
    BY <2>1, <2>4
  <2> HIDE DEF d, done
  <2> QED
    BY <2>2, <2>3, <2>5, Zenon
<1>7. Held(al, (({} \cup {arg1}) \cup {arg2}) \cup {result}, ((0 + 1) + 1) + 1)
  <2> HIDE DEF right
  <2> QED
    BY <1>4, <1>5, HoldAllocated DEF Holding
<1> HIDE DEF left, right, r, al, code
<1>8. Holding(done, (({} \cup {arg1}) \cup {arg2}) \cup {result}, ((0 + 1) + 1) + 1)
  BY <1>5, <1>7, HoldingNext
<1> HIDE DEF u, done
<1>9. Claimed(FreeAll(done.alloc, arg1, arg2, result), 0, 0)
  BY <1>1, <1>4, <1>8, FreeAllIdle DEF Holding
<1> DEFINE bl == FreeAll(done.alloc, arg1, arg2, result)
<1> HIDE DEF bl
<1>10. SelOK([done EXCEPT !.alloc = bl], 0)
  <2> DEFINE x == [done EXCEPT !.alloc = bl]
  <2>1. IsSelection(x) /\ x.alloc = bl /\ x.graph = graph
    BY <1>8, SelectionFields DEF Holding
  <2>2. Keeps(graph, graph)
    BY DEF SelOK
  <2> HIDE DEF x
  <2>3. SelOK(x, 0)
    BY <1>9, <2>1, <2>2 DEF SelOK, bl
  <2> QED
    BY <2>3 DEF x
<1> QED
  BY <1>6, <1>10 DEF bl

-----------------------------------------------------------------------------
(* The graph as it is delivered: the edges of an addition come first       *)

Mentions(e, w) == e.user = w \/ e.usee = w

BeginsAt(edges, w, p) ==
  /\ \A k \in {1, 2} : /\ p + k \in DOMAIN edges /\ edges[p + k].user = w
                       /\ edges[p + k].usee \in IRVals /\ edges[p + k].usee # w
  /\ \A q \in 1..p : ~Mentions(edges[q], w)

(* An edge from the n-th instruction of a function to one of its operands. *)
OwnEdge(fn, n, e) ==
  /\ e.user = Val("inst", fn.name, n) /\ e.usee \in IRVals
  /\ e.usee.kind = "inst" => e.usee.func = fn.name /\ e.usee.id \in 1..n - 1

OperandLists(fn) == [n \in DOMAIN fn.code |-> Operands(Val("inst", fn.name, n), ById(fn, n).args)]

(* The instruction with a number is the only one.                          *)
LEMMA ByIdIs ==
  ASSUME NEW fn, IsFunction(fn), NEW n \in DOMAIN fn.code
  PROVE  /\ \E i \in DOMAIN fn.code : fn.code[i].id = n /\ ById(fn, n) = fn.code[i]
         /\ \A i \in DOMAIN fn.code : fn.code[i].id = n => ById(fn, n) = fn.code[i]
<1> DEFINE c == CHOOSE j \in DOMAIN fn.code : fn.code[j].id = n
<1>1. \E i \in DOMAIN fn.code : fn.code[i].id = n
  BY DEF IsFunction
<1>2. c \in DOMAIN fn.code /\ fn.code[c].id = n
  BY <1>1
<1>3. ById(fn, n) = fn.code[c]
  BY DEF ById
<1> HIDE DEF c
<1>4. \A i \in DOMAIN fn.code : fn.code[i].id = n => i = c
  BY <1>2 DEF IsFunction
<1> QED
  BY <1>2, <1>3, <1>4

(* The edges of an instruction.                                            *)
LEMMA OwnEdges ==
  ASSUME NEW fn, IsFunction(fn), NEW n \in DOMAIN fn.code
  PROVE  /\ OperandLists(fn)[n] \in Seq(Ends)
         /\ \A j \in DOMAIN OperandLists(fn)[n] : OwnEdge(fn, n, OperandLists(fn)[n][j])
<1>1. PICK i \in DOMAIN fn.code : fn.code[i].id = n /\ ById(fn, n) = fn.code[i]
  BY ByIdIs
<1> DEFINE args == fn.code[i].args
           w    == Val("inst", fn.name, n)
<1>2. OperandLists(fn)[n] = Operands(w, args)
  BY <1>1 DEF OperandLists
<1>3. args \in Seq(IRVals) /\ w \in IRVals
  BY <1>1, InstFacts
<1>4. \A k \in DOMAIN args : args[k].kind = "inst" => args[k].func = fn.name /\ args[k].id \in 1..n - 1
  <2>1. IsInst(fn.code[i], fn)
    BY FunctionFacts
  <2> QED
    BY <1>1, <2>1 DEF IsInst
<1> HIDE DEF args
<1>5. Operands(w, args) \in Seq(Ends)
  <2> HIDE DEF w
  <2> QED
    BY <1>3, OperandsType
<1>6. \A k \in DOMAIN args : args[k] \in IRVals
  BY <1>3
<1>7. DOMAIN Operands(w, args) = DOMAIN args /\ \A k \in DOMAIN args : Operands(w, args)[k] = [usee |-> args[k], user |-> w]
  BY DEF Operands
<1>8. \A k \in DOMAIN args : OwnEdge(fn, n, [usee |-> args[k], user |-> w])
  BY <1>4, <1>6 DEF OwnEdge
<1> HIDE DEF w
<1> QED
  BY <1>2, <1>5, <1>7, <1>8

(* What there is to find for an addition in the edges of its function.     *)
LEMMA FunctionBegins ==
  ASSUME NEW fn, IsFunction(fn)
  PROVE  /\ \A q \in DOMAIN AllOperands(fn) : \E n \in DOMAIN fn.code : OwnEdge(fn, n, AllOperands(fn)[q])
         /\ \A i \in DOMAIN fn.code : fn.code[i].op \in {"add", "sub"} =>
              \E p \in Nat : BeginsAt(AllOperands(fn), Val("inst", fn.name, fn.code[i].id), p)
<1> DEFINE ss == OperandLists(fn)
           l  == Len(fn.code)
           all == AllOperands(fn)
<1>1. l \in Nat /\ DOMAIN fn.code = 1..l
  BY FunctionFacts
<1>2. ss \in Seq(Seq(Ends)) /\ Len(ss) = l /\ DOMAIN ss = 1..l /\ all = FlattenSeq(ss)
  <2>1. ss = [n \in 1..l |-> ss[n]] /\ DOMAIN ss = 1..l
    BY <1>1 DEF OperandLists
  <2>2. \A n \in 1..l : ss[n] \in Seq(Ends)
    BY <1>1, OwnEdges
  <2>3. all = FlattenSeq(ss)
    BY DEF AllOperands, OperandLists
  <2> HIDE DEF ss, l
  <2>4. [n \in 1..l |-> ss[n]] \in Seq(Seq(Ends))
    BY <1>1, <2>2, IsASeq
  <2> DEFINE T == Seq(Ends)
  <2> HIDE DEF T
  <2>5. ss \in Seq(T)
    BY <2>1, <2>4, Zenon DEF T
  <2>6. Len(ss) \in Nat /\ DOMAIN ss = 1..Len(ss)
    BY <2>5
  <2>7. Len(ss) = l
    BY <1>1, <2>1, <2>6
  <2> QED
    BY <2>1, <2>3, <2>5, <2>7 DEF T
<1>3. \A n \in 1..l : \A j \in DOMAIN ss[n] : OwnEdge(fn, n, ss[n][j])
  BY <1>1, OwnEdges
<1> HIDE DEF ss, all
<1>4. ElementsOf(all, ss, l) /\ \A i \in 1..l : \E o \in Nat : StandsAt(all, ss, i, o)
  BY <1>2, FlattenPlaces
<1>5. \A q \in DOMAIN all : \E n \in DOMAIN fn.code : OwnEdge(fn, n, all[q])
  <2> HIDE DEF l
  <2> QED
    BY <1>1, <1>3, <1>4 DEF ElementsOf
<1>6. ASSUME NEW i \in DOMAIN fn.code, fn.code[i].op \in {"add", "sub"}
      PROVE  \E p \in Nat : BeginsAt(all, Val("inst", fn.name, fn.code[i].id), p)
  <2> DEFINE n == fn.code[i].id
             w == Val("inst", fn.name, n)
  <2>1. n \in 1..l /\ Len(fn.code[i].args) = 2 /\ fn.code[i].args \in Seq(IRVals)
    <3>1. IsInst(fn.code[i], fn)
      BY FunctionFacts
    <3> QED
      BY <1>6, <3>1, InstFacts DEF IsInst
  <2>2. DOMAIN ss[n] = {1, 2}
    <3>1. ById(fn, n) = fn.code[i]
      BY <1>1, <2>1, ByIdIs, SMTT(40)
    <3>2. ss[n] = Operands(w, fn.code[i].args)
      BY <1>1, <2>1, <3>1 DEF ss, OperandLists
    <3>3. DOMAIN fn.code[i].args = {1, 2}
      BY <2>1
    <3> QED
      BY <3>2, <3>3 DEF Operands
  <2> HIDE DEF n
  <2>3. PICK o \in Nat : StandsAt(all, ss, n, o)
    BY <1>4, <2>1
  <2>5. ASSUME NEW h \in 1..n, NEW e, OwnEdge(fn, h, e) PROVE e.usee # w /\ e.usee \in IRVals
    <3>1. w.kind = "inst" /\ w.id = n /\ n \notin 1..h - 1
      BY <2>1 DEF Val
    <3> QED
      BY <2>5, <3>1 DEF OwnEdge
  <2>6. ASSUME NEW h \in 1..n - 1, NEW e, OwnEdge(fn, h, e) PROVE ~Mentions(e, w)
    <3>1. h \in 1..n /\ h # n
      BY <2>1
    <3>2. e.usee # w
      BY <2>5, <2>6, <3>1
    <3>3. e.user # w
      <4>1. e.user.id = h /\ w.id = n
        BY <2>6 DEF OwnEdge, Val
      <4> QED
        BY <3>1, <4>1
    <3> QED
      BY <3>2, <3>3 DEF Mentions
  <2>7. ASSUME NEW k \in {1, 2}
        PROVE o + k \in DOMAIN all /\ all[o + k].user = w /\ all[o + k].usee \in IRVals /\ all[o + k].usee # w
    <3>1. o + k \in DOMAIN all /\ all[o + k] = ss[n][k]
      BY <2>2, <2>3 DEF StandsAt
    <3>2. OwnEdge(fn, n, ss[n][k]) /\ n \in 1..n
      BY <1>3, <2>1, <2>2
    <3>3. ss[n][k].user = w
      BY <3>2 DEF OwnEdge
    <3>4. ss[n][k].usee # w /\ ss[n][k].usee \in IRVals
      BY <2>5, <3>2
    <3> QED
      BY <3>1, <3>3, <3>4
  <2>8. ASSUME NEW q \in 1..o PROVE ~Mentions(all[q], w)
    <3>1. PICK h \in 1..n - 1 : \E j \in DOMAIN ss[h] : all[q] = ss[h][j]
      BY <2>3 DEF StandsAt
    <3>2. PICK j \in DOMAIN ss[h] : all[q] = ss[h][j]
      BY <3>1
    <3>3. h \in 1..l
      BY <1>1, <2>1, <3>1
    <3>4. OwnEdge(fn, h, all[q])
      BY <1>3, <3>2, <3>3
    <3> QED
      BY <2>6, <3>1, <3>4
  <2> HIDE DEF w
  <2>9. BeginsAt(all, w, o)
    BY <2>7, <2>8 DEF BeginsAt
  <2> QED
    BY <2>9 DEF w, n
<1> QED
  BY <1>5, <1>6 DEF all

(* And in the edges of a module: those of other functions do not mention   *)
(* it.                                                                     *)
LEMMA ModuleBegins ==
  ASSUME NEW fns, IsModule(fns), NEW i \in DOMAIN fns, NEW c \in DOMAIN fns[i].code,
         fns[i].code[c].op \in {"add", "sub"}
  PROVE  \E p \in Nat : BeginsAt(Connections(fns), Val("inst", fns[i].name, fns[i].code[c].id), p)
<1> DEFINE ss  == [h \in DOMAIN fns |-> AllOperands(fns[h])]
           l   == Len(fns)
           all == Connections(fns)
           w   == Val("inst", fns[i].name, fns[i].code[c].id)
           M   == Range(fns)
<1>1. fns \in Seq(M) /\ \A h \in DOMAIN fns : IsFunction(fns[h])
  BY DEF IsModule
<1> HIDE DEF M
<1>2. l \in Nat /\ DOMAIN fns = 1..l
  BY <1>1
<1>3. ss \in Seq(Seq(Ends)) /\ DOMAIN ss = 1..l /\ all = FlattenSeq(ss) /\ \A h \in 1..l : ss[h] = AllOperands(fns[h])
  <2>1. ss = [h \in 1..l |-> ss[h]] /\ DOMAIN ss = 1..l /\ \A h \in 1..l : ss[h] = AllOperands(fns[h])
    BY <1>2
  <2>2. \A h \in 1..l : ss[h] \in Seq(Ends)
    BY <1>1, <1>2, AllOperandsType
  <2>3. all = FlattenSeq(ss)
    BY DEF Connections
  <2> HIDE DEF ss, l
  <2>4. [h \in 1..l |-> ss[h]] \in Seq(Seq(Ends))
    BY <1>2, <2>2, IsASeq
  <2> QED
    BY <2>1, <2>3, <2>4, Zenon
<1> HIDE DEF ss, l, all
<1>4. PICK o \in Nat : StandsAt(all, ss, i, o)
  BY <1>2, <1>3, FlattenPlaces
<1>5. PICK p \in Nat : BeginsAt(AllOperands(fns[i]), w, p)
  BY <1>1, FunctionBegins
<1> DEFINE own == AllOperands(fns[i])
<1>6. DOMAIN own = 1..Len(own) /\ Len(own) \in Nat
  BY <1>1, AllOperandsType
<1>7. \A j \in DOMAIN own : o + j \in DOMAIN all /\ all[o + j] = own[j]
  BY <1>2, <1>3, <1>4 DEF StandsAt
<1> HIDE DEF own
<1>8. ASSUME NEW k \in {1, 2}
      PROVE  (o + p) + k \in DOMAIN all /\ all[(o + p) + k].user = w
             /\ all[(o + p) + k].usee \in IRVals /\ all[(o + p) + k].usee # w
  <2>1. p + k \in DOMAIN own /\ own[p + k].user = w /\ own[p + k].usee \in IRVals /\ own[p + k].usee # w
    BY <1>5 DEF BeginsAt, own
  <2>2. o + (p + k) = (o + p) + k
    OBVIOUS
  <2> HIDE DEF w
  <2> QED
    BY <1>7, <2>1, <2>2
<1>9. ASSUME NEW q \in 1..o + p PROVE ~Mentions(all[q], w)
  <2>1. CASE q <= o
    <3>1. q \in 1..o
      BY <2>1
    <3>2. PICK h \in 1..i - 1 : \E j \in DOMAIN ss[h] : all[q] = ss[h][j]
      BY <1>4, <3>1 DEF StandsAt
    <3>3. PICK j \in DOMAIN ss[h] : all[q] = ss[h][j]
      BY <3>2
    <3>4. h \in 1..l /\ h # i /\ h \in DOMAIN fns
      BY <1>2, <3>2
    <3>5. j \in DOMAIN AllOperands(fns[h]) /\ all[q] = AllOperands(fns[h])[j]
      BY <1>3, <3>3, <3>4
    <3>6. PICK n : OwnEdge(fns[h], n, all[q])
      BY <1>1, <3>4, <3>5, FunctionBegins
    <3>7. fns[h].name # fns[i].name
      BY <3>4 DEF IsModule
    <3>8. w.func = fns[i].name /\ w.kind = "inst"
      BY DEF Val
    <3>9. all[q].user.func = fns[h].name
      BY <3>6 DEF OwnEdge, Val
    <3>10. all[q].usee.kind = "inst" => all[q].usee.func = fns[h].name
      BY <3>6 DEF OwnEdge
    <3> HIDE DEF w
    <3> QED
      BY <3>7, <3>8, <3>9, <3>10 DEF Mentions
  <2>2. CASE ~(q <= o)
    <3>1. q - o \in 1..p /\ o + (q - o) = q
      BY <2>2
    <3>2. p + 1 \in DOMAIN own
      BY <1>5 DEF BeginsAt, own
    <3>3. q - o \in DOMAIN own
      BY <1>6, <3>1, <3>2
    <3>4. all[q] = own[q - o]
      BY <1>7, <3>1, <3>3
    <3>5. ~Mentions(own[q - o], w)
      BY <1>5, <3>1 DEF BeginsAt, own
    <3> QED
      BY <3>4, <3>5
  <2> QED
    BY <2>1, <2>2
<1> HIDE DEF w
<1>10. BeginsAt(all, w, o + p)
  BY <1>8, <1>9 DEF BeginsAt
<1>11. o + p \in Nat
  OBVIOUS
<1> QED
  BY <1>10, <1>11 DEF all, w

(* What making an edge adds to the list of its user,                       *)
LEMMA LinkUser ==
  ASSUME EnoughUses, NEW g, GraphOK(g), NEW e, NEW w \in IRVals
  PROVE  /\ ~Mentions(e, w) => Link(g, e).uses[w] = g.uses[w]
         /\ e.user = w /\ e.usee # w /\ e.usee \in IRVals =>
              \E u : Link(g, e).uses[w] = Append(g.uses[w], u) /\ ToOperand(Link(g, e), w, u)
         /\ \A u : ToOperand(g, w, u) => ToOperand(Link(g, e), w, u)
<1> DEFINE u == FreeUse(g)
           x == [usee |-> e.usee, user |-> e.user]
           d == [g.edge EXCEPT ![u] = x]
           h == [g EXCEPT !.edge = d]
           a == AddUse(h, e.user, u)
           b == AddUse(a, e.usee, u)
<1>0. ListsOK(g) /\ Linked(g)
  BY DEF GraphOK
<1>1. NewUse(g, e.user, e.usee, u) = h
  <2> HIDE DEF u
  <2> QED
    BY <1>0 DEF NewUse, ListsOK
<1>2. ListsOK(h)
  BY <1>0, UseLists
<1>3. u \in Uses /\ g.edge[u] = Freed /\ x # Freed
  BY <1>0, FreshUse DEF EnoughUses
<1>4. Link(g, e) = b
  BY <1>1 DEF Link, AddOperand
<1> HIDE DEF u, x
<1>5. h.edge = d /\ h.uses = g.uses
  BY <1>0 DEF ListsOK
<1>6. d[u] = x /\ \A y \in Uses : y # u => d[y] = g.edge[y]
  BY <1>0, <1>3 DEF Linked
<1> HIDE DEF d, h
<1>7. a.edge = d /\ a.uses[w] = IF w = e.user THEN Append(g.uses[w], u) ELSE g.uses[w]
  BY <1>2, <1>5, AddUseIs
<1>8. ListsOK(a)
  BY <1>2, UseLists
<1> HIDE DEF a
<1>9. b.edge = d /\ b.uses[w] = IF w = e.usee THEN Append(a.uses[w], u) ELSE a.uses[w]
  BY <1>7, <1>8, AddUseIs
<1> HIDE DEF b
<1>10. ~Mentions(e, w) => b.uses[w] = g.uses[w]
  BY <1>7, <1>9 DEF Mentions
<1>11. e.user = w /\ e.usee # w /\ e.usee \in IRVals => b.uses[w] = Append(g.uses[w], u) /\ ToOperand(b, w, u)
  BY <1>3, <1>6, <1>7, <1>9 DEF ToOperand, x
<1>12. \A y : ToOperand(g, w, y) => ToOperand(b, w, y)
  <2> SUFFICES ASSUME NEW y, ToOperand(g, w, y) PROVE ToOperand(b, w, y)
    OBVIOUS
  <2>1. y \in Uses /\ g.edge[y] # Freed
    BY DEF ToOperand, EnoughUses
  <2>2. b.edge[y] = g.edge[y]
    BY <1>3, <1>6, <1>9, <2>1
  <2> QED
    BY <2>2 DEF ToOperand
<1> QED
  BY <1>4, <1>10, <1>11, <1>12

(* How far the list of an addition has come when so many edges are made.   *)
Progress(k, g, w, p) ==
  /\ k <= p => g.uses[w] = << >>
  /\ k = p + 1 => Len(g.uses[w]) = 1 /\ ToOperand(g, w, g.uses[w][1])
  /\ k > p + 1 => TwoOperands(g, w)

BegunTurn(k, g) ==
  /\ GraphOK(g)
  /\ \A w \in IRVals, p \in Nat : w.kind = "inst" /\ BeginsAt(Connections(funcs), w, p) => Progress(k, g, w, p)

Beginning == INSTANCE FoldLemmas WITH Op <- Link, P <- BegunTurn

(* One edge more.                                                          *)
LEMMA OneEdge ==
  ASSUME EnoughUses, NEW edges, NEW k \in Nat, NEW g, GraphOK(g),
         NEW w \in IRVals, w.kind = "inst", NEW p \in Nat, BeginsAt(edges, w, p), Progress(k, g, w, p)
  PROVE  Progress(k + 1, Link(g, edges[k + 1]), w, p)
<1> DEFINE e == edges[k + 1]
           h == Link(g, e)
<1>1. ListsOK(g) /\ IsSeq(g.uses[w])
  BY DEF GraphOK, ListsOK
<1>2. /\ ~Mentions(e, w) => h.uses[w] = g.uses[w]
      /\ e.user = w /\ e.usee # w /\ e.usee \in IRVals =>
           \E u : h.uses[w] = Append(g.uses[w], u) /\ ToOperand(h, w, u)
      /\ \A u : ToOperand(g, w, u) => ToOperand(h, w, u)
  BY LinkUser
<1>3. TwoOperands(g, w) => TwoOperands(h, w)
  BY LinkKeeps DEF Keeps
<1> HIDE DEF h
<1>4. CASE k < p
  <2>1. k + 1 \in 1..p /\ k <= p /\ k + 1 <= p /\ k + 1 # p + 1 /\ ~(k + 1 > p + 1)
    BY <1>4
  <2>2. ~Mentions(e, w)
    BY <2>1 DEF BeginsAt
  <2> HIDE DEF e
  <2> QED
    BY <1>2, <2>1, <2>2 DEF Progress, h, e
<1>5. CASE k = p
  <2>1. e = edges[p + 1] /\ e.user = w /\ e.usee # w /\ e.usee \in IRVals /\ g.uses[w] = << >>
    BY <1>5 DEF BeginsAt, Progress
  <2>2. PICK u : h.uses[w] = Append(g.uses[w], u) /\ ToOperand(h, w, u)
    BY <1>2, <2>1
  <2>3. Len(h.uses[w]) = 1 /\ h.uses[w][1] = u
    <3>1. h.uses[w] = << u >>
      BY <2>1, <2>2
    <3> QED
      BY <3>1
  <2>4. ~(k + 1 <= p) /\ ~(k + 1 > p + 1)
    BY <1>5
  <2> HIDE DEF e
  <2> QED
    BY <2>2, <2>3, <2>4 DEF Progress, h, e
<1>6. CASE k = p + 1
  <2>1. e.user = w /\ e.usee # w /\ e.usee \in IRVals
    <3>1. e = edges[p + 2]
      BY <1>6
    <3> HIDE DEF e
    <3> QED
      BY <3>1 DEF BeginsAt
  <2> DEFINE l == g.uses[w]
  <2>2. Len(l) = 1 /\ ToOperand(g, w, l[1]) /\ IsSeq(l)
    BY <1>1, <1>6 DEF Progress
  <2>3. PICK u : h.uses[w] = Append(l, u) /\ ToOperand(h, w, u)
    BY <1>2, <2>1
  <2> HIDE DEF l
  <2>4. /\ DOMAIN Append(l, u) = 1..Len(l) + 1 /\ Append(l, u)[Len(l) + 1] = u
        /\ \A j \in 1..Len(l) : Append(l, u)[j] = l[j]
    <3>1. IsSeq(l)
      BY <2>2
    <3> QED
      BY <3>1, AppendedIs
  <2>5. 1 \in DOMAIN h.uses[w] /\ 2 \in DOMAIN h.uses[w] /\ h.uses[w][1] = l[1] /\ h.uses[w][2] = u
    BY <2>2, <2>3, <2>4
  <2>6. ToOperand(h, w, l[1])
    BY <1>2, <2>2
  <2>7. \A j \in {1, 2} : j \in DOMAIN h.uses[w] /\ ToOperand(h, w, h.uses[w][j])
    BY <2>3, <2>5, <2>6
  <2>8. TwoOperands(h, w)
    BY <2>7 DEF TwoOperands
  <2>9. ~(k + 1 <= p) /\ k + 1 # p + 1
    BY <1>6
  <2> HIDE DEF e
  <2> QED
    BY <2>8, <2>9 DEF Progress, h, e
<1>7. CASE k > p + 1
  <2>1. TwoOperands(h, w)
    BY <1>3, <1>7 DEF Progress
  <2>2. ~(k + 1 <= p) /\ k + 1 # p + 1
    BY <1>7
  <2> HIDE DEF e
  <2> QED
    BY <2>1, <2>2 DEF Progress, h, e
<1> QED
  BY <1>4, <1>5, <1>6, <1>7

(* So every addition of the module has its two operands first.             *)
LEMMA ConnectedBegins ==
  ASSUME EnoughUses, IsModule(funcs)
  PROVE  /\ GraphOK(Connected(funcs))
         /\ \A i \in DOMAIN funcs : \A c \in DOMAIN funcs[i].code : funcs[i].code[c].op \in {"add", "sub"} =>
              TwoOperands(Connected(funcs), Val("inst", funcs[i].name, funcs[i].code[c].id))
<1> DEFINE g     == NewGraph(IRVals, Uses)
           edges == Connections(funcs)
           n     == Len(edges)
<1>1. ListsOK(g) /\ Linked(g) /\ \A w \in IRVals : g.uses[w] = << >>
  BY DEF NewGraph, ListsOK, IsSeq, Linked
<1>2. n \in Nat /\ DOMAIN edges = 1..n
  BY ConnectionsType, SeqIs
<1>3. Connected(funcs) = FoldLeft(Link, g, edges)
  BY DEF Connected, Connections
<1> HIDE DEF g, edges, n
<1>4. FoldLeft(Link, g, edges) = Beginning!Fold(g, edges)[DOMAIN edges]
  BY DEF FoldLeft, MapThenFoldSet, Max, Beginning!Fold, Beginning!Greatest
<1>5. BegunTurn(0, g)
  <2>1. \A p \in Nat : 0 <= p /\ 0 # p + 1 /\ ~(0 > p + 1)
    OBVIOUS
  <2> QED
    BY <1>1, <2>1 DEF BegunTurn, GraphOK, Progress
<1>6. ASSUME NEW h, NEW k \in 1..n, BegunTurn(k - 1, h) PROVE BegunTurn(k, Link(h, edges[k]))
  <2> DEFINE m == k - 1
             j == Link(h, edges[k])
  <2>1. m \in Nat /\ m + 1 = k /\ BegunTurn(m, h)
    BY <1>2, <1>6
  <2>2. GraphOK(h)
    BY <2>1 DEF BegunTurn
  <2>3. GraphOK(j)
    BY <2>2, LinkKeeps DEF Keeps
  <2> HIDE DEF m
  <2>4. ASSUME NEW w \in IRVals, NEW p \in Nat, w.kind = "inst", BeginsAt(edges, w, p) PROVE Progress(k, j, w, p)
    <3>1. Progress(m, h, w, p)
      BY <2>1, <2>4 DEF BegunTurn, edges
    <3>2. Progress(m + 1, Link(h, edges[m + 1]), w, p)
      BY <2>1, <2>2, <2>4, <3>1, OneEdge
    <3> QED
      BY <2>1, <3>2
  <2> HIDE DEF j
  <2> QED
    BY <2>3, <2>4 DEF BegunTurn, edges, j
<1>7. BegunTurn(n, Beginning!Fold(g, edges)[1..n])
  <2>1. \A h : \A k \in 1..n : BegunTurn(k - 1, h) => BegunTurn(k, Link(h, edges[k]))
    BY <1>6
  <2> QED
    BY <1>2, <1>5, <2>1, LeastElement, Beginning!FoldInvariant
<1>8. BegunTurn(n, Connected(funcs))
  BY <1>2, <1>3, <1>4, <1>7
<1>9. ASSUME NEW i \in DOMAIN funcs, NEW c \in DOMAIN funcs[i].code, funcs[i].code[c].op \in {"add", "sub"}
      PROVE  TwoOperands(Connected(funcs), Val("inst", funcs[i].name, funcs[i].code[c].id))
  <2> DEFINE w == Val("inst", funcs[i].name, funcs[i].code[c].id)
  <2>1. PICK p \in Nat : BeginsAt(edges, w, p)
    BY <1>9, ModuleBegins DEF edges
  <2>2. w \in IRVals /\ w.kind = "inst"
    <3>1. IsFunction(funcs[i])
      BY DEF IsModule
    <3> QED
      BY <3>1, InstFacts DEF Val
  <2> HIDE DEF w
  <2>3. Progress(n, Connected(funcs), w, p)
    BY <1>8, <2>1, <2>2 DEF BegunTurn, edges
  <2>4. n > p + 1
    <3>1. p + 2 \in DOMAIN edges
      BY <2>1 DEF BeginsAt
    <3> QED
      BY <1>2, <3>1
  <2> QED
    BY <2>3, <2>4 DEF Progress, w
<1> QED
  BY <1>8, <1>9 DEF BegunTurn

-----------------------------------------------------------------------------
(* The invariant of the registers                                          *)

(* The additions of some code have their operands.                         *)
AddsOK(c, name) ==
  \A j \in DOMAIN c : c[j].op \in {"add", "sub"} => TwoOperands(graph, Val("inst", name, c[j].id))

Started == phase \in {"calls", "args", "select"}

Delivered(f) == AddsOK(f.code, f.name) /\ (~f.builtin => OnStack(f.name))

AllDelivered   == \A i \in DOMAIN funcs : i > cur => Delivered(funcs[i])
CurrentStarted == Started => AddsOK(insts, Func.name) /\ PlacesThere

RegistersInv == GraphOK(graph) /\ AllDelivered /\ CurrentStarted /\ Claimed(alloc, 0, 0)

(* It holds of the module as it is delivered.                              *)
LEMMA InitRegisters == EnoughUses /\ Init => RegistersInv
<1> SUFFICES ASSUME EnoughUses, Init PROVE RegistersInv
  OBVIOUS
<1>1. IsModule(funcs) /\ graph = Connected(funcs) /\ funcs \in Inputs
  BY InputsAssumption DEF Init
<1>2. cur = 0 /\ phase = "next" /\ alloc = RA!NewAllocator
  BY DEF Init, Unstarted
<1>3. GraphOK(graph) /\ \A i \in DOMAIN funcs : AddsOK(funcs[i].code, funcs[i].name)
  BY <1>1, ConnectedBegins DEF AddsOK
<1>4. \A i \in DOMAIN funcs : ~funcs[i].builtin => OnStack(funcs[i].name)
  BY <1>1, PlacesAssumption DEF OnStack
<1>5. Claimed(alloc, 0, 0)
  <2>1. RA!NewAllocator = [regBitmap |-> {}, usedBitmap |-> {}, regValues |-> << >>, loadRegId |-> [v \in IRVals |-> RA!NoReg]]
    BY DEF RA!NewAllocator
  <2>2. 0..0 - 1 = {}
    OBVIOUS
  <2> QED
    BY <1>2, <2>1, <2>2 DEF Claimed, Allocator
<1>6. ~Started
  BY <1>2 DEF Started
<1> QED
  BY <1>3, <1>4, <1>5, <1>6 DEF RegistersInv, AllDelivered, CurrentStarted, Delivered

(* A step that keeps the operands, adds no additions and leaves the        *)
(* registers free keeps it.                                                *)
LEMMA KeepsRegisters ==
  ASSUME RegistersInv, Keeps(graph, graph'), funcs' = funcs, cur' = cur, Claimed(alloc', 0, 0),
         Started' => /\ Started
                     /\ \A j \in DOMAIN insts' : insts'[j].op \in {"add", "sub"} =>
                          \E k \in DOMAIN insts : insts[k].op \in {"add", "sub"} /\ insts[k].id = insts'[j].id
  PROVE  RegistersInv'
<1>1. AllDelivered'
  BY DEF RegistersInv, AllDelivered, Delivered, AddsOK, Keeps
<1>2. Func' = Func
  BY DEF Func
<1>3. ASSUME Started' PROVE AddsOK(insts, Func.name)' /\ PlacesThere'
  <2>1. AddsOK(insts, Func.name) /\ PlacesThere
    BY <1>3 DEF RegistersInv, CurrentStarted
  <2>2. PlacesThere'
    BY <1>2, <2>1 DEF PlacesThere
  <2>3. ASSUME NEW j \in DOMAIN insts', insts'[j].op \in {"add", "sub"}
        PROVE  TwoOperands(graph', Val("inst", Func.name, insts'[j].id))
    <3>1. PICK k \in DOMAIN insts : insts[k].op \in {"add", "sub"} /\ insts[k].id = insts'[j].id
      BY <1>3, <2>3
    <3>2. TwoOperands(graph, Val("inst", Func.name, insts[k].id))
      BY <2>1, <3>1 DEF AddsOK
    <3> QED
      BY <3>1, <3>2 DEF Keeps
  <2> QED
    BY <1>2, <2>2, <2>3 DEF AddsOK
<1>4. GraphOK(graph)'
  BY DEF Keeps
<1>5. CurrentStarted'
  BY <1>3 DEF CurrentStarted
<1> QED
  BY <1>1, <1>4, <1>5 DEF RegistersInv

(* What is put in when a call is rewritten is no addition.                 *)
LEMMA InsertedAdds ==
  ASSUME NEW i, NEW new, InsertedAt(insts, i, new, insts'), i \in 1..Len(insts) + 1,
         \A j \in DOMAIN new : new[j].op \in {"move", "arg"}
  PROVE  \A j \in DOMAIN insts' : insts'[j].op \in {"add", "sub"} =>
           \E k \in DOMAIN insts : insts[k].op \in {"add", "sub"} /\ insts[k].id = insts'[j].id
<1> SUFFICES ASSUME NEW j \in DOMAIN insts', insts'[j].op \in {"add", "sub"}
             PROVE  \E k \in DOMAIN insts : insts[k].op \in {"add", "sub"} /\ insts[k].id = insts'[j].id
  OBVIOUS
<1>1. /\ Len(insts) \in Nat /\ Len(new) \in Nat /\ DOMAIN insts = 1..Len(insts)
      /\ DOMAIN insts' = 1..Len(insts) + Len(new)
      /\ \A k \in 1..i - 1 : insts'[k] = insts[k]
      /\ \A k \in DOMAIN new : insts'[i - 1 + k] = new[k]
      /\ \A k \in i..Len(insts) : insts'[k + Len(new)] = insts[k]
  BY DEF InsertedAt
<1>2. \/ j \in 1..i - 1
      \/ \E k \in DOMAIN new : j = i - 1 + k
      \/ \E k \in i..Len(insts) : j = k + Len(new)
  BY DEF InsertedAt
<1>3. CASE j \in 1..i - 1
  BY <1>1, <1>3
<1>4. CASE \E k \in DOMAIN new : j = i - 1 + k
  BY <1>1, <1>4
<1>5. CASE \E k \in i..Len(insts) : j = k + Len(new)
  <2>1. PICK k \in i..Len(insts) : j = k + Len(new)
    BY <1>5
  <2>2. k \in DOMAIN insts /\ insts'[j] = insts[k]
    BY <1>1, <2>1
  <2> QED
    BY <2>2
<1> QED
  BY <1>1, <1>2, <1>3, <1>4, <1>5

(* The next function is begun as it was delivered.                         *)
LEMMA NextFunctionRegisters ==
  ASSUME CodeInv, RegistersInv, NextFunction
  PROVE  RegistersInv'
<1> DEFINE f == funcs[cur + 1]
<1>1. /\ phase = "next" /\ cur < Len(funcs) /\ cur' = cur + 1 /\ Begin(f)
      /\ funcs' = funcs /\ graph' = graph /\ alloc' = alloc
  BY DEF NextFunction, Begin
<1>2. cur \in Nat /\ cur + 1 \in DOMAIN funcs /\ \A i \in DOMAIN funcs : i \in Nat
  BY <1>1 DEF CodeInv, FuncsOK
<1>3. AddsOK(f.code, f.name) /\ (~f.builtin => OnStack(f.name))
  BY <1>2 DEF RegistersInv, AllDelivered, Delivered
<1>4. Func' = f
  BY <1>1 DEF Func
<1>5. ASSUME Started' PROVE AddsOK(insts, Func.name)' /\ PlacesThere'
  <2>1. ~f.builtin
    BY <1>1, <1>5 DEF Begin, Started
  <2>2. insts' = [i \in DOMAIN f.code |-> LET inst == f.code[i] IN IRInst(inst.op, inst.id, inst.target, inst.void)]
    BY <1>1, <2>1 DEF Begin
  <2>3. DOMAIN insts' = DOMAIN f.code /\ \A j \in DOMAIN f.code : insts'[j].op = f.code[j].op /\ insts'[j].id = f.code[j].id
    BY <2>2 DEF IRInst
  <2>4. PlacesThere'
    BY <1>3, <1>4, <2>1 DEF PlacesThere
  <2> HIDE DEF f
  <2>5. AddsOK(insts, Func.name)'
    BY <1>1, <1>3, <1>4, <2>3 DEF AddsOK
  <2> QED
    BY <2>4, <2>5
<1> HIDE DEF f
<1>6. AllDelivered'
  <2>1. \A i \in DOMAIN funcs : i > cur' => i > cur
    BY <1>1, <1>2
  <2> QED
    BY <1>1, <2>1 DEF RegistersInv, AllDelivered, Delivered, AddsOK
<1>7. GraphOK(graph)' /\ Claimed(alloc', 0, 0)
  BY <1>1 DEF RegistersInv
<1>8. CurrentStarted'
  BY <1>5 DEF CurrentStarted
<1> QED
  BY <1>6, <1>7, <1>8 DEF RegistersInv

(* Rewriting the calls leaves the registers alone.                         *)
LEMMA RewritingRegisters ==
  ASSUME EnoughUses, CodeInv, RegistersInv, PassArguments \/ MakeArg \/ TakeResult
  PROVE  RegistersInv'
<1>1. /\ phase \in {"calls", "args"} /\ funcs' = funcs /\ cur' = cur /\ alloc' = alloc
      /\ Started /\ Claimed(alloc, 0, 0) /\ GraphOK(graph) /\ PlacesThere
  BY DEF PassArguments, MakeArg, TakeResult, Started, RegistersInv, CurrentStarted
<1>2. /\ IsSeq(insts) /\ created \in Nat /\ pos \in Nat \ {0} /\ pos <= Len(insts) /\ Len(insts) \in Nat
  <2>1. Rewriting
    BY <1>1 DEF CodeInv
  <2>2. IsSeq(insts) /\ created \in Nat /\ pos \in Nat \ {0}
    BY <2>1 DEF Rewriting, CodeOK
  <2>3. pos <= Len(insts)
    BY DEF PassArguments, MakeArg, TakeResult, CodeInv
  <2> QED
    BY <2>2, <2>3, SeqIs DEF IsSeq
<1>3. pos \in 1..Len(insts) + 1 /\ pos + 1 \in 1..Len(insts) + 1
  BY <1>2
<1>4. Keeps(graph, graph)
  BY <1>1 DEF Keeps
<1>5. CASE PassArguments
  <2> DEFINE st == Passing(This)
  <2>1. graph' = st.g /\ insts' = Inserted(insts, pos, st.moves)
    BY <1>5 DEF PassArguments, This
  <2>2. Keeps(graph, st.g)
    BY <1>1, <1>2, PassingKeeps
  <2>3. PassingOK(st)
    BY <1>2, PassingIsOK DEF CodeInv
  <2> HIDE DEF st
  <2>4. IsSeq(st.moves) /\ \A j \in DOMAIN st.moves : st.moves[j].op \in {"move", "arg"}
    <3>1. IsSeq(st.moves) /\ \A j \in DOMAIN st.moves : st.moves[j] = Move(created + j)
      BY <2>3 DEF PassingOK
    <3>2. \A x : Move(x).op = "move"
      BY DEF Move, IRInst
    <3> QED
      BY <3>1, <3>2
  <2>5. InsertedAt(insts, pos, st.moves, insts')
    BY <1>2, <1>3, <2>1, <2>4, InsertedIs
  <2> QED
    BY <1>1, <1>3, <2>1, <2>2, <2>4, <2>5, InsertedAdds, KeepsRegisters
<1>6. CASE MakeArg
  <2> DEFINE new == << ArgInst(created + 1) >>
             a   == OperandAt(graph, InstVal(insts[pos].id), turn)
  <2>1. graph' = Connect(graph, InstVal(created + 1), << a >>) /\ insts' = Inserted(insts, pos, new)
    BY <1>6 DEF MakeArg
  <2>2. IsSeq(new) /\ \A j \in DOMAIN new : new[j].op \in {"move", "arg"}
    <3>1. ArgInst(created + 1).op \in {"move", "arg"} /\ ArgInst(created + 1).id = created + 1
      BY DEF ArgInst, IRInst
    <3> QED
      BY <1>2, <3>1, FreshOne DEF Fresh
  <2> HIDE DEF new, a
  <2>3. Keeps(graph, graph')
    BY <1>4, <2>1, ConnectKeeps
  <2>4. InsertedAt(insts, pos, new, insts')
    BY <1>2, <1>3, <2>1, <2>2, InsertedIs
  <2> QED
    BY <1>1, <1>3, <2>2, <2>3, <2>4, InsertedAdds, KeepsRegisters
<1>7. CASE TakeResult /\ HasResult(insts[pos])
  <2> DEFINE new == << Move(created + 1) >>
             a   == InstVal(insts[pos].id)
             b   == Reg(0)
  <2>1. graph' = Connect(graph, InstVal(created + 1), << a, b >>) /\ insts' = Inserted(insts, pos + 1, new)
    BY <1>7 DEF TakeResult
  <2>2. IsSeq(new) /\ \A j \in DOMAIN new : new[j].op \in {"move", "arg"}
    <3>1. Move(created + 1).op \in {"move", "arg"} /\ Move(created + 1).id = created + 1
      BY DEF Move, IRInst
    <3> QED
      BY <1>2, <3>1, FreshOne DEF Fresh
  <2> HIDE DEF new, a, b
  <2>3. Keeps(graph, graph')
    BY <1>4, <2>1, ConnectKeeps
  <2>4. InsertedAt(insts, pos + 1, new, insts')
    BY <1>2, <1>3, <2>1, <2>2, InsertedIs
  <2> QED
    BY <1>1, <1>3, <2>2, <2>3, <2>4, InsertedAdds, KeepsRegisters
<1>8. CASE TakeResult /\ ~HasResult(insts[pos])
  <2>1. graph' = graph /\ insts' = insts
    BY <1>8 DEF TakeResult
  <2> QED
    BY <1>1, <1>4, <2>1, KeepsRegisters
<1> QED
  BY <1>5, <1>6, <1>7, <1>8

(* A handler that keeps what it should leaves the registers free.          *)
LEMMA SelectRegisters ==
  ASSUME RegistersInv, phase = "select", NEW s, SelOK(s, 0), Select(s)
  PROVE  RegistersInv'
<1>1. /\ graph' = s.graph /\ alloc' = s.alloc
      /\ funcs' = funcs /\ cur' = cur /\ phase' = phase /\ insts' = insts
  BY DEF Select
<1>2. Keeps(graph, graph') /\ Claimed(alloc', 0, 0) /\ Started
  BY <1>1 DEF SelOK, Started
<1> QED
  BY <1>1, <1>2, KeepsRegisters

(* Before the handler, they are free.                                      *)
LEMMA SelectionOK ==
  ASSUME RegistersInv
  PROVE  SelOK(Selection, 0) /\ Selection.graph = graph /\ IsSelection(Selection)
<1>1. IsSelection(Selection) /\ Selection.alloc = alloc /\ Selection.graph = graph
  BY DEF Selection, IsSelection
<1> QED
  BY <1>1 DEF SelOK, RegistersInv, Keeps

(* The handlers keep it.                                                   *)
LEMMA SelectionRegisters ==
  ASSUME EnoughUses, CodeInv, RegistersInv, PlainSelection \/ SelectLabel \/ SelectGoto
  PROVE  RegistersInv'
<1>1. SelOK(Selection, 0) /\ Selection.graph = graph /\ IsSelection(Selection)
  BY SelectionOK
<1>2. phase = "select" /\ pos <= Len(insts)
  BY DEF PlainSelection, SelectEntry, SelectExit, SelectAssign, SelectTwoOperator, SelectCall, SelectArg,
         SelectLabel, SelectGoto, Selecting
<1>3. 0 \in {0, 4}
  OBVIOUS
<1>4. pos \in DOMAIN insts /\ (insts[pos].op = "call" => This \in IRVals)
  <2>1. PICK n : CodeOK(insts, n, Func.name) /\ pos \in Nat \ {0}
    BY <1>2 DEF CodeInv, Translating
  <2>2. DOMAIN insts = 1..Len(insts) /\ Len(insts) \in Nat
    BY <2>1, SeqIs DEF CodeOK, IsSeq
  <2>3. pos \in DOMAIN insts
    BY <1>2, <2>1, <2>2
  <2> QED
    BY <2>1, <2>3 DEF CodeOK, This, InstVal
<1>5. ASSUME NEW code, Select(Emit(Selection, code)) PROVE RegistersInv'
  <2>1. SelOK(Emit(Selection, code), 0)
    BY <1>1, EmitIs
  <2> QED
    BY <1>2, <1>5, <2>1, SelectRegisters
<1>6. CASE SelectEntry
  BY <1>5, <1>6 DEF SelectEntry, translate_entry
<1>7. CASE SelectExit
  BY <1>5, <1>7 DEF SelectExit, translate_exit
<1>8. CASE SelectLabel
  BY <1>5, <1>8 DEF SelectLabel
<1>9. CASE SelectGoto
  BY <1>5, <1>9 DEF SelectGoto
<1>10. CASE SelectAssign
  <2> DEFINE a == OperandAt(graph, This, 1)
             b == OperandAt(graph, This, 2)
  <2>1. Select(translate_assign(Selection, a, b))
    BY <1>10 DEF SelectAssign
  <2> HIDE DEF a, b
  <2>2. SelOK(translate_assign(Selection, a, b), 0)
    BY <1>1, <1>3, AssignOK
  <2> QED
    BY <1>2, <2>1, <2>2, SelectRegisters
<1>11. ASSUME NEW op \in {"add", "sub"}, SelectTwoOperator(op) PROVE RegistersInv'
  <2>1. Select(translate_two_operator(Selection, This, op)) /\ insts[pos].op \in {"add", "sub"}
    BY <1>11 DEF SelectTwoOperator, Selecting
  <2>2. TwoOperands(graph, This)
    <3>1. AddsOK(insts, Func.name)
      BY <1>2 DEF RegistersInv, CurrentStarted, Started
    <3> QED
      BY <1>4, <2>1, <3>1 DEF AddsOK, This, InstVal
  <2>3. SelOK(translate_two_operator(Selection, This, op), 0)
    <3>1. This \in IRVals
      BY <2>2 DEF TwoOperands
    <3> QED
      BY <1>1, <2>2, <3>1, TwoOperatorOK
  <2> QED
    BY <1>2, <2>1, <2>3, SelectRegisters
<1>12. CASE SelectCall
  <2>1. Select(translate_call(Selection, This, insts[pos])) /\ insts[pos].op = "call"
    BY <1>12 DEF SelectCall, Selecting
  <2>2. SelOK(translate_call(Selection, This, insts[pos]), 0)
    BY <1>1, <1>4, <2>1, CallOK
  <2> QED
    BY <1>2, <2>1, <2>2, SelectRegisters
<1>13. CASE SelectArg
  BY <1>1, <1>2, <1>13, SelectRegisters DEF SelectArg
<1> QED
  BY <1>6, <1>7, <1>8, <1>9, <1>10, <1>11, <1>12, <1>13 DEF PlainSelection

(* Every step keeps it.                                                    *)
LEMMA NextRegisters ==
  ASSUME EnoughUses, CodeInv, RegistersInv, [Next]_vars
  PROVE  RegistersInv'
<1>0. Keeps(graph, graph) /\ Claimed(alloc, 0, 0)
  BY DEF RegistersInv, Keeps
<1>1. CASE NextFunction
  BY <1>1, NextFunctionRegisters
<1>2. CASE Finish
  <2>1. graph' = graph /\ alloc' = alloc /\ funcs' = funcs /\ cur' = cur /\ ~Started'
    BY <1>2 DEF Finish, Started
  <2> QED
    BY <1>0, <2>1, KeepsRegisters
<1>3. CASE SkipInst \/ AllocateStack \/ UNCHANGED vars
  <2>1. /\ graph' = graph /\ alloc' = alloc /\ funcs' = funcs /\ cur' = cur /\ insts' = insts
        /\ Started' => Started
    BY <1>3 DEF SkipInst, AllocateStack, Started, vars
  <2> QED
    BY <1>0, <2>1, KeepsRegisters
<1>4. CASE PassArguments \/ MakeArg \/ TakeResult
  BY <1>4, RewritingRegisters
<1>5. CASE PlainSelection \/ SelectLabel \/ SelectGoto
  BY <1>5, SelectionRegisters
<1>6. CASE FinishFunction
  <2>1. /\ graph' = graph /\ alloc' = alloc /\ cur' = cur /\ ~Started'
        /\ funcs' = [funcs EXCEPT ![cur].code = insts] /\ phase = "select"
    BY <1>6 DEF FinishFunction, Started
  <2>2. DOMAIN funcs' = DOMAIN funcs /\ cur \in Nat /\ \A i \in DOMAIN funcs : i > cur => funcs'[i] = funcs[i]
    BY <2>1 DEF CodeInv, FuncsOK
  <2>3. AllDelivered'
    BY <2>1, <2>2 DEF RegistersInv, AllDelivered, Delivered, AddsOK
  <2> QED
    BY <2>1, <2>3 DEF RegistersInv, CurrentStarted
<1> QED
  BY <1>1, <1>2, <1>3, <1>4, <1>5, <1>6 DEF Next, PlainSelection

(* Between two instructions no register is in use: every handler gives     *)
(* back what it takes, for every module, if there are Use objects enough.  *)
THEOREM RegistersGivenBack == ASSUME EnoughUses PROVE Spec => []AllocatorIdle
<1>1. Init => CodeInv /\ RegistersInv
  BY InitCode, InitRegisters
<1>2. CodeInv /\ RegistersInv /\ [Next]_vars => CodeInv' /\ RegistersInv'
  BY NextCode, NextRegisters
<1>3. RegistersInv => AllocatorIdle
  <2>1. 0..0 - 1 = {}
    OBVIOUS
  <2> QED
    BY <2>1 DEF RegistersInv, Claimed, AllocatorIdle
<1> QED
  BY <1>1, <1>2, <1>3, PTL DEF Spec

(* So r10 is never handed out, and no register is ever taken from a value  *)
(* that still needs it.                                                    *)
THEOREM ScratchRegisterIsReserved == ASSUME EnoughUses PROVE Spec => []ScratchRegisterReserved
<1>1. Init => CodeInv /\ RegistersInv
  BY InitCode, InitRegisters
<1>2. CodeInv /\ RegistersInv /\ [Next]_vars => CodeInv' /\ RegistersInv'
  BY NextCode, NextRegisters
<1>3. RegistersInv => ScratchRegisterReserved
  <2>1. TMP \notin 0..4
    BY DEF TMP
  <2> QED
    BY <2>1 DEF RegistersInv, Claimed, ScratchRegisterReserved
<1> QED
  BY <1>1, <1>2, <1>3, PTL DEF Spec
=============================================================================
