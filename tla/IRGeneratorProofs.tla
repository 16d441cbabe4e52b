-------------------------- MODULE IRGeneratorProofs --------------------------
(***************************************************************************)
(* Proofs about the IR generator, for all trees of the parsers' shape: the *)
(* code of a function is complete and in one piece, its operands are       *)
(* available, it has one exit, and its attributes say what is in it.       *)
(***************************************************************************)
EXTENDS IRGenerator, SequenceLemmas, FiniteSetTheorems, FunctionTheorems

(* The nodes whose handlers visit their sons. *)
Handled == {"unit", "func", "block", "decl", "assign", "return", "add", "sub", "call"}

Callees == Table!Functions

IRValues == [kind : {"null", "inst", "local", "global", "const", "func"}, func : Identifiers \cup {NoFunc}, id : Int]
Insts    == [op : Ops, id : Nat, args : Seq(IRValues), target : IRValues]
Results  == [val : IRValues, code : Seq(Insts)]
Frames   == [node : Nodes, sons : Seq(Results)]
Attrs    == [exitLabel : IRValues, returnValue : IRValues, existFuncCall : BOOLEAN, maxFuncCallArgCnt : Nat]

Scopes    == Table!Maps(Identifiers, IRValues)
Variables == [name : Identifiers, level : Int, size : Int]

(* The tables of programs of any size. *)
Tables ==
  [valueStack  : Seq(Scopes),
   currentFunc : Callees \cup {NoFunc},
   funcMap     : Table!Maps(Callees, Table!FuncTypes),
   funcVector  : Seq(Callees),
   varsVector  : Table!Maps(Callees, Seq(Variables)),
   globals     : Seq(Identifiers),
   constInts   : SUBSET Int]

-----------------------------------------------------------------------------
(* The invariant: the table and the frames.                                *)

(* The values that are registered: a global variable, a local variable of  *)
(* f, a constant.                                                          *)
IsGlobal(st, v)   == v.kind = "global" /\ v.id \in DOMAIN st.globals
IsLocal(st, f, v) == v.kind = "local" /\ v.func = f /\ f \in DOMAIN st.varsVector /\ v.id \in DOMAIN st.varsVector[f]
IsConst(st, v)    == v.kind = "const" /\ v.id \in st.constInts
Held(st, f, v)    == IsGlobal(st, v) \/ IsLocal(st, f, v) \/ IsConst(st, v)

(* The outermost scope has global variables, the others have variables of  *)
(* the current function.                                                   *)
Registered(st) ==
  \A i \in DOMAIN st.valueStack : \A n \in DOMAIN st.valueStack[i] :
    IF i = 1 THEN IsGlobal(st, st.valueStack[i][n]) ELSE IsLocal(st, st.currentFunc, st.valueStack[i][n])

TableOK(st) ==
  /\ st \in Tables
  /\ st.valueStack # << >>
  /\ Table!Builtins \subseteq DOMAIN st.funcMap
  /\ DOMAIN st.varsVector = DOMAIN st.funcMap
  /\ st.currentFunc # NoFunc => st.currentFunc \in DOMAIN st.funcMap
  /\ Registered(st)

OpensScope(fr) == fr.node.op \in {"func", "block"}
Openers(fs)    == {i \in DOMAIN fs : OpensScope(fs[i])}

(* As many scopes are open as handlers that opened one are running.        *)
ScopesMatch(fs, st) == Len(st.valueStack) = 1 + Cardinality(Openers(fs))

(* Units and declarations get nothing from their sons.                     *)
Quiet(fr) ==
  fr.node.op \in {"unit", "decl"} =>
    Code(fr.sons) = << >> /\ \A k \in DOMAIN fr.sons : fr.sons[k] = Result(Null, << >>)

FrameOK(fr) ==
  /\ fr \in Frames
  /\ fr.node.op \in Handled
  /\ Len(fr.sons) <= Len(fr.node.sons)
  /\ Quiet(fr)

(* A frame is the handler of the next son of the frame below it.           *)
NextSon(fr, son) == Len(fr.sons) < Len(fr.node.sons) /\ fr.node.sons[Len(fr.sons) + 1] = son

FramesOK(fs) ==
  /\ fs \in Seq(Frames) /\ fs # << >>
  /\ \A i \in DOMAIN fs : FrameOK(fs[i])
  /\ \A i \in DOMAIN fs : /\ fs[i].node.op = "unit" <=> i = 1
                          /\ fs[i].node.op = "func" => i = 2
  /\ \A i \in 1..Len(fs) - 1 : NextSon(fs[i], fs[i + 1].node)

Compiling(fs) == 2 \in DOMAIN fs /\ fs[2].node.op = "func"

FunctionsOK(code, attrs, st) ==
  /\ DOMAIN code = DOMAIN st.funcMap \ Table!Builtins
  /\ DOMAIN attrs = DOMAIN code
  /\ \A f \in DOMAIN code : code[f] \in Seq(Insts) /\ attrs[f] \in Attrs

(* What is known of a function while it is compiled.                       *)
Opened(f, code, attrs, st) ==
  /\ f \in DOMAIN code
  /\ code[f] = << Inst("entry", 1, << >>, Null) >>
  /\ attrs[f].exitLabel = InstVal(f, 2)
  /\ IsLocal(st, f, attrs[f].returnValue)

Inv ==
  /\ status \in {"running", "ok", "failed", "crashed"}
  /\ created \in Nat
  /\ FramesOK(frames) /\ frames[1].node = program
  /\ TableOK(module)
  /\ ScopesMatch(frames, module)
  /\ Func # NoFunc <=> Compiling(frames)
  /\ FunctionsOK(ircode, info, module)
  /\ Func # NoFunc => Opened(Func, ircode, info, module)

-----------------------------------------------------------------------------
(* What is added to it for the properties.                                 *)

LostInv == NoInstructionLost /\ (Func # NoFunc => created >= 2)

(* Attributes: a call counts from when it is visited.                      *)
ArgCounts(c) == {Len(c[i].args) : i \in {j \in DOMAIN c : c[j].op = "call"}}
Visited(fs)  == {Len(fs[i].node.sons) : i \in {j \in DOMAIN fs : fs[j].node.op = "call"}}

Says(attrs, counts) ==
  /\ attrs.existFuncCall <=> counts # {}
  /\ \A n \in counts : n <= attrs.maxFuncCallArgCnt
  /\ attrs.maxFuncCallArgCnt \in {0} \cup counts

AttrsInv ==
  /\ Func # NoFunc => Says(info[Func], ArgCounts(InFlight) \cup Visited(frames))
  /\ \A f \in Compiled : Says(info[f], ArgCounts(ircode[f]))

(* Exits: every jump in a piece of code comes after the move to the slot.  *)
Fragment(c, label, slot) ==
  \A i \in DOMAIN c :
    /\ c[i].op \in {"goto", "move", "add", "sub", "call"}
    /\ c[i].op = "goto" => /\ i > 1 /\ c[i].target = label
                           /\ c[i - 1].op = "move" /\ c[i - 1].args # << >> /\ c[i - 1].args[1] = slot

FrameExits(fr, label, slot) ==
  /\ Fragment(Code(fr.sons), label, slot)
  /\ \A k \in DOMAIN fr.sons : Fragment(fr.sons[k].code, label, slot)

ExitInv ==
  /\ OneExit
  /\ Func # NoFunc => \A i \in DOMAIN frames : FrameExits(frames[i], info[Func].exitLabel, info[Func].returnValue)

(* Operands: what an instruction in a piece of code uses was computed      *)
(* before it in that piece, or is registered.                              *)
Computed(v, f, c, i) == v.kind = "inst" /\ v.func = f /\ \E j \in 1..i - 1 : c[j].id = v.id /\ c[j].op \in Computes
Usable(v, st, f, c, i) == Computed(v, f, c, i) \/ Held(st, f, v)
Closed(c, st, f) == \A i \in DOMAIN c : \A k \in DOMAIN c[i].args : Usable(c[i].args[k], st, f, c, i)

FrameOperands(fr, st, f) ==
  /\ Closed(Code(fr.sons), st, f)
  /\ \A k \in DOMAIN fr.sons : Closed(fr.sons[k].code, st, f)
  /\ \A k \in DOMAIN fr.sons :
       fr.node.sons[k].op \in Expressions =>
         fr.sons[k].val = Null \/ Usable(fr.sons[k].val, st, f, Code(fr.sons), Len(Code(fr.sons)) + 1)

AvailInv ==
  /\ \A f \in Compiled : Closed(ircode[f], module, f)
  /\ Func # NoFunc => \A i \in DOMAIN frames : FrameOperands(frames[i], module, Func)

-----------------------------------------------------------------------------
(* Trees                                                                   *)

(* A sequence of trees of some kind is a sequence of trees, and each is of *)
(* that kind.                                                              *)
LEMMA SonsHaving ==
  ASSUME NEW ops, NEW s \in Seq(Having(ops, Nodes))
  PROVE  s \in Seq(Nodes) /\ \A k \in DOMAIN s : s[k].op \in ops
BY DEF Having

(* The sons of a node, by its kind.                                        *)
LEMMA NodeShape ==
  ASSUME NEW t \in Nodes
  PROVE  /\ t.sons \in Seq(Nodes) /\ t.num \in Int /\ t.name \in Identifiers
         /\ t.op = "func" => t.name \in Callees
         /\ t.op = "assign" => Len(t.sons) <= 2
         /\ t.op \in {"add", "sub"} => Len(t.sons) = 2
         /\ \A k \in DOMAIN t.sons :
              /\ t.op = "unit" => t.sons[k].op \in {"func", "decl"}
              /\ t.op = "decl" => t.sons[k].op = "vardecl"
              /\ t.op \in {"assign", "return", "add", "sub", "call"} => t.sons[k].op \in Expressions
<1> DEFINE operands == Having(Expressions, Nodes)
           Goal == /\ t.sons \in Seq(Nodes) /\ t.num \in Int /\ t.name \in Identifiers
                   /\ t.op = "func" => t.name \in Callees
                   /\ t.op = "assign" => Len(t.sons) <= 2
                   /\ t.op \in {"add", "sub"} => Len(t.sons) = 2
                   /\ \A k \in DOMAIN t.sons :
                        /\ t.op = "unit" => t.sons[k].op \in {"func", "decl"}
                        /\ t.op = "decl" => t.sons[k].op = "vardecl"
                        /\ t.op \in {"assign", "return", "add", "sub", "call"} => t.sons[k].op \in Expressions
<1>1. \/ t \in Trees({"unit"}, {""}, Seq(Having({"func", "decl"}, Nodes)))
      \/ t \in Trees({"func"}, Callees, Seq(Nodes))
      \/ t \in Trees({"decl"}, {""}, Seq(Having({"vardecl"}, Nodes)))
      \/ t \in Trees({"assign"}, {""}, {s \in Seq(operands) : Len(s) <= 2})
      \/ t \in Trees({"add", "sub"}, {""}, {s \in Seq(operands) : Len(s) = 2})
      \/ t \in Trees({"return", "call"}, Identifiers, Seq(operands))
      \/ t \in Trees({"block", "params", "vardecl", "var", "uint"}, Identifiers, Seq(Nodes))
  BY NodesAssumption DEF TreesOver, Callees
<1> HIDE DEF operands
<1>2. CASE t \in Trees({"unit"}, {""}, Seq(Having({"func", "decl"}, Nodes)))
  <2>1. t.sons \in Seq(Having({"func", "decl"}, Nodes)) /\ t.op = "unit" /\ t.num \in Int /\ t.name = ""
    BY <1>2 DEF Trees
  <2>2. t.sons \in Seq(Nodes) /\ \A k \in DOMAIN t.sons : t.sons[k].op \in {"func", "decl"}
    BY <2>1, SonsHaving
  <2> QED
    BY <2>1, <2>2 DEF Identifiers
<1>3. CASE t \in Trees({"func"}, Callees, Seq(Nodes))
  BY <1>3 DEF Trees, Callees, Identifiers
<1>4. CASE t \in Trees({"decl"}, {""}, Seq(Having({"vardecl"}, Nodes)))
  <2>1. t.sons \in Seq(Having({"vardecl"}, Nodes)) /\ t.op = "decl" /\ t.num \in Int /\ t.name = ""
    BY <1>4 DEF Trees
  <2>2. t.sons \in Seq(Nodes) /\ \A k \in DOMAIN t.sons : t.sons[k].op \in {"vardecl"}
    BY <2>1, SonsHaving
  <2> QED
    BY <2>1, <2>2 DEF Identifiers
<1>5. CASE t \in Trees({"assign"}, {""}, {s \in Seq(operands) : Len(s) <= 2})
  <2>1. t.sons \in Seq(operands) /\ Len(t.sons) <= 2 /\ t.op = "assign" /\ t.num \in Int /\ t.name = ""
    BY <1>5 DEF Trees
  <2>2. t.sons \in Seq(Nodes) /\ \A k \in DOMAIN t.sons : t.sons[k].op \in Expressions
    BY <2>1, SonsHaving DEF operands
  <2> QED
    BY <2>1, <2>2 DEF Identifiers
<1>6. CASE t \in Trees({"return", "call"}, Identifiers, Seq(operands))
  <2>1. t.sons \in Seq(operands) /\ t.op \in {"return", "call"} /\ t.num \in Int /\ t.name \in Identifiers
    BY <1>6 DEF Trees
  <2>2. t.sons \in Seq(Nodes) /\ \A k \in DOMAIN t.sons : t.sons[k].op \in Expressions
    BY <2>1, SonsHaving DEF operands
  <2> QED
    BY <2>1, <2>2
<1>6a. CASE t \in Trees({"add", "sub"}, {""}, {s \in Seq(operands) : Len(s) = 2})
  <2>1. t.sons \in Seq(operands) /\ Len(t.sons) = 2 /\ t.op \in {"add", "sub"} /\ t.num \in Int /\ t.name = ""
    BY <1>6a DEF Trees
  <2>2. t.sons \in Seq(Nodes) /\ \A k \in DOMAIN t.sons : t.sons[k].op \in Expressions
    BY <2>1, SonsHaving DEF operands
  <2> QED
    BY <2>1, <2>2 DEF Identifiers
<1>7. CASE t \in Trees({"block", "params", "vardecl", "var", "uint"}, Identifiers, Seq(Nodes))
  BY <1>7 DEF Trees
<1> QED
  BY <1>1, <1>2, <1>3, <1>4, <1>5, <1>6, <1>6a, <1>7

-----------------------------------------------------------------------------
(* Frames                                                                  *)

(* The null pointer is a value.                                            *)
LEMMA NullIsValue == Null \in IRValues
BY DEF Null, Table!NoVal, Table!Value, IRValues

(* A sequence is its front and its last element.                           *)
LEMMA FrontLast ==
  ASSUME NEW S, NEW s \in Seq(S), s # << >>
  PROVE  /\ Front(s) \in Seq(S) /\ Len(Front(s)) = Len(s) - 1
         /\ \A i \in 1..Len(s) - 1 : Front(s)[i] = s[i]
         /\ Last(s) \in S /\ Last(s) = s[Len(s)]
         /\ s = Append(Front(s), Last(s))
<1>1. Len(s) \in Nat /\ Len(s) >= 1
  OBVIOUS
<1>2. /\ Front(s) \in Seq(S) /\ Len(Front(s)) = Len(s) - 1
      /\ \A i \in 1..Len(s) - 1 : Front(s)[i] = s[i]
  <2> DEFINE m == Len(s) - 1
  <2>1. m \in Int /\ m >= 0 /\ 1 \in Int /\ m - 1 + 1 = m /\ \A i \in 1..m : s[i] \in S
    BY <1>1
  <2>2. Front(s) = SubSeq(s, 1, m)
    BY DEF Front
  <2> HIDE DEF m
  <2>3. /\ SubSeq(s, 1, m) \in Seq(S)
        /\ Len(SubSeq(s, 1, m)) = IF 1 <= m THEN m - 1 + 1 ELSE 0
        /\ \A i \in 1..m - 1 + 1 : SubSeq(s, 1, m)[i] = s[1 + i - 1]
    BY <2>1, SubSeqProperties
  <2>4. Len(Front(s)) = m /\ \A i \in 1..m : Front(s)[i] = s[i]
    BY <2>1, <2>2, <2>3
  <2> QED
    BY <2>2, <2>3, <2>4 DEF m
<1>3. Last(s) \in S /\ Last(s) = s[Len(s)]
  BY <1>1 DEF Last
<1> DEFINE t == Append(Front(s), Last(s))
<1>4. /\ t \in Seq(S) /\ Len(t) = Len(s)
      /\ \A i \in 1..Len(s) - 1 : t[i] = s[i]
      /\ t[Len(s)] = s[Len(s)]
  BY <1>1, <1>2, <1>3
<1> HIDE DEF t
<1>5. \A i \in 1..Len(s) : t[i] = s[i]
  BY <1>1, <1>4
<1>6. s = t
  BY <1>4, <1>5, SeqEqual
<1> QED
  BY <1>2, <1>3, <1>6 DEF t

(* Replacing the last element.                                             *)
LEMMA ReplaceLast ==
  ASSUME NEW S, NEW s \in Seq(S), s # << >>, NEW e \in S
  PROVE  [s EXCEPT ![Len(s)] = e] = Append(Front(s), e)
<1> DEFINE t == [s EXCEPT ![Len(s)] = e]
           u == Append(Front(s), e)
<1>1. Len(s) \in Nat /\ Len(s) >= 1 /\ DOMAIN s = 1..Len(s)
  OBVIOUS
<1>2. /\ Front(s) \in Seq(S) /\ Len(Front(s)) = Len(s) - 1
      /\ \A i \in 1..Len(s) - 1 : Front(s)[i] = s[i]
  BY FrontLast
<1>3. /\ t \in Seq(S) /\ Len(t) = Len(s)
      /\ \A i \in 1..Len(s) : t[i] = IF i = Len(s) THEN e ELSE s[i]
  BY <1>1
<1>4. /\ u \in Seq(S) /\ Len(u) = Len(s)
      /\ \A i \in 1..Len(s) - 1 : u[i] = s[i]
      /\ u[Len(s)] = e
  <2> DEFINE f == Front(s)
  <2>0. Len(f) = Len(s) - 1 /\ Len(s) \in Nat
    BY <1>1, <1>2
  <2>1. f \in Seq(S) /\ Len(f) \in Nat /\ \A i \in 1..Len(f) : f[i] = s[i]
    BY <1>1, <1>2
  <2> HIDE DEF f
  <2>2. /\ Append(f, e) \in Seq(S) /\ Len(Append(f, e)) = Len(f) + 1
        /\ \A i \in 1..Len(f) : Append(f, e)[i] = f[i]
        /\ Append(f, e)[Len(f) + 1] = e
    BY <2>1
  <2>3. Len(f) + 1 = Len(s) /\ Len(s) - 1 = Len(f)
    BY <2>0
  <2> DEFINE v == Append(f, e)
  <2> HIDE DEF v
  <2>4. v \in Seq(S) /\ Len(v) = Len(s) /\ v[Len(s)] = e /\ \A i \in 1..Len(s) - 1 : v[i] = s[i]
    BY <2>1, <2>2, <2>3, Zenon DEF v
  <2> QED
    BY <2>4 DEF f, v
<1> HIDE DEF t, u
<1>5. ASSUME NEW i \in 1..Len(s) PROVE t[i] = u[i]
  <2>1. CASE i = Len(s)
    BY <1>3, <1>4, <2>1
  <2>2. CASE i # Len(s)
    <3>1. i \in Int /\ 1 <= i /\ i <= Len(s) /\ Len(s) \in Int
      BY <1>1
    <3>2. i <= Len(s) - 1
      BY <2>2, <3>1
    <3>3. i \in 1..Len(s) - 1
      BY <3>1, <3>2
    <3> QED
      BY <1>3, <1>4, <2>2, <3>3
  <2> QED
    BY <2>1, <2>2
<1>6. t = u
  BY <1>3, <1>4, <1>5, SeqEqual
<1> QED
  BY <1>6 DEF t, u

(* A frame after one more son was visited.                                 *)
With(fr, r) == [fr EXCEPT !.sons = Append(@, r)]

(* It is a frame of the same node.                                         *)
LEMMA WithIs ==
  ASSUME NEW fr \in Frames, NEW r \in Results
  PROVE  /\ With(fr, r) \in Frames
         /\ With(fr, r).node = fr.node
         /\ With(fr, r).sons = Append(fr.sons, r)
<1>1. fr.sons \in Seq(Results)
  BY DEF Frames
<1> DEFINE t == Append(fr.sons, r)
<1>2. t \in Seq(Results)
  BY <1>1
<1> HIDE DEF t
<1>3. [fr EXCEPT !.sons = t] \in Frames /\ [fr EXCEPT !.sons = t].node = fr.node /\ [fr EXCEPT !.sons = t].sons = t
  BY <1>2 DEF Frames
<1> QED
  BY <1>3 DEF With, t

LeftWith(fs, r)   == Append(Front(fs), With(Last(fs), r))
PoppedWith(fs, r) == Append(Front(Front(fs)), With(Last(Front(fs)), r))

(* What Leaf and Pop make of the frames.                                   *)
LEMMA LeafIs ==
  ASSUME NEW fs \in Seq(Frames), fs # << >>, NEW r \in Results
  PROVE  [fs EXCEPT ![Len(fs)].sons = Append(@, r)] = LeftWith(fs, r)
<1>1. Last(fs) \in Frames /\ Last(fs) = fs[Len(fs)] /\ Len(fs) \in DOMAIN fs
  BY FrontLast
<1>2. [fs[Len(fs)] EXCEPT !.sons = Append(@, r)] = With(Last(fs), r)
  BY <1>1 DEF With
<1>3. With(Last(fs), r) \in Frames
  BY <1>1, WithIs
<1>4. [fs EXCEPT ![Len(fs)].sons = Append(@, r)] = [fs EXCEPT ![Len(fs)] = With(Last(fs), r)]
  BY <1>1, <1>2
<1> QED
  BY <1>3, <1>4, ReplaceLast DEF LeftWith

(* The frame of the caller gets the result.                                *)
LEMMA PopIs ==
  ASSUME NEW fs \in Seq(Frames), Len(fs) >= 2, NEW r \in Results
  PROVE  [Front(fs) EXCEPT ![Len(fs) - 1].sons = Append(@, r)] = PoppedWith(fs, r)
<1>1. Front(fs) \in Seq(Frames) /\ Front(fs) # << >> /\ Len(Front(fs)) = Len(fs) - 1
  BY FrontLast
<1> DEFINE gs == Front(fs)
<1> HIDE DEF gs
<1>2. [gs EXCEPT ![Len(gs)].sons = Append(@, r)] = LeftWith(gs, r)
  BY <1>1, LeafIs DEF gs
<1> QED
  BY <1>1, <1>2 DEF gs, LeftWith, PoppedWith

(* The code left in a frame's sons grows by that of the son.               *)
LEMMA CodeAppend ==
  ASSUME NEW sons \in Seq(Results), NEW r \in Results
  PROVE  /\ Code(sons) \in Seq(Insts)
         /\ Code(Append(sons, r)) = Code(sons) \o r.code
<1> DEFINE codes(ss) == [i \in DOMAIN ss |-> ss[i].code]
<1>1. ASSUME NEW ss \in Seq(Results) PROVE codes(ss) \in Seq(Seq(Insts)) /\ Len(codes(ss)) = Len(ss)
  <2>1. ASSUME NEW i \in 1..Len(ss) PROVE ss[i].code \in Seq(Insts)
    <3>1. ss[i] \in Results
      OBVIOUS
    <3> QED
      BY <3>1 DEF Results
  <2>2. codes(ss) = [i \in 1..Len(ss) |-> ss[i].code] /\ Len(ss) \in Nat
    OBVIOUS
  <2>3. [i \in 1..Len(ss) |-> ss[i].code] \in Seq(Seq(Insts)) /\ Len([i \in 1..Len(ss) |-> ss[i].code]) = Len(ss)
    BY <2>1, <2>2, IsASeq
  <2> QED
    BY <2>2, <2>3
<1>2. codes(Append(sons, r)) = Append(codes(sons), r.code)
  <2> DEFINE t == Append(sons, r)
             a == codes(t)
             b == Append(codes(sons), r.code)
  <2>1. /\ t \in Seq(Results) /\ Len(t) = Len(sons) + 1 /\ Len(sons) \in Nat
        /\ t[Len(t)] = r /\ \A i \in 1..Len(sons) : t[i] = sons[i]
    OBVIOUS
  <2>2. r.code \in Seq(Insts)
    BY DEF Results
  <2>3. codes(sons) \in Seq(Seq(Insts)) /\ Len(codes(sons)) = Len(sons)
    BY <1>1
  <2>4. \A i \in 1..Len(sons) : codes(sons)[i] = sons[i].code
    OBVIOUS
  <2> HIDE DEF t
  <2>5. a \in Seq(Seq(Insts)) /\ Len(a) = Len(t)
    BY <1>1, <2>1
  <2>6. \A i \in 1..Len(t) : a[i] = t[i].code
    BY <2>1
  <2> HIDE DEF codes
  <2>7. /\ b \in Seq(Seq(Insts)) /\ Len(b) = Len(sons) + 1
        /\ b[Len(sons) + 1] = r.code /\ \A i \in 1..Len(sons) : b[i] = codes(sons)[i]
    BY <2>1, <2>2, <2>3
  <2> HIDE DEF a, b
  <2>8. ASSUME NEW i \in 1..Len(t) PROVE a[i] = b[i]
    <3>1. CASE i = Len(t)
      BY <2>1, <2>6, <2>7, <3>1
    <3>2. CASE i # Len(t)
      <4>1. i \in 1..Len(sons)
        BY <2>1, <3>2
      <4> QED
        BY <2>1, <2>4, <2>6, <2>7, <4>1, Zenon
    <3> QED
      BY <3>1, <3>2
  <2>9. a = b
    BY <2>1, <2>5, <2>7, <2>8, SeqEqual
  <2> QED
    BY <2>9 DEF a, b, t
<1>3. codes(sons) \in Seq(Seq(Insts)) /\ r.code \in Seq(Insts)
  BY <1>1 DEF Results
<1>4. Code(sons) = FlattenSeq(codes(sons)) /\ Code(Append(sons, r)) = FlattenSeq(codes(Append(sons, r)))
  BY DEF Code
<1> HIDE DEF codes
<1> QED
  BY <1>2, <1>3, <1>4, FlattenType, FlattenAppend

(* The code of the current function that is still in nodes.                *)
FlightOf(fs) == FlattenSeq([i \in DOMAIN fs |-> Code(fs[i].sons)])

(* It grows by that of a new innermost frame.                              *)
LEMMA FlightAppend ==
  ASSUME NEW fs \in Seq(Frames), NEW fr \in Frames
  PROVE  /\ FlightOf(fs) \in Seq(Insts)
         /\ FlightOf(Append(fs, fr)) = FlightOf(fs) \o Code(fr.sons)
<1> DEFINE codes(ss) == [i \in DOMAIN ss |-> Code(ss[i].sons)]
<1>0. ASSUME NEW r \in Frames PROVE Code(r.sons) \in Seq(Insts)
  <2>1. r.sons \in Seq(Results) /\ Result(Null, << >>) \in Results
    BY NullIsValue DEF Frames, Results, Result
  <2> QED
    BY <2>1, CodeAppend
<1>1. ASSUME NEW ss \in Seq(Frames) PROVE codes(ss) \in Seq(Seq(Insts)) /\ Len(codes(ss)) = Len(ss)
  <2>1. ASSUME NEW i \in 1..Len(ss) PROVE Code(ss[i].sons) \in Seq(Insts)
    <3>1. ss[i] \in Frames
      OBVIOUS
    <3> QED
      BY <1>0, <3>1
  <2>2. codes(ss) = [i \in 1..Len(ss) |-> Code(ss[i].sons)] /\ Len(ss) \in Nat
    OBVIOUS
  <2>3. [i \in 1..Len(ss) |-> Code(ss[i].sons)] \in Seq(Seq(Insts)) /\ Len([i \in 1..Len(ss) |-> Code(ss[i].sons)]) = Len(ss)
    BY <2>1, <2>2, IsASeq
  <2> QED
    BY <2>2, <2>3
<1>2. codes(Append(fs, fr)) = Append(codes(fs), Code(fr.sons))
  <2> DEFINE t == Append(fs, fr)
             a == codes(t)
             b == Append(codes(fs), Code(fr.sons))
  <2>1. /\ t \in Seq(Frames) /\ Len(t) = Len(fs) + 1 /\ Len(fs) \in Nat
        /\ t[Len(t)] = fr /\ \A i \in 1..Len(fs) : t[i] = fs[i]
    OBVIOUS
  <2>2. Code(fr.sons) \in Seq(Insts)
    BY <1>0
  <2>3. codes(fs) \in Seq(Seq(Insts)) /\ Len(codes(fs)) = Len(fs)
    BY <1>1
  <2>4. \A i \in 1..Len(fs) : codes(fs)[i] = Code(fs[i].sons)
    OBVIOUS
  <2> HIDE DEF t
  <2>5. a \in Seq(Seq(Insts)) /\ Len(a) = Len(t)
    BY <1>1, <2>1
  <2>6. \A i \in 1..Len(t) : a[i] = Code(t[i].sons)
    BY <2>1
  <2> HIDE DEF codes
  <2>7. /\ b \in Seq(Seq(Insts)) /\ Len(b) = Len(fs) + 1
        /\ b[Len(fs) + 1] = Code(fr.sons) /\ \A i \in 1..Len(fs) : b[i] = codes(fs)[i]
    BY <2>1, <2>2, <2>3
  <2> HIDE DEF a, b
  <2>8. ASSUME NEW i \in 1..Len(t) PROVE a[i] = b[i]
    <3>1. CASE i = Len(t)
      BY <2>1, <2>6, <2>7, <3>1
    <3>2. CASE i # Len(t)
      <4>1. i \in 1..Len(fs)
        BY <2>1, <3>2
      <4> QED
        BY <2>1, <2>4, <2>6, <2>7, <4>1, Zenon
    <3> QED
      BY <3>1, <3>2
  <2>9. a = b
    BY <2>1, <2>5, <2>7, <2>8, SeqEqual
  <2> QED
    BY <2>9 DEF a, b, t
<1>3. codes(fs) \in Seq(Seq(Insts)) /\ Code(fr.sons) \in Seq(Insts)
  BY <1>0, <1>1
<1>4. FlightOf(fs) = FlattenSeq(codes(fs)) /\ FlightOf(Append(fs, fr)) = FlattenSeq(codes(Append(fs, fr)))
  BY DEF FlightOf
<1> HIDE DEF codes
<1> QED
  BY <1>2, <1>3, <1>4, FlattenType, FlattenAppend

(* Where the frames are after a leaf was visited, and after a return.      *)
LEMMA LeftAt ==
  ASSUME NEW fs \in Seq(Frames), fs # << >>, NEW r \in Results
  PROVE  /\ LeftWith(fs, r) \in Seq(Frames) /\ Len(LeftWith(fs, r)) = Len(fs)
         /\ \A i \in 1..Len(fs) - 1 : LeftWith(fs, r)[i] = fs[i]
         /\ LeftWith(fs, r)[Len(fs)] = With(Last(fs), r)
<1> DEFINE below == Front(fs)
           top   == With(Last(fs), r)
           n     == Len(below)
<1>1. /\ below \in Seq(Frames) /\ Len(below) = Len(fs) - 1 /\ Len(fs) \in Nat
      /\ \A i \in 1..Len(fs) - 1 : below[i] = fs[i]
      /\ Last(fs) \in Frames
  BY FrontLast
<1>2. top \in Frames
  BY <1>1, WithIs
<1>3. Len(fs) = n + 1 /\ Len(fs) - 1 = n /\ n \in Nat
  BY <1>1
<1> HIDE DEF below, top
<1>4. /\ Append(below, top) \in Seq(Frames) /\ Len(Append(below, top)) = n + 1
      /\ \A i \in 1..n : Append(below, top)[i] = below[i]
      /\ Append(below, top)[n + 1] = top
  BY <1>1, <1>2
<1>5. LeftWith(fs, r) = Append(below, top)
  BY DEF LeftWith, below, top
<1> HIDE DEF n
<1> QED
  BY <1>1, <1>3, <1>4, <1>5, Zenon DEF top

(* The frame on top is gone, the one below has one result more.            *)
LEMMA PoppedAt ==
  ASSUME NEW fs \in Seq(Frames), Len(fs) >= 2, NEW r \in Results
  PROVE  /\ PoppedWith(fs, r) \in Seq(Frames) /\ Len(PoppedWith(fs, r)) = Len(fs) - 1
         /\ \A i \in 1..Len(fs) - 2 : PoppedWith(fs, r)[i] = fs[i]
         /\ PoppedWith(fs, r)[Len(fs) - 1] = With(fs[Len(fs) - 1], r)
<1> DEFINE gs == Front(fs)
           n  == Len(gs)
<1>1. /\ gs \in Seq(Frames) /\ gs # << >> /\ Len(gs) = Len(fs) - 1 /\ Len(fs) \in Nat
      /\ \A i \in 1..Len(fs) - 1 : gs[i] = fs[i]
  BY FrontLast
<1>2. PoppedWith(fs, r) = LeftWith(gs, r)
  BY DEF PoppedWith, LeftWith
<1>3. Len(fs) - 1 = n /\ Len(fs) - 2 = n - 1 /\ n \in 1..n /\ n - 1 \in Nat /\ \A i \in 1..n - 1 : i \in 1..n
  BY <1>1
<1> HIDE DEF gs
<1>4. /\ LeftWith(gs, r) \in Seq(Frames) /\ Len(LeftWith(gs, r)) = n
      /\ \A i \in 1..n - 1 : LeftWith(gs, r)[i] = gs[i]
      /\ LeftWith(gs, r)[n] = With(Last(gs), r)
  BY <1>1, LeftAt
<1>5. Last(gs) = gs[n] /\ gs[n] = fs[n] /\ \A i \in 1..n - 1 : gs[i] = fs[i]
  <2>1. Last(gs) = gs[n]
    BY <1>1, FrontLast
  <2>2. \A i \in 1..n : gs[i] = fs[i]
    BY <1>1, <1>3
  <2> QED
    BY <1>3, <2>1, <2>2
<1> HIDE DEF n
<1>6. \A i \in 1..n - 1 : PoppedWith(fs, r)[i] = fs[i]
  BY <1>2, <1>4, <1>5
<1>7. PoppedWith(fs, r) \in Seq(Frames) /\ Len(PoppedWith(fs, r)) = n /\ PoppedWith(fs, r)[n] = With(fs[n], r)
  BY <1>2, <1>4, <1>5
<1> QED
  BY <1>3, <1>6, <1>7, Zenon

-----------------------------------------------------------------------------
(* The frames stay nested.                                                 *)

(* Under the unit there is a function or a declaration, and a declaration  *)
(* has no handler above it.                                                *)
LEMMA FramesFacts ==
  ASSUME NEW fs, FramesOK(fs)
  PROVE  /\ Len(fs) \in Nat /\ Len(fs) >= 1 /\ Len(fs) \in DOMAIN fs /\ DOMAIN fs = 1..Len(fs)
         /\ Last(fs) = fs[Len(fs)] /\ Last(fs) \in Frames /\ FrameOK(Last(fs))
         /\ fs[1].node.op = "unit"
         /\ Len(fs) >= 2 => fs[2].node.op \in {"func", "decl"}
         /\ \A i \in 1..Len(fs) - 1 : fs[i].node.op # "decl"
<1>1. fs \in Seq(Frames) /\ fs # << >>
  BY DEF FramesOK
<1>2. Len(fs) \in Nat /\ Len(fs) >= 1 /\ Len(fs) \in DOMAIN fs /\ DOMAIN fs = 1..Len(fs)
  BY <1>1
<1>3. Last(fs) = fs[Len(fs)] /\ Last(fs) \in Frames
  BY <1>1, FrontLast
<1>4. FrameOK(Last(fs))
  BY <1>2, <1>3 DEF FramesOK
<1>5. fs[1].node.op = "unit"
  BY <1>2 DEF FramesOK
<1>6. ASSUME NEW i \in 1..Len(fs) - 1
      PROVE  \E k \in DOMAIN fs[i].node.sons : fs[i].node.sons[k] = fs[i + 1].node /\ fs[i + 1].node.op \in Handled
  <2>1. i \in DOMAIN fs /\ i + 1 \in DOMAIN fs /\ fs[i] \in Frames
    BY <1>1, <1>2
  <2>2. NextSon(fs[i], fs[i + 1].node) /\ fs[i + 1].node.op \in Handled
    BY <2>1 DEF FramesOK, FrameOK
  <2>3. fs[i].sons \in Seq(Results) /\ fs[i].node.sons \in Seq(Nodes)
    BY <2>1, NodeShape DEF Frames
  <2>4. Len(fs[i].sons) + 1 \in DOMAIN fs[i].node.sons
    BY <2>2, <2>3 DEF NextSon
  <2> QED
    BY <2>2, <2>4 DEF NextSon
<1>7. ASSUME NEW i \in 1..Len(fs) - 1, fs[i].node.op = "decl" PROVE FALSE
  <2>0. fs[i] \in Frames
    BY <1>1, <1>2
  <2>1. fs[i].node \in Nodes
    BY <2>0 DEF Frames
  <2>2. fs[i + 1].node.op = "vardecl" /\ fs[i + 1].node.op \in Handled
    BY <1>6, <1>7, <2>1, NodeShape
  <2> QED
    BY <2>2 DEF Handled
<1>8. ASSUME Len(fs) >= 2 PROVE fs[2].node.op \in {"func", "decl"}
  <2>1. 1 \in 1..Len(fs) - 1 /\ 1 + 1 = 2 /\ 1 \in DOMAIN fs
    BY <1>2, <1>8
  <2>0. fs[1] \in Frames
    BY <1>1, <2>1
  <2>2. fs[1].node \in Nodes
    BY <2>0 DEF Frames
  <2>3. \E k \in DOMAIN fs[1].node.sons : fs[1].node.sons[k] = fs[2].node
    BY <1>6, <2>1
  <2> QED
    BY <1>5, <2>2, <2>3, NodeShape
<1> QED
  BY <1>2, <1>3, <1>4, <1>5, <1>7, <1>8

(* A handler is entered.                                                   *)
LEMMA PushFrames ==
  ASSUME NEW fs, FramesOK(fs), NEW t \in Nodes, t.op \in Handled \ {"unit"}, NextSon(Last(fs), t),
         t.op = "func" => Len(fs) = 1
  PROVE  /\ FramesOK(Append(fs, Frame(t)))
         /\ Frame(t) \in Frames /\ Frame(t).node = t /\ Frame(t).sons = << >>
         /\ Len(Append(fs, Frame(t))) = Len(fs) + 1
         /\ \A i \in 1..Len(fs) : Append(fs, Frame(t))[i] = fs[i]
         /\ Append(fs, Frame(t))[Len(fs) + 1] = Frame(t)
<1> DEFINE fr == Frame(t)
           gs == Append(fs, fr)
           n  == Len(fs)
<1>1. fs \in Seq(Frames) /\ n \in Nat /\ n >= 1
  BY FramesFacts DEF FramesOK
<1>2. fr \in Frames /\ fr.node = t /\ fr.sons = << >>
  BY DEF Frame, Frames
<1> HIDE DEF fr
<1>3. /\ gs \in Seq(Frames) /\ Len(gs) = n + 1 /\ gs # << >> /\ DOMAIN gs = 1..n + 1
      /\ \A i \in 1..n : gs[i] = fs[i]
      /\ gs[n + 1] = fr
  BY <1>1, <1>2
<1>4. FrameOK(fr)
  <2>1. Code(<< >>) = << >>
    BY FlattenEmpty DEF Code
  <2>2. t.sons \in Seq(Nodes)
    BY NodeShape
  <2>3. Len(fr.sons) <= Len(fr.node.sons)
    BY <1>2, <2>2
  <2>4. Quiet(fr)
    BY <1>2, <2>1 DEF Quiet
  <2> QED
    BY <1>2, <2>3, <2>4 DEF FrameOK
<1> HIDE DEF gs
<1>5. DOMAIN fs = 1..n /\ Last(fs) = fs[n]
  BY FramesFacts
<1>6. ASSUME NEW i \in 1..n + 1
      PROVE  FrameOK(gs[i]) /\ (gs[i].node.op = "unit" <=> i = 1) /\ (gs[i].node.op = "func" => i = 2)
  <2>1. CASE i = n + 1
    <3>1. gs[i].node.op = t.op /\ t.op # "unit"
      BY <1>2, <1>3, <2>1
    <3>2. i # 1 /\ (n = 1 => i = 2)
      <4>1. n \in Nat /\ n >= 1
        BY <1>1
      <4> HIDE DEF n
      <4> QED
        BY <2>1, <4>1
    <3> QED
      BY <1>3, <1>4, <2>1, <3>1, <3>2
  <2>2. CASE i # n + 1
    <3>1. i \in 1..n
      BY <1>1, <2>2
    <3>2. gs[i] = fs[i] /\ i \in DOMAIN fs
      BY <1>3, <1>5, <3>1
    <3> QED
      BY <3>2 DEF FramesOK
  <2> QED
    BY <2>1, <2>2
<1>7. ASSUME NEW i \in 1..n PROVE NextSon(gs[i], gs[i + 1].node)
  <2>1. CASE i = n
    BY <1>2, <1>3, <1>5, <2>1
  <2>2. CASE i # n
    <3>1. i \in 1..n - 1 /\ i + 1 \in 1..n
      BY <1>1, <2>2
    <3>2. gs[i] = fs[i] /\ gs[i + 1] = fs[i + 1]
      BY <1>3, <3>1
    <3> QED
      BY <3>1, <3>2 DEF FramesOK
  <2> QED
    BY <2>1, <2>2
<1>8. Len(gs) - 1 = n
  BY <1>1, <1>3
<1>9. FramesOK(gs)
  BY <1>3, <1>6, <1>7, <1>8 DEF FramesOK
<1> QED
  BY <1>2, <1>3, <1>9 DEF gs, fr

(* A frame takes a result: it stays a frame.                               *)
LEMMA WithOK ==
  ASSUME NEW fr, FrameOK(fr), NEW r \in Results, Len(fr.sons) < Len(fr.node.sons),
         fr.node.op \in {"unit", "decl"} => r = Result(Null, << >>)
  PROVE  /\ FrameOK(With(fr, r))
         /\ Code(fr.sons) \in Seq(Insts)
         /\ Code(With(fr, r).sons) = Code(fr.sons) \o r.code
<1>1. /\ fr \in Frames /\ fr.sons \in Seq(Results) /\ fr.node \in Nodes
      /\ fr.node.sons \in Seq(Nodes)
  BY NodeShape DEF FrameOK, Frames
<1>2. /\ With(fr, r) \in Frames /\ With(fr, r).node = fr.node
      /\ With(fr, r).sons = Append(fr.sons, r)
  BY <1>1, WithIs
<1>3. Code(fr.sons) \in Seq(Insts) /\ Code(With(fr, r).sons) = Code(fr.sons) \o r.code
  BY <1>1, <1>2, CodeAppend
<1>4. Len(Append(fr.sons, r)) <= Len(fr.node.sons)
  BY <1>1
<1>5. Quiet(With(fr, r))
  <2>1. SUFFICES ASSUME fr.node.op \in {"unit", "decl"}
                 PROVE  /\ Code(With(fr, r).sons) = << >>
                        /\ \A k \in DOMAIN With(fr, r).sons : With(fr, r).sons[k] = Result(Null, << >>)
    BY <1>2 DEF Quiet
  <2>2. Code(fr.sons) = << >> /\ \A k \in DOMAIN fr.sons : fr.sons[k] = Result(Null, << >>)
    BY <2>1 DEF FrameOK, Quiet
  <2>3. r = Result(Null, << >>) /\ r.code = << >>
    BY <2>1 DEF Result
  <2>4. Code(With(fr, r).sons) = << >>
    BY <1>3, <2>2, <2>3
  <2> DEFINE ss == fr.sons
             rr == Result(Null, << >>)
  <2>5. ss \in Seq(Results) /\ rr \in Results /\ \A k \in DOMAIN ss : ss[k] = rr
    BY <1>1, <2>2, <2>3
  <2> HIDE DEF ss, rr
  <2>6. \A k \in DOMAIN Append(ss, rr) : Append(ss, rr)[k] = rr
    BY <2>5
  <2> QED
    BY <1>2, <2>3, <2>4, <2>6 DEF ss, rr
<1> QED
  BY <1>2, <1>3, <1>4, <1>5 DEF FrameOK

(* A leaf was visited.                                                     *)
LEMMA LeftFrames ==
  ASSUME NEW fs, FramesOK(fs), NEW r \in Results, Len(Last(fs).sons) < Len(Last(fs).node.sons),
         Last(fs).node.op \in {"unit", "decl"} => r = Result(Null, << >>)
  PROVE  FramesOK(LeftWith(fs, r))
<1> DEFINE gs == LeftWith(fs, r)
           n  == Len(fs)
<1>1. /\ fs \in Seq(Frames) /\ fs # << >> /\ n \in Nat /\ n >= 1 /\ DOMAIN fs = 1..n
      /\ Last(fs) = fs[n] /\ Last(fs) \in Frames /\ FrameOK(Last(fs))
  BY FramesFacts DEF FramesOK
<1>2. /\ gs \in Seq(Frames) /\ Len(gs) = n
      /\ \A i \in 1..n - 1 : gs[i] = fs[i]
      /\ gs[n] = With(Last(fs), r)
  BY <1>1, LeftAt
<1>3. FrameOK(gs[n]) /\ gs[n].node = fs[n].node
  <2> DEFINE fr == Last(fs)
  <2>1. fr \in Frames /\ FrameOK(fr) /\ Len(fr.sons) < Len(fr.node.sons)
        /\ (fr.node.op \in {"unit", "decl"} => r = Result(Null, << >>))
    BY <1>1
  <2> HIDE DEF fr
  <2>2. FrameOK(With(fr, r)) /\ With(fr, r).node = fr.node
    BY <2>1, WithOK, WithIs
  <2> QED
    BY <1>1, <1>2, <2>2 DEF fr
<1> HIDE DEF gs
<1>4. gs # << >> /\ DOMAIN gs = 1..n
  BY <1>1, <1>2
<1>5. ASSUME NEW i \in 1..n PROVE FrameOK(gs[i]) /\ gs[i].node = fs[i].node
  <2>1. CASE i = n
    BY <1>3, <2>1
  <2>2. CASE i # n
    <3>0. n \in Nat
      BY <1>1
    <3>1. i \in 1..n - 1
      <4> HIDE DEF n
      <4> QED
        BY <2>2, <3>0
    <3> QED
      BY <1>1, <1>2, <3>1 DEF FramesOK
  <2> QED
    BY <2>1, <2>2
<1>6. ASSUME NEW i \in 1..n - 1 PROVE NextSon(gs[i], gs[i + 1].node)
  <2>1. i + 1 \in 1..n
    BY <1>1
  <2> QED
    BY <1>2, <1>5, <2>1 DEF FramesOK
<1>7. \A i \in 1..n : (gs[i].node.op = "unit" <=> i = 1) /\ (gs[i].node.op = "func" => i = 2)
  BY <1>1, <1>5 DEF FramesOK
<1> HIDE DEF n
<1>8. FramesOK(gs)
  BY <1>2, <1>4, <1>5, <1>6, <1>7 DEF FramesOK
<1> QED
  BY <1>8 DEF gs

(* A handler returned: not even a function leaves anything in the unit.    *)
LEMMA PoppedFrames ==
  ASSUME NEW fs, FramesOK(fs), Len(fs) >= 2, NEW r \in Results,
         Len(fs) = 2 => r = Result(Null, << >>)
  PROVE  FramesOK(PoppedWith(fs, r))
<1> DEFINE gs == PoppedWith(fs, r)
           n  == Len(fs) - 1
<1>1. fs \in Seq(Frames) /\ n \in Nat /\ n >= 1 /\ Len(fs) = n + 1 /\ DOMAIN fs = 1..n + 1
      /\ Len(fs) - 2 = n - 1
  BY FramesFacts DEF FramesOK
<1>2. /\ gs \in Seq(Frames) /\ Len(gs) = n
      /\ \A i \in 1..n - 1 : gs[i] = fs[i]
      /\ gs[n] = With(fs[n], r)
  BY <1>1, PoppedAt, ZenonT(40)
<1>3. FrameOK(gs[n]) /\ gs[n].node = fs[n].node
  <2>1. n \in 1..Len(fs) - 1 /\ n \in DOMAIN fs
    BY <1>1
  <2>2. FrameOK(fs[n]) /\ Len(fs[n].sons) < Len(fs[n].node.sons)
    BY <2>1 DEF FramesOK, NextSon
  <2>3. fs[n].node.op \in {"unit", "decl"} => r = Result(Null, << >>)
    <3>1. fs[n].node.op # "decl"
      BY <2>1, FramesFacts
    <3>2. fs[n].node.op = "unit" => n = 1
      BY <2>1 DEF FramesOK
    <3> QED
      BY <1>1, <3>1, <3>2
  <2>4. fs[n] \in Frames
    BY <2>2 DEF FrameOK
  <2> QED
    BY <1>2, <2>2, <2>3, <2>4, WithOK, WithIs, ZenonT(40)
<1> HIDE DEF gs, n
<1>4. gs # << >> /\ DOMAIN gs = 1..n
  BY <1>1, <1>2
<1>5. ASSUME NEW i \in 1..n PROVE FrameOK(gs[i]) /\ gs[i].node = fs[i].node
  <2>1. CASE i = n
    BY <1>3, <2>1
  <2>2. CASE i # n
    <3>1. i \in 1..n - 1 /\ i \in DOMAIN fs
      BY <1>1, <2>2
    <3> QED
      BY <1>2, <3>1 DEF FramesOK
  <2> QED
    BY <2>1, <2>2
<1>6. ASSUME NEW i \in 1..n - 1 PROVE NextSon(gs[i], gs[i + 1].node)
  <2>1. i + 1 \in 1..n /\ i \in 1..Len(fs) - 1
    BY <1>1
  <2> QED
    BY <1>2, <1>5, <2>1 DEF FramesOK
<1>7. \A i \in 1..n : (gs[i].node.op = "unit" <=> i = 1) /\ (gs[i].node.op = "func" => i = 2)
  <2>1. \A i \in 1..n : i \in DOMAIN fs
    BY <1>1
  <2> QED
    BY <1>5, <2>1 DEF FramesOK
<1>8. FramesOK(gs)
  BY <1>2, <1>4, <1>5, <1>6, <1>7 DEF FramesOK
<1> QED
  BY <1>8 DEF gs

-----------------------------------------------------------------------------
(* The symbol table, one lemma per method.                                 *)

(* What was registered stays registered.                                   *)
Grows(st, su) ==
  /\ DOMAIN st.globals \subseteq DOMAIN su.globals
  /\ st.constInts \subseteq su.constInts
  /\ DOMAIN st.varsVector \subseteq DOMAIN su.varsVector
  /\ \A f \in DOMAIN st.varsVector : DOMAIN st.varsVector[f] \subseteq DOMAIN su.varsVector[f]

(* So do its variables.                                                    *)
LEMMA HeldGrows ==
  ASSUME NEW st, NEW su, Grows(st, su), NEW f, NEW v
  PROVE  /\ IsGlobal(st, v) => IsGlobal(su, v)
         /\ IsLocal(st, f, v) => IsLocal(su, f, v)
         /\ Held(st, f, v) => Held(su, f, v)
BY DEF Grows, IsGlobal, IsLocal, IsConst, Held

(* Growth is transitive.                                                   *)
LEMMA GrowsTrans ==
  ASSUME NEW st, NEW su, NEW sv, Grows(st, su), Grows(su, sv)
  PROVE  Grows(st, sv)
BY DEF Grows

(* unordered_map::insert returns a map of the same type, with one key more. *)
LEMMA InsertMap ==
  ASSUME NEW K, NEW V, NEW map \in Table!Maps(K, V), NEW k \in K, NEW v \in V
  PROVE  /\ Table!Insert(map, k, v) \in Table!Maps(K, V)
         /\ DOMAIN Table!Insert(map, k, v) = DOMAIN map \cup {k}
         /\ \A j \in DOMAIN map : Table!Insert(map, k, v)[j] = map[j]
         /\ k \notin DOMAIN map => Table!Insert(map, k, v)[k] = v
<1>1. PICK S \in SUBSET K : map \in [S -> V]
  BY DEF Table!Maps
<1>2. Table!Insert(map, k, v) \in [S \cup {k} -> V]
  BY <1>1 DEF Table!Insert
<1>3. S \cup {k} \in SUBSET K
  OBVIOUS
<1>4. Table!Insert(map, k, v) \in Table!Maps(K, V)
  BY <1>2, <1>3 DEF Table!Maps
<1> QED
  BY <1>4 DEF Table!Insert

(* An empty scope.                                                         *)
LEMMA NoEntriesScope == Table!NoEntries \in Scopes /\ DOMAIN Table!NoEntries = {}
<1>1. Table!NoEntries \in [{} -> IRValues] /\ DOMAIN Table!NoEntries = {}
  BY DEF Table!NoEntries
<1> QED
  BY <1>1, {} \in SUBSET Identifiers DEF Scopes, Table!Maps

(* The fields of a table.                                                  *)
LEMMA TableFields ==
  ASSUME NEW st \in Tables
  PROVE  /\ st.valueStack \in Seq(Scopes)
         /\ st.currentFunc \in Callees \cup {NoFunc}
         /\ st.funcMap \in Table!Maps(Callees, Table!FuncTypes)
         /\ st.funcVector \in Seq(Callees)
         /\ st.varsVector \in Table!Maps(Callees, Seq(Variables))
         /\ st.globals \in Seq(Identifiers)
         /\ st.constInts \in SUBSET Int
BY DEF Tables

(* A scope is opened.                                                      *)
LEMMA EnterScopeOK ==
  ASSUME NEW st, TableOK(st)
  PROVE  LET su == Table!EnterScope(st)
         IN  /\ TableOK(su) /\ Grows(st, su)
             /\ Len(su.valueStack) = Len(st.valueStack) + 1
             /\ su.valueStack[Len(su.valueStack)] = Table!NoEntries
             /\ su.currentFunc = st.currentFunc /\ su.funcMap = st.funcMap /\ su.varsVector = st.varsVector
<1> DEFINE su    == Table!EnterScope(st)
           stack == st.valueStack
           new   == Table!NoEntries
           n     == Len(stack)
<1>1. st \in Tables /\ stack \in Seq(Scopes) /\ new \in Scopes /\ DOMAIN new = {} /\ n \in Nat
  BY TableFields, NoEntriesScope DEF TableOK
<1> HIDE DEF new
<1>2. /\ Append(stack, new) \in Seq(Scopes) /\ Len(Append(stack, new)) = n + 1
      /\ \A i \in 1..n : Append(stack, new)[i] = stack[i]
      /\ Append(stack, new)[n + 1] = new
      /\ DOMAIN Append(stack, new) = 1..n + 1 /\ Append(stack, new) # << >>
  BY <1>1
<1>3. /\ su = [st EXCEPT !.valueStack = Append(stack, new)]
      /\ su.valueStack = Append(stack, new)
      /\ su.currentFunc = st.currentFunc /\ su.funcMap = st.funcMap /\ su.funcVector = st.funcVector
      /\ su.varsVector = st.varsVector /\ su.globals = st.globals /\ su.constInts = st.constInts
  BY <1>1 DEF Table!EnterScope, Tables, new
<1>4. su \in Tables
  BY <1>1, <1>2, <1>3 DEF Tables
<1> HIDE DEF su
<1>5. ASSUME NEW i \in DOMAIN su.valueStack, NEW m \in DOMAIN su.valueStack[i]
      PROVE  IF i = 1 THEN IsGlobal(su, su.valueStack[i][m]) ELSE IsLocal(su, su.currentFunc, su.valueStack[i][m])
  <2>1. i # n + 1
    BY <1>1, <1>2, <1>3, <1>5
  <2>2. i \in 1..n + 1
    BY <1>2, <1>3
  <2>3. i \in 1..n
    <3> HIDE DEF n
    <3> QED
      BY <1>1, <2>1, <2>2
  <2>4. i \in DOMAIN stack /\ su.valueStack[i] = stack[i]
    BY <1>1, <1>2, <1>3, <2>3
  <2> QED
    BY <1>3, <2>4 DEF TableOK, Registered, IsGlobal, IsLocal
<1>6. TableOK(su)
  BY <1>2, <1>3, <1>4, <1>5 DEF TableOK, Registered
<1>7. Grows(st, su)
  BY <1>3 DEF Grows
<1> QED
  BY <1>2, <1>3, <1>6, <1>7 DEF su, new

(* A scope is closed that is not the outermost.                            *)
LEMMA LeaveScopeOK ==
  ASSUME NEW st, TableOK(st), Len(st.valueStack) >= 2
  PROVE  LET su == Table!LeaveScope(st)
         IN  /\ TableOK(su) /\ Grows(st, su)
             /\ Len(su.valueStack) = Len(st.valueStack) - 1
             /\ su.currentFunc = st.currentFunc /\ su.funcMap = st.funcMap /\ su.varsVector = st.varsVector
<1> DEFINE su    == Table!LeaveScope(st)
           stack == st.valueStack
           rest  == SubSeq(stack, 1, Len(stack) - 1)
           n     == Len(stack) - 1
<1>1. st \in Tables /\ stack \in Seq(Scopes) /\ stack # << >> /\ n \in Nat /\ n >= 1
  BY TableFields DEF TableOK
<1>2. rest = Front(stack)
  BY DEF Front
<1>3. rest \in Seq(Scopes) /\ Len(rest) = n /\ \A i \in 1..n : rest[i] = stack[i]
  BY <1>1, <1>2, FrontLast
<1> HIDE DEF rest
<1>4. rest # << >> /\ DOMAIN rest = 1..n /\ \A i \in 1..n : i \in DOMAIN stack
  BY <1>1, <1>3
<1>5. /\ su = [st EXCEPT !.valueStack = rest]
      /\ su.valueStack = rest
      /\ su.currentFunc = st.currentFunc /\ su.funcMap = st.funcMap /\ su.funcVector = st.funcVector
      /\ su.varsVector = st.varsVector /\ su.globals = st.globals /\ su.constInts = st.constInts
  BY <1>1 DEF Table!LeaveScope, Tables, rest
<1>6. su \in Tables
  BY <1>1, <1>3, <1>5 DEF Tables
<1> HIDE DEF su
<1>7. ASSUME NEW i \in DOMAIN su.valueStack, NEW m \in DOMAIN su.valueStack[i]
      PROVE  IF i = 1 THEN IsGlobal(su, su.valueStack[i][m]) ELSE IsLocal(su, su.currentFunc, su.valueStack[i][m])
  <2>1. i \in DOMAIN stack /\ su.valueStack[i] = stack[i]
    BY <1>3, <1>4, <1>5
  <2> QED
    BY <1>5, <2>1 DEF TableOK, Registered, IsGlobal, IsLocal
<1>8. TableOK(su)
  BY <1>4, <1>5, <1>6, <1>7 DEF TableOK, Registered
<1>9. Grows(st, su)
  BY <1>5 DEF Grows
<1> QED
  BY <1>3, <1>5, <1>8, <1>9 DEF su

(* The current function is set, while only the outermost scope is open or  *)
(* the scopes of the function are about to be closed.                      *)
LEMMA SetCurrentFunctionOK ==
  ASSUME NEW st, TableOK(st), NEW f \in Callees \cup {NoFunc}, f # NoFunc => f \in DOMAIN st.funcMap,
         Len(st.valueStack) = 1
  PROVE  LET su == Table!SetCurrentFunction(st, f)
         IN  /\ TableOK(su) /\ Grows(st, su)
             /\ su.valueStack = st.valueStack
             /\ su.currentFunc = f /\ su.funcMap = st.funcMap /\ su.varsVector = st.varsVector
<1> DEFINE su == Table!SetCurrentFunction(st, f)
<1>1. st \in Tables /\ st.valueStack \in Seq(Scopes)
  BY TableFields DEF TableOK
<1>2. /\ su.valueStack = st.valueStack /\ su.currentFunc = f
      /\ su.funcMap = st.funcMap /\ su.funcVector = st.funcVector
      /\ su.varsVector = st.varsVector /\ su.globals = st.globals /\ su.constInts = st.constInts
  BY <1>1 DEF Table!SetCurrentFunction, Tables
<1>3. su \in Tables
  BY <1>1 DEF Table!SetCurrentFunction, Tables
<1> HIDE DEF su
<1>4. \A i \in DOMAIN su.valueStack : i = 1
  BY <1>1, <1>2
<1>5. Registered(su)
  BY <1>2, <1>4 DEF TableOK, Registered, IsGlobal, IsLocal
<1>6. TableOK(su)
  BY <1>2, <1>3, <1>5 DEF TableOK
<1>7. Grows(st, su)
  BY <1>2 DEF Grows
<1> QED
  BY <1>2, <1>6, <1>7 DEF su

(* A function that is not there yet is entered.                            *)
LEMMA NewFunctionOK ==
  ASSUME NEW st, TableOK(st), NEW f \in Callees, f \notin DOMAIN st.funcMap, NEW s \in Table!FuncTypes
  PROVE  LET su == Table!NewFunction(st, f, s)
         IN  /\ TableOK(su) /\ Grows(st, su)
             /\ su.valueStack = st.valueStack
             /\ su.currentFunc = st.currentFunc /\ DOMAIN su.funcMap = DOMAIN st.funcMap \cup {f}
<1> DEFINE su == Table!NewFunction(st, f, s)
<1>1. st \in Tables
  BY DEF TableOK
<1>2. /\ su.valueStack = st.valueStack /\ su.currentFunc = st.currentFunc
      /\ su.funcMap = Table!Insert(st.funcMap, f, s)
      /\ su.funcVector = Append(st.funcVector, f)
      /\ su.varsVector = Table!Insert(st.varsVector, f, << >>)
      /\ su.globals = st.globals /\ su.constInts = st.constInts
  BY <1>1 DEF Table!NewFunction, Table!FindFunction, Tables
<1>3. /\ su.funcMap \in Table!Maps(Callees, Table!FuncTypes)
      /\ DOMAIN su.funcMap = DOMAIN st.funcMap \cup {f}
  <2> HIDE DEF su
  <2>1. st.funcMap \in Table!Maps(Callees, Table!FuncTypes)
    BY <1>1, TableFields
  <2>2. /\ Table!Insert(st.funcMap, f, s) \in Table!Maps(Callees, Table!FuncTypes)
        /\ DOMAIN Table!Insert(st.funcMap, f, s) = DOMAIN st.funcMap \cup {f}
    <3> DEFINE K   == Callees
               V   == Table!FuncTypes
               map == st.funcMap
    <3>1. map \in Table!Maps(K, V) /\ f \in K /\ s \in V
      BY <2>1
    <3> HIDE DEF K, V, map
    <3>2. /\ Table!Insert(map, f, s) \in Table!Maps(K, V)
          /\ DOMAIN Table!Insert(map, f, s) = DOMAIN map \cup {f}
      BY <3>1, InsertMap, SMTT(40)
    <3> QED
      BY <3>2 DEF K, V, map
  <2>3. su.funcMap = Table!Insert(st.funcMap, f, s)
    BY <1>2
  <2> QED
    BY <2>2, <2>3, Zenon
<1>4. /\ su.varsVector \in Table!Maps(Callees, Seq(Variables))
      /\ DOMAIN su.varsVector = DOMAIN st.varsVector \cup {f}
      /\ \A g \in DOMAIN st.varsVector : su.varsVector[g] = st.varsVector[g]
  <2> HIDE DEF su
  <2>1. st.varsVector \in Table!Maps(Callees, Seq(Variables)) /\ << >> \in Seq(Variables)
    BY <1>1, TableFields
  <2>2. /\ Table!Insert(st.varsVector, f, << >>) \in Table!Maps(Callees, Seq(Variables))
        /\ DOMAIN Table!Insert(st.varsVector, f, << >>) = DOMAIN st.varsVector \cup {f}
        /\ \A g \in DOMAIN st.varsVector : Table!Insert(st.varsVector, f, << >>)[g] = st.varsVector[g]
    <3> DEFINE K   == Callees
               V   == Seq(Variables)
               map == st.varsVector
               new == << >>
    <3>1. map \in Table!Maps(K, V) /\ f \in K /\ new \in V
      BY <2>1
    <3> HIDE DEF K, V, map, new
    <3>2. /\ Table!Insert(map, f, new) \in Table!Maps(K, V)
          /\ DOMAIN Table!Insert(map, f, new) = DOMAIN map \cup {f}
          /\ \A g \in DOMAIN map : Table!Insert(map, f, new)[g] = map[g]
      BY <3>1, InsertMap
    <3> QED
      BY <3>2 DEF K, V, map, new
  <2>3. su.varsVector = Table!Insert(st.varsVector, f, << >>)
    BY <1>2
  <2> QED
    BY <2>2, <2>3, Zenon
<1>5. su.funcVector \in Seq(Callees)
  <2>1. st.funcVector \in Seq(Callees)
    BY <1>1, TableFields
  <2> QED
    BY <1>2, <2>1
<1>6. su \in Tables
  <2>1. su = [st EXCEPT !.funcMap = su.funcMap, !.funcVector = su.funcVector, !.varsVector = su.varsVector]
    BY <1>1 DEF Table!NewFunction, Table!FindFunction, Tables
  <2> HIDE DEF su
  <2> QED
    BY <1>1, <1>3, <1>4, <1>5, <2>1 DEF Tables
<1> HIDE DEF su
<1>7. Grows(st, su)
  BY <1>2, <1>4 DEF Grows
<1>8. Registered(su)
  BY <1>2, <1>7, HeldGrows DEF TableOK, Registered
<1>9. TableOK(su)
  BY <1>2, <1>3, <1>4, <1>6, <1>8 DEF TableOK
<1> QED
  BY <1>2, <1>3, <1>7, <1>9 DEF su

(* A constant is registered.                                               *)
LEMMA NewConstIntOK ==
  ASSUME NEW st, TableOK(st), NEW i \in Int
  PROVE  LET su == Table!NewConstInt(st, i)
         IN  /\ TableOK(su) /\ Grows(st, su)
             /\ su.valueStack = st.valueStack
             /\ su.currentFunc = st.currentFunc /\ su.funcMap = st.funcMap /\ su.varsVector = st.varsVector
             /\ i \in su.constInts
<1> DEFINE su == Table!NewConstInt(st, i)
<1>1. st \in Tables
  BY DEF TableOK
<1>2. /\ su.valueStack = st.valueStack /\ su.currentFunc = st.currentFunc
      /\ su.funcMap = st.funcMap /\ su.funcVector = st.funcVector
      /\ su.varsVector = st.varsVector /\ su.globals = st.globals
      /\ su.constInts = st.constInts \cup {i}
  BY <1>1 DEF Table!NewConstInt, Tables
<1>3. su \in Tables
  BY <1>1 DEF Table!NewConstInt, Tables
<1> HIDE DEF su
<1>4. Grows(st, su)
  BY <1>2 DEF Grows
<1>5. Registered(su)
  BY <1>2, <1>4, HeldGrows DEF TableOK, Registered
<1>6. TableOK(su)
  BY <1>2, <1>3, <1>5 DEF TableOK
<1> QED
  BY <1>2, <1>4, <1>6 DEF su

(* A name is entered in the innermost scope.                               *)
LEMMA InsertValueOK ==
  ASSUME NEW st, TableOK(st), NEW m \in Identifiers, NEW v \in IRValues,
         IF Len(st.valueStack) = 1 THEN IsGlobal(st, v) ELSE IsLocal(st, st.currentFunc, v)
  PROVE  LET su == Table!InsertValue(st, m, v)
         IN  /\ TableOK(su) /\ Grows(st, su)
             /\ Len(su.valueStack) = Len(st.valueStack)
             /\ su.valueStack[Len(su.valueStack)] = Table!Insert(st.valueStack[Len(st.valueStack)], m, v)
             /\ su.currentFunc = st.currentFunc /\ su.funcMap = st.funcMap /\ su.varsVector = st.varsVector
             /\ su.globals = st.globals
<1> DEFINE su    == Table!InsertValue(st, m, v)
           stack == st.valueStack
           n     == Len(stack)
           new   == Table!Insert(stack[n], m, v)
           after == [stack EXCEPT ![n] = new]
<1>1. st \in Tables /\ stack \in Seq(Scopes) /\ stack # << >> /\ n \in Nat /\ n >= 1 /\ DOMAIN stack = 1..n /\ n \in DOMAIN stack
  BY TableFields DEF TableOK
<1>2. /\ new \in Scopes
      /\ \A k \in DOMAIN new : (k \in DOMAIN stack[n] /\ new[k] = stack[n][k]) \/ new[k] = v
  <2> DEFINE old == stack[n]
  <2>1. old \in Table!Maps(Identifiers, IRValues)
    BY <1>1 DEF Scopes
  <2> HIDE DEF old
  <2>2. Table!Insert(old, m, v) \in Table!Maps(Identifiers, IRValues)
    BY <2>1, InsertMap
  <2>3. \A k \in DOMAIN Table!Insert(old, m, v) :
          (k \in DOMAIN old /\ Table!Insert(old, m, v)[k] = old[k]) \/ Table!Insert(old, m, v)[k] = v
    BY DEF Table!Insert
  <2> QED
    BY <2>2, <2>3 DEF Scopes, old
<1>3. su = [st EXCEPT !.valueStack = after]
  BY <1>1 DEF Table!InsertValue
<1> HIDE DEF new
<1>4. /\ after \in Seq(Scopes) /\ Len(after) = n /\ DOMAIN after = 1..n /\ after # << >>
      /\ after[n] = new /\ \A i \in 1..n : i # n => after[i] = stack[i]
  BY <1>1, <1>2
<1> HIDE DEF after
<1>5. /\ su.valueStack = after
      /\ su.currentFunc = st.currentFunc /\ su.funcMap = st.funcMap /\ su.funcVector = st.funcVector
      /\ su.varsVector = st.varsVector /\ su.globals = st.globals /\ su.constInts = st.constInts
  BY <1>1, <1>3 DEF Tables
<1>6. su \in Tables
  BY <1>1, <1>3, <1>4 DEF Tables
<1> HIDE DEF su
<1>7. ASSUME NEW i \in 1..n, NEW k \in DOMAIN after[i]
      PROVE  IF i = 1 THEN IsGlobal(st, after[i][k]) ELSE IsLocal(st, st.currentFunc, after[i][k])
  <2>1. CASE i # n \/ after[i][k] # v
    <3>1. k \in DOMAIN stack[i] /\ after[i][k] = stack[i][k] /\ i \in DOMAIN stack
      BY <1>1, <1>2, <1>4, <1>7, <2>1
    <3> QED
      BY <3>1 DEF TableOK, Registered
  <2>2. CASE i = n /\ after[i][k] = v
    BY <2>2
  <2> QED
    BY <2>1, <2>2
<1>8. Registered(su)
  BY <1>4, <1>5, <1>7 DEF Registered, IsGlobal, IsLocal
<1>9. TableOK(su)
  BY <1>4, <1>5, <1>6, <1>8 DEF TableOK
<1>10. Grows(st, su)
  BY <1>5 DEF Grows
<1> QED
  BY <1>4, <1>5, <1>9, <1>10 DEF su, new

(* A local variable at the end of the list of the current function.        *)
LEMMA NewLocalVarValueOK ==
  ASSUME NEW st, TableOK(st), st.currentFunc # NoFunc, NEW m \in Identifiers,
         NEW level \in Int, NEW size \in Int
  PROVE  LET su == Table!NewLocalVarValue(st, m, level, size)
             v  == Table!LocalVar(st.currentFunc, Len(st.varsVector[st.currentFunc]) + 1)
         IN  /\ TableOK(su) /\ Grows(st, su)
             /\ su.valueStack = st.valueStack
             /\ su.currentFunc = st.currentFunc /\ su.funcMap = st.funcMap
             /\ v \in IRValues /\ IsLocal(su, st.currentFunc, v)
<1> DEFINE su   == Table!NewLocalVarValue(st, m, level, size)
           f    == st.currentFunc
           vars0 == st.varsVector
           e    == [name |-> m, level |-> level, size |-> size]
           list == Append(vars0[f], e)
           v    == Table!LocalVar(f, Len(vars0[f]) + 1)
<1>1. st \in Tables /\ f \in Callees /\ f \in DOMAIN vars0
  BY TableFields DEF TableOK
<1>2. PICK S \in SUBSET Callees : vars0 \in [S -> Seq(Variables)]
  BY <1>1, TableFields DEF Table!Maps
<1>3. vars0[f] \in Seq(Variables) /\ e \in Variables
  BY <1>1, <1>2 DEF Variables
<1> HIDE DEF e
<1>4. /\ list \in Seq(Variables) /\ Len(list) = Len(vars0[f]) + 1 /\ Len(vars0[f]) \in Nat
      /\ DOMAIN list = 1..Len(vars0[f]) + 1 /\ DOMAIN vars0[f] = 1..Len(vars0[f])
  BY <1>3
<1> DEFINE after == [vars0 EXCEPT ![f] = list]
<1>5. su = [st EXCEPT !.varsVector = after]
  BY DEF Table!NewLocalVarValue, e
<1>5a. Len(vars0[f]) + 1 \in Int /\ Len(vars0[f]) + 1 \in 1..Len(vars0[f]) + 1 /\ DOMAIN vars0[f] \subseteq DOMAIN list
  BY <1>4
<1> HIDE DEF list
<1>6. /\ after \in [S -> Seq(Variables)] /\ DOMAIN after = DOMAIN vars0
      /\ after[f] = list /\ \A g \in DOMAIN vars0 : g # f => after[g] = vars0[g]
  BY <1>1, <1>2, <1>4
<1> HIDE DEF after
<1>7. /\ su.varsVector = after
      /\ su.currentFunc = st.currentFunc /\ su.funcMap = st.funcMap /\ su.funcVector = st.funcVector
      /\ su.valueStack = st.valueStack /\ su.globals = st.globals /\ su.constInts = st.constInts
  BY <1>1, <1>5 DEF Tables
<1>8. su \in Tables
  <2>1. after \in Table!Maps(Callees, Seq(Variables))
    BY <1>2, <1>6 DEF Table!Maps
  <2> QED
    BY <1>1, <1>5, <2>1 DEF Tables
<1>9. v.kind = "local" /\ v.func = f /\ v.id = Len(vars0[f]) + 1 /\ v \in IRValues
  BY <1>1, <1>5a DEF Table!LocalVar, Table!Value, IRValues, Identifiers, Callees
<1> HIDE DEF su, v
<1>10. Grows(st, su)
  BY <1>5a, <1>6, <1>7 DEF Grows
<1>11. IsLocal(su, f, v)
  BY <1>1, <1>4, <1>5a, <1>6, <1>7, <1>9 DEF IsLocal
<1>12. Registered(su)
  BY <1>7, <1>10, HeldGrows DEF TableOK, Registered
<1>13. TableOK(su)
  BY <1>6, <1>7, <1>8, <1>12 DEF TableOK
<1> QED
  BY <1>7, <1>9, <1>10, <1>11, <1>13 DEF su, v

(* A global variable at the end of the list.                               *)
LEMMA NewGlobalVariableOK ==
  ASSUME NEW st, TableOK(st), NEW m \in Identifiers
  PROVE  LET su == Table!NewGlobalVariable(st, m)
             v  == Table!GlobalVar(Len(st.globals) + 1)
         IN  /\ TableOK(su) /\ Grows(st, su)
             /\ su.valueStack = st.valueStack
             /\ su.currentFunc = st.currentFunc /\ su.funcMap = st.funcMap /\ su.varsVector = st.varsVector
             /\ v \in IRValues /\ IsGlobal(su, v)
<1> DEFINE su == Table!NewGlobalVariable(st, m)
           v  == Table!GlobalVar(Len(st.globals) + 1)
           gs == st.globals
           after == Append(gs, m)
<1>1. st \in Tables /\ gs \in Seq(Identifiers)
  BY TableFields DEF TableOK
<1>2. /\ after \in Seq(Identifiers) /\ DOMAIN after = 1..Len(gs) + 1
      /\ DOMAIN gs \subseteq DOMAIN after /\ Len(gs) + 1 \in DOMAIN after /\ Len(gs) + 1 \in Int
  BY <1>1
<1>3. su = [st EXCEPT !.globals = after]
  BY DEF Table!NewGlobalVariable
<1> HIDE DEF after
<1>4. /\ su.globals = after
      /\ su.currentFunc = st.currentFunc /\ su.funcMap = st.funcMap /\ su.funcVector = st.funcVector
      /\ su.valueStack = st.valueStack /\ su.varsVector = st.varsVector /\ su.constInts = st.constInts
  BY <1>1, <1>3 DEF Tables
<1>5. su \in Tables
  BY <1>1, <1>2, <1>3 DEF Tables
<1>6. v.kind = "global" /\ v.id = Len(gs) + 1 /\ v \in IRValues
  BY <1>2 DEF Table!GlobalVar, Table!Value, IRValues
<1> HIDE DEF su, v
<1>7. Grows(st, su)
  BY <1>2, <1>4 DEF Grows
<1>8. IsGlobal(su, v)
  BY <1>2, <1>4, <1>6 DEF IsGlobal
<1>9. Registered(su)
  BY <1>4, <1>7, HeldGrows DEF TableOK, Registered
<1>10. TableOK(su)
  BY <1>4, <1>5, <1>9 DEF TableOK
<1> QED
  BY <1>4, <1>6, <1>7, <1>8, <1>10 DEF su, v

(* A variable is declared, or refused.                                     *)
LEMMA NewVarValueOK ==
  ASSUME NEW st, TableOK(st), NEW m \in Identifiers, NEW size \in Int,
         st.currentFunc = NoFunc <=> Len(st.valueStack) = 1
  PROVE  LET su == Table!NewVarValue(st, m, size)
         IN  /\ TableOK(su) /\ Grows(st, su)
             /\ Len(su.valueStack) = Len(st.valueStack)
             /\ su.currentFunc = st.currentFunc /\ su.funcMap = st.funcMap
<1> DEFINE su == Table!NewVarValue(st, m, size)
<1>0. Grows(st, st)
  BY DEF Grows
<1>1. CASE Table!Rejected(st, m)
  BY <1>0, <1>1 DEF Table!NewVarValue
<1>2. CASE ~Table!Rejected(st, m) /\ st.currentFunc # NoFunc
  <2> DEFINE level == IF m = Table!Anon THEN 1 ELSE Table!ScopeLevel(st)
             v     == Table!LocalVar(st.currentFunc, Len(st.varsVector[st.currentFunc]) + 1)
             mid   == Table!NewLocalVarValue(st, m, level, size)
  <2>1. level \in Int
    <3>1. Len(st.valueStack) \in Nat
      BY TableFields DEF TableOK
    <3> QED
      BY <3>1 DEF Table!ScopeLevel
  <2>2. su = Table!InsertValue(mid, m, v)
    BY <1>2 DEF Table!NewVarValue
  <2> HIDE DEF level, su
  <2>3. /\ TableOK(mid) /\ Grows(st, mid)
        /\ mid.valueStack = st.valueStack
        /\ mid.currentFunc = st.currentFunc /\ mid.funcMap = st.funcMap
        /\ v \in IRValues /\ IsLocal(mid, st.currentFunc, v)
    BY <1>2, <2>1, NewLocalVarValueOK
  <2> HIDE DEF mid, v
  <2>4. Len(mid.valueStack) # 1 /\ IsLocal(mid, mid.currentFunc, v)
    BY <1>2, <2>3
  <2>5. /\ TableOK(su) /\ Grows(mid, su)
        /\ Len(su.valueStack) = Len(mid.valueStack)
        /\ su.currentFunc = mid.currentFunc /\ su.funcMap = mid.funcMap
    BY <2>2, <2>3, <2>4, InsertValueOK
  <2> QED
    BY <2>3, <2>5, GrowsTrans DEF su
<1>3. CASE ~Table!Rejected(st, m) /\ st.currentFunc = NoFunc
  <2> DEFINE v   == Table!GlobalVar(Len(st.globals) + 1)
             mid == Table!NewGlobalVariable(st, m)
  <2>1. su = Table!InsertValue(mid, m, v)
    BY <1>3 DEF Table!NewVarValue
  <2> HIDE DEF su
  <2>2. /\ TableOK(mid) /\ Grows(st, mid)
        /\ mid.valueStack = st.valueStack
        /\ mid.currentFunc = st.currentFunc /\ mid.funcMap = st.funcMap
        /\ v \in IRValues /\ IsGlobal(mid, v)
    BY NewGlobalVariableOK
  <2> HIDE DEF mid, v
  <2>3. Len(mid.valueStack) = 1
    BY <1>3, <2>2
  <2>4. /\ TableOK(su) /\ Grows(mid, su)
        /\ Len(su.valueStack) = Len(mid.valueStack)
        /\ su.currentFunc = mid.currentFunc /\ su.funcMap = mid.funcMap
    BY <2>1, <2>2, <2>3, InsertValueOK
  <2> QED
    BY <2>2, <2>4, GrowsTrans DEF su
<1> QED
  BY <1>1, <1>2, <1>3

(* ir_function_define before the body: the function is there and current,  *)
(* with a scope that holds its return-value slot.                          *)
LEMMA BeginFunctionOK ==
  ASSUME NEW st, TableOK(st), st.currentFunc = NoFunc, Len(st.valueStack) = 1,
         NEW f \in Callees, f \notin DOMAIN st.funcMap
  PROVE  LET su   == Table!BeginFunction(st, f)
             slot == Table!FindCurrentScope(su, Table!Anon)
         IN  /\ TableOK(su) /\ Grows(st, su)
             /\ Len(su.valueStack) = 2
             /\ su.currentFunc = f /\ DOMAIN su.funcMap = DOMAIN st.funcMap \cup {f}
             /\ slot \in IRValues /\ IsLocal(su, f, slot)
<1> DEFINE s1 == Table!NewFunction(st, f, Table!Signature(0, FALSE))
           s2 == Table!SetCurrentFunction(s1, f)
           s3 == Table!EnterScope(s2)
           v  == Table!LocalVar(f, Len(s3.varsVector[f]) + 1)
           s4 == Table!NewLocalVarValue(s3, Table!Anon, 1, Table!IntSize)
           s5 == Table!InsertValue(s4, Table!Anon, v)
           su == Table!BeginFunction(st, f)
<1>0. /\ Table!Signature(0, FALSE) \in Table!FuncTypes /\ Table!Anon \in Identifiers /\ f # NoFunc
      /\ Table!IntSize \in Int
  BY NullAssumption DEF Table!IntSize, Table!Signature, Table!FuncTypes, Table!Anon, Identifiers, Callees
<1>s. su = Table!NewVarValue(s3, Table!Anon, Table!IntSize)
  BY DEF Table!BeginFunction
<1> HIDE DEF s1, s2, s3, s4, s5, v, su
<1>1. /\ TableOK(s1) /\ Grows(st, s1) /\ s1.valueStack = st.valueStack
      /\ DOMAIN s1.funcMap = DOMAIN st.funcMap \cup {f}
  BY <1>0, NewFunctionOK DEF s1
<1>2. /\ TableOK(s2) /\ Grows(s1, s2) /\ s2.valueStack = s1.valueStack
      /\ s2.currentFunc = f /\ s2.funcMap = s1.funcMap
  <2>1. f \in DOMAIN s1.funcMap /\ f \in Callees \cup {NoFunc} /\ Len(s1.valueStack) = 1
    BY <1>1
  <2> QED
    BY <1>1, <2>1, SetCurrentFunctionOK DEF s2
<1>3. /\ TableOK(s3) /\ Grows(s2, s3) /\ Len(s3.valueStack) = 2
      /\ s3.valueStack[Len(s3.valueStack)] = Table!NoEntries
      /\ s3.currentFunc = f /\ s3.funcMap = s1.funcMap
  <2>1. /\ TableOK(s3) /\ Grows(s2, s3) /\ Len(s3.valueStack) = Len(s2.valueStack) + 1
        /\ s3.valueStack[Len(s3.valueStack)] = Table!NoEntries
        /\ s3.currentFunc = s2.currentFunc /\ s3.funcMap = s2.funcMap
    BY <1>2, EnterScopeOK DEF s3
  <2>2. Len(s2.valueStack) = 1
    BY <1>1, <1>2
  <2> QED
    BY <1>2, <2>1, <2>2
<1>4. /\ TableOK(s4) /\ Grows(s3, s4) /\ s4.valueStack = s3.valueStack
      /\ s4.currentFunc = f /\ s4.funcMap = s1.funcMap
      /\ v \in IRValues /\ IsLocal(s4, f, v)
  <2>1. s3.currentFunc # NoFunc /\ 1 \in Int
    BY <1>0, <1>3
  <2>2. v = Table!LocalVar(s3.currentFunc, Len(s3.varsVector[s3.currentFunc]) + 1)
    BY <1>3 DEF v
  <2>3. /\ TableOK(s4) /\ Grows(s3, s4) /\ s4.valueStack = s3.valueStack
        /\ s4.currentFunc = s3.currentFunc /\ s4.funcMap = s3.funcMap
        /\ v \in IRValues /\ IsLocal(s4, s3.currentFunc, v)
    BY <1>0, <1>3, <2>1, <2>2, NewLocalVarValueOK DEF s4
  <2> QED
    BY <1>3, <2>3
<1>5. /\ TableOK(s5) /\ Grows(s4, s5) /\ Len(s5.valueStack) = 2
      /\ s5.valueStack[Len(s5.valueStack)] = Table!Insert(Table!NoEntries, Table!Anon, v)
      /\ s5.currentFunc = f /\ s5.funcMap = s1.funcMap
  <2>1. Len(s4.valueStack) = 2 /\ s4.valueStack[Len(s4.valueStack)] = Table!NoEntries /\ IsLocal(s4, s4.currentFunc, v)
    BY <1>3, <1>4
  <2>2. /\ TableOK(s5) /\ Grows(s4, s5) /\ Len(s5.valueStack) = Len(s4.valueStack)
        /\ s5.valueStack[Len(s5.valueStack)] = Table!Insert(s4.valueStack[Len(s4.valueStack)], Table!Anon, v)
        /\ s5.currentFunc = s4.currentFunc /\ s5.funcMap = s4.funcMap
    BY <1>0, <1>4, <2>1, InsertValueOK DEF s5
  <2> QED
    BY <1>4, <2>1, <2>2
<1>6. su = s5
  <2>1. ~Table!Rejected(s3, Table!Anon) /\ s3.currentFunc = f /\ f # NoFunc
    BY <1>0, <1>3 DEF Table!Rejected
  <2>2. Table!NewVarValue(s3, Table!Anon, Table!IntSize) = s5
    BY <2>1 DEF Table!NewVarValue, s5, s4, v
  <2> QED
    BY <1>s, <2>2
<1>7. Table!FindCurrentScope(s5, Table!Anon) = v
  <2>1. Table!CurrentScope(s5) = Table!Insert(Table!NoEntries, Table!Anon, v)
    BY <1>5 DEF Table!CurrentScope
  <2>2. /\ Table!Anon \in DOMAIN Table!Insert(Table!NoEntries, Table!Anon, v)
        /\ Table!Insert(Table!NoEntries, Table!Anon, v)[Table!Anon] = v
    BY NoEntriesScope DEF Table!Insert
  <2> QED
    BY <2>1, <2>2 DEF Table!FindCurrentScope
<1>8. Grows(st, s5)
  BY <1>1, <1>2, <1>3, <1>4, <1>5, GrowsTrans
<1>9. IsLocal(s5, f, v)
  BY <1>4, <1>5, HeldGrows
<1> QED
  BY <1>1, <1>4, <1>5, <1>6, <1>7, <1>8, <1>9 DEF su

(* ir_function_define after the body.                                      *)
LEMMA EndFunctionOK ==
  ASSUME NEW st, TableOK(st), Len(st.valueStack) = 2
  PROVE  LET su == Table!EndFunction(st)
         IN  /\ TableOK(su) /\ Grows(st, su)
             /\ Len(su.valueStack) = 1
             /\ su.currentFunc = NoFunc /\ su.funcMap = st.funcMap
<1> DEFINE mid == Table!LeaveScope(st)
           su  == Table!SetCurrentFunction(mid, NoFunc)
<1>1. Table!EndFunction(st) = su
  <2>1. st \in Tables
    BY DEF TableOK
  <2> QED
    BY <2>1 DEF Table!EndFunction, Table!LeaveScope, Table!SetCurrentFunction, Tables
<1> HIDE DEF mid, su
<1>2. /\ TableOK(mid) /\ Grows(st, mid) /\ Len(mid.valueStack) = 1
      /\ mid.funcMap = st.funcMap
  <2>1. Len(st.valueStack) >= 2 /\ Len(st.valueStack) - 1 = 1
    OBVIOUS
  <2>2. /\ TableOK(mid) /\ Grows(st, mid) /\ Len(mid.valueStack) = Len(st.valueStack) - 1
        /\ mid.funcMap = st.funcMap
    BY <2>1, LeaveScopeOK DEF mid
  <2> QED
    BY <2>1, <2>2
<1>3. /\ TableOK(su) /\ Grows(mid, su) /\ su.valueStack = mid.valueStack
      /\ su.currentFunc = NoFunc /\ su.funcMap = mid.funcMap
  BY <1>2, SetCurrentFunctionOK DEF su
<1> QED
  BY <1>1, <1>2, <1>3, GrowsTrans

(* What is found for a name is registered.                                 *)
LEMMA FindVarValueOK ==
  ASSUME NEW st, TableOK(st), NEW m
  PROVE  LET v == Table!FindVarValue(st, m)
         IN  v \in IRValues /\ (v = Null \/ Held(st, st.currentFunc, v))
<1> DEFINE v     == Table!FindVarValue(st, m)
           stack == st.valueStack
           found == Table!ScopesWith(stack, m)
           i     == Table!Innermost(found)
<1>1. stack \in Seq(Scopes)
  BY TableFields DEF TableOK
<1>2. CASE found = {}
  BY <1>2, NullIsValue DEF Table!FindVarValue, Table!FindAllScope, Null
<1>3. CASE found # {}
  <2>1. v = stack[i][m]
    BY <1>3 DEF Table!FindVarValue, Table!FindAllScope
  <2>2. i \in found
    <3> DEFINE n == Len(stack)
    <3>0. n \in Nat
      BY <1>1
    <3>1. found \in SUBSET (1..n)
      BY DEF Table!ScopesWith
    <3> HIDE DEF found, n
    <3>2. \E k \in found : \A j \in found : j <= k
      <4> DEFINE flipped == {n - k : k \in found}
      <4>1. flipped \in SUBSET Nat /\ flipped # {}
        <5>1. \A k \in 1..n : n - k \in Nat
          BY <3>0
        <5>2. \A k \in found : n - k \in Nat
          BY <3>1, <5>1
        <5> QED
          BY <1>3, <5>2
      <4>2. PICK y \in flipped : \A z \in flipped : y <= z
        <5> HIDE DEF flipped
        <5> QED
          BY <4>1, LeastElement
      <4>3. PICK k \in found : y = n - k
        BY <4>2
      <4>4. \A j \in found : n - k <= n - j
        BY <4>2, <4>3
      <4>5. ASSUME NEW j \in found PROVE j <= k
        <5>1. j \in 1..n /\ k \in 1..n /\ n - k <= n - j
          BY <3>1, <4>4
        <5> QED
          BY <3>0, <5>1
      <4> QED
        BY <4>5
    <3> QED
      BY <3>2 DEF Table!Innermost
  <2> HIDE DEF v, i
  <2>3. i \in DOMAIN stack /\ m \in DOMAIN stack[i]
    BY <1>1, <2>2 DEF Table!ScopesWith
  <2>4. stack[i] \in Scopes
    BY <1>1, <2>3
  <2>5. stack[i][m] \in IRValues
    BY <2>3, <2>4 DEF Scopes, Table!Maps
  <2>6. Held(st, st.currentFunc, stack[i][m])
    BY <2>3 DEF TableOK, Registered, Held
  <2> QED
    BY <2>1, <2>5, <2>6 DEF v
<1> QED
  BY <1>2, <1>3

(* The table at the start.                                                 *)
LEMMA NewModuleOK ==
  /\ TableOK(Table!NewModule)
  /\ Len(Table!NewModule.valueStack) = 1
  /\ Table!NewModule.currentFunc = NoFunc
  /\ DOMAIN Table!NewModule.funcMap = Table!Builtins
  /\ Table!NewModule.funcVector = << "putint", "getint" >>
<1> DEFINE e  == Table!EnterScope(Table!EmptyModule)
           s1 == Table!NewFunction(e, "putint", Table!Signature(1, TRUE))
           s2 == Table!NewFunction(s1, "getint", Table!Signature(0, FALSE))
           fm == Table!Insert(Table!Insert([f \in {} |-> Table!Signature(0, FALSE)], "putint", Table!Signature(1, TRUE)),
                               "getint", Table!Signature(0, FALSE))
           vv == Table!Insert(Table!Insert([f \in {} |-> << >>], "putint", << >>), "getint", << >>)
<1>1. e = [Table!EmptyModule EXCEPT !.valueStack = << Table!NoEntries >>]
  BY DEF Table!EnterScope, Table!EmptyModule
<1>2. s2 = [valueStack |-> << Table!NoEntries >>, currentFunc |-> NoFunc, funcMap |-> fm,
            funcVector |-> << "putint", "getint" >>, varsVector |-> vv, globals |-> << >>, constInts |-> {}]
  <2> DEFINE f0 == [f \in {} |-> Table!Signature(0, FALSE)]
             v0 == [f \in {} |-> << >>]
             f1 == Table!Insert(f0, "putint", Table!Signature(1, TRUE))
             v1 == Table!Insert(v0, "putint", << >>)
  <2>1. e = [valueStack |-> << Table!NoEntries >>, currentFunc |-> NoFunc, funcMap |-> f0,
             funcVector |-> << >>, varsVector |-> v0, globals |-> << >>, constInts |-> {}]
    BY <1>1 DEF Table!EmptyModule
  <2>2. "putint" \notin DOMAIN f0
    OBVIOUS
  <2>a. f1 = Table!Insert(e.funcMap, "putint", Table!Signature(1, TRUE)) /\ v1 = Table!Insert(e.varsVector, "putint", << >>)
    BY <2>1
  <2>b. "putint" \notin DOMAIN e.funcMap
    BY <2>1, <2>2
  <2> HIDE DEF f0, v0, e, f1, v1
  <2>c. s1 = [e EXCEPT !.funcMap = f1, !.funcVector = Append(e.funcVector, "putint"), !.varsVector = v1]
    BY <2>a, <2>b DEF Table!NewFunction, Table!FindFunction
  <2>d. Append(<< >>, "putint") = << "putint" >> /\ Append(<< "putint" >>, "getint") = << "putint", "getint" >>
    <3>1. ASSUME NEW x \in Callees, NEW y \in Callees
          PROVE  Append(<< >>, x) = << x >> /\ Append(<< x >>, y) = << x, y >>
      <4> DEFINE a == Append(<< >>, x)
                 b == Append(<< x >>, y)
      <4>1. a \in Seq(Callees) /\ Len(a) = 1 /\ a[1] = x
        OBVIOUS
      <4>2. b \in Seq(Callees) /\ Len(b) = 2 /\ b[1] = x /\ b[2] = y
        OBVIOUS
      <4> HIDE DEF a, b
      <4>3. a = << x >>
        BY <4>1
      <4>4. b = << x, y >>
        BY <4>2
      <4> QED
        BY <4>3, <4>4 DEF a, b
    <3>2. "putint" \in Callees /\ "getint" \in Callees
      BY DEF Callees, Table!Functions, Table!Builtins
    <3> QED
      BY <3>1, <3>2
  <2> HIDE DEF s1
  <2>3. s1 = [valueStack |-> << Table!NoEntries >>, currentFunc |-> NoFunc, funcMap |-> f1,
              funcVector |-> << "putint" >>, varsVector |-> v1, globals |-> << >>, constInts |-> {}]
    BY <2>1, <2>c, <2>d
  <2>4. "getint" \notin DOMAIN f1
    BY DEF Table!Insert, f0, f1
  <2> DEFINE f2 == Table!Insert(f1, "getint", Table!Signature(0, FALSE))
             v2 == Table!Insert(v1, "getint", << >>)
  <2>e. f2 = Table!Insert(s1.funcMap, "getint", Table!Signature(0, FALSE)) /\ v2 = Table!Insert(s1.varsVector, "getint", << >>)
    BY <2>3
  <2>f. "getint" \notin DOMAIN s1.funcMap
    BY <2>3, <2>4
  <2> HIDE DEF f2, v2
  <2>g. s2 = [s1 EXCEPT !.funcMap = f2, !.funcVector = Append(s1.funcVector, "getint"), !.varsVector = v2]
    BY <2>e, <2>f DEF Table!NewFunction, Table!FindFunction
  <2> HIDE DEF s2
  <2>5. s2 = [valueStack |-> << Table!NoEntries >>, currentFunc |-> NoFunc,
              funcMap |-> f2, funcVector |-> << "putint", "getint" >>, varsVector |-> v2,
              globals |-> << >>, constInts |-> {}]
    BY <2>3, <2>d, <2>g
  <2> QED
    BY <2>5 DEF f2, v2, f1, v1, f0, v0
<1>3. Table!NewModule = s2
  BY DEF Table!NewModule
<1> HIDE DEF s2
<1>4. "putint" \in Callees /\ "getint" \in Callees /\ Table!Builtins = {"putint", "getint"}
  BY DEF Callees, Table!Functions, Table!Builtins
<1>5. fm \in Table!Maps(Callees, Table!FuncTypes) /\ DOMAIN fm = Table!Builtins
  <2>1. fm \in [{"putint", "getint"} -> Table!FuncTypes]
    BY DEF Table!Insert, Table!Signature, Table!FuncTypes
  <2>2. {"putint", "getint"} \in SUBSET Callees
    BY <1>4
  <2> HIDE DEF fm
  <2> QED
    BY <1>4, <2>1, <2>2 DEF Table!Maps
<1>6. vv \in Table!Maps(Callees, Seq(Variables)) /\ DOMAIN vv = Table!Builtins
  <2>1. vv \in [{"putint", "getint"} -> Seq(Variables)]
    BY DEF Table!Insert
  <2>2. {"putint", "getint"} \in SUBSET Callees
    BY <1>4
  <2> HIDE DEF vv
  <2> QED
    BY <1>4, <2>1, <2>2 DEF Table!Maps
<1> HIDE DEF fm, vv
<1> DEFINE scopes == << Table!NoEntries >>
<1>7. scopes \in Seq(Scopes) /\ scopes # << >> /\ Len(scopes) = 1 /\ \A i \in DOMAIN scopes : DOMAIN scopes[i] = {}
  BY NoEntriesScope
<1>8. << "putint", "getint" >> \in Seq(Callees) /\ << >> \in Seq(Identifiers)
  BY <1>4
<1> HIDE DEF scopes
<1>9. s2 \in Tables
  <2>1. s2.valueStack = scopes
    BY <1>2 DEF scopes
  <2> QED
    BY <1>2, <1>5, <1>6, <1>7, <1>8 DEF Tables, scopes
<1>10. /\ s2.valueStack = scopes /\ s2.currentFunc = NoFunc /\ s2.funcMap = fm /\ s2.varsVector = vv
       /\ s2.funcVector = << "putint", "getint" >>
  BY <1>2 DEF scopes
<1>11. TableOK(s2)
  BY <1>5, <1>6, <1>7, <1>9, <1>10 DEF TableOK, Registered
<1> QED
  BY <1>3, <1>5, <1>7, <1>10, <1>11


-----------------------------------------------------------------------------
(* Where the generator is.                                                 *)

(* The frames that opened a scope can be counted, and a new innermost one  *)
(* counts if it opened one.                                                *)
LEMMA OpenersPushed ==
  ASSUME NEW fs \in Seq(Frames), NEW fr \in Frames
  PROVE  /\ IsFiniteSet(Openers(fs)) /\ Cardinality(Openers(fs)) \in Nat
         /\ Cardinality(Openers(Append(fs, fr))) = Cardinality(Openers(fs)) + IF OpensScope(fr) THEN 1 ELSE 0
<1> DEFINE n  == Len(fs)
           gs == Append(fs, fr)
<1>1. n \in Nat /\ DOMAIN fs = 1..n /\ DOMAIN gs = 1..n + 1 /\ gs[n + 1] = fr /\ \A i \in 1..n : gs[i] = fs[i]
  OBVIOUS
<1> HIDE DEF gs, n
<1>2. IsFiniteSet(1..n)
  BY <1>1, FS_Interval
<1>3. Openers(fs) \subseteq 1..n
  BY <1>1 DEF Openers
<1>4. IsFiniteSet(Openers(fs)) /\ Cardinality(Openers(fs)) \in Nat
  BY <1>2, <1>3, FS_Subset, FS_CardinalityType
<1>5. Openers(gs) = Openers(fs) \cup (IF OpensScope(fr) THEN {n + 1} ELSE {})
  <2>1. 1..n + 1 = (1..n) \cup {n + 1} /\ n + 1 \notin 1..n
    BY <1>1
  <2>2. DOMAIN gs = DOMAIN fs \cup {n + 1} /\ n + 1 \notin DOMAIN fs
    BY <1>1, <2>1
  <2>3. \A i \in DOMAIN fs : gs[i] = fs[i]
    BY <1>1
  <2> QED
    BY <1>1, <2>2, <2>3, Zenon DEF Openers
<1>6. n + 1 \notin Openers(fs)
  BY <1>1, <1>3
<1>7. CASE OpensScope(fr)
  <2>1. Cardinality(Openers(fs) \cup {n + 1}) = Cardinality(Openers(fs)) + 1
    BY <1>4, <1>6, FS_AddElement
  <2> QED
    BY <1>4, <1>5, <1>7, <2>1 DEF gs
<1>8. CASE ~OpensScope(fr)
  <2>1. Openers(gs) = Openers(fs)
    BY <1>5, <1>8
  <2> QED
    BY <1>4, <1>8, <2>1 DEF gs
<1> QED
  BY <1>7, <1>8

(* Results change nothing, and a return takes away the innermost frame.    *)
LEMMA OpenersReturned ==
  ASSUME NEW fs \in Seq(Frames), fs # << >>, NEW r \in Results
  PROVE  /\ Openers(LeftWith(fs, r)) = Openers(fs)
         /\ Len(fs) >= 2 => Cardinality(Openers(PoppedWith(fs, r)))
                              = Cardinality(Openers(fs)) - IF OpensScope(Last(fs)) THEN 1 ELSE 0
<1>1. ASSUME NEW gs \in Seq(Frames), gs # << >> PROVE Openers(LeftWith(gs, r)) = Openers(gs)
  <2> DEFINE n  == Len(gs)
             hs == LeftWith(gs, r)
  <2>1. /\ n \in Nat /\ n >= 1 /\ Last(gs) \in Frames /\ Last(gs) = gs[n] /\ DOMAIN gs = 1..n
    BY <1>1, FrontLast
  <2>2. hs \in Seq(Frames) /\ Len(hs) = n /\ (\A i \in 1..n - 1 : hs[i] = gs[i]) /\ hs[n] = With(Last(gs), r)
    BY <1>1, LeftAt
  <2>3. With(Last(gs), r).node = gs[n].node
    BY <2>1, WithIs
  <2> HIDE DEF hs, n
  <2>4. DOMAIN hs = 1..n
    BY <2>2
  <2>5. \A i \in 1..n : i = n \/ i \in 1..n - 1
    BY <2>1
  <2>6. \A i \in 1..n : hs[i].node = gs[i].node
    BY <2>2, <2>3, <2>5
  <2>7. Openers(hs) = Openers(gs)
    BY <2>1, <2>4, <2>6, Zenon DEF Openers, OpensScope
  <2> QED
    BY <2>7 DEF hs
<1>2. ASSUME Len(fs) >= 2
      PROVE  Cardinality(Openers(PoppedWith(fs, r))) = Cardinality(Openers(fs)) - IF OpensScope(Last(fs)) THEN 1 ELSE 0
  <2> DEFINE gs == Front(fs)
             a  == Cardinality(Openers(gs))
             b  == Cardinality(Openers(fs))
  <2>1. gs \in Seq(Frames) /\ gs # << >> /\ Last(fs) \in Frames /\ fs = Append(gs, Last(fs))
    BY <1>2, FrontLast
  <2>2. PoppedWith(fs, r) = LeftWith(gs, r)
    BY DEF PoppedWith, LeftWith
  <2> HIDE DEF gs
  <2>3. Openers(PoppedWith(fs, r)) = Openers(gs)
    BY <1>1, <2>1, <2>2
  <2>4. a \in Nat /\ b = a + IF OpensScope(Last(fs)) THEN 1 ELSE 0
    BY <2>1, OpenersPushed
  <2> HIDE DEF a, b
  <2>5. a = b - IF OpensScope(Last(fs)) THEN 1 ELSE 0
    BY <2>4
  <2> QED
    BY <2>3, <2>5 DEF a, b
<1> QED
  BY <1>1, <1>2

(* Outside of a function there is the unit, and maybe a declaration.       *)
LEMMA OutsideFrames ==
  ASSUME NEW fs, FramesOK(fs), ~Compiling(fs)
  PROVE  /\ Len(fs) = 1 \/ (Len(fs) = 2 /\ Last(fs).node.op = "decl")
         /\ \A i \in DOMAIN fs : fs[i].node.op \in {"unit", "decl"}
<1>1. /\ Len(fs) \in Nat /\ Len(fs) >= 1 /\ DOMAIN fs = 1..Len(fs)
      /\ Last(fs) = fs[Len(fs)] /\ fs[1].node.op = "unit"
      /\ Len(fs) >= 2 => fs[2].node.op \in {"func", "decl"}
      /\ \A i \in 1..Len(fs) - 1 : fs[i].node.op # "decl"
  BY FramesFacts
<1>2. Len(fs) >= 2 => 2 \in DOMAIN fs /\ fs[2].node.op = "decl"
  BY <1>1 DEF Compiling
<1>3. Len(fs) <= 2
  <2>1. Len(fs) >= 3 => 2 \in 1..Len(fs) - 1
    BY <1>1
  <2> QED
    BY <1>1, <1>2, <2>1
<1>4. Len(fs) = 1 \/ Len(fs) = 2
  BY <1>1, <1>3
<1> QED
  BY <1>1, <1>2, <1>4

(* So there is only the outermost scope.                                   *)
LEMMA Outside ==
  ASSUME Inv, Func = NoFunc
  PROVE  /\ Len(frames) = 1 \/ (Len(frames) = 2 /\ Top.node.op = "decl")
         /\ Len(module.valueStack) = 1
<1>1. /\ FramesOK(frames) /\ ~Compiling(frames) /\ ScopesMatch(frames, module)
  BY DEF Inv
<1>2. /\ Len(frames) = 1 \/ (Len(frames) = 2 /\ Last(frames).node.op = "decl")
      /\ \A i \in DOMAIN frames : frames[i].node.op \in {"unit", "decl"}
  BY <1>1, OutsideFrames
<1>3. Openers(frames) = {}
  BY <1>2 DEF Openers, OpensScope
<1>4. Len(module.valueStack) = 1
  BY <1>1, <1>3, FS_EmptySet DEF ScopesMatch
<1> QED
  BY <1>2, <1>4 DEF Top

(* Inside of one there are the unit, the function, and the function's      *)
(* scope.                                                                  *)
LEMMA Inside ==
  ASSUME Inv, Func # NoFunc
  PROVE  /\ Len(frames) >= 2 /\ frames[2].node.op = "func"
         /\ Len(module.valueStack) \in Nat /\ Len(module.valueStack) >= 2
         /\ Func \in Callees /\ Func \in DOMAIN ircode /\ Func \in DOMAIN info
<1>1. FramesOK(frames) /\ Compiling(frames) /\ ScopesMatch(frames, module)
  BY DEF Inv
<1>2. /\ Len(frames) \in Nat /\ DOMAIN frames = 1..Len(frames) /\ frames \in Seq(Frames)
  BY <1>1, FramesFacts DEF FramesOK
<1>3. 2 \in DOMAIN frames /\ frames[2].node.op = "func"
  BY <1>1 DEF Compiling
<1>4. Len(frames) >= 2
  BY <1>2, <1>3
<1>5. IsFiniteSet(Openers(frames)) /\ Cardinality(Openers(frames)) \in Nat
  <2>1. frames[2] \in Frames
    BY <1>2, <1>3
  <2> QED
    BY <1>2, <2>1, OpenersPushed
<1>6. Openers(frames) # {}
  BY <1>3 DEF Openers, OpensScope
<1>7. Cardinality(Openers(frames)) # 0
  BY <1>5, <1>6, FS_EmptySet
<1>8. Len(module.valueStack) \in Nat /\ Len(module.valueStack) >= 2
  <2> DEFINE c == Cardinality(Openers(frames))
             l == Len(module.valueStack)
  <2>1. l = 1 + c /\ c \in Nat /\ c # 0
    BY <1>1, <1>5, <1>7 DEF ScopesMatch
  <2> HIDE DEF c, l
  <2>2. l \in Nat /\ l >= 2
    BY <2>1
  <2> QED
    BY <2>2 DEF l
<1>9. Func \in Callees
  <2>1. module \in Tables
    BY DEF Inv, TableOK
  <2> QED
    BY <2>1, TableFields DEF Func
<1>10. Func \in DOMAIN ircode /\ Func \in DOMAIN info
  BY DEF Inv, Opened, FunctionsOK
<1> QED
  BY <1>3, <1>4, <1>8, <1>9, <1>10

(* The next son of the innermost frame.                                    *)
LEMMA AtVisit ==
  ASSUME Inv, Pending
  PROVE  /\ Top = Last(frames) /\ Top \in Frames
         /\ Current \in Nodes /\ NextSon(Last(frames), Current)
         /\ Current.num \in Int /\ Current.name \in Identifiers
         /\ Current.op = "func" => Current.name \in Callees
         /\ Current.sons \in Seq(Nodes)
         /\ Func = NoFunc => Current.op \in {"func", "decl", "vardecl"}
         /\ Func = NoFunc /\ Current.op = "func" => Len(frames) = 1
         /\ Top.node.op = "unit" => Current.op \in {"func", "decl"}
         /\ Top.node.op = "decl" => Current.op = "vardecl"
<1>1. FramesOK(frames)
  BY DEF Inv
<1>2. /\ Last(frames) = frames[Len(frames)] /\ Last(frames) \in Frames /\ frames[1].node.op = "unit"
  BY <1>1, FramesFacts
<1>3. Top \in Frames /\ Top.node \in Nodes /\ Top.sons \in Seq(Results) /\ Top.node.sons \in Seq(Nodes)
  BY <1>2, NodeShape DEF Top, Frames
<1>4. Len(Top.sons) + 1 \in DOMAIN Top.node.sons
  BY <1>3 DEF Pending
<1>5. Current \in Nodes
  BY <1>3, <1>4 DEF Current
<1>6. NextSon(Last(frames), Current)
  BY DEF NextSon, Current, Pending, Top
<1>7. /\ Top.node.op = "unit" => Current.op \in {"func", "decl"}
      /\ Top.node.op = "decl" => Current.op = "vardecl"
  BY <1>3, <1>4, NodeShape DEF Current
<1>8. ASSUME Func = NoFunc PROVE /\ Current.op \in {"func", "decl", "vardecl"}
                                 /\ Current.op = "func" => Len(frames) = 1
  <2>1. CASE Len(frames) = 1
    BY <1>2, <1>7, <2>1 DEF Top
  <2>2. CASE Top.node.op = "decl"
    BY <1>7, <2>2
  <2> QED
    BY <1>8, <2>1, <2>2, Outside
<1>9. /\ Current.num \in Int /\ Current.name \in Identifiers
      /\ Current.op = "func" => Current.name \in Callees
      /\ Current.sons \in Seq(Nodes)
  BY <1>5, NodeShape
<1> QED
  BY <1>3, <1>5, <1>6, <1>7, <1>8, <1>9 DEF Top

(* The handler that is about to return.                                    *)
LEMMA AtFinish ==
  ASSUME Inv, ~Pending
  PROVE  /\ Top = Last(frames) /\ Top \in Frames /\ FrameOK(Top)
         /\ Top.sons \in Seq(Results) /\ Top.node \in Nodes
         /\ Len(Top.sons) = Len(Top.node.sons)
         /\ Top.node.op # "unit" => Len(frames) >= 2
         /\ Top.node.op \notin {"unit", "decl"} => Func # NoFunc
         /\ Top.node.op = "func" => Len(frames) = 2
         /\ Top.node.op \notin {"unit", "decl", "func"} => Len(frames) >= 3
<1>1. FramesOK(frames)
  BY DEF Inv
<1>2. /\ Last(frames) = frames[Len(frames)] /\ Last(frames) \in Frames /\ FrameOK(Last(frames))
      /\ frames[1].node.op = "unit"
      /\ Len(frames) \in Nat /\ Len(frames) >= 1 /\ Len(frames) \in DOMAIN frames
  BY <1>1, FramesFacts
<1>3. Top \in Frames /\ Top.node \in Nodes /\ Top.sons \in Seq(Results) /\ Top.node.sons \in Seq(Nodes)
  BY <1>2, NodeShape DEF Top, Frames
<1>4. Len(Top.sons) = Len(Top.node.sons)
  <2>1. Len(Top.sons) <= Len(Top.node.sons)
    BY <1>2 DEF FrameOK, Top
  <2> QED
    BY <1>3, <2>1 DEF Pending
<1>5. Len(frames) = 1 => Top.node.op = "unit"
  BY <1>2 DEF Top
<1>6. Top.node.op \notin {"unit", "decl"} => Func # NoFunc
  BY <1>5, Outside
<1>7. Top.node.op = "func" => Len(frames) = 2
  BY <1>1, <1>2 DEF FramesOK, Top
<1>8. ASSUME Top.node.op \notin {"unit", "decl", "func"} PROVE Len(frames) >= 3
  <2>1. frames[2].node.op = "func"
    BY <1>6, <1>8, Inside
  <2>2. Len(frames) # 2 /\ Len(frames) # 1 /\ Len(frames) \in Nat /\ Len(frames) >= 1
    BY <1>2, <1>5, <1>8, <2>1 DEF Top
  <2> DEFINE n == Len(frames)
  <2>3. n \in Nat /\ n >= 1 /\ n # 1 /\ n # 2
    BY <2>2
  <2> HIDE DEF n
  <2>4. n >= 3
    BY <2>3
  <2> QED
    BY <2>4 DEF n
<1>9. ASSUME Top.node.op # "unit" PROVE Len(frames) >= 2
  <2>1. Len(frames) # 1 /\ Len(frames) \in Nat /\ Len(frames) >= 1
    BY <1>2, <1>5, <1>9
  <2> QED
    BY <2>1
<1> QED
  BY <1>2, <1>3, <1>4, <1>6, <1>7, <1>8, <1>9 DEF Top


-----------------------------------------------------------------------------
(* The steps, by what they do to the frames.                               *)

(* The generator stops, with everything left as it is. *)
Stays ==
  /\ UNCHANGED << program, module, frames, ircode, info, created >>
  /\ status' \in {"running", "ok", "failed", "crashed"}

(* A function is begun. *)
Begins ==
  /\ Func = NoFunc /\ Len(frames) = 1 /\ Pending
  /\ Current.op = "func" /\ Current.name \notin DOMAIN module.funcMap
  /\ module'  = Table!BeginFunction(module, Current.name)
  /\ ircode'  = Table!Insert(ircode, Current.name, << Inst("entry", 1, << >>, Null) >>)
  /\ info'    = Table!Insert(info, Current.name,
                  [exitLabel          |-> InstVal(Current.name, 2),
                   returnValue        |-> Table!FindCurrentScope(module', Table!Anon),
                   existFuncCall      |-> FALSE,
                   maxFuncCallArgCnt  |-> 0])
  /\ created' = 2
  /\ frames'  = Append(frames, Frame(Current))
  /\ UNCHANGED << program, status >>

(* The end of the current function: its exit label and its exit. *)
Exit == << Inst("label", 2, << >>, Null), Inst("exit", created + 1, << info[Func].returnValue >>, Null) >>

(* It is finished. *)
Ends ==
  /\ Func # NoFunc /\ ~Pending /\ Len(frames) = 2 /\ Top.node.op = "func"
  /\ ircode'  = [ircode EXCEPT ![Func] = (@ \o Code(Top.sons)) \o Exit]
  /\ created' = created + 1
  /\ module'  = Table!EndFunction(module)
  /\ frames'  = PoppedWith(frames, Result(Null, << >>))
  /\ UNCHANGED << program, info, status >>

(* The other steps keep the current function, and what is in the table.    *)
Within ==
  /\ TableOK(module') /\ Grows(module, module')
  /\ module'.currentFunc = Func /\ module'.funcMap = module.funcMap
  /\ ScopesMatch(frames', module')
  /\ UNCHANGED << program, ircode, status >>

(* The handler of a node is entered. *)
Enters(t) ==
  /\ t \in Nodes /\ t.op \in Handled \ {"unit", "func"} /\ NextSon(Last(frames), t)
  /\ t.op # "decl" => Func # NoFunc
  /\ frames'  = Append(frames, Frame(t))
  /\ info'    = IF t.op = "call" THEN [info EXCEPT ![Func] = CountCall(@, Len(t.sons))] ELSE info
  /\ created' = created
  /\ Within

(* A leaf is visited. *)
Reads(val) ==
  /\ Len(Last(frames).sons) < Len(Last(frames).node.sons)
  /\ val \in IRValues
  /\ val # Null => Func # NoFunc /\ Held(module', Func, val) /\ Last(frames).node.op \notin {"unit", "decl"}
  /\ frames' = LeftWith(frames, Result(val, << >>))
  /\ UNCHANGED << info, created >>
  /\ Within

(* The code of the sons, in some order, and the instructions that follow.  *)
Gathered(old) ==
  \/ old = Code(Top.sons)
  \/ /\ Top.node.op = "assign" /\ Len(Top.sons) = 2
     /\ old = Top.sons[2].code \o Top.sons[1].code
     /\ Code(Top.sons) = Top.sons[1].code \o Top.sons[2].code

Added(val, new) ==
  \/ Top.node.op \in {"block", "decl"} /\ val = Null /\ new = << >>
  \/ /\ Top.node.op \in {"assign", "add", "sub", "call"} /\ ~NullAmong(Vals(Top.sons))
     /\ val = InstVal(Func, created + 1)
     /\ \E op \in {"move", "add", "sub", "call"}, target \in IRValues :
          /\ op = IF Top.node.op = "assign" THEN "move" ELSE Top.node.op
          /\ new = << Inst(op, created + 1, Vals(Top.sons), target) >>
  \/ /\ Top.node.op = "return" /\ Top.sons # << >> /\ ~NullAmong(Vals(Top.sons))
     /\ val = Top.sons[1].val /\ new = ReturnCode(val)

(* A handler returns. *)
Returns(val, old, new) ==
  /\ ~Pending /\ Gathered(old) /\ Added(val, new)
  /\ val \in IRValues /\ old \in Seq(Insts) /\ new \in Seq(Insts)
  /\ Len(frames) >= 2
  /\ Len(frames) = 2 => val = Null /\ old = << >> /\ new = << >>
  /\ Top.node.op # "decl" => Func # NoFunc
  /\ created' = created + Len(new)
  /\ frames'  = PoppedWith(frames, Result(val, old \o new))
  /\ UNCHANGED info
  /\ Within

Kinds ==
  \/ Stays
  \/ Begins
  \/ Ends
  \/ \E t : Enters(t)
  \/ \E val : Reads(val)
  \/ \E val, old, new : Returns(val, old, new)

(* Code that nothing was done to the table for.                            *)
LEMMA TableKept ==
  ASSUME Inv, module' = module, UNCHANGED << program, ircode, status >>, ScopesMatch(frames', module)
  PROVE  Within
<1>1. TableOK(module)
  BY DEF Inv
<1>2. Grows(module, module)
  BY DEF Grows
<1> QED
  BY <1>1, <1>2 DEF Within, Func

(* Where the scopes are after each kind of step.                           *)
LEMMA ScopesAfter ==
  ASSUME Inv
  PROVE  /\ \A t \in Nodes : \A st : Len(st.valueStack) = Len(module.valueStack) + (IF t.op \in {"func", "block"} THEN 1 ELSE 0)
                                   => ScopesMatch(Append(frames, Frame(t)), st)
         /\ \A r \in Results : \A st : Len(st.valueStack) = Len(module.valueStack)
                                     => ScopesMatch(LeftWith(frames, r), st)
         /\ \A r \in Results : \A st :
              /\ Len(frames) >= 2
              /\ Len(st.valueStack) = Len(module.valueStack) - (IF Top.node.op \in {"func", "block"} THEN 1 ELSE 0)
              => ScopesMatch(PoppedWith(frames, r), st)
<1>1. FramesOK(frames) /\ ScopesMatch(frames, module)
  BY DEF Inv
<1>2. frames \in Seq(Frames) /\ frames # << >>
  BY <1>1 DEF FramesOK
<1>3. /\ Last(frames) \in Frames
  BY <1>1, FramesFacts
<1> DEFINE c == Cardinality(Openers(frames))
           l == Len(module.valueStack)
<1>4. c \in Nat
  BY <1>2, <1>3, OpenersPushed
<1>5. l = 1 + c
  BY <1>1 DEF ScopesMatch
<1> HIDE DEF c, l
<1>6. ASSUME NEW t \in Nodes, NEW st, Len(st.valueStack) = l + (IF t.op \in {"func", "block"} THEN 1 ELSE 0)
      PROVE  ScopesMatch(Append(frames, Frame(t)), st)
  <2>1. Frame(t) \in Frames /\ (OpensScope(Frame(t)) <=> t.op \in {"func", "block"})
    BY DEF Frame, Frames, OpensScope
  <2> DEFINE d == Cardinality(Openers(Append(frames, Frame(t))))
  <2>2. d = c + IF OpensScope(Frame(t)) THEN 1 ELSE 0
    BY <1>2, <2>1, OpenersPushed DEF c
  <2> HIDE DEF d
  <2>3. Len(st.valueStack) = 1 + d
    BY <1>4, <1>5, <1>6, <2>1, <2>2
  <2> QED
    BY <2>3 DEF ScopesMatch, d
<1>7. ASSUME NEW r \in Results, NEW st, Len(st.valueStack) = l
      PROVE  ScopesMatch(LeftWith(frames, r), st)
  <2>1. Openers(LeftWith(frames, r)) = Openers(frames)
    BY <1>2, OpenersReturned
  <2> QED
    BY <1>5, <1>7, <2>1 DEF ScopesMatch, c
<1>8. ASSUME NEW r \in Results, NEW st, Len(frames) >= 2,
             Len(st.valueStack) = l - (IF Top.node.op \in {"func", "block"} THEN 1 ELSE 0)
      PROVE  ScopesMatch(PoppedWith(frames, r), st)
  <2> DEFINE d == Cardinality(Openers(PoppedWith(frames, r)))
  <2>1. d = c - IF OpensScope(Last(frames)) THEN 1 ELSE 0
    BY <1>2, <1>8, OpenersReturned DEF c
  <2>2. OpensScope(Last(frames)) <=> Top.node.op \in {"func", "block"}
    BY DEF Top, OpensScope
  <2> HIDE DEF d
  <2>3. Len(st.valueStack) = 1 + d
    BY <1>4, <1>5, <1>8, <2>1, <2>2
  <2> QED
    BY <2>3 DEF ScopesMatch, d
<1> QED
  BY <1>6, <1>7, <1>8 DEF l


(* An instruction on values is an instruction.                             *)
LEMMA InstType ==
  ASSUME NEW op \in Ops, NEW id \in Nat, NEW args \in Seq(IRValues), NEW target \in IRValues
  PROVE  Inst(op, id, args, target) \in Insts /\ << Inst(op, id, args, target) >> \in Seq(Insts)
<1>1. Inst(op, id, args, target) \in Insts
  BY DEF Inst, Insts
<1> QED
  BY <1>1

(* What a handler leaves in its node.                                      *)
LEMMA ResultType ==
  ASSUME NEW val \in IRValues, NEW code \in Seq(Insts)
  PROVE  /\ Result(val, code) \in Results
         /\ Result(val, code).val = val /\ Result(val, code).code = code
BY DEF Result, Results

(* The result of an instruction of a function is a value.                  *)
LEMMA InstValType ==
  ASSUME NEW f \in Callees \cup {NoFunc}, NEW id \in Nat
  PROVE  InstVal(f, id) \in IRValues
<1>1. f \in Identifiers \cup {NoFunc}
  BY DEF Identifiers, Callees
<1> QED
  BY <1>1 DEF InstVal, Table!Value, IRValues

(* The values of the sons, one each.                                       *)
LEMMA ValsType ==
  ASSUME NEW sons \in Seq(Results)
  PROVE  /\ Vals(sons) \in Seq(IRValues) /\ Len(Vals(sons)) = Len(sons)
         /\ \A k \in DOMAIN sons : Vals(sons)[k] = sons[k].val /\ sons[k].val \in IRValues
<1>1. ASSUME NEW i \in 1..Len(sons) PROVE sons[i].val \in IRValues
  <2>1. sons[i] \in Results
    OBVIOUS
  <2> QED
    BY <2>1 DEF Results
<1>2. Vals(sons) = [i \in 1..Len(sons) |-> sons[i].val] /\ Len(sons) \in Nat /\ DOMAIN sons = 1..Len(sons)
  BY DEF Vals
<1>3. /\ [i \in 1..Len(sons) |-> sons[i].val] \in Seq(IRValues)
      /\ Len([i \in 1..Len(sons) |-> sons[i].val]) = Len(sons)
  BY <1>1, <1>2, IsASeq
<1> QED
  BY <1>1, <1>2, <1>3

(* No code before a function's first son is visited.                       *)
LEMMA CodeEmpty == Code(<< >>) = << >>
BY FlattenEmpty DEF Code

(* The code of two sons, in order and the other way round.                 *)
LEMMA CodeOfTwo ==
  ASSUME NEW sons \in Seq(Results), Len(sons) = 2
  PROVE  /\ sons[1].code \in Seq(Insts) /\ sons[2].code \in Seq(Insts)
         /\ Code(sons) = sons[1].code \o sons[2].code
         /\ Code(Reverse(sons)) = sons[2].code \o sons[1].code
<1>1. sons[1] \in Results /\ sons[2] \in Results
  OBVIOUS
<1>2. ASSUME NEW a \in Results, NEW b \in Results
      PROVE  Code(<< a, b >>) = a.code \o b.code
  <2> DEFINE one == Append(<< >>, a)
             two == Append(one, b)
  <2>1. << >> \in Seq(Results) /\ one \in Seq(Results)
    OBVIOUS
  <2>2. two = << a, b >>
    <3>1. two \in Seq(Results) /\ Len(two) = 2 /\ two[1] = a /\ two[2] = b
      OBVIOUS
    <3> HIDE DEF two
    <3> QED
      BY <3>1
  <2>3. a.code \in Seq(Insts)
    BY DEF Results
  <2>4. Code(one) = Code(<< >>) \o a.code
    BY <2>1, CodeAppend
  <2>5. Code(one) = a.code
    BY <2>3, <2>4, CodeEmpty, ConcatEmptySeq, Zenon
  <2> HIDE DEF one
  <2>6. Code(two) = Code(one) \o b.code
    BY <2>1, CodeAppend
  <2> QED
    BY <2>2, <2>5, <2>6
<1>3. sons = << sons[1], sons[2] >> /\ Reverse(sons) = << sons[2], sons[1] >>
  <2>1. sons = << sons[1], sons[2] >>
    OBVIOUS
  <2>2. Reverse(sons) = [i \in 1..2 |-> sons[2 - i + 1]]
    BY DEF Reverse
  <2>3. [i \in 1..2 |-> sons[2 - i + 1]] = << sons[2], sons[1] >>
    OBVIOUS
  <2> QED
    BY <2>1, <2>2, <2>3
<1>4. sons[1].code \in Seq(Insts) /\ sons[2].code \in Seq(Insts)
  BY <1>1 DEF Results
<1> QED
  BY <1>1, <1>2, <1>3, <1>4


(* Every step is of one of the kinds.                                      *)
LEMMA EveryKind ==
  ASSUME Inv, Next
  PROVE  Kinds
<1>0. status = "running"
  BY DEF Next, VisitFunction, FinishFunction, VisitBlock, FinishBlock, FinishUnit, VisitVarDecl, FinishDecl,
         VisitOperator, VisitVarId, VisitUint, VisitUnknown, FinishBinary, FinishAssign, FinishReturn,
         VisitCall, FinishCall, Visiting, Finishing
<1>1. /\ FramesOK(frames) /\ frames \in Seq(Frames) /\ frames # << >> /\ TableOK(module)
      /\ created \in Nat /\ Func \in Callees \cup {NoFunc}
  BY TableFields DEF Inv, FramesOK, TableOK, Func
<1>e. << >> \in Seq(Insts) /\ Result(Null, << >>) \in Results
  <2>1. << >> \in Seq(Insts)
    OBVIOUS
  <2> QED
    BY <2>1, NullIsValue, ResultType
<1>2. ASSUME NEW outcome, Stop(outcome), outcome \in {"ok", "failed", "crashed"}
      PROVE  Stays
  BY <1>2 DEF Stop, Stays
<1>3. ASSUME NEW val \in IRValues, NEW code \in Seq(Insts), Len(frames) >= 2, Pop(val, code)
      PROVE  frames' = PoppedWith(frames, Result(val, code))
  BY <1>1, <1>3, PopIs, ResultType DEF Pop
<1>4. ASSUME NEW val \in IRValues, Leaf(val)
      PROVE  frames' = LeftWith(frames, Result(val, << >>))
  <2>1. Result(val, << >>) \in Results
    BY <1>e, ResultType
  <2> QED
    BY <1>1, <1>4, <2>1, LeafIs DEF Leaf
<1>5. ASSUME ~Pending PROVE Code(Top.sons) \in Seq(Insts) /\ Vals(Top.sons) \in Seq(IRValues)
  <2>1. Top.sons \in Seq(Results)
    BY <1>5, AtFinish
  <2> QED
    BY <1>e, <2>1, CodeAppend, ValsType
<1>6. InstVal(Func, created + 1) \in IRValues /\ created + 1 \in Nat
  BY <1>1, InstValType
<1>7. CASE VisitFunction
  <2>1. Pending /\ Current.op = "func"
    BY <1>7 DEF VisitFunction, Visiting
  <2>2. CASE CannotDefine(Current.name)
    <3>1. Stop("failed")
      BY <1>7, <2>2 DEF VisitFunction
    <3> QED
      BY <1>2, <3>1 DEF Kinds
  <2>3. CASE ~CannotDefine(Current.name)
    <3>1. Func = NoFunc /\ Current.name \notin DOMAIN module.funcMap
      BY <2>3 DEF CannotDefine, Table!FindFunction
    <3>2. Len(frames) = 1
      BY <2>1, <3>1, AtVisit
    <3>3. Begins
      BY <1>7, <2>1, <2>3, <3>1, <3>2 DEF VisitFunction, Begins, Push
    <3> QED
      BY <3>3 DEF Kinds
  <2> QED
    BY <2>2, <2>3
<1>8. CASE FinishFunction
  <2>1. ~Pending /\ Top.node.op = "func"
    BY <1>8 DEF FinishFunction, Finishing
  <2>2. Len(frames) = 2 /\ Func # NoFunc
    BY <2>1, AtFinish
  <2>3. frames' = PoppedWith(frames, Result(Null, << >>))
    <3>1. Pop(Null, << >>) /\ Len(frames) >= 2
      BY <1>8, <2>2 DEF FinishFunction
    <3> QED
      BY <1>3, <1>e, <3>1, NullIsValue
  <2>4. Ends
    BY <1>8, <2>1, <2>2, <2>3 DEF FinishFunction, Ends, Exit
  <2> QED
    BY <2>4 DEF Kinds
<1>9. ASSUME NEW op \in {"decl", "assign", "return", "add", "sub", "block", "call"}, Visiting(op)
      PROVE  /\ Pending /\ Current \in Nodes /\ Current.op = op /\ Current.op \in Handled \ {"unit", "func"}
             /\ NextSon(Last(frames), Current)
             /\ op # "decl" => Func # NoFunc
  <2>1. Pending /\ Current.op = op
    BY <1>9 DEF Visiting
  <2>2. Current \in Nodes /\ NextSon(Last(frames), Current) /\ (Func = NoFunc => Current.op \in {"func", "decl", "vardecl"})
    BY <2>1, AtVisit
  <2> QED
    BY <2>1, <2>2 DEF Handled
<1>10. CASE VisitBlock
  <2>1. Visiting("block") /\ module' = Table!EnterScope(module)
        /\ Push /\ UNCHANGED << program, ircode, info, created, status >>
    BY <1>10 DEF VisitBlock
  <2>2. /\ Current \in Nodes /\ Current.op = "block" /\ Current.op \in Handled \ {"unit", "func"}
        /\ NextSon(Last(frames), Current) /\ Func # NoFunc
    BY <1>9, <2>1
  <2>3. /\ TableOK(module') /\ Grows(module, module')
        /\ Len(module'.valueStack) = Len(module.valueStack) + 1
        /\ module'.currentFunc = Func /\ module'.funcMap = module.funcMap
    BY <1>1, <2>1, EnterScopeOK DEF Func
  <2>4. frames' = Append(frames, Frame(Current))
    BY <2>1 DEF Push
  <2>5. ScopesMatch(frames', module')
    BY <2>2, <2>3, <2>4, ScopesAfter
  <2>6. Enters(Current)
    BY <2>1, <2>2, <2>3, <2>4, <2>5 DEF Enters, Within
  <2> QED
    BY <2>6 DEF Kinds
<1>11. ASSUME NEW t \in Nodes, frames' = Append(frames, Frame(t)), t.op \notin {"func", "block"}, module' = module,
              UNCHANGED << program, ircode, status >>
       PROVE  Within
  <2>1. ScopesMatch(frames', module)
    <3>1. Len(module.valueStack) = Len(module.valueStack) + 0
      <4>1. Len(module.valueStack) \in Nat
        BY <1>1, TableFields DEF TableOK
      <4> QED
        BY <4>1
    <3> QED
      BY <1>11, <3>1, ScopesAfter
  <2> QED
    BY <1>11, <2>1, TableKept
<1>12. CASE VisitOperator
  <2>1. PICK op \in {"decl", "assign", "return", "add", "sub"} : Visiting(op)
    BY <1>12 DEF VisitOperator
  <2>2. Push /\ UNCHANGED << module, program, ircode, info, created, status >>
    BY <1>12 DEF VisitOperator
  <2>3. /\ Current \in Nodes /\ Current.op = op /\ Current.op \in Handled \ {"unit", "func"}
        /\ NextSon(Last(frames), Current) /\ (op # "decl" => Func # NoFunc)
    BY <1>9, <2>1
  <2>4. frames' = Append(frames, Frame(Current))
    BY <2>2 DEF Push
  <2>5. Within
    BY <1>11, <2>2, <2>3, <2>4
  <2>6. Enters(Current)
    BY <2>2, <2>3, <2>4, <2>5 DEF Enters
  <2> QED
    BY <2>6 DEF Kinds
<1>13. CASE VisitCall
  <2>1. Visiting("call")
    BY <1>13 DEF VisitCall
  <2>2. CASE ~Table!FindFunction(module, Current.name)
    <3>1. Stop("failed")
      BY <1>13, <2>2 DEF VisitCall
    <3> QED
      BY <1>2, <3>1 DEF Kinds
  <2>3. CASE Table!FindFunction(module, Current.name)
    <3>1. /\ info' = [info EXCEPT ![Func] = CountCall(@, Len(Current.sons))]
          /\ Push /\ UNCHANGED << module, program, ircode, created, status >>
      BY <1>13, <2>3 DEF VisitCall
    <3>2. /\ Current \in Nodes /\ Current.op = "call" /\ Current.op \in Handled \ {"unit", "func"}
          /\ NextSon(Last(frames), Current) /\ Func # NoFunc
      BY <1>9, <2>1
    <3>3. frames' = Append(frames, Frame(Current))
      BY <3>1 DEF Push
    <3>4. Within
      BY <1>11, <3>1, <3>2, <3>3
    <3>5. Enters(Current)
      BY <3>1, <3>2, <3>3, <3>4 DEF Enters
    <3> QED
      BY <3>5 DEF Kinds
  <2> QED
    BY <2>2, <2>3
<1>14. ASSUME NEW op \in {"vardecl", "var", "uint", "params"}, Visiting(op), NEW val \in IRValues, Leaf(val),
              TableOK(module'), Grows(module, module'), Len(module'.valueStack) = Len(module.valueStack),
              module'.currentFunc = Func, module'.funcMap = module.funcMap,
              val # Null => op # "vardecl" /\ Held(module', Func, val),
              UNCHANGED << program, ircode, info, created, status >>
       PROVE  Kinds
  <2>1. Pending /\ Current.op = op
    BY <1>14 DEF Visiting
  <2>2. /\ NextSon(Last(frames), Current) /\ (Func = NoFunc => Current.op \in {"func", "decl", "vardecl"})
        /\ Top = Last(frames)
        /\ Top.node.op = "unit" => Current.op \in {"func", "decl"}
        /\ Top.node.op = "decl" => Current.op = "vardecl"
    BY <2>1, AtVisit
  <2>3. frames' = LeftWith(frames, Result(val, << >>))
    BY <1>4, <1>14
  <2>4. ScopesMatch(frames', module')
    <3>1. Result(val, << >>) \in Results
      BY <1>e, ResultType
    <3> QED
      BY <1>14, <2>3, <3>1, ScopesAfter
  <2>5. Reads(val)
    BY <1>14, <2>1, <2>2, <2>3, <2>4 DEF Reads, Within, NextSon
  <2> QED
    BY <2>5 DEF Kinds
<1>15. CASE VisitVarDecl
  <2>1. Visiting("vardecl") /\ module' = Table!NewVarValue(module, Current.name, Current.num) /\ Leaf(Null)
        /\ UNCHANGED << program, ircode, info, created, status >>
    BY <1>15 DEF VisitVarDecl
  <2>2. Current.name \in Identifiers /\ Current.num \in Int
    BY <2>1, AtVisit DEF Visiting
  <2>3. module.currentFunc = NoFunc <=> Len(module.valueStack) = 1
    <3>1. CASE Func = NoFunc
      BY <3>1, Outside DEF Func
    <3>2. CASE Func # NoFunc
      <4>1. Len(module.valueStack) \in Nat /\ Len(module.valueStack) >= 2
        BY <3>2, Inside
      <4> DEFINE n == Len(module.valueStack)
      <4>2. n \in Nat /\ n >= 2
        BY <4>1
      <4> HIDE DEF n
      <4>3. n # 1
        BY <4>2
      <4> QED
        BY <3>2, <4>3 DEF Func, n
    <3> QED
      BY <3>1, <3>2
  <2>4. /\ TableOK(module') /\ Grows(module, module')
        /\ Len(module'.valueStack) = Len(module.valueStack)
        /\ module'.currentFunc = Func /\ module'.funcMap = module.funcMap
    BY <1>1, <2>1, <2>2, <2>3, NewVarValueOK DEF Func
  <2> QED
    BY <1>14, <2>1, <2>4, NullIsValue
<1>16. CASE VisitVarId
  <2> DEFINE val == Table!FindVarValue(module, Current.name)
  <2>1. Visiting("var") /\ Leaf(val) /\ UNCHANGED << module, program, ircode, info, created, status >>
    BY <1>16 DEF VisitVarId
  <2>2. val \in IRValues /\ (val # Null => Held(module, Func, val))
    BY <1>1, FindVarValueOK DEF Func
  <2> HIDE DEF val
  <2>3. Grows(module, module)
    BY DEF Grows
  <2> QED
    BY <1>1, <1>14, <2>1, <2>2, <2>3 DEF Func
<1>17. CASE VisitUint
  <2> DEFINE val == ConstInt(Current.num)
  <2>1. Visiting("uint") /\ module' = Table!NewConstInt(module, Current.num) /\ Leaf(val)
        /\ UNCHANGED << program, ircode, info, created, status >>
    BY <1>17 DEF VisitUint
  <2>2. Current.num \in Int
    BY <2>1, AtVisit DEF Visiting
  <2>3. /\ TableOK(module') /\ Grows(module, module')
        /\ module'.valueStack = module.valueStack
        /\ module'.currentFunc = Func /\ module'.funcMap = module.funcMap
        /\ Current.num \in module'.constInts
    BY <1>1, <2>1, <2>2, NewConstIntOK DEF Func
  <2>4. val \in IRValues /\ Held(module', Func, val)
    BY <2>2, <2>3 DEF ConstInt, Table!Value, IRValues, Held, IsConst
  <2> HIDE DEF val
  <2> QED
    BY <1>14, <2>1, <2>3, <2>4
<1>18. CASE VisitUnknown
  <2>1. Visiting("params") /\ Leaf(Null) /\ UNCHANGED << module, program, ircode, info, created, status >>
    BY <1>18 DEF VisitUnknown
  <2>2. Grows(module, module)
    BY DEF Grows
  <2> QED
    BY <1>1, <1>14, <2>1, <2>2, NullIsValue DEF Func
<1>19. CASE FinishUnit
  BY <1>19 DEF FinishUnit, Stays, Kinds

<1>20. ASSUME NEW op \in Handled \ {"unit", "func"}, Finishing(op),
              NEW val \in IRValues, NEW old \in Seq(Insts), NEW new \in Seq(Insts), Pop(val, old \o new),
              TableOK(module'), Grows(module, module'),
              Len(module'.valueStack) = Len(module.valueStack) - (IF op = "block" THEN 1 ELSE 0),
              module'.currentFunc = Func, module'.funcMap = module.funcMap,
              Gathered(old), Added(val, new), created' = created + Len(new),
              op = "decl" => val = Null /\ old = << >> /\ new = << >>,
              UNCHANGED << program, ircode, info, status >>
       PROVE  Kinds
  <2>1. ~Pending /\ Top.node.op = op
    BY <1>20 DEF Finishing
  <2>2. /\ Len(frames) >= 2
        /\ op # "decl" => Func # NoFunc /\ Len(frames) >= 3
    BY <2>1, AtFinish
  <2>3. old \o new \in Seq(Insts)
    OBVIOUS
  <2>4. frames' = PoppedWith(frames, Result(val, old \o new))
    BY <1>3, <1>20, <2>2, <2>3
  <2>5. ScopesMatch(frames', module')
    <3>1. Result(val, old \o new) \in Results
      BY <2>3, ResultType
    <3>2. op = "block" <=> Top.node.op \in {"func", "block"}
      BY <1>20, <2>1
    <3>3. Len(module'.valueStack) = Len(module.valueStack) - (IF Top.node.op \in {"func", "block"} THEN 1 ELSE 0)
      BY <1>20, <3>2
    <3> QED
      BY <2>2, <2>4, <3>1, <3>3, ScopesAfter
  <2>6. Len(frames) = 2 => val = Null /\ old = << >> /\ new = << >>
    <3>1. op # "decl" => Len(frames) # 2
      <4> DEFINE n == Len(frames)
      <4>1. n \in Nat /\ (op # "decl" => n >= 3)
        BY <1>1, <2>2
      <4> HIDE DEF n
      <4>2. op # "decl" => n # 2
        BY <4>1
      <4> QED
        BY <4>2 DEF n
    <3> QED
      BY <1>20, <3>1
  <2>7. Within
    BY <1>20, <2>5 DEF Within
  <2>8. Returns(val, old, new)
    BY <1>20, <2>1, <2>2, <2>4, <2>6, <2>7 DEF Returns
  <2> QED
    BY <2>8 DEF Kinds
<1>21. ASSUME NEW op \in Handled \ {"unit", "func", "block"}, Finishing(op),
              NEW val \in IRValues, NEW old \in Seq(Insts), NEW new \in Seq(Insts), Pop(val, old \o new),
              Gathered(old), Added(val, new), created' = created + Len(new),
              op = "decl" => val = Null /\ old = << >> /\ new = << >>,
              UNCHANGED << module, program, ircode, info, status >>
       PROVE  Kinds
  <2>1. Grows(module, module)
    BY DEF Grows
  <2>2. Len(module.valueStack) \in Nat
    BY <1>1, TableFields DEF TableOK
  <2>3. Len(module'.valueStack) = Len(module.valueStack) - (IF op = "block" THEN 1 ELSE 0)
    <3>1. op # "block" /\ module' = module
      BY <1>21
    <3>2. Len(module.valueStack) = Len(module.valueStack) - 0
      BY <2>2
    <3> QED
      BY <3>1, <3>2
  <2> QED
    BY <1>1, <1>20, <1>21, <2>1, <2>3 DEF Func
<1>22. CASE FinishBlock
  <2>1. Finishing("block") /\ module' = Table!LeaveScope(module) /\ Pop(Null, Code(Top.sons))
        /\ UNCHANGED << program, ircode, info, created, status >>
    BY <1>22 DEF FinishBlock
  <2>2. ~Pending /\ Top.node.op = "block"
    BY <2>1 DEF Finishing
  <2>3. Func # NoFunc /\ Len(module.valueStack) >= 2
    BY <2>2, AtFinish, Inside
  <2>4. /\ TableOK(module') /\ Grows(module, module')
        /\ Len(module'.valueStack) = Len(module.valueStack) - 1
        /\ module'.currentFunc = Func /\ module'.funcMap = module.funcMap
    BY <1>1, <2>1, <2>3, LeaveScopeOK DEF Func
  <2> DEFINE old == Code(Top.sons)
             new == << >>
  <2>5. old \in Seq(Insts) /\ new \in Seq(Insts)
    BY <1>5, <2>2
  <2>6. Gathered(old) /\ Added(Null, new)
    BY <2>2 DEF Gathered, Added
  <2>7. created' = created + Len(new)
    BY <1>1, <2>1
  <2> HIDE DEF old
  <2>8. old \o new = old
    BY <2>5, ConcatEmptySeq
  <2>9. Pop(Null, old \o new)
    BY <2>1, <2>8 DEF old
  <2> HIDE DEF new
  <2>10. "block" \in Handled \ {"unit", "func"}
    BY DEF Handled
  <2>11. Len(module'.valueStack) = Len(module.valueStack) - (IF "block" = "block" THEN 1 ELSE 0)
    BY <2>4
  <2> QED
    BY <1>20, <2>1, <2>4, <2>5, <2>6, <2>7, <2>9, <2>10, <2>11, NullIsValue
<1>23. CASE FinishDecl
  <2>1. Finishing("decl")
    BY <1>23 DEF FinishDecl
  <2>2. CASE Top.sons = << >>
    <3>1. Stop("failed")
      BY <1>23, <2>2 DEF FinishDecl
    <3> QED
      BY <1>2, <3>1 DEF Kinds
  <2>3. CASE Top.sons # << >>
    <3>1. Pop(Null, << >>) /\ UNCHANGED << module, program, ircode, info, created, status >>
      BY <1>23, <2>3 DEF FinishDecl
    <3>2. ~Pending /\ Top.node.op = "decl"
      BY <2>1 DEF Finishing
    <3>3. Code(Top.sons) = << >>
      BY <3>2, AtFinish DEF FrameOK, Quiet
    <3> DEFINE none == << >>
    <3>4. none \in Seq(Insts) /\ none \o none = none
      BY ConcatEmptySeq
    <3>5. Gathered(none) /\ Added(Null, none)
      BY <3>2, <3>3 DEF Gathered, Added
    <3>6. created' = created + Len(none)
      BY <1>1, <3>1
    <3>7. Pop(Null, none \o none)
      BY <3>1, <3>4
    <3>8. Null = Null /\ none = << >>
      OBVIOUS
    <3> HIDE DEF none
    <3>9. "decl" \in Handled \ {"unit", "func", "block"}
      BY DEF Handled
    <3> QED
      BY <1>21, <2>1, <3>1, <3>4, <3>5, <3>6, <3>7, <3>8, <3>9, NullIsValue
  <2> QED
    BY <2>2, <2>3
<1>24. ASSUME NEW op \in {"assign", "add", "sub", "call"}, Finishing(op), ~NullAmong(Vals(Top.sons)),
              NEW old, Gathered(old), old \in Seq(Insts), NEW target \in IRValues,
              Emit(IF op = "assign" THEN "move" ELSE op, old, target)
       PROVE  Kinds
  <2> DEFINE iop == IF op = "assign" THEN "move" ELSE op
             new == << Inst(iop, created + 1, Vals(Top.sons), target) >>
             val == InstVal(Func, created + 1)
  <2>1. ~Pending /\ Top.node.op = op
    BY <1>24 DEF Finishing
  <2>2. /\ created' = created + 1 /\ Pop(val, old \o new)
        /\ UNCHANGED << module, program, ircode, info, status >>
    BY <1>24 DEF Emit
  <2>3. iop \in Ops /\ iop \in {"move", "add", "sub", "call"}
    BY DEF Ops
  <2>4. new \in Seq(Insts) /\ Len(new) = 1
    <3>1. Vals(Top.sons) \in Seq(IRValues)
      BY <1>5, <2>1
    <3> HIDE DEF iop
    <3> QED
      BY <1>6, <2>3, <3>1, InstType
  <2>5. val \in IRValues
    BY <1>6
  <2>6. Added(val, new)
    BY <1>24, <2>1, <2>3 DEF Added
  <2>7. created' = created + Len(new)
    BY <2>2, <2>4
  <2> HIDE DEF new, val
  <2>8. op \in Handled \ {"unit", "func", "block"} /\ op # "decl"
    BY DEF Handled
  <2> QED
    BY <1>21, <1>24, <2>2, <2>4, <2>5, <2>6, <2>7, <2>8
<1>25. ASSUME NEW op \in {"add", "sub"}, FinishBinary(op) PROVE Kinds
  <2>1. Finishing(op)
    BY <1>25 DEF FinishBinary
  <2>2. CASE NullAmong(Vals(Top.sons))
    <3>1. Stop("crashed")
      BY <1>25, <2>2 DEF FinishBinary
    <3> QED
      BY <1>2, <3>1 DEF Kinds
  <2>3. CASE ~NullAmong(Vals(Top.sons))
    <3>1. Emit(op, Code(Top.sons), Null)
      BY <1>25, <2>3 DEF FinishBinary
    <3>2. Gathered(Code(Top.sons)) /\ Code(Top.sons) \in Seq(Insts)
      BY <1>5, <2>1 DEF Gathered, Finishing
    <3>3. op = (IF op = "assign" THEN "move" ELSE op) /\ op \in {"assign", "add", "sub", "call"}
      OBVIOUS
    <3> QED
      BY <1>24, <2>1, <2>3, <3>1, <3>2, <3>3, NullIsValue
  <2> QED
    BY <2>2, <2>3
<1>26. CASE FinishAssign
  <2>1. Finishing("assign")
    BY <1>26 DEF FinishAssign
  <2>2. CASE Len(Top.sons) < 2
    <3>1. \E outcome \in {"failed", "crashed"} : Stop(outcome)
      BY <1>26, <2>2 DEF FinishAssign
    <3> QED
      BY <1>2, <3>1 DEF Kinds
  <2>3. CASE ~(Len(Top.sons) < 2) /\ NullAmong(Vals(Top.sons))
    <3>1. Stop("crashed")
      BY <1>26, <2>3 DEF FinishAssign
    <3> QED
      BY <1>2, <3>1 DEF Kinds
  <2>4. CASE ~(Len(Top.sons) < 2) /\ ~NullAmong(Vals(Top.sons))
    <3> DEFINE old == Code(Reverse(Top.sons))
    <3>1. Emit("move", old, Null)
      BY <1>26, <2>4 DEF FinishAssign
    <3>2. ~Pending /\ Top.node.op = "assign"
      BY <2>1 DEF Finishing
    <3>3. Top.sons \in Seq(Results) /\ Top.node \in Nodes /\ Len(Top.sons) = Len(Top.node.sons)
      BY <3>2, AtFinish
    <3>4. Len(Top.node.sons) <= 2
      BY <3>2, <3>3, NodeShape
    <3>5. Len(Top.sons) = 2
      <4> DEFINE l == Len(Top.sons)
      <4>1. l \in Nat /\ ~(l < 2) /\ l <= 2
        BY <2>4, <3>3, <3>4
      <4> HIDE DEF l
      <4>2. l = 2
        BY <4>1
      <4> QED
        BY <4>2 DEF l
    <3>6. /\ Top.sons[1].code \in Seq(Insts) /\ Top.sons[2].code \in Seq(Insts)
          /\ Code(Top.sons) = Top.sons[1].code \o Top.sons[2].code
          /\ old = Top.sons[2].code \o Top.sons[1].code
      BY <3>3, <3>5, CodeOfTwo
    <3> HIDE DEF old
    <3>7. Gathered(old) /\ old \in Seq(Insts)
      BY <3>2, <3>5, <3>6, ConcatProperties DEF Gathered
    <3>8. Emit(IF "assign" = "assign" THEN "move" ELSE "assign", old, Null)
      BY <3>1
    <3> QED
      BY <1>24, <2>1, <2>4, <3>7, <3>8, NullIsValue
  <2> QED
    BY <2>2, <2>3, <2>4
<1>27. CASE FinishReturn
  <2>1. Finishing("return")
    BY <1>27 DEF FinishReturn
  <2>2. CASE Top.sons = << >> \/ NullAmong(Vals(Top.sons))
    <3>1. Stop("crashed")
      BY <1>27, <2>2 DEF FinishReturn
    <3> QED
      BY <1>2, <3>1 DEF Kinds
  <2>3. CASE ~(Top.sons = << >> \/ NullAmong(Vals(Top.sons)))
    <3> DEFINE val == Top.sons[1].val
               old == Code(Top.sons)
               new == ReturnCode(val)
    <3>1. /\ created' = created + 2 /\ Pop(val, old \o new)
          /\ UNCHANGED << module, program, ircode, info, status >>
      BY <1>27, <2>3 DEF FinishReturn
    <3>2. ~Pending /\ Top.node.op = "return"
      BY <2>1 DEF Finishing
    <3>3. Top.sons \in Seq(Results) /\ Func # NoFunc
      BY <3>2, AtFinish
    <3>4. old \in Seq(Insts)
      BY <1>5, <3>2
    <3>5. val \in IRValues
      <4>1. 1 \in DOMAIN Top.sons
        BY <2>3, <3>3
      <4> QED
        BY <3>3, <4>1, ValsType
    <3>6. new \in Seq(Insts) /\ Len(new) = 2
      <4> DEFINE slot  == info[Func].returnValue
                 label == info[Func].exitLabel
                 a     == Inst("move", created + 1, << slot, val >>, Null)
                 b     == Inst("goto", created + 2, << >>, label)
      <4>1. info[Func] \in Attrs
        BY <3>3, Inside DEF Inv, FunctionsOK
      <4>2. slot \in IRValues /\ label \in IRValues
        BY <4>1 DEF Attrs
      <4> HIDE DEF slot, label, val
      <4>3. << slot, val >> \in Seq(IRValues) /\ << >> \in Seq(IRValues) /\ created + 2 \in Nat
        BY <1>1, <3>5, <4>2
      <4>4. a \in Insts /\ b \in Insts
        BY <1>6, <4>2, <4>3, InstType, NullIsValue DEF Ops
      <4>5. new = << a, b >>
        BY DEF ReturnCode, slot, label
      <4> HIDE DEF a, b, new
      <4> QED
        BY <4>4, <4>5
    <3>7. Gathered(old) /\ Added(val, new)
      BY <2>3, <3>2 DEF Gathered, Added
    <3>8. created' = created + Len(new)
      BY <3>1, <3>6
    <3> HIDE DEF val, old, new
    <3>9. "return" \in Handled \ {"unit", "func", "block"} /\ "return" # "decl"
      BY DEF Handled
    <3> QED
      BY <1>21, <2>1, <3>1, <3>4, <3>5, <3>6, <3>7, <3>8, <3>9
  <2> QED
    BY <2>2, <2>3
<1>28. CASE FinishCall
  <2>1. Finishing("call")
    BY <1>28 DEF FinishCall
  <2>2. CASE WrongArgs(Top.node.name, Top.sons)
    <3>1. Stop("failed")
      BY <1>28, <2>2 DEF FinishCall
    <3> QED
      BY <1>2, <3>1 DEF Kinds
  <2>3. CASE ~WrongArgs(Top.node.name, Top.sons) /\ NullAmong(Vals(Top.sons))
    <3>1. Stop("crashed")
      BY <1>28, <2>3 DEF FinishCall
    <3> QED
      BY <1>2, <3>1 DEF Kinds
  <2>4. CASE ~WrongArgs(Top.node.name, Top.sons) /\ ~NullAmong(Vals(Top.sons))
    <3> DEFINE target == Table!Value("func", Top.node.name, 0)
    <3>1. Emit("call", Code(Top.sons), target)
      BY <1>28, <2>4 DEF FinishCall
    <3>2. Gathered(Code(Top.sons)) /\ Code(Top.sons) \in Seq(Insts)
      BY <1>5, <2>1 DEF Gathered, Finishing
    <3>3. Emit(IF "call" = "assign" THEN "move" ELSE "call", Code(Top.sons), target)
      BY <3>1
    <3>4. target \in IRValues
      <4>1. Top.node.name \in Identifiers
        BY <2>1, AtFinish, NodeShape DEF Finishing
      <4> QED
        BY <4>1 DEF Table!Value, IRValues
    <3> HIDE DEF target
    <3> QED
      BY <1>24, <2>1, <2>4, <3>2, <3>3, <3>4
  <2> QED
    BY <2>2, <2>3, <2>4
<1> QED
  BY <1>7, <1>8, <1>10, <1>12, <1>13, <1>15, <1>16, <1>17, <1>18, <1>19, <1>22, <1>23, <1>25, <1>26, <1>27, <1>28
     DEF Next


-----------------------------------------------------------------------------
(* The first invariant.                                                    *)

(* Results do not change the nodes of the frames.                          *)
LEMMA NodesKept ==
  ASSUME NEW fs, FramesOK(fs), NEW r \in Results
  PROVE  /\ Len(LeftWith(fs, r)) = Len(fs)
         /\ \A i \in 1..Len(fs) : LeftWith(fs, r)[i].node = fs[i].node
         /\ Len(fs) >= 2 =>
              /\ Len(PoppedWith(fs, r)) = Len(fs) - 1
              /\ \A i \in 1..Len(fs) - 1 : PoppedWith(fs, r)[i].node = fs[i].node
<1> DEFINE n == Len(fs)
<1>1. fs \in Seq(Frames) /\ fs # << >> /\ n \in Nat /\ n >= 1 /\ Last(fs) = fs[n] /\ Last(fs) \in Frames
  BY FramesFacts DEF FramesOK
<1>2. ASSUME NEW fr \in Frames PROVE With(fr, r).node = fr.node
  BY WithIs
<1>3. /\ Len(LeftWith(fs, r)) = n /\ LeftWith(fs, r)[n] = With(Last(fs), r)
      /\ \A i \in 1..n - 1 : LeftWith(fs, r)[i] = fs[i]
  BY <1>1, LeftAt
<1>4. ASSUME NEW i \in 1..n PROVE LeftWith(fs, r)[i].node = fs[i].node
  <2>1. CASE i = n
    BY <1>1, <1>2, <1>3, <2>1
  <2>2. CASE i # n
    <3>1. i \in 1..n - 1
      <4>0. n \in Nat
        BY <1>1
      <4> HIDE DEF n
      <4> QED
        BY <2>2, <4>0
    <3> QED
      BY <1>3, <3>1
  <2> QED
    BY <2>1, <2>2
<1>5. ASSUME n >= 2, NEW i \in 1..n - 1 PROVE PoppedWith(fs, r)[i].node = fs[i].node
  <2>0. n \in Nat
    BY <1>1
  <2>1. /\ PoppedWith(fs, r)[n - 1] = With(fs[n - 1], r)
        /\ \A j \in 1..n - 2 : PoppedWith(fs, r)[j] = fs[j]
    BY <1>1, <1>5, PoppedAt
  <2>2. CASE i = n - 1
    <3>1. n - 1 \in 1..n
      <4> HIDE DEF n
      <4> QED
        BY <1>5, <2>0
    <3>2. fs[n - 1] \in Frames
      BY <1>1, <3>1
    <3> QED
      BY <1>2, <2>1, <2>2, <3>2
  <2>3. CASE i # n - 1
    <3>1. i \in 1..n - 2
      <4> HIDE DEF n
      <4> QED
        BY <1>5, <2>0, <2>3
    <3> QED
      BY <2>1, <3>1
  <2> QED
    BY <2>2, <2>3
<1>6. n >= 2 => Len(PoppedWith(fs, r)) = n - 1
  BY <1>1, PoppedAt
<1> QED
  BY <1>3, <1>4, <1>5, <1>6

(* It holds at the start.                                                  *)
LEMMA InvInit == Init => Inv
<1> SUFFICES ASSUME Init PROVE Inv
  OBVIOUS
<1>1. program \in Nodes /\ program.op = "unit"
  BY ProgramsAssumption DEF Init, Having
<1>2. module = Table!NewModule
  BY DEF Init
<1>3. TableOK(module) /\ Len(module.valueStack) = 1 /\ Func = NoFunc /\ DOMAIN module.funcMap = Table!Builtins
  BY <1>2, NewModuleOK DEF Func
<1> DEFINE fr == Frame(program)
<1>4. fr \in Frames /\ fr.node = program /\ fr.sons = << >>
  BY <1>1 DEF Frame, Frames
<1>5. FrameOK(fr)
  <2>1. program.sons \in Seq(Nodes)
    BY <1>1, NodeShape
  <2>2. Len(fr.sons) <= Len(fr.node.sons)
    BY <1>4, <2>1
  <2>3. Quiet(fr)
    BY <1>4, CodeEmpty DEF Quiet
  <2> QED
    BY <1>1, <1>4, <2>2, <2>3 DEF FrameOK, Handled
<1>6. frames = << fr >>
  BY DEF Init
<1> HIDE DEF fr
<1>7. frames \in Seq(Frames) /\ Len(frames) = 1 /\ DOMAIN frames = {1} /\ frames[1] = fr
  BY <1>4, <1>6
<1>8. frames # << >> /\ 1..Len(frames) - 1 = {}
  BY <1>7
<1>9. FramesOK(frames)
  BY <1>1, <1>4, <1>5, <1>7, <1>8 DEF FramesOK
<1>10. frames[1].node = program
  BY <1>4, <1>7
<1>11. ~Compiling(frames)
  BY <1>7 DEF Compiling
<1>12. Openers(frames) = {}
  BY <1>1, <1>4, <1>7 DEF Openers, OpensScope
<1>13. ScopesMatch(frames, module)
  BY <1>3, <1>12, FS_EmptySet DEF ScopesMatch
<1>14. FunctionsOK(ircode, info, module)
  <2>1. DOMAIN ircode = {} /\ DOMAIN info = {}
    BY DEF Init
  <2> QED
    BY <1>3, <2>1 DEF FunctionsOK
<1>15. created \in Nat /\ status = "running"
  BY DEF Init
<1> QED
  BY <1>3, <1>9, <1>10, <1>11, <1>13, <1>14, <1>15 DEF Inv

(* Steps inside of a function, or of the unit, keep it.                    *)
LEMMA WithinKeeps ==
  ASSUME Inv, Within, created' \in Nat,
         FramesOK(frames'), frames'[1].node = program, Compiling(frames') <=> Compiling(frames),
         DOMAIN info' = DOMAIN info,
         \A f \in DOMAIN info : info'[f] \in Attrs /\ info'[f].exitLabel = info[f].exitLabel
                                                   /\ info'[f].returnValue = info[f].returnValue
  PROVE  Inv'
<1>1. status' = status /\ program' = program /\ ircode' = ircode
  BY DEF Within
<1>2. TableOK(module') /\ ScopesMatch(frames', module') /\ Func' = Func
  BY DEF Within, Func
<1>3. FunctionsOK(ircode', info', module')
  BY <1>1 DEF Inv, FunctionsOK, Within
<1>4. ASSUME Func # NoFunc PROVE Opened(Func, ircode', info', module')
  <2>1. Func \in DOMAIN info
    BY <1>4, Inside
  <2>2. IsLocal(module, Func, info[Func].returnValue) /\ Grows(module, module')
    BY <1>4 DEF Inv, Opened, Within
  <2>3. IsLocal(module', Func, info[Func].returnValue)
    BY <2>2, HeldGrows
  <2> QED
    BY <1>1, <1>4, <2>1, <2>3 DEF Inv, Opened
<1> QED
  BY <1>1, <1>2, <1>3, <1>4 DEF Inv


(* A result is of that type, for the handlers that return.                 *)
LEMMA ReturnedType ==
  ASSUME NEW val, NEW old, NEW new, Returns(val, old, new)
  PROVE  /\ old \o new \in Seq(Insts)
         /\ Result(val, old \o new) \in Results
         /\ Result(val, old \o new).val = val /\ Result(val, old \o new).code = old \o new
<1>1. old \in Seq(Insts) /\ new \in Seq(Insts) /\ val \in IRValues
  BY DEF Returns
<1>2. old \o new \in Seq(Insts)
  BY <1>1
<1> QED
  BY <1>1, <1>2, ResultType

(* A function is begun in the unit.                                        *)
LEMMA BeginsKeeps == ASSUME Inv, Begins PROVE Inv'
<1> DEFINE f == Current.name
<1>1. /\ Func = NoFunc /\ Len(frames) = 1 /\ Pending /\ Current.op = "func" /\ f \notin DOMAIN module.funcMap
      /\ module' = Table!BeginFunction(module, f)
      /\ created' = 2 /\ frames' = Append(frames, Frame(Current))
      /\ UNCHANGED << program, status >>
  BY DEF Begins
<1>2. Current \in Nodes /\ NextSon(Last(frames), Current) /\ f \in Callees
  BY <1>1, AtVisit
<1>3. FramesOK(frames) /\ frames[1].node = program /\ TableOK(module)
  BY DEF Inv
<1>4. /\ FramesOK(frames') /\ Len(frames') = 2 /\ frames'[1] = frames[1] /\ frames'[2] = Frame(Current)
      /\ Frame(Current).node = Current
  <2>1. Current.op \in Handled \ {"unit"} /\ 1 \in 1..Len(frames) /\ Len(frames) + 1 = 2
    BY <1>1 DEF Handled
  <2>2. /\ FramesOK(Append(frames, Frame(Current))) /\ Frame(Current).node = Current
        /\ Len(Append(frames, Frame(Current))) = Len(frames) + 1
        /\ \A i \in 1..Len(frames) : Append(frames, Frame(Current))[i] = frames[i]
        /\ Append(frames, Frame(Current))[Len(frames) + 1] = Frame(Current)
    BY <1>1, <1>2, <1>3, <2>1, PushFrames
  <2> QED
    BY <1>1, <2>1, <2>2, Zenon
<1>5. Compiling(frames')
  <2>1. 2 \in DOMAIN frames'
    BY <1>4 DEF FramesOK
  <2> QED
    BY <1>1, <1>4, <2>1 DEF Compiling
<1>6. Len(module.valueStack) = 1
  BY <1>1, Outside
<1> DEFINE slot == Table!FindCurrentScope(module', Table!Anon)
<1>7. /\ TableOK(module') /\ Len(module'.valueStack) = 2
      /\ module'.currentFunc = f /\ DOMAIN module'.funcMap = DOMAIN module.funcMap \cup {f}
      /\ slot \in IRValues /\ IsLocal(module', f, slot)
  BY <1>1, <1>2, <1>3, <1>6, BeginFunctionOK DEF Func
<1>8. ScopesMatch(frames', module')
  <2>1. Len(module'.valueStack) = Len(module.valueStack) + (IF Current.op \in {"func", "block"} THEN 1 ELSE 0)
    BY <1>1, <1>6, <1>7
  <2> QED
    BY <1>1, <1>2, <2>1, ScopesAfter
<1>9. f # NoFunc
  BY <1>2, NullAssumption DEF Callees
<1> DEFINE entry == << Inst("entry", 1, << >>, Null) >>
           attrs == [exitLabel |-> InstVal(f, 2), returnValue |-> slot,
                     existFuncCall |-> FALSE, maxFuncCallArgCnt |-> 0]
<1>10. ircode' = Table!Insert(ircode, f, entry) /\ info' = Table!Insert(info, f, attrs)
  BY DEF Begins
<1>11. entry \in Seq(Insts) /\ attrs \in Attrs
  <2>1. << >> \in Seq(IRValues) /\ "entry" \in Ops /\ 1 \in Nat /\ 2 \in Nat /\ 0 \in Nat
    BY DEF Ops
  <2>2. entry \in Seq(Insts)
    BY <2>1, NullIsValue, InstType
  <2>3. InstVal(f, 2) \in IRValues
    BY <1>2, <2>1, InstValType
  <2> QED
    BY <1>7, <2>1, <2>2, <2>3 DEF Attrs
<1>12. attrs.exitLabel = InstVal(f, 2) /\ attrs.returnValue = slot
  OBVIOUS
<1>13. FunctionsOK(ircode, info, module)
  BY DEF Inv
<1>14. f \notin DOMAIN ircode /\ f \notin DOMAIN info /\ f \notin Table!Builtins
  BY <1>1, <1>3, <1>13 DEF FunctionsOK, TableOK
<1> HIDE DEF f, slot, entry, attrs
<1>15. /\ DOMAIN ircode' = DOMAIN ircode \cup {f} /\ DOMAIN info' = DOMAIN info \cup {f}
       /\ ircode'[f] = entry /\ info'[f] = attrs
       /\ \A g \in DOMAIN ircode : ircode'[g] = ircode[g]
       /\ \A g \in DOMAIN info : info'[g] = info[g]
  BY <1>10, <1>14 DEF Table!Insert
<1>16. FunctionsOK(ircode', info', module')
  BY <1>7, <1>11, <1>13, <1>14, <1>15 DEF FunctionsOK
<1>17. Opened(f, ircode', info', module')
  BY <1>7, <1>12, <1>15 DEF Opened, entry
<1>18. Func' = f
  BY <1>7 DEF Func
<1>19. created' \in Nat /\ status' = status /\ frames'[1].node = program'
  BY <1>1, <1>3, <1>4
<1>20. status' \in {"running", "ok", "failed", "crashed"}
  BY <1>19 DEF Inv
<1> QED
  BY <1>4, <1>5, <1>7, <1>8, <1>9, <1>16, <1>17, <1>18, <1>19, <1>20 DEF Inv

(* The function's own scope is the one that is left.                       *)
LEMMA EndsScopes == ASSUME Inv, Ends PROVE Len(module.valueStack) = 2
<1>1. Len(frames) = 2 /\ Top.node.op = "func" /\ FramesOK(frames) /\ ScopesMatch(frames, module)
  BY DEF Ends, Inv
<1>2. DOMAIN frames = 1..2 /\ frames[1].node.op = "unit" /\ Last(frames) = frames[2]
  BY <1>1, FramesFacts
<1>3. Openers(frames) = {2}
  BY <1>1, <1>2 DEF Openers, OpensScope, Top
<1>4. Cardinality({2}) = 1
  BY FS_Singleton
<1> QED
  BY <1>1, <1>3, <1>4 DEF ScopesMatch

(* A function is finished.                                                 *)
LEMMA EndsKeeps == ASSUME Inv, Ends PROVE Inv' /\ Func' = NoFunc
<1>1. /\ Func # NoFunc /\ ~Pending /\ Len(frames) = 2 /\ Top.node.op = "func"
      /\ ircode' = [ircode EXCEPT ![Func] = (@ \o Code(Top.sons)) \o Exit]
      /\ created' = created + 1
      /\ module' = Table!EndFunction(module)
      /\ frames' = PoppedWith(frames, Result(Null, << >>))
      /\ UNCHANGED << program, info, status >>
  BY DEF Ends
<1>2. /\ FramesOK(frames) /\ frames[1].node = program /\ TableOK(module) /\ ScopesMatch(frames, module)
      /\ created \in Nat /\ FunctionsOK(ircode, info, module)
      /\ status \in {"running", "ok", "failed", "crashed"}
  BY DEF Inv
<1>3. Result(Null, << >>) \in Results
  <2>1. << >> \in Seq(Insts)
    OBVIOUS
  <2> QED
    BY <2>1, NullIsValue, ResultType
<1>4. Len(module.valueStack) = 2
  BY EndsScopes
<1>5. /\ TableOK(module') /\ Len(module'.valueStack) = 1
      /\ module'.currentFunc = NoFunc /\ module'.funcMap = module.funcMap
  BY <1>1, <1>2, <1>4, EndFunctionOK
<1>a. Len(frames) >= 2 /\ Len(frames) - 1 = 1 /\ 1 \in 1..Len(frames) - 1
  <2> DEFINE n == Len(frames)
  <2>1. n = 2
    BY <1>1
  <2> HIDE DEF n
  <2>2. n >= 2 /\ n - 1 = 1 /\ 1 \in 1..n - 1
    BY <2>1
  <2> QED
    BY <2>2 DEF n
<1>6. FramesOK(frames')
  <2>1. FramesOK(PoppedWith(frames, Result(Null, << >>)))
    BY <1>2, <1>3, <1>a, PoppedFrames
  <2> QED
    BY <1>1, <2>1
<1>7. Len(frames') = 1 /\ frames'[1].node = program
  <2> DEFINE gs == PoppedWith(frames, Result(Null, << >>))
  <2>1. Len(gs) = Len(frames) - 1 /\ \A i \in 1..Len(frames) - 1 : gs[i].node = frames[i].node
    BY <1>2, <1>3, <1>a, NodesKept
  <2> HIDE DEF gs
  <2>2. frames' = gs
    BY <1>1 DEF gs
  <2> QED
    BY <1>2, <1>a, <2>1, <2>2, Zenon
<1>8. ~Compiling(frames')
  <2>1. frames' \in Seq(Frames)
    BY <1>6 DEF FramesOK
  <2>2. 2 \notin DOMAIN frames'
    BY <1>7, <2>1
  <2> QED
    BY <2>2 DEF Compiling
<1>9. ScopesMatch(frames', module')
  <2>1. Len(module'.valueStack) = Len(module.valueStack) - (IF Top.node.op \in {"func", "block"} THEN 1 ELSE 0)
    BY <1>1, <1>4, <1>5
  <2>2. Len(frames) >= 2
    BY <1>1
  <2> QED
    BY <1>1, <1>3, <2>1, <2>2, ScopesAfter
<1>10. FunctionsOK(ircode', info', module')
  <2>1. Func \in DOMAIN ircode /\ ircode[Func] \in Seq(Insts) /\ info[Func] \in Attrs
    BY <1>1, <1>2, Inside DEF FunctionsOK
  <2>2. Code(Top.sons) \in Seq(Insts)
    BY <1>1, <1>3, AtFinish, CodeAppend
  <2>3. Exit \in Seq(Insts)
    <3> DEFINE slot == info[Func].returnValue
               a    == Inst("label", 2, << >>, Null)
               b    == Inst("exit", created + 1, << slot >>, Null)
    <3>1. slot \in IRValues
      BY <2>1 DEF Attrs
    <3> HIDE DEF slot
    <3>2. << >> \in Seq(IRValues) /\ << slot >> \in Seq(IRValues) /\ 2 \in Nat /\ created + 1 \in Nat
      BY <1>2, <3>1
    <3>3. a \in Insts /\ b \in Insts
      BY <3>2, NullIsValue, InstType DEF Ops
    <3>4. Exit = << a, b >>
      BY DEF Exit, slot
    <3> HIDE DEF a, b
    <3> QED
      BY <3>3, <3>4
  <2>4. (ircode[Func] \o Code(Top.sons)) \o Exit \in Seq(Insts)
    BY <2>1, <2>2, <2>3, ConcatProperties
  <2>5. DOMAIN ircode' = DOMAIN ircode /\ \A f \in DOMAIN ircode' : ircode'[f] \in Seq(Insts)
    BY <1>1, <1>2, <2>4 DEF FunctionsOK
  <2> QED
    BY <1>1, <1>2, <1>5, <2>5 DEF FunctionsOK
<1>11. Func' = NoFunc
  BY <1>5 DEF Func
<1>12. created' \in Nat /\ status' = status /\ program' = program
  BY <1>1, <1>2
<1> QED
  BY <1>2, <1>5, <1>6, <1>7, <1>8, <1>9, <1>10, <1>11, <1>12 DEF Inv

(* A handler is entered.                                                   *)
LEMMA EntersKeeps == ASSUME Inv, NEW t, Enters(t) PROVE Inv'
<1>1. /\ t \in Nodes /\ t.op \in Handled \ {"unit", "func"} /\ NextSon(Last(frames), t)
      /\ t.op # "decl" => Func # NoFunc
      /\ frames' = Append(frames, Frame(t))
      /\ info' = IF t.op = "call" THEN [info EXCEPT ![Func] = CountCall(@, Len(t.sons))] ELSE info
      /\ created' = created /\ Within
  BY DEF Enters
<1>2. FramesOK(frames) /\ frames[1].node = program /\ created \in Nat /\ FunctionsOK(ircode, info, module)
  BY DEF Inv
<1>3. /\ FramesOK(frames') /\ Len(frames') = Len(frames) + 1
      /\ Frame(t).node = t
      /\ \A i \in 1..Len(frames) : frames'[i] = frames[i]
      /\ frames'[Len(frames) + 1] = Frame(t)
  BY <1>1, <1>2, PushFrames
<1>4. Len(frames) \in Nat /\ Len(frames) >= 1 /\ DOMAIN frames = 1..Len(frames) /\ DOMAIN frames' = 1..Len(frames')
  BY <1>2, <1>3, FramesFacts
<1>5. frames'[1].node = program
  BY <1>2, <1>3, <1>4
<1>6. Compiling(frames') <=> Compiling(frames)
  <2>1. CASE Len(frames) = 1
    <3>1. frames'[2].node.op # "func"
      BY <1>1, <1>3, <2>1
    <3>2. 2 \notin DOMAIN frames
      BY <1>4, <2>1
    <3> QED
      BY <3>1, <3>2 DEF Compiling
  <2>2. CASE Len(frames) # 1
    <3> DEFINE n == Len(frames)
    <3>1. n \in Nat /\ n >= 1 /\ n # 1
      BY <1>4, <2>2
    <3> HIDE DEF n
    <3>2. 2 \in 1..n /\ 2 \in 1..n + 1
      BY <3>1
    <3>3. 2 \in DOMAIN frames /\ 2 \in DOMAIN frames' /\ frames'[2] = frames[2]
      BY <1>3, <1>4, <3>2 DEF n
    <3> QED
      BY <3>3 DEF Compiling
  <2> QED
    BY <2>1, <2>2
<1>7. ASSUME NEW attrs \in Attrs, NEW k \in Nat
      PROVE  /\ CountCall(attrs, k) \in Attrs
             /\ CountCall(attrs, k).exitLabel = attrs.exitLabel
             /\ CountCall(attrs, k).returnValue = attrs.returnValue
  <2> DEFINE m == Max({attrs.maxFuncCallArgCnt, k})
             c == attrs.maxFuncCallArgCnt
  <2>1. c \in Nat
    BY DEF Attrs
  <2>2. m \in Nat
    <3> HIDE DEF c
    <3>1. \E x \in {c, k} : \A y \in {c, k} : y <= x
      BY <2>1
    <3>2. Max({c, k}) \in {c, k}
      BY <3>1 DEF Max
    <3> QED
      BY <2>1, <3>2 DEF c
  <2>3. CountCall(attrs, k) = [attrs EXCEPT !.existFuncCall = TRUE, !.maxFuncCallArgCnt = m]
    BY DEF CountCall
  <2> HIDE DEF m
  <2> QED
    BY <2>2, <2>3 DEF Attrs
<1>8. DOMAIN info' = DOMAIN info /\ \A f \in DOMAIN info : info'[f] \in Attrs
           /\ info'[f].exitLabel = info[f].exitLabel /\ info'[f].returnValue = info[f].returnValue
  <2>0. \A f \in DOMAIN info : info[f] \in Attrs
    BY <1>2 DEF FunctionsOK
  <2>1. CASE t.op = "call"
    <3>1. Func \in DOMAIN info
      BY <1>1, <2>1, Inside
    <3>2. Len(t.sons) \in Nat
      <4>1. t.sons \in Seq(Nodes)
        BY <1>1, NodeShape
      <4> QED
        BY <4>1
    <3>3. info' = [info EXCEPT ![Func] = CountCall(info[Func], Len(t.sons))]
      BY <1>1, <2>1
    <3> QED
      BY <1>7, <2>0, <3>1, <3>2, <3>3
  <2>2. CASE t.op # "call"
    BY <1>1, <2>0, <2>2
  <2> QED
    BY <2>1, <2>2
<1> QED
  BY <1>1, <1>2, <1>3, <1>5, <1>6, <1>8, WithinKeeps


(* A leaf is visited.                                                      *)
LEMMA ReadsKeeps == ASSUME Inv, NEW val, Reads(val) PROVE Inv'
<1> DEFINE r == Result(val, << >>)
<1>1. /\ Len(Last(frames).sons) < Len(Last(frames).node.sons)
      /\ val \in IRValues
      /\ val # Null => Last(frames).node.op \notin {"unit", "decl"}
      /\ frames' = LeftWith(frames, r)
      /\ UNCHANGED << info, created >> /\ Within
  BY DEF Reads
<1>2. FramesOK(frames) /\ frames[1].node = program /\ created \in Nat /\ FunctionsOK(ircode, info, module)
  BY DEF Inv
<1>3. r \in Results
  <2>1. << >> \in Seq(Insts)
    OBVIOUS
  <2> QED
    BY <1>1, <2>1, ResultType
<1>4. Last(frames).node.op \in {"unit", "decl"} => r = Result(Null, << >>)
  BY <1>1
<1> HIDE DEF r
<1>5. FramesOK(LeftWith(frames, r))
  BY <1>1, <1>2, <1>3, <1>4, LeftFrames
<1>6. /\ Len(LeftWith(frames, r)) = Len(frames)
      /\ \A i \in 1..Len(frames) : LeftWith(frames, r)[i].node = frames[i].node
  BY <1>2, <1>3, NodesKept
<1>7. /\ FramesOK(frames') /\ Len(frames') = Len(frames)
      /\ \A i \in 1..Len(frames) : frames'[i].node = frames[i].node
  BY <1>1, <1>5, <1>6
<1>8. /\ DOMAIN frames = 1..Len(frames) /\ DOMAIN frames' = 1..Len(frames) /\ 1 \in 1..Len(frames)
  BY <1>2, <1>7, FramesFacts
<1>9. frames'[1].node = program /\ (Compiling(frames') <=> Compiling(frames))
  BY <1>2, <1>7, <1>8 DEF Compiling
<1> QED
  BY <1>1, <1>2, <1>7, <1>9, WithinKeeps DEF FunctionsOK

(* A handler returns.                                                      *)
LEMMA ReturnsKeeps == ASSUME Inv, NEW val, NEW old, NEW new, Returns(val, old, new) PROVE Inv'
<1> DEFINE r == Result(val, old \o new)
           n == Len(frames)
<1>1. /\ n >= 2
      /\ n = 2 => val = Null /\ old = << >> /\ new = << >>
      /\ ~Pending /\ Top.node.op # "decl" => Func # NoFunc
      /\ new \in Seq(Insts) /\ created' = created + Len(new)
      /\ frames' = PoppedWith(frames, r)
      /\ UNCHANGED info /\ Within /\ Added(val, new)
  BY DEF Returns
<1>2. FramesOK(frames) /\ frames[1].node = program /\ created \in Nat /\ FunctionsOK(ircode, info, module)
  BY DEF Inv
<1>3. r \in Results
  BY ReturnedType
<1>4. n = 2 => r = Result(Null, << >>)
  BY <1>1
<1>5. n \in Nat /\ DOMAIN frames = 1..n
  BY <1>2, FramesFacts
<1> HIDE DEF r
<1>6. FramesOK(frames')
  BY <1>1, <1>2, <1>3, <1>4, PoppedFrames
<1>7. Len(PoppedWith(frames, r)) = n - 1 /\ \A i \in 1..n - 1 : PoppedWith(frames, r)[i].node = frames[i].node
  BY <1>1, <1>2, <1>3, NodesKept
<1>8. Len(frames') = n - 1 /\ \A i \in 1..n - 1 : frames'[i].node = frames[i].node
  BY <1>1, <1>7
<1>9. DOMAIN frames' = 1..n - 1
  BY <1>6, <1>8, FramesFacts
<1>10. created' \in Nat
  BY <1>1, <1>2
<1>11. Compiling(frames') <=> Compiling(frames)
  <2>1. CASE n = 2
    <3>1. Top = frames[2] /\ 2 \notin DOMAIN frames'
      <4>1. Last(frames) = frames[n]
        BY <1>2, FramesFacts
      <4>2. DOMAIN frames' = 1..1
        BY <1>9, <2>1
      <4> QED
        BY <2>1, <4>1, <4>2 DEF Top
    <3>2. Top.node.op # "func"
      BY <1>1 DEF Added
    <3> QED
      BY <3>1, <3>2 DEF Compiling
  <2>2. CASE n # 2
    <3> HIDE DEF n
    <3>1. 2 \in 1..n /\ 2 \in 1..n - 1
      BY <1>1, <1>5, <2>2
    <3> QED
      BY <1>5, <1>8, <1>9, <3>1 DEF Compiling
  <2> QED
    BY <2>1, <2>2
<1>12. frames'[1].node = program
  <2>1. 1 \in 1..n - 1
    <3>1. n \in Nat /\ n >= 2
      BY <1>1, <1>5
    <3> HIDE DEF n
    <3> QED
      BY <3>1
  <2> QED
    BY <1>2, <1>8, <2>1
<1> QED
  BY <1>1, <1>2, <1>6, <1>10, <1>11, <1>12, WithinKeeps DEF FunctionsOK

(* Every step keeps the invariant.                                         *)
LEMMA InvStep == ASSUME Inv, [Next]_vars PROVE Inv'
<1>1. CASE Next
  <2>1. CASE Stays
    BY <2>1 DEF Stays, Inv, Func
  <2> QED
    BY <1>1, <2>1, EveryKind, BeginsKeeps, EndsKeeps, EntersKeeps, ReadsKeeps, ReturnsKeeps DEF Kinds
<1>2. CASE UNCHANGED vars
  BY <1>2 DEF vars, Inv, Func
<1> QED
  BY <1>1, <1>2

(* The frames are nested handlers of the tree, as many scopes are open as  *)
(* handlers that opened one are running, and a function is compiled as     *)
(* long as its handler runs.                                               *)
THEOREM Nesting == Spec => []Inv
<1>1. Inv /\ [Next]_vars => Inv'
  BY InvStep
<1> QED
  BY <1>1, InvInit, PTL DEF Spec

(* The type invariant: only the innermost handler may have visited all its *)
(* sons, and there is code for exactly the functions the program defined   *)
(* (Function::getInterCode).                                               *)
THEOREM TypeCorrect == Spec => []TypeOK
<1>1. Inv => TypeOK
  <2> SUFFICES ASSUME Inv PROVE TypeOK
    OBVIOUS
  <2>1. /\ status \in {"running", "ok", "failed", "crashed"} /\ created \in Nat
        /\ FramesOK(frames) /\ frames[1].node = program /\ FunctionsOK(ircode, info, module)
    BY DEF Inv
  <2>2. frames # << >> /\ \A i \in 1..Len(frames) - 1 : frames[i].node.sons[Len(frames[i].sons) + 1] = frames[i + 1].node
    BY <2>1 DEF FramesOK, NextSon
  <2>3. ASSUME NEW f \in DOMAIN ircode, NEW i \in DOMAIN ircode[f] PROVE ircode[f][i].op \in Ops
    <3>1. ircode[f] \in Seq(Insts)
      BY <2>1 DEF FunctionsOK
    <3>2. ircode[f][i] \in Insts
      BY <3>1
    <3> QED
      BY <3>2 DEF Insts
  <2> QED
    BY <2>1, <2>2, <2>3 DEF TypeOK, FunctionsOK
<1> QED
  BY <1>1, Nesting, PTL


-----------------------------------------------------------------------------
(* The code that is still in nodes.                                        *)

(* A handler that is entered has no code yet.                              *)
LEMMA FlightEntered ==
  ASSUME NEW fs \in Seq(Frames), NEW t \in Nodes
  PROVE  FlightOf(Append(fs, Frame(t))) = FlightOf(fs) /\ FlightOf(fs) \in Seq(Insts)
<1>1. Frame(t) \in Frames /\ Frame(t).sons = << >>
  BY DEF Frame, Frames
<1>2. FlightOf(Append(fs, Frame(t))) = FlightOf(fs) \o << >> /\ FlightOf(fs) \in Seq(Insts)
  BY <1>1, FlightAppend, CodeEmpty
<1> QED
  BY <1>2, ConcatEmptySeq

(* A leaf has no code, and what a handler leaves takes the place of what   *)
(* its sons left.                                                          *)
LEMMA FlightReturned ==
  ASSUME NEW fs \in Seq(Frames), fs # << >>, NEW r \in Results
  PROVE  /\ r.code = << >> => FlightOf(LeftWith(fs, r)) = FlightOf(fs)
         /\ Len(fs) >= 2 => \E p \in Seq(Insts) : /\ FlightOf(fs) = p \o Code(Last(fs).sons)
                                                  /\ FlightOf(PoppedWith(fs, r)) = p \o r.code
         /\ Code(Last(fs).sons) \in Seq(Insts)
<1>0. r.code \in Seq(Insts)
  BY DEF Results
<1>1. ASSUME NEW gs \in Seq(Frames), gs # << >>
      PROVE  /\ FlightOf(LeftWith(gs, r)) = FlightOf(gs) \o r.code
             /\ FlightOf(gs) \in Seq(Insts) /\ Code(Last(gs).sons) \in Seq(Insts)
  <2> DEFINE hs == Front(gs)
             a  == Last(gs)
             b  == With(a, r)
  <2>1. hs \in Seq(Frames) /\ a \in Frames /\ gs = Append(hs, a)
    BY <1>1, FrontLast
  <2>2. b \in Frames /\ b.sons = Append(a.sons, r) /\ a.sons \in Seq(Results)
    BY <2>1, WithIs DEF Frames
  <2>3. Code(a.sons) \in Seq(Insts) /\ Code(b.sons) = Code(a.sons) \o r.code
    BY <2>2, CodeAppend
  <2>4. LeftWith(gs, r) = Append(hs, b)
    BY DEF LeftWith
  <2> HIDE DEF hs, a, b
  <2>5. FlightOf(hs) \in Seq(Insts) /\ FlightOf(gs) = FlightOf(hs) \o Code(a.sons)
    BY <2>1, FlightAppend
  <2>6. FlightOf(LeftWith(gs, r)) = FlightOf(hs) \o (Code(a.sons) \o r.code)
    BY <2>1, <2>2, <2>3, <2>4, FlightAppend
  <2>7. (FlightOf(hs) \o Code(a.sons)) \o r.code = FlightOf(hs) \o (Code(a.sons) \o r.code)
    <3> DEFINE x == FlightOf(hs)
               y == Code(a.sons)
               z == r.code
    <3>1. x \in Seq(Insts) /\ y \in Seq(Insts) /\ z \in Seq(Insts)
      BY <1>0, <2>3, <2>5
    <3> HIDE DEF x, y, z
    <3>2. (x \o y) \o z = x \o (y \o z)
      BY <3>1, ConcatAssociative, SMTT(40)
    <3> QED
      BY <3>2 DEF x, y, z
  <2>8. FlightOf(hs) \o Code(a.sons) \in Seq(Insts)
    BY <2>3, <2>5, ConcatProperties
  <2> QED
    BY <2>3, <2>5, <2>6, <2>7, <2>8 DEF a
<1>2. ASSUME r.code = << >> PROVE FlightOf(LeftWith(fs, r)) = FlightOf(fs)
  BY <1>1, <1>2, ConcatEmptySeq
<1>3. ASSUME Len(fs) >= 2
      PROVE  \E p \in Seq(Insts) : /\ FlightOf(fs) = p \o Code(Last(fs).sons)
                                   /\ FlightOf(PoppedWith(fs, r)) = p \o r.code
  <2> DEFINE gs == Front(fs)
  <2>1. gs \in Seq(Frames) /\ gs # << >> /\ Last(fs) \in Frames /\ fs = Append(gs, Last(fs))
    BY <1>3, FrontLast
  <2>2. PoppedWith(fs, r) = LeftWith(gs, r)
    BY DEF PoppedWith, LeftWith
  <2> HIDE DEF gs
  <2>3. FlightOf(fs) = FlightOf(gs) \o Code(Last(fs).sons)
    BY <2>1, FlightAppend
  <2>4. FlightOf(PoppedWith(fs, r)) = FlightOf(gs) \o r.code /\ FlightOf(gs) \in Seq(Insts)
    BY <1>1, <2>1, <2>2
  <2> QED
    BY <2>3, <2>4
<1> QED
  BY <1>1, <1>2, <1>3

(* There is none outside of functions.                                     *)
LEMMA FlightOutside ==
  ASSUME NEW fs, FramesOK(fs), ~Compiling(fs)
  PROVE  FlightOf(fs) = << >>
<1>1. fs \in Seq(Frames) /\ fs # << >>
  BY DEF FramesOK
<1>2. Len(fs) = 1 \/ Len(fs) = 2
  BY OutsideFrames
<1>3. DOMAIN fs = 1..Len(fs)
  BY FramesFacts
<1>4. \A i \in DOMAIN fs : fs[i].node.op \in {"unit", "decl"}
  BY OutsideFrames
<1>5. ASSUME NEW i \in DOMAIN fs PROVE Code(fs[i].sons) = << >>
  BY <1>4 DEF FramesOK, FrameOK, Quiet
<1>6. ASSUME NEW gs \in Seq(Frames), NEW fr \in Frames, Code(fr.sons) = << >>
      PROVE  FlightOf(Append(gs, fr)) = FlightOf(gs) /\ FlightOf(gs) \in Seq(Insts)
  <2>1. FlightOf(Append(gs, fr)) = FlightOf(gs) \o << >> /\ FlightOf(gs) \in Seq(Insts)
    BY <1>6, FlightAppend
  <2> QED
    BY <2>1, ConcatEmptySeq
<1>7. FlightOf(<< >>) = << >>
  BY FlattenEmpty DEF FlightOf
<1>8. << >> \in Seq(Frames) /\ \A i \in DOMAIN fs : fs[i] \in Frames
  BY <1>1
<1>9. CASE Len(fs) = 1
  <2>1. fs = Append(<< >>, fs[1]) /\ 1 \in DOMAIN fs
    BY <1>1, <1>9
  <2> QED
    BY <1>5, <1>6, <1>7, <1>8, <2>1
<1>10. CASE Len(fs) = 2
  <2> DEFINE one == Append(<< >>, fs[1])
  <2>1. 1 \in DOMAIN fs /\ 2 \in DOMAIN fs
    BY <1>3, <1>10
  <2>2. one \in Seq(Frames) /\ fs = Append(one, fs[2])
    BY <1>1, <1>10
  <2>3. FlightOf(one) = << >>
    BY <1>5, <1>6, <1>7, <1>8, <2>1
  <2> HIDE DEF one
  <2> QED
    BY <1>5, <1>6, <1>8, <2>1, <2>2, <2>3
<1> QED
  BY <1>2, <1>9, <1>10

(* The code b is the code a with y in the place of x at its end.           *)
Replaced(a, b, x, y) == \E p \in Seq(Insts) : a = p \o x /\ b = p \o y

(* What a handler leaves takes the place of what was in its sons.          *)
LEMMA FlightReplaced ==
  ASSUME Inv, NEW val, NEW old, NEW new, Returns(val, old, new)
  PROVE  Replaced(InFlight, InFlight', Code(Top.sons), old \o new)
<1> DEFINE r == Result(val, old \o new)
<1>1. frames \in Seq(Frames) /\ frames # << >>
  BY DEF Inv, FramesOK
<1>2. InFlight = FlightOf(frames) /\ InFlight' = FlightOf(frames')
  BY DEF InFlight, FlightOf
<1>3. r \in Results /\ r.code = old \o new
  BY ReturnedType
<1>4. Len(frames) >= 2 /\ frames' = PoppedWith(frames, r)
  BY DEF Returns
<1> HIDE DEF r
<1>5. PICK p \in Seq(Insts) : FlightOf(frames) = p \o Code(Last(frames).sons) /\ FlightOf(PoppedWith(frames, r)) = p \o r.code
  BY <1>1, <1>3, <1>4, FlightReturned
<1> QED
  BY <1>2, <1>3, <1>4, <1>5 DEF Top, Replaced

(* What each step does to it.                                              *)
LEMMA FlightAfter ==
  ASSUME Inv
  PROVE  /\ InFlight = FlightOf(frames) /\ InFlight \in Seq(Insts)
         /\ \A t : Enters(t) => InFlight' = InFlight
         /\ \A val : Reads(val) => InFlight' = InFlight
         /\ Begins => InFlight' = << >>
         /\ Ends => InFlight = Code(Top.sons)
<1>1. FramesOK(frames) /\ frames \in Seq(Frames) /\ frames # << >>
  BY DEF Inv, FramesOK
<1>2. InFlight = FlightOf(frames) /\ InFlight' = FlightOf(frames')
  BY DEF InFlight, FlightOf
<1>3. << >> \in Seq(Insts) /\ Result(Null, << >>) \in Results
  <2>1. << >> \in Seq(Insts)
    OBVIOUS
  <2> QED
    BY <2>1, NullIsValue, ResultType
<1>4. ASSUME NEW t, Enters(t) PROVE InFlight' = InFlight
  BY <1>1, <1>2, <1>4, FlightEntered DEF Enters
<1>5. ASSUME NEW val, Reads(val) PROVE InFlight' = InFlight
  <2>1. Result(val, << >>) \in Results /\ Result(val, << >>).code = << >> /\ frames' = LeftWith(frames, Result(val, << >>))
    BY <1>3, <1>5, ResultType DEF Reads
  <2> QED
    BY <1>1, <1>2, <2>1, FlightReturned
<1>7. ASSUME Begins PROVE InFlight' = << >>
  <2>1. Pending /\ Func = NoFunc /\ frames' = Append(frames, Frame(Current))
    BY <1>7 DEF Begins
  <2>2. Current \in Nodes
    BY <2>1, AtVisit
  <2>3. FlightOf(frames) = << >>
    BY <1>1, <2>1, FlightOutside DEF Inv
  <2>4. FlightOf(Append(frames, Frame(Current))) = FlightOf(frames)
    BY <1>1, <2>2, FlightEntered
  <2> QED
    BY <1>2, <2>1, <2>3, <2>4
<1>8. ASSUME Ends PROVE InFlight = Code(Top.sons)
  <2>1. Len(frames) = 2 /\ frames' = PoppedWith(frames, Result(Null, << >>))
    BY <1>8 DEF Ends
  <2>2. Inv' /\ Func' = NoFunc
    BY <1>8, EndsKeeps
  <2>3. FramesOK(frames') /\ ~Compiling(frames')
    BY <2>2 DEF Inv
  <2>3a. FlightOf(frames') = << >>
    BY <2>3, FlightOutside
  <2>4. Result(Null, << >>).code = << >> /\ Len(frames) >= 2
    BY <1>3, <2>1 DEF Result
  <2>5. PICK p \in Seq(Insts) : FlightOf(frames) = p \o Code(Last(frames).sons) /\ FlightOf(frames') = p \o << >>
    BY <1>1, <1>3, <2>1, <2>4, FlightReturned
  <2>6. p = << >>
    BY <2>3a, <2>5, ConcatEmptySeq
  <2>7. Code(Last(frames).sons) \in Seq(Insts)
    BY <1>1, <1>3, FlightReturned
  <2>8. << >> \o Code(Last(frames).sons) = Code(Last(frames).sons)
    BY <2>7, ConcatEmptySeq
  <2> QED
    BY <1>2, <2>5, <2>6, <2>8 DEF Top
<1>9. FlightOf(frames) \in Seq(Insts)
  <2>1. Last(frames) \in Frames
    BY <1>1, FrontLast
  <2> QED
    BY <1>1, <2>1, FlightAppend
<1> QED
  BY <1>2, <1>4, <1>5, <1>7, <1>8, <1>9

-----------------------------------------------------------------------------
(* No instruction is lost.                                                 *)

Ids(c) == {c[i].id : i \in DOMAIN c}

(* The numbers in two pieces of code.                                      *)
LEMMA IdsConcat ==
  ASSUME NEW a \in Seq(Insts), NEW b \in Seq(Insts)
  PROVE  /\ a \o b \in Seq(Insts) /\ Len(a \o b) = Len(a) + Len(b) /\ Len(a) \in Nat /\ Len(b) \in Nat
         /\ Ids(a \o b) = Ids(a) \cup Ids(b)
<1> DEFINE c == a \o b
           m == Len(a)
<1>1. /\ c \in Seq(Insts) /\ Len(c) = m + Len(b) /\ m \in Nat /\ Len(b) \in Nat
      /\ \A i \in DOMAIN a : i \in DOMAIN c /\ c[i] = a[i]
      /\ \A j \in DOMAIN b : m + j \in DOMAIN c /\ c[m + j] = b[j]
      /\ \A i \in DOMAIN c : i \in DOMAIN a \/ \E j \in DOMAIN b : i = m + j
  BY ConcatElements
<1> HIDE DEF c, m
<1>2. ASSUME NEW i \in DOMAIN c PROVE c[i].id \in Ids(a) \cup Ids(b)
  <2>1. CASE i \in DOMAIN a
    BY <1>1, <2>1 DEF Ids
  <2>2. ASSUME NEW j \in DOMAIN b, i = m + j PROVE c[i].id \in Ids(b)
    BY <1>1, <2>2, Zenon DEF Ids
  <2> QED
    BY <1>1, <2>1, <2>2
<1>3. Ids(c) \subseteq Ids(a) \cup Ids(b)
  BY <1>2 DEF Ids
<1>4. ASSUME NEW j \in DOMAIN b PROVE b[j].id \in Ids(c)
  BY <1>1, Zenon DEF Ids
<1>5. ASSUME NEW i \in DOMAIN a PROVE a[i].id \in Ids(c)
  BY <1>1, Zenon DEF Ids
<1>6. Ids(a) \subseteq Ids(c) /\ Ids(b) \subseteq Ids(c)
  BY <1>4, <1>5 DEF Ids
<1> QED
  BY <1>1, <1>3, <1>6 DEF c, m

(* All but the second of k numbers are k - 1.                              *)
LEMMA EachOnceIs ==
  ASSUME NEW c \in Seq(Insts), NEW k \in Nat
  PROVE  /\ k >= 2 => (EachOnce(c, (1..k) \ {2}) <=> Len(c) = k - 1 /\ Ids(c) = (1..k) \ {2})
         /\ EachOnce(c, 1..k) <=> Len(c) = k /\ Ids(c) = 1..k
<1>1. IsFiniteSet(1..k) /\ Cardinality(1..k) = k
  BY FS_Interval
<1>2. ASSUME k >= 2 PROVE Cardinality((1..k) \ {2}) = k - 1
  <2>1. 2 \in 1..k
    BY <1>2
  <2> QED
    BY <1>1, <2>1, FS_RemoveElement
<1>3. Ids(c) = {c[i].id : i \in DOMAIN c}
  BY DEF Ids
<1> QED
  BY <1>1, <1>2, <1>3, Zenon DEF EachOnce

(* A piece of code of two instructions.                                    *)
LEMMA TwoInsts ==
  ASSUME NEW a \in Insts, NEW b \in Insts
  PROVE  << a, b >> \in Seq(Insts) /\ Len(<< a, b >>) = 2 /\ Ids(<< a, b >>) = {a.id, b.id}
<1> DEFINE c == << a, b >>
<1>1. c \in Seq(Insts) /\ Len(c) = 2 /\ DOMAIN c = {1, 2} /\ c[1] = a /\ c[2] = b
  OBVIOUS
<1> HIDE DEF c
<1>2. Ids(c) = {a.id, b.id}
  BY <1>1 DEF Ids
<1> QED
  BY <1>1, <1>2 DEF c

(* The numbers of what a handler adds are the next ones.                   *)
LEMMA AddedIds ==
  ASSUME Inv, NEW val, NEW old, NEW new, Returns(val, old, new)
  PROVE  /\ Ids(new) = {k \in 1..created + Len(new) : k > created}
         /\ old \in Seq(Insts) /\ new \in Seq(Insts) /\ Code(Top.sons) \in Seq(Insts)
         /\ Ids(old) = Ids(Code(Top.sons)) /\ Len(old) = Len(Code(Top.sons))
<1>1. /\ created \in Nat /\ old \in Seq(Insts) /\ new \in Seq(Insts) /\ Gathered(old) /\ Added(val, new) /\ ~Pending
  BY DEF Inv, Returns
<1>2. Top.sons \in Seq(Results)
  BY <1>1, AtFinish
<1>3. Code(Top.sons) \in Seq(Insts)
  <2>1. << >> \in Seq(Insts)
    OBVIOUS
  <2>2. Result(Null, << >>) \in Results
    BY <2>1, NullIsValue, ResultType
  <2> QED
    BY <1>2, <2>2, CodeAppend
<1>4. Ids(old) = Ids(Code(Top.sons)) /\ Len(old) = Len(Code(Top.sons))
  <2>1. CASE old = Code(Top.sons)
    BY <2>1
  <2>2. CASE /\ Len(Top.sons) = 2
             /\ old = Top.sons[2].code \o Top.sons[1].code
             /\ Code(Top.sons) = Top.sons[1].code \o Top.sons[2].code
    <3> DEFINE a == Top.sons[1].code
               b == Top.sons[2].code
    <3>1. a \in Seq(Insts) /\ b \in Seq(Insts)
      BY <1>2, <2>2, CodeOfTwo
    <3>2. old = b \o a /\ Code(Top.sons) = a \o b
      BY <2>2
    <3> HIDE DEF a, b
    <3>3. Ids(b \o a) = Ids(b) \cup Ids(a) /\ Ids(a \o b) = Ids(a) \cup Ids(b)
      BY <3>1, IdsConcat
    <3>4. Len(b \o a) = Len(b) + Len(a) /\ Len(a \o b) = Len(a) + Len(b) /\ Len(a) \in Nat /\ Len(b) \in Nat
      BY <3>1, IdsConcat
    <3> QED
      BY <3>2, <3>3, <3>4
  <2> QED
    BY <1>1, <2>1, <2>2 DEF Gathered
<1>5. Ids(new) = {k \in 1..created + Len(new) : k > created}
  <2>1. CASE new = << >>
    <3>1. Ids(new) = {} /\ Len(new) = 0
      BY <2>1 DEF Ids
    <3> QED
      BY <1>1, <3>1
  <2>2. ASSUME NEW op, NEW args, NEW target, new = << Inst(op, created + 1, args, target) >>
        PROVE  Ids(new) = {k \in 1..created + Len(new) : k > created}
    <3>1. Ids(new) = {created + 1} /\ Len(new) = 1
      BY <2>2 DEF Ids, Inst
    <3>2. {k \in 1..created + 1 : k > created} = {created + 1}
      BY <1>1
    <3> QED
      BY <3>1, <3>2
  <2>3. CASE new = ReturnCode(val)
    <3> DEFINE a == Inst("move", created + 1, << info[Func].returnValue, val >>, Null)
               b == Inst("goto", created + 2, << >>, info[Func].exitLabel)
    <3>1. a.id = created + 1 /\ b.id = created + 2 /\ new = << a, b >>
      BY <2>3 DEF ReturnCode, Inst
    <3> HIDE DEF a, b
    <3>2. Len(new) = 2 /\ DOMAIN new = {1, 2} /\ new[1] = a /\ new[2] = b
      BY <3>1
    <3>3. Ids(new) = {created + 1, created + 2}
      BY <3>1, <3>2 DEF Ids
    <3>4. {k \in 1..created + 2 : k > created} = {created + 1, created + 2}
      BY <1>1
    <3> QED
      BY <3>2, <3>3, <3>4
  <2> QED
    BY <1>1, <2>1, <2>2, <2>3, Zenon DEF Added
<1> QED
  BY <1>1, <1>3, <1>4, <1>5

(* It holds at the start.                                                  *)
LEMMA LostInit == Init => LostInv
<1> SUFFICES ASSUME Init PROVE LostInv
  OBVIOUS
<1>1. Inv /\ Func = NoFunc /\ DOMAIN ircode = {}
  BY InvInit, NewModuleOK DEF Init, Func
<1>2. FramesOK(frames) /\ ~Compiling(frames)
  BY <1>1 DEF Inv
<1>3. InFlight = << >>
  BY <1>2, FlightOutside DEF InFlight, FlightOf
<1> QED
  BY <1>1, <1>3 DEF LostInv, NoInstructionLost, Compiled

(* Only the current function changes.                                      *)
LEMMA CompiledAfter ==
  ASSUME Inv
  PROVE  /\ NoFunc \notin DOMAIN ircode /\ \A f \in DOMAIN ircode : ircode[f] \in Seq(Insts)
         /\ Within => Compiled' = Compiled /\ Func' = Func /\ ircode' = ircode
         /\ Begins => /\ Compiled' = Compiled /\ Func' # NoFunc
                      /\ ircode'[Func'] = << Inst("entry", 1, << >>, Null) >>
                      /\ \A f \in Compiled : ircode'[f] = ircode[f]
                      /\ \A f \in Compiled : info'[f] = info[f]
         /\ Ends => /\ Compiled' = Compiled \cup {Func} /\ Func' = NoFunc
                    /\ Func \in DOMAIN ircode /\ Func \notin Compiled
                    /\ ircode'[Func] = (ircode[Func] \o Code(Top.sons)) \o Exit
                    /\ \A f \in Compiled : ircode'[f] = ircode[f]
<1>1. FunctionsOK(ircode, info, module) /\ TableOK(module)
  BY DEF Inv
<1>2. DOMAIN ircode \subseteq Callees
  <2>1. module.funcMap \in Table!Maps(Callees, Table!FuncTypes)
    BY <1>1, TableFields DEF TableOK
  <2>2. DOMAIN module.funcMap \subseteq Callees
    BY <2>1 DEF Table!Maps
  <2> QED
    BY <1>1, <2>2 DEF FunctionsOK
<1>3. NoFunc \notin DOMAIN ircode
  BY <1>2, NullAssumption DEF Callees
<1>4. ASSUME Within PROVE Compiled' = Compiled /\ Func' = Func /\ ircode' = ircode
  BY <1>4 DEF Within, Compiled, Func
<1>5. ASSUME Begins
      PROVE  /\ Compiled' = Compiled /\ Func' # NoFunc
             /\ ircode'[Func'] = << Inst("entry", 1, << >>, Null) >>
             /\ \A f \in Compiled : ircode'[f] = ircode[f]
             /\ \A f \in Compiled : info'[f] = info[f]
  <2> DEFINE f == Current.name
             entry == << Inst("entry", 1, << >>, Null) >>
  <2>1. Inv'
    BY <1>5, BeginsKeeps
  <2>2. /\ Pending /\ Current.op = "func" /\ Func = NoFunc /\ Len(frames) = 1 /\ f \notin DOMAIN module.funcMap
        /\ module' = Table!BeginFunction(module, f) /\ ircode' = Table!Insert(ircode, f, entry)
    BY <1>5 DEF Begins
  <2>2a. PICK attrs : info' = Table!Insert(info, f, attrs)
    BY <1>5 DEF Begins
  <2>3. f \in Callees /\ Len(module.valueStack) = 1
    BY <2>2, AtVisit, Outside
  <2>4. Func' = f
    BY <1>1, <2>2, <2>3, BeginFunctionOK DEF Func
  <2>5. f \notin DOMAIN ircode
    BY <1>1, <2>2 DEF FunctionsOK
  <2> HIDE DEF f, entry
  <2>6. /\ DOMAIN ircode' = DOMAIN ircode \cup {f} /\ ircode'[f] = entry
        /\ \A g \in DOMAIN ircode : ircode'[g] = ircode[g]
    BY <2>2, <2>5 DEF Table!Insert
  <2>7. Compiled = DOMAIN ircode /\ Compiled' = DOMAIN ircode
    BY <1>3, <2>2, <2>4, <2>5, <2>6 DEF Compiled
  <2>8. \A g \in DOMAIN info : info'[g] = info[g]
    BY <2>2a DEF Table!Insert
  <2>9. DOMAIN info = DOMAIN ircode
    BY <1>1 DEF FunctionsOK
  <2>10. f # NoFunc
    BY <2>3, NullAssumption DEF Callees
  <2> QED
    BY <2>4, <2>6, <2>7, <2>8, <2>9, <2>10 DEF entry
<1>6. ASSUME Ends
      PROVE  /\ Compiled' = Compiled \cup {Func} /\ Func' = NoFunc
             /\ Func \in DOMAIN ircode /\ Func \notin Compiled
             /\ ircode'[Func] = (ircode[Func] \o Code(Top.sons)) \o Exit
             /\ \A f \in Compiled : ircode'[f] = ircode[f]
  <2>1. Func' = NoFunc
    BY <1>6, EndsKeeps
  <2>2. Func # NoFunc /\ ircode' = [ircode EXCEPT ![Func] = (@ \o Code(Top.sons)) \o Exit]
    BY <1>6 DEF Ends
  <2>3. Func \in DOMAIN ircode
    BY <2>2, Inside
  <2>4. DOMAIN ircode' = DOMAIN ircode
    BY <2>2
  <2>5. Compiled' = Compiled \cup {Func} /\ Func \notin Compiled
    BY <1>3, <2>1, <2>3, <2>4 DEF Compiled
  <2> QED
    BY <2>1, <2>2, <2>3, <2>5 DEF Compiled
<1> QED
  BY <1>1, <1>3, <1>4, <1>5, <1>6 DEF FunctionsOK


(* Every step keeps it.                                                    *)
LEMMA LostStep == ASSUME Inv, LostInv, [Next]_vars PROVE LostInv'
<1>0. created \in Nat /\ FunctionsOK(ircode, info, module)
  BY DEF Inv
<1>1. /\ Func # NoFunc => EachOnce(ircode[Func] \o InFlight, (1..created) \ {2}) /\ created >= 2
      /\ \A f \in Compiled : EachOnce(ircode[f], 1..Len(ircode[f]))
      /\ InFlight \in Seq(Insts)
      /\ Func # NoFunc => Func \in DOMAIN ircode /\ ircode[Func] \in Seq(Insts)
  BY FlightAfter, CompiledAfter, Inside DEF LostInv, NoInstructionLost
<1>2. ASSUME Func # NoFunc
      PROVE  Len(ircode[Func] \o InFlight) = created - 1 /\ Ids(ircode[Func] \o InFlight) = (1..created) \ {2}
  <2>1. ircode[Func] \o InFlight \in Seq(Insts)
    BY <1>1, <1>2, ConcatProperties
  <2> QED
    BY <1>0, <1>1, <1>2, <2>1, EachOnceIs
<1>3. (Inv' /\ Func' = NoFunc) => InFlight' = << >>
  BY FlightOutside DEF Inv, InFlight, FlightOf
<1>4. ASSUME Within, InFlight' = InFlight, created' = created PROVE LostInv'
  <2>1. Compiled' = Compiled /\ Func' = Func /\ ircode' = ircode
    BY <1>4, CompiledAfter
  <2> QED
    BY <1>4, <2>1 DEF LostInv, NoInstructionLost
<1>5. ASSUME Begins PROVE LostInv'
  <2>1. InFlight' = << >> /\ created' = 2
    BY <1>5, FlightAfter DEF Begins
  <2> DEFINE entry == Inst("entry", 1, << >>, Null)
             code  == << entry >>
  <2>2. Compiled' = Compiled /\ Func' # NoFunc /\ ircode'[Func'] = code /\ \A f \in Compiled : ircode'[f] = ircode[f]
    BY <1>5, CompiledAfter
  <2>3. code \in Seq(Insts) /\ Len(code) = 1 /\ Ids(code) = {1}
    <3>1. << >> \in Seq(IRValues) /\ 1 \in Nat
      OBVIOUS
    <3>2. entry \in Insts
      BY <3>1, NullIsValue, InstType DEF Ops
    <3>3. entry.id = 1
      BY DEF Inst
    <3> HIDE DEF entry
    <3> QED
      BY <3>2, <3>3 DEF Ids
  <2> HIDE DEF code
  <2>4. code \o << >> = code
    BY <2>3, ConcatEmptySeq
  <2>5. EachOnce(code, (1..2) \ {2})
    <3>1. (1..2) \ {2} = {1} /\ 2 - 1 = 1 /\ 2 \in Nat /\ 2 >= 2
      OBVIOUS
    <3> QED
      BY <2>3, <3>1, EachOnceIs
  <2>6. EachOnce(ircode'[Func'] \o InFlight', (1..created') \ {2}) /\ created' >= 2
    BY <2>1, <2>2, <2>4, <2>5
  <2>7. \A f \in Compiled' : EachOnce(ircode'[f], 1..Len(ircode'[f]))
    BY <1>1, <2>2
  <2> QED
    BY <2>2, <2>6, <2>7 DEF LostInv, NoInstructionLost
<1>6. ASSUME Ends PROVE LostInv'
  <2>1. /\ Compiled' = Compiled \cup {Func} /\ Func' = NoFunc
        /\ ircode'[Func] = (ircode[Func] \o Code(Top.sons)) \o Exit
        /\ \A f \in Compiled : ircode'[f] = ircode[f]
    BY <1>6, CompiledAfter
  <2>2. Inv' /\ Func # NoFunc /\ InFlight = Code(Top.sons)
    BY <1>6, EndsKeeps, FlightAfter DEF Ends
  <2>3. InFlight' = << >>
    BY <1>3, <2>1, <2>2
  <2> DEFINE body == ircode[Func] \o InFlight
             code == body \o Exit
  <2>4. body \in Seq(Insts) /\ Len(body) = created - 1 /\ Ids(body) = (1..created) \ {2} /\ created >= 2
    BY <1>1, <1>2, <2>2, ConcatProperties
  <2>5. Exit \in Seq(Insts) /\ Len(Exit) = 2 /\ Ids(Exit) = {2, created + 1}
    <3> DEFINE slot == info[Func].returnValue
               a    == Inst("label", 2, << >>, Null)
               b    == Inst("exit", created + 1, << slot >>, Null)
    <3>1. slot \in IRValues
      BY <2>2, Inside, <1>0 DEF FunctionsOK, Attrs
    <3> HIDE DEF slot
    <3>2. << >> \in Seq(IRValues) /\ << slot >> \in Seq(IRValues) /\ 2 \in Nat /\ created + 1 \in Nat
      BY <1>0, <3>1
    <3>3. a \in Insts /\ b \in Insts
      BY <3>2, NullIsValue, InstType DEF Ops
    <3>4. Exit = << a, b >> /\ a.id = 2 /\ b.id = created + 1
      BY DEF Exit, slot, Inst
    <3> HIDE DEF a, b
    <3> QED
      BY <3>3, <3>4, TwoInsts
  <2> HIDE DEF body
  <2>6. code \in Seq(Insts) /\ Len(code) = created + 1 /\ Ids(code) = 1..created + 1
    <3>1. code \in Seq(Insts) /\ Len(code) = Len(body) + Len(Exit) /\ Ids(code) = Ids(body) \cup Ids(Exit)
      BY <2>4, <2>5, IdsConcat
    <3> HIDE DEF code
    <3>2. Len(code) = created - 1 + 2 /\ Ids(code) = ((1..created) \ {2}) \cup {2, created + 1}
      BY <2>4, <2>5, <3>1
    <3>3. created - 1 + 2 = created + 1 /\ ((1..created) \ {2}) \cup {2, created + 1} = 1..created + 1
      BY <1>0, <2>4
    <3> QED
      BY <3>1, <3>2, <3>3
  <2> HIDE DEF code
  <2>7. EachOnce(code, 1..Len(code))
    <3>1. created + 1 \in Nat
      BY <1>0
    <3> QED
      BY <2>6, <3>1, EachOnceIs
  <2>8. ircode'[Func] = code
    BY <2>1, <2>2 DEF code, body
  <2>9. \A f \in Compiled' : EachOnce(ircode'[f], 1..Len(ircode'[f]))
    BY <1>1, <2>1, <2>7, <2>8
  <2> QED
    BY <2>1, <2>3, <2>9 DEF LostInv, NoInstructionLost
<1>7. ASSUME NEW val, NEW old, NEW new, Returns(val, old, new) PROVE LostInv'
  <2>1. Compiled' = Compiled /\ Func' = Func /\ ircode' = ircode /\ created' = created + Len(new)
    BY <1>7, CompiledAfter DEF Returns
  <2>2. Inv'
    BY <1>7, ReturnsKeeps
  <2>3. CASE Func = NoFunc
    <3>1. InFlight' = << >>
      BY <1>3, <2>1, <2>2, <2>3
    <3> QED
      BY <2>1, <2>3, <3>1 DEF LostInv, NoInstructionLost
  <2>4. CASE Func # NoFunc
    <3> DEFINE code == ircode[Func]
               x    == Code(Top.sons)
               m    == Len(new)
    <3>0. Replaced(InFlight, InFlight', Code(Top.sons), old \o new)
      BY <1>7, FlightReplaced
    <3>1. PICK p \in Seq(Insts) : InFlight = p \o x /\ InFlight' = p \o (old \o new)
      BY <3>0 DEF Replaced
    <3>2. /\ Ids(new) = {k \in 1..created + m : k > created}
          /\ old \in Seq(Insts) /\ new \in Seq(Insts) /\ x \in Seq(Insts)
          /\ Ids(old) = Ids(x) /\ Len(old) = Len(x)
      BY <1>7, AddedIds
    <3>3. code \in Seq(Insts) /\ Len(code \o InFlight) = created - 1 /\ Ids(code \o InFlight) = (1..created) \ {2}
      BY <1>1, <1>2, <2>4
    <3> HIDE DEF code, x
    <3>4. /\ p \o x \in Seq(Insts) /\ old \o new \in Seq(Insts) /\ p \o (old \o new) \in Seq(Insts)
          /\ Ids(p \o x) = Ids(p) \cup Ids(x) /\ Ids(old \o new) = Ids(old) \cup Ids(new)
          /\ Len(p \o x) = Len(p) + Len(x) /\ Len(old \o new) = Len(old) + m
      BY <3>2, IdsConcat
    <3>5. /\ Ids(p \o (old \o new)) = Ids(p) \cup Ids(old \o new)
          /\ Len(p \o (old \o new)) = Len(p) + Len(old \o new)
      BY <3>4, IdsConcat
    <3>6. /\ Ids(code \o (p \o x)) = Ids(code) \cup Ids(p \o x)
          /\ Len(code \o (p \o x)) = Len(code) + Len(p \o x)
      BY <3>3, <3>4, IdsConcat
    <3>7. /\ Ids(code \o (p \o (old \o new))) = Ids(code) \cup Ids(p \o (old \o new))
          /\ Len(code \o (p \o (old \o new))) = Len(code) + Len(p \o (old \o new))
          /\ code \o (p \o (old \o new)) \in Seq(Insts)
      BY <3>3, <3>4, IdsConcat
    <3>8. Len(p) \in Nat /\ Len(x) \in Nat /\ Len(code) \in Nat /\ m \in Nat
      BY <3>2, <3>3
    <3>9. Len(code \o InFlight') = created - 1 + m
      <4> DEFINE a == Len(code)
                 b == Len(p)
                 d == Len(x)
      <4>1. a + (b + d) = created - 1
        BY <3>1, <3>3, <3>4, <3>6
      <4>2. Len(code \o InFlight') = a + (b + (d + m))
        BY <3>1, <3>2, <3>4, <3>5, <3>7
      <4> HIDE DEF a, b, d, m
      <4> QED
        BY <1>0, <3>8, <4>1, <4>2 DEF a, b, d
    <3>10. Ids(code \o InFlight') = ((1..created) \ {2}) \cup Ids(new)
      BY <3>1, <3>2, <3>3, <3>4, <3>5, <3>6, <3>7, Zenon
    <3> HIDE DEF m
    <3>11. ((1..created) \ {2}) \cup Ids(new) = (1..created + m) \ {2} /\ (created - 1) + m = (created + m) - 1
           /\ created + m \in Nat /\ created + m >= 2
      BY <1>0, <1>1, <2>4, <3>2, <3>8
    <3>12. code \o InFlight' \in Seq(Insts)
      BY <3>1, <3>7
    <3>13. EachOnce(code \o InFlight', (1..created + m) \ {2})
      <4> DEFINE c == code \o InFlight'
                 k == created + m
      <4>1. c \in Seq(Insts) /\ Len(c) = k - 1 /\ Ids(c) = (1..k) \ {2} /\ k \in Nat /\ k >= 2
        <5>1. Len(c) = k - 1
          BY <3>9, <3>11
        <5>2. Ids(c) = (1..k) \ {2}
          BY <3>10, <3>11
        <5> QED
          BY <3>11, <3>12, <5>1, <5>2, Zenon
      <4> HIDE DEF c, k
      <4>2. EachOnce(c, (1..k) \ {2})
        BY <4>1, EachOnceIs
      <4> QED
        BY <4>2 DEF c, k
    <3> QED
      BY <1>1, <2>1, <2>4, <3>11, <3>13 DEF LostInv, NoInstructionLost, code, m
  <2> QED
    BY <2>3, <2>4
<1>8. CASE Stays \/ UNCHANGED vars
  <2>1. UNCHANGED << program, module, frames, ircode, info, created >>
    BY <1>8 DEF Stays, vars
  <2> QED
    BY <2>1 DEF LostInv, NoInstructionLost, Compiled, InFlight, Func
<1>9. ASSUME NEW t, Enters(t) PROVE LostInv'
  BY <1>4, <1>9, FlightAfter DEF Enters
<1>10. ASSUME NEW val, Reads(val) PROVE LostInv'
  BY <1>4, <1>10, FlightAfter DEF Reads
<1> QED
  BY <1>5, <1>6, <1>7, <1>8, <1>9, <1>10, EveryKind DEF Kinds

(* No instruction is lost on its way up the tree, and none is taken twice  *)
(* (InterCode::addInst moves the list of a son into that of its parent,    *)
(* InterCode::Delete frees each instruction of the function's list).       *)
THEOREM EveryInstructionOnce == Spec => []NoInstructionLost
<1>1. Inv /\ LostInv /\ [Next]_vars => LostInv'
  BY LostStep
<1>2. LostInv => NoInstructionLost
  BY DEF LostInv
<1> QED
  BY <1>1, <1>2, LostInit, Nesting, PTL DEF Spec


-----------------------------------------------------------------------------
(* The attributes of a function say what is in its code.                   *)

(* The numbers of arguments in two pieces of code.                         *)
LEMMA ArgCountsConcat ==
  ASSUME NEW a \in Seq(Insts), NEW b \in Seq(Insts)
  PROVE  ArgCounts(a \o b) = ArgCounts(a) \cup ArgCounts(b)
<1> DEFINE c == a \o b
           m == Len(a)
<1>1. /\ \A i \in DOMAIN a : i \in DOMAIN c /\ c[i] = a[i]
      /\ \A j \in DOMAIN b : m + j \in DOMAIN c /\ c[m + j] = b[j]
      /\ \A i \in DOMAIN c : i \in DOMAIN a \/ \E j \in DOMAIN b : i = m + j
  BY ConcatElements
<1> HIDE DEF c, m
<1>2. ASSUME NEW i \in DOMAIN c, c[i].op = "call" PROVE Len(c[i].args) \in ArgCounts(a) \cup ArgCounts(b)
  <2>1. CASE i \in DOMAIN a
    BY <1>1, <1>2, <2>1 DEF ArgCounts
  <2>2. ASSUME NEW j \in DOMAIN b, i = m + j PROVE Len(c[i].args) \in ArgCounts(b)
    BY <1>1, <1>2, <2>2, Zenon DEF ArgCounts
  <2> QED
    BY <1>1, <2>1, <2>2
<1>3. ArgCounts(c) \subseteq ArgCounts(a) \cup ArgCounts(b)
  BY <1>2 DEF ArgCounts
<1>4. ASSUME NEW j \in DOMAIN b, b[j].op = "call" PROVE Len(b[j].args) \in ArgCounts(c)
  BY <1>1, <1>4, Zenon DEF ArgCounts
<1>5. ASSUME NEW i \in DOMAIN a, a[i].op = "call" PROVE Len(a[i].args) \in ArgCounts(c)
  BY <1>1, <1>5, Zenon DEF ArgCounts
<1>6. ArgCounts(a) \subseteq ArgCounts(c) /\ ArgCounts(b) \subseteq ArgCounts(c)
  BY <1>4, <1>5 DEF ArgCounts
<1> QED
  BY <1>3, <1>6 DEF c

(* The numbers are numbers, and there are none without a call.             *)
LEMMA ArgCountsFacts ==
  ASSUME NEW c \in Seq(Insts)
  PROVE  /\ ArgCounts(c) \subseteq Nat
         /\ (\A i \in DOMAIN c : c[i].op # "call") => ArgCounts(c) = {}
<1>1. ASSUME NEW i \in DOMAIN c PROVE Len(c[i].args) \in Nat
  <2>1. c[i] \in Insts
    OBVIOUS
  <2>2. c[i].args \in Seq(IRValues)
    BY <2>1 DEF Insts
  <2> QED
    BY <2>2
<1> QED
  BY <1>1 DEF ArgCounts

Calls(fr) == IF fr.node.op = "call" THEN {Len(fr.node.sons)} ELSE {}

(* A handler that is entered adds its own call to those being visited.     *)
LEMMA VisitedAppend ==
  ASSUME NEW fs \in Seq(Frames), NEW fr \in Frames
  PROVE  Visited(Append(fs, fr)) = Visited(fs) \cup Calls(fr)
<1> DEFINE gs == Append(fs, fr)
           n  == Len(fs)
<1>1. /\ n + 1 \in DOMAIN gs /\ gs[n + 1] = fr
      /\ \A i \in DOMAIN fs : i \in DOMAIN gs /\ gs[i] = fs[i]
      /\ \A i \in DOMAIN gs : i \in DOMAIN fs \/ i = n + 1
  OBVIOUS
<1> HIDE DEF gs, n
<1>2. ASSUME NEW i \in DOMAIN gs, gs[i].node.op = "call" PROVE Len(gs[i].node.sons) \in Visited(fs) \cup Calls(fr)
  <2>1. CASE i \in DOMAIN fs
    BY <1>1, <1>2, <2>1 DEF Visited
  <2>2. CASE i = n + 1
    BY <1>1, <1>2, <2>2, Zenon DEF Calls
  <2> QED
    BY <1>1, <2>1, <2>2
<1>3. Visited(gs) \subseteq Visited(fs) \cup Calls(fr)
  BY <1>2 DEF Visited
<1>4. ASSUME NEW i \in DOMAIN fs, fs[i].node.op = "call" PROVE Len(fs[i].node.sons) \in Visited(gs)
  BY <1>1, <1>4, Zenon DEF Visited
<1>5. ASSUME fr.node.op = "call" PROVE Len(fr.node.sons) \in Visited(gs)
  BY <1>1, <1>5, Zenon DEF Visited
<1>6. Visited(fs) \subseteq Visited(gs) /\ Calls(fr) \subseteq Visited(gs)
  BY <1>4, <1>5 DEF Visited, Calls
<1> QED
  BY <1>3, <1>6 DEF gs

(* A leaf changes nothing, a handler that returns takes its own away.      *)
LEMMA VisitedReturned ==
  ASSUME NEW fs \in Seq(Frames), fs # << >>, NEW r \in Results
  PROVE  /\ Visited(LeftWith(fs, r)) = Visited(fs)
         /\ Len(fs) >= 2 => Visited(fs) = Visited(PoppedWith(fs, r)) \cup Calls(Last(fs))
<1>1. ASSUME NEW gs \in Seq(Frames), gs # << >>
      PROVE  /\ Visited(gs) = Visited(Front(gs)) \cup Calls(Last(gs))
             /\ Visited(LeftWith(gs, r)) = Visited(gs)
             /\ Front(gs) \in Seq(Frames) /\ Len(Front(gs)) = Len(gs) - 1
  <2>1. /\ Front(gs) \in Seq(Frames) /\ Len(Front(gs)) = Len(gs) - 1
        /\ Last(gs) \in Frames /\ gs = Append(Front(gs), Last(gs))
    BY <1>1, FrontLast
  <2>2. Visited(gs) = Visited(Front(gs)) \cup Calls(Last(gs))
    BY <2>1, VisitedAppend
  <2>3. With(Last(gs), r) \in Frames /\ Calls(With(Last(gs), r)) = Calls(Last(gs))
    BY <2>1, WithIs DEF Calls
  <2>4. Visited(LeftWith(gs, r)) = Visited(Front(gs)) \cup Calls(Last(gs))
    BY <2>1, <2>3, VisitedAppend DEF LeftWith
  <2> QED
    BY <2>1, <2>2, <2>4
<1>2. ASSUME Len(fs) >= 2 PROVE Visited(fs) = Visited(PoppedWith(fs, r)) \cup Calls(Last(fs))
  <2> DEFINE gs == Front(fs)
  <2>1. gs \in Seq(Frames) /\ Len(gs) = Len(fs) - 1 /\ Visited(fs) = Visited(gs) \cup Calls(Last(fs))
    BY <1>1
  <2>2. gs # << >>
    BY <1>2, <2>1
  <2>3. PoppedWith(fs, r) = LeftWith(gs, r)
    BY DEF PoppedWith, LeftWith
  <2> HIDE DEF gs
  <2> QED
    BY <1>1, <2>1, <2>2, <2>3
<1> QED
  BY <1>1, <1>2

(* No call is visited when a function is begun or finished.                *)
LEMMA VisitedOutside ==
  ASSUME NEW fs, FramesOK(fs), Len(fs) = 2 \/ Len(fs) = 1
  PROVE  Visited(fs) = {}
<1>1. \A i \in DOMAIN fs : i = 1 \/ (i = 2 /\ Len(fs) >= 2)
  BY FramesFacts
<1>2. fs[1].node.op = "unit" /\ (Len(fs) >= 2 => fs[2].node.op \in {"func", "decl"})
  BY FramesFacts
<1>3. \A i \in DOMAIN fs : fs[i].node.op # "call"
  BY <1>1, <1>2
<1> QED
  BY <1>3 DEF Visited

(* Visiting a call puts its number of arguments into the attributes.       *)
LEMMA SaysCounted ==
  ASSUME NEW attrs \in Attrs, NEW counts \in SUBSET Nat, NEW n \in Nat, Says(attrs, counts)
  PROVE  CountCall(attrs, n) \in Attrs /\ Says(CountCall(attrs, n), counts \cup {n})
<1> DEFINE m == attrs.maxFuncCallArgCnt
           k == Max({m, n})
<1>1. m \in Nat
  BY DEF Attrs
<1>2. k \in {m, n} /\ k >= m /\ k >= n
  <2>1. \E x \in {m, n} : \A y \in {m, n} : x >= y
    <3>1. CASE m >= n
      BY <1>1, <3>1
    <3>2. CASE n >= m
      BY <1>1, <3>2
    <3> QED
      BY <1>1, <3>1, <3>2
  <2> QED
    BY <2>1 DEF Max
<1> HIDE DEF k
<1>3. CountCall(attrs, n) = [attrs EXCEPT !.existFuncCall = TRUE, !.maxFuncCallArgCnt = k]
  BY DEF CountCall, k
<1> HIDE DEF m
<1>4. /\ CountCall(attrs, n) \in Attrs
      /\ CountCall(attrs, n).existFuncCall = TRUE /\ CountCall(attrs, n).maxFuncCallArgCnt = k
  BY <1>1, <1>2, <1>3 DEF Attrs
<1>5. (\A x \in counts : x <= m) /\ m \in {0} \cup counts
  BY DEF Says, m
<1>6. \A x \in counts \cup {n} : x <= k
  BY <1>1, <1>2, <1>5
<1>7. k \in {0} \cup (counts \cup {n})
  BY <1>2, <1>5
<1>8. counts \cup {n} # {}
  OBVIOUS
<1> QED
  BY <1>4, <1>6, <1>7, <1>8 DEF Says


(* The calls in what a handler adds, and in what it has gathered.          *)
LEMMA AddedCounts ==
  ASSUME Inv, NEW val, NEW old, NEW new, Returns(val, old, new)
  PROVE  /\ old \in Seq(Insts) /\ new \in Seq(Insts) /\ Code(Top.sons) \in Seq(Insts)
         /\ ArgCounts(old) = ArgCounts(Code(Top.sons))
         /\ ArgCounts(new) = Calls(Top)
<1>1. /\ old \in Seq(Insts) /\ new \in Seq(Insts) /\ Gathered(old) /\ Added(val, new) /\ ~Pending
  BY DEF Returns
<1>2. Top.sons \in Seq(Results) /\ Len(Top.sons) = Len(Top.node.sons)
  BY <1>1, AtFinish
<1>3. Code(Top.sons) \in Seq(Insts)
  BY AddedIds
<1>4. ArgCounts(old) = ArgCounts(Code(Top.sons))
  <2>1. CASE old = Code(Top.sons)
    BY <2>1
  <2>2. CASE /\ Len(Top.sons) = 2
             /\ old = Top.sons[2].code \o Top.sons[1].code
             /\ Code(Top.sons) = Top.sons[1].code \o Top.sons[2].code
    <3> DEFINE a == Top.sons[1].code
               b == Top.sons[2].code
    <3>1. a \in Seq(Insts) /\ b \in Seq(Insts)
      BY <1>2, <2>2, CodeOfTwo
    <3>2. old = b \o a /\ Code(Top.sons) = a \o b
      BY <2>2
    <3> HIDE DEF a, b
    <3>3. ArgCounts(b \o a) = ArgCounts(b) \cup ArgCounts(a) /\ ArgCounts(a \o b) = ArgCounts(a) \cup ArgCounts(b)
      BY <3>1, ArgCountsConcat
    <3> QED
      BY <3>2, <3>3
  <2> QED
    BY <1>1, <2>1, <2>2 DEF Gathered
<1>5. ASSUME Top.node.op \in {"block", "decl"}, new = << >> PROVE ArgCounts(new) = Calls(Top)
  BY <1>5 DEF ArgCounts, Calls
<1>6. ASSUME NEW op, NEW target, new = << Inst(op, created + 1, Vals(Top.sons), target) >>,
             Top.node.op \in {"assign", "add", "sub", "call"},
             op = IF Top.node.op = "assign" THEN "move" ELSE Top.node.op
      PROVE  ArgCounts(new) = Calls(Top)
  <2> DEFINE vals == Vals(Top.sons)
             a    == Inst(op, created + 1, vals, target)
  <2>1. Len(vals) = Len(Top.node.sons)
    BY <1>2 DEF Vals
  <2>2. a.op = op /\ a.args = vals
    BY DEF Inst
  <2> HIDE DEF a, vals
  <2>3. new = << a >>
    BY <1>6 DEF a, vals
  <2>4. DOMAIN new = {1} /\ new[1] = a
    BY <2>3
  <2>5. CASE op = "call"
    <3>1. ArgCounts(new) = {Len(vals)}
      BY <2>2, <2>4, <2>5 DEF ArgCounts
    <3>2. Top.node.op = "call"
      BY <1>6, <2>5
    <3> QED
      BY <2>1, <3>1, <3>2 DEF Calls
  <2>6. CASE op # "call"
    <3>1. ArgCounts(new) = {}
      BY <2>2, <2>4, <2>6 DEF ArgCounts
    <3>2. Top.node.op # "call"
      BY <1>6, <2>6
    <3> QED
      BY <3>1, <3>2 DEF Calls
  <2> QED
    BY <2>5, <2>6
<1>7. ASSUME Top.node.op = "return", new = ReturnCode(val) PROVE ArgCounts(new) = Calls(Top)
  <2> DEFINE a == Inst("move", created + 1, << info[Func].returnValue, val >>, Null)
             b == Inst("goto", created + 2, << >>, info[Func].exitLabel)
  <2>1. a.op = "move" /\ b.op = "goto" /\ new = << a, b >>
    BY <1>7 DEF ReturnCode, Inst
  <2> HIDE DEF a, b
  <2>2. \A i \in DOMAIN new : new[i].op # "call"
    BY <2>1
  <2> QED
    BY <1>7, <2>2 DEF ArgCounts, Calls
<1> QED
  BY <1>1, <1>3, <1>4, <1>5, <1>6, <1>7 DEF Added

(* The attributes hold at the start.                                       *)
LEMMA AttrsInit == Init => AttrsInv
<1> SUFFICES ASSUME Init PROVE AttrsInv
  OBVIOUS
<1>1. Func = NoFunc /\ DOMAIN ircode = {}
  BY NewModuleOK DEF Init, Func
<1> QED
  BY <1>1 DEF AttrsInv, Compiled

(* They are numbers.                                                       *)
LEMMA VisitedFacts ==
  ASSUME NEW fs \in Seq(Frames)
  PROVE  Visited(fs) \subseteq Nat
<1>1. ASSUME NEW i \in DOMAIN fs PROVE Len(fs[i].node.sons) \in Nat
  <2>1. fs[i] \in Frames
    OBVIOUS
  <2>2. fs[i].node \in Nodes
    BY <2>1 DEF Frames
  <2>3. fs[i].node.sons \in Seq(Nodes)
    BY <2>2, NodeShape
  <2> QED
    BY <2>3
<1> QED
  BY <1>1 DEF Visited

(* The current function is the one that is begun.                          *)
LEMMA BeginsNames == ASSUME Inv, Begins PROVE Func' = Current.name
<1>1. /\ Pending /\ Current.op = "func" /\ Func = NoFunc /\ Len(frames) = 1 /\ Current.name \notin DOMAIN module.funcMap
      /\ module' = Table!BeginFunction(module, Current.name)
  BY DEF Begins
<1>2. Current.name \in Callees /\ Len(module.valueStack) = 1 /\ TableOK(module)
  BY <1>1, AtVisit, Outside DEF Inv
<1> DEFINE f == Current.name
<1> HIDE DEF f
<1>3. module' = Table!BeginFunction(module, f) /\ f \in Callees /\ f \notin DOMAIN module.funcMap
  BY <1>1, <1>2 DEF f
<1> QED
  BY <1>1, <1>2, <1>3, BeginFunctionOK DEF Func, f

(* The end of a function is its exit label and its exit.                   *)
LEMMA ExitFacts ==
  ASSUME Inv, Func # NoFunc
  PROVE  /\ Exit \in Seq(Insts) /\ Len(Exit) = 2 /\ DOMAIN Exit = {1, 2}
         /\ Exit[1] = Inst("label", 2, << >>, Null)
         /\ Exit[2] = Inst("exit", created + 1, << info[Func].returnValue >>, Null)
         /\ \A i \in DOMAIN Exit : Exit[i].op \in {"label", "exit"}
<1> DEFINE slot == info[Func].returnValue
           a    == Inst("label", 2, << >>, Null)
           b    == Inst("exit", created + 1, << slot >>, Null)
<1>1. slot \in IRValues /\ created \in Nat
  BY Inside DEF Inv, FunctionsOK, Attrs
<1> HIDE DEF slot
<1>2. << >> \in Seq(IRValues) /\ << slot >> \in Seq(IRValues) /\ 2 \in Nat /\ created + 1 \in Nat
  BY <1>1
<1>3. a \in Insts /\ b \in Insts
  BY <1>2, NullIsValue, InstType DEF Ops
<1>4. Exit = << a, b >> /\ a.op = "label" /\ b.op = "exit"
  BY DEF Exit, slot, Inst
<1> HIDE DEF a, b
<1>5. /\ << a, b >> \in Seq(Insts) /\ Len(<< a, b >>) = 2 /\ DOMAIN << a, b >> = {1, 2}
      /\ << a, b >>[1] = a /\ << a, b >>[2] = b
  BY <1>3
<1>6. /\ Exit \in Seq(Insts) /\ Len(Exit) = 2 /\ DOMAIN Exit = {1, 2} /\ Exit[1] = a /\ Exit[2] = b
  BY <1>4, <1>5
<1> QED
  BY <1>4, <1>6 DEF a, b, slot

(* Every step keeps them.                                                  *)
LEMMA AttrsStep == ASSUME Inv, AttrsInv, [Next]_vars PROVE AttrsInv'
<1>1. /\ Func # NoFunc => Says(info[Func], ArgCounts(InFlight) \cup Visited(frames))
      /\ \A f \in Compiled : Says(info[f], ArgCounts(ircode[f]))
  BY DEF AttrsInv
<1>2. FramesOK(frames) /\ frames \in Seq(Frames) /\ frames # << >> /\ InFlight \in Seq(Insts)
  BY FlightAfter DEF Inv, FramesOK
<1>3. ASSUME Within, info' = info, ArgCounts(InFlight') \cup Visited(frames') = ArgCounts(InFlight) \cup Visited(frames)
      PROVE  AttrsInv'
  <2>1. Compiled' = Compiled /\ Func' = Func /\ ircode' = ircode
    BY <1>3, CompiledAfter
  <2> QED
    BY <1>1, <1>3, <2>1 DEF AttrsInv
<1>4. CASE Stays \/ UNCHANGED vars
  <2>1. UNCHANGED << program, module, frames, ircode, info, created >>
    BY <1>4 DEF Stays, vars
  <2> QED
    BY <2>1 DEF AttrsInv, Compiled, InFlight, Func
<1>5. CASE Begins
  <2>1. /\ Compiled' = Compiled
        /\ \A f \in Compiled : ircode'[f] = ircode[f] /\ info'[f] = info[f]
    BY <1>5, CompiledAfter
  <2>2. InFlight' = << >> /\ Inv'
    BY <1>5, FlightAfter, BeginsKeeps
  <2>3. Len(frames) = 1 /\ frames' = Append(frames, Frame(Current))
    BY <1>5 DEF Begins
  <2>4. FramesOK(frames') /\ Len(frames') = 2
    <3>1. FramesOK(frames')
      BY <2>2 DEF Inv
    <3>2. Len(Append(frames, Frame(Current))) = Len(frames) + 1
      BY <1>2
    <3> QED
      BY <2>3, <3>1, <3>2
  <2>5. Visited(frames') = {}
    BY <2>4, VisitedOutside
  <2>6. ArgCounts(InFlight') = {}
    BY <2>2 DEF ArgCounts
  <2>7. Says(info'[Func'], {})
    <3> DEFINE f == Current.name
    <3>1. PICK attrs : /\ info' = Table!Insert(info, f, attrs)
                       /\ attrs.existFuncCall = FALSE /\ attrs.maxFuncCallArgCnt = 0
      BY <1>5 DEF Begins
    <3>2. Func' = f
      BY <1>5, BeginsNames
    <3> HIDE DEF f
    <3>3. f \notin DOMAIN info
      BY <1>5 DEF Begins, Inv, FunctionsOK, f
    <3>4. info'[f] = attrs
      BY <3>1, <3>3 DEF Table!Insert
    <3> QED
      BY <3>1, <3>2, <3>4 DEF Says
  <2> QED
    BY <1>1, <2>1, <2>5, <2>6, <2>7 DEF AttrsInv
<1>6. CASE Ends
  <2>1. /\ Compiled' = Compiled \cup {Func} /\ Func' = NoFunc /\ Func # NoFunc /\ Func \notin Compiled
        /\ ircode'[Func] = (ircode[Func] \o Code(Top.sons)) \o Exit
        /\ \A f \in Compiled : ircode'[f] = ircode[f]
        /\ info' = info /\ Len(frames) = 2
    BY <1>6, CompiledAfter DEF Ends
  <2>2. Visited(frames) = {} /\ InFlight = Code(Top.sons)
    BY <1>2, <1>6, <2>1, VisitedOutside, FlightAfter
  <2>3. /\ ircode[Func] \in Seq(Insts) /\ ArgCounts(ircode[Func]) = {}
    <3>1. ircode[Func] = << Inst("entry", 1, << >>, Null) >>
      BY <2>1 DEF Inv, Opened
    <3>2. \A i \in DOMAIN ircode[Func] : ircode[Func][i].op # "call"
      BY <3>1 DEF Inst
    <3>3. ircode[Func] \in Seq(Insts)
      BY <2>1, Inside DEF Inv, FunctionsOK
    <3> QED
      BY <3>2, <3>3, ArgCountsFacts
  <2>4. Exit \in Seq(Insts) /\ ArgCounts(Exit) = {}
    <3>1. Exit \in Seq(Insts) /\ \A i \in DOMAIN Exit : Exit[i].op \in {"label", "exit"}
      BY <2>1, ExitFacts
    <3>2. \A i \in DOMAIN Exit : Exit[i].op # "call"
      BY <3>1
    <3> QED
      BY <3>1, <3>2, ArgCountsFacts
  <2>5. ArgCounts(ircode'[Func]) = ArgCounts(InFlight)
    <3> DEFINE e == ircode[Func]
               x == Exit
    <3>1. e \in Seq(Insts) /\ x \in Seq(Insts) /\ ArgCounts(e) = {} /\ ArgCounts(x) = {}
      BY <2>3, <2>4
    <3>2. ircode'[Func] = (e \o InFlight) \o x
      BY <2>1, <2>2
    <3> HIDE DEF e, x
    <3>3. e \o InFlight \in Seq(Insts)
      BY <1>2, <3>1, ConcatProperties
    <3>4. ArgCounts(e \o InFlight) = ArgCounts(e) \cup ArgCounts(InFlight)
      BY <1>2, <3>1, ArgCountsConcat
    <3>5. ArgCounts((e \o InFlight) \o x) = ArgCounts(e \o InFlight) \cup ArgCounts(x)
      BY <3>1, <3>3, ArgCountsConcat
    <3> QED
      BY <3>1, <3>2, <3>4, <3>5
  <2>6. Says(info'[Func], ArgCounts(ircode'[Func]))
    <3>1. ArgCounts(InFlight) \cup Visited(frames) = ArgCounts(ircode'[Func])
      BY <2>2, <2>5
    <3> QED
      BY <1>1, <2>1, <3>1
  <2> QED
    BY <1>1, <2>1, <2>6 DEF AttrsInv
<1>7. ASSUME NEW t, Enters(t) PROVE AttrsInv'
  <2>1. /\ t \in Nodes /\ frames' = Append(frames, Frame(t)) /\ Within
        /\ info' = IF t.op = "call" THEN [info EXCEPT ![Func] = CountCall(@, Len(t.sons))] ELSE info
        /\ t.op # "decl" => Func # NoFunc
    BY <1>7 DEF Enters
  <2>2. InFlight' = InFlight
    BY <1>7, FlightAfter
  <2>3. Frame(t) \in Frames /\ Frame(t).node = t
    BY <2>1 DEF Frame, Frames
  <2>4. Visited(frames') = Visited(frames) \cup Calls(Frame(t))
    BY <1>2, <2>1, <2>3, VisitedAppend
  <2>5. CASE t.op # "call"
    <3>1. Visited(frames') = Visited(frames) /\ info' = info
      BY <2>1, <2>3, <2>4, <2>5 DEF Calls
    <3> QED
      BY <1>3, <2>1, <2>2, <3>1
  <2>6. CASE t.op = "call"
    <3> DEFINE n      == Len(t.sons)
               counts == ArgCounts(InFlight) \cup Visited(frames)
    <3>1. Func # NoFunc /\ info' = [info EXCEPT ![Func] = CountCall(@, n)]
      BY <2>1, <2>6
    <3>2. /\ Compiled' = Compiled /\ Func' = Func /\ ircode' = ircode
      BY <2>1, CompiledAfter
    <3>3. Func \in DOMAIN info /\ info[Func] \in Attrs
      BY <3>1, Inside DEF Inv, FunctionsOK
    <3>4. t.sons \in Seq(Nodes)
      BY <2>1, NodeShape
    <3>5. n \in Nat /\ counts \in SUBSET Nat
      <4>1. ArgCounts(InFlight) \subseteq Nat
        BY <1>2, ArgCountsFacts
      <4>2. Visited(frames) \subseteq Nat
        BY <1>2, VisitedFacts
      <4> QED
        BY <3>4, <4>1, <4>2
    <3>6. Says(info[Func], counts)
      BY <1>1, <3>1
    <3> HIDE DEF n, counts
    <3>7. Says(CountCall(info[Func], n), counts \cup {n})
      BY <3>3, <3>5, <3>6, SaysCounted
    <3>8. info'[Func] = CountCall(info[Func], n) /\ \A f \in Compiled : info'[f] = info[f]
      BY <3>1, <3>3 DEF Compiled
    <3>9. ArgCounts(InFlight') \cup Visited(frames') = counts \cup {n}
      BY <2>2, <2>3, <2>4, <2>6 DEF counts, n, Calls
    <3> QED
      BY <1>1, <3>2, <3>7, <3>8, <3>9 DEF AttrsInv
  <2> QED
    BY <2>5, <2>6
<1>8. ASSUME NEW val, Reads(val) PROVE AttrsInv'
  <2>1. InFlight' = InFlight
    BY <1>8, FlightAfter
  <2>2. /\ Within /\ info' = info /\ frames' = LeftWith(frames, Result(val, << >>))
        /\ val \in IRValues
    BY <1>8 DEF Reads
  <2>3. Result(val, << >>) \in Results
    <3>1. << >> \in Seq(Insts)
      OBVIOUS
    <3> QED
      BY <2>2, <3>1, ResultType
  <2>4. Visited(frames') = Visited(frames)
    BY <1>2, <2>2, <2>3, VisitedReturned
  <2> QED
    BY <1>3, <2>1, <2>2, <2>4
<1>9. ASSUME NEW val, NEW old, NEW new, Returns(val, old, new) PROVE AttrsInv'
  <2> DEFINE r == Result(val, old \o new)
             x == Code(Top.sons)
  <2>1. /\ Within /\ info' = info /\ frames' = PoppedWith(frames, r) /\ Len(frames) >= 2
    BY <1>9 DEF Returns
  <2>2. r \in Results
    BY <1>9, ReturnedType
  <2>3. /\ old \in Seq(Insts) /\ new \in Seq(Insts) /\ x \in Seq(Insts)
        /\ ArgCounts(old) = ArgCounts(x) /\ ArgCounts(new) = Calls(Top)
    BY <1>9, AddedCounts
  <2>4. Replaced(InFlight, InFlight', x, old \o new)
    BY <1>9, FlightReplaced
  <2> HIDE DEF r, x
  <2>5. Visited(frames) = Visited(frames') \cup Calls(Top)
    BY <1>2, <2>1, <2>2, VisitedReturned DEF Top
  <2>6. PICK p \in Seq(Insts) : InFlight = p \o x /\ InFlight' = p \o (old \o new)
    BY <2>4 DEF Replaced
  <2>7. old \o new \in Seq(Insts) /\ ArgCounts(old \o new) = ArgCounts(x) \cup Calls(Top)
    BY <2>3, ArgCountsConcat, ConcatProperties
  <2>8. ArgCounts(InFlight) = ArgCounts(p) \cup ArgCounts(x)
    BY <2>3, <2>6, ArgCountsConcat
  <2>9. ArgCounts(InFlight') = ArgCounts(p) \cup (ArgCounts(x) \cup Calls(Top))
    BY <2>6, <2>7, ArgCountsConcat
  <2>10. ArgCounts(InFlight') \cup Visited(frames') = ArgCounts(InFlight) \cup Visited(frames)
    BY <2>5, <2>8, <2>9
  <2> QED
    BY <1>3, <2>1, <2>10
<1> QED
  BY <1>4, <1>5, <1>6, <1>7, <1>8, <1>9, EveryKind DEF Kinds

(* The attributes that decide whether a frame saves the link register and  *)
(* how much room it has for arguments (Function::existFuncCall and         *)
(* maxFuncCallArgCnt, set by ir_function_call before the call is checked)  *)
(* say what is in the function's code when it is complete.                 *)
THEOREM AttributesMatch == Spec => []FrameAttributesMatchCode
<1>1. Inv /\ AttrsInv /\ [Next]_vars => AttrsInv'
  BY AttrsStep
<1>2. Inv /\ AttrsInv => FrameAttributesMatchCode
  <2> SUFFICES ASSUME Inv, AttrsInv, NEW f \in Compiled
               PROVE  LET calls == {i \in DOMAIN ircode[f] : ircode[f][i].op = "call"}
                      IN  /\ info[f].existFuncCall <=> calls # {}
                          /\ info[f].maxFuncCallArgCnt = Max({0} \cup {Len(ircode[f][i].args) : i \in calls})
    BY DEF FrameAttributesMatchCode
  <2> DEFINE c     == ircode[f]
             calls == {i \in DOMAIN c : c[i].op = "call"}
             m     == info[f].maxFuncCallArgCnt
             all   == {0} \cup ArgCounts(c)
  <2>1. Says(info[f], ArgCounts(c))
    BY DEF AttrsInv
  <2>2. c \in Seq(Insts) /\ info[f] \in Attrs
    BY DEF Inv, FunctionsOK, Compiled
  <2>3. m \in Nat /\ ArgCounts(c) \subseteq Nat
    BY <2>2, ArgCountsFacts DEF Attrs
  <2> HIDE DEF c, m
  <2>4. ArgCounts(c) = {Len(c[i].args) : i \in calls}
    BY DEF ArgCounts
  <2>5. info[f].existFuncCall <=> calls # {}
    BY <2>1, <2>4 DEF Says
  <2>6. m \in all /\ \A n \in all : m >= n
    BY <2>1, <2>3 DEF Says, m
  <2>7. all \subseteq Nat
    BY <2>3
  <2> HIDE DEF all, calls
  <2>8. \A x \in all : (\A n \in all : x >= n) => x = m
    BY <2>6, <2>7
  <2>9. m = Max(all)
    BY <2>6, <2>8 DEF Max
  <2> QED
    BY <2>4, <2>5, <2>9 DEF c, m, all, calls
<1> QED
  BY <1>1, <1>2, AttrsInit, Nesting, PTL DEF Spec


-----------------------------------------------------------------------------
(* A function has one exit.                                                *)

(* A handler begins with nothing from its sons.                            *)
LEMMA NewFrame == \A t \in Nodes : Frame(t) \in Frames
<1> SUFFICES ASSUME NEW t \in Nodes PROVE Frame(t) \in Frames
  OBVIOUS
<1>1. << >> \in Seq(Results)
  OBVIOUS
<1> QED
  BY <1>1 DEF Frame, Frames

(* The frames after a function is begun.                                   *)
LEMMA TwoFrames ==
  ASSUME NEW fs \in Seq(Frames), NEW fr \in Frames
  PROVE  Len(fs) = 1 =>
           \A i \in DOMAIN Append(fs, fr) : Append(fs, fr)[i] = fs[1] \/ Append(fs, fr)[i] = fr
<1> DEFINE gs == Append(fs, fr)
           n  == Len(fs)
<1>1. DOMAIN gs = 1..n + 1 /\ gs[n + 1] = fr /\ n \in Nat /\ \A i \in 1..n : gs[i] = fs[i]
  OBVIOUS
<1> HIDE DEF gs, n
<1>2. ASSUME n = 1, NEW i \in DOMAIN gs PROVE gs[i] = fs[1] \/ gs[i] = fr
  <2>1. 1 \in 1..n /\ (i = 1 \/ i = n + 1)
    BY <1>1, <1>2
  <2> QED
    BY <1>1, <2>1, Zenon
<1> QED
  BY <1>2 DEF gs, n

(* The frames after a leaf is visited or a handler returns: those that     *)
(* were there, but for the innermost, which has one result more.           *)
LEMMA FramesLeft ==
  ASSUME NEW fs \in Seq(Frames), fs # << >>, NEW r \in Results
  PROVE  /\ \A i \in DOMAIN LeftWith(fs, r) :
              (\E j \in DOMAIN fs : LeftWith(fs, r)[i] = fs[j]) \/ LeftWith(fs, r)[i] = With(Last(fs), r)
         /\ Len(fs) >= 2 =>
              /\ Len(fs) - 1 \in DOMAIN fs
              /\ \A i \in DOMAIN PoppedWith(fs, r) :
                   (\E j \in DOMAIN fs : PoppedWith(fs, r)[i] = fs[j]) \/ PoppedWith(fs, r)[i] = With(fs[Len(fs) - 1], r)
<1> DEFINE n  == Len(fs)
           gs == LeftWith(fs, r)
           hs == PoppedWith(fs, r)
<1>1. n \in Nat /\ n >= 1 /\ DOMAIN fs = 1..n
  OBVIOUS
<1>2. gs \in Seq(Frames) /\ Len(gs) = n /\ gs[n] = With(Last(fs), r) /\ \A i \in 1..n - 1 : gs[i] = fs[i]
  BY LeftAt
<1>3. n >= 2 => /\ hs \in Seq(Frames) /\ Len(hs) = n - 1 /\ hs[n - 1] = With(fs[n - 1], r)
                /\ \A i \in 1..n - 2 : hs[i] = fs[i]
  BY PoppedAt
<1> HIDE DEF n, gs, hs
<1>4. ASSUME NEW i \in DOMAIN gs PROVE (\E j \in DOMAIN fs : gs[i] = fs[j]) \/ gs[i] = With(Last(fs), r)
  <2>1. i \in 1..n
    BY <1>2
  <2>2. i = n \/ (i \in 1..n - 1 /\ i \in DOMAIN fs)
    BY <1>1, <2>1
  <2> QED
    BY <1>2, <2>2
<1>5. ASSUME n >= 2, NEW i \in DOMAIN hs PROVE (\E j \in DOMAIN fs : hs[i] = fs[j]) \/ hs[i] = With(fs[n - 1], r)
  <2>1. i \in 1..n - 1
    BY <1>3, <1>5
  <2>2. i = n - 1 \/ (i \in 1..n - 2 /\ i \in DOMAIN fs)
    BY <1>1, <1>5, <2>1
  <2> QED
    BY <1>3, <1>5, <2>2
<1>6. n >= 2 => n - 1 \in DOMAIN fs
  BY <1>1
<1> QED
  BY <1>4, <1>5, <1>6 DEF n, gs, hs

(* No code has no exits, and neither have the frames outside of functions. *)
LEMMA FragmentEmpty ==
  ASSUME NEW label, NEW slot
  PROVE  /\ Fragment(<< >>, label, slot)
         /\ \A fr : FrameOK(fr) /\ fr.node.op \in {"unit", "decl"} => FrameExits(fr, label, slot)
         /\ \A t \in Nodes : FrameExits(Frame(t), label, slot)
<1>1. Fragment(<< >>, label, slot)
  BY DEF Fragment
<1>2. ASSUME NEW fr, FrameOK(fr), fr.node.op \in {"unit", "decl"} PROVE FrameExits(fr, label, slot)
  <2>1. Code(fr.sons) = << >> /\ \A k \in DOMAIN fr.sons : fr.sons[k] = Result(Null, << >>)
    BY <1>2 DEF FrameOK, Quiet
  <2>2. \A k \in DOMAIN fr.sons : fr.sons[k].code = << >>
    BY <2>1 DEF Result
  <2> QED
    BY <1>1, <2>1, <2>2 DEF FrameExits
<1>3. ASSUME NEW t \in Nodes PROVE FrameExits(Frame(t), label, slot)
  <2>1. Frame(t).sons = << >>
    BY DEF Frame
  <2> QED
    BY <1>1, <2>1, CodeEmpty DEF FrameExits
<1> QED
  BY <1>1, <1>2, <1>3

(* Two pieces of code one after the other.                                 *)
LEMMA FragmentConcat ==
  ASSUME NEW label, NEW slot, NEW a \in Seq(Insts), NEW b \in Seq(Insts),
         Fragment(a, label, slot), Fragment(b, label, slot)
  PROVE  Fragment(a \o b, label, slot)
<1> DEFINE c == a \o b
           m == Len(a)
           Good(d, i) == /\ d[i].op \in {"goto", "move", "add", "sub", "call"}
                         /\ d[i].op = "goto" => /\ i > 1 /\ d[i].target = label
                                                /\ d[i - 1].op = "move" /\ d[i - 1].args # << >> /\ d[i - 1].args[1] = slot
<1>1. /\ m \in Nat
      /\ \A i \in DOMAIN a : i \in DOMAIN c /\ c[i] = a[i]
      /\ \A j \in DOMAIN b : m + j \in DOMAIN c /\ c[m + j] = b[j]
      /\ \A i \in DOMAIN c : i \in DOMAIN a \/ \E j \in DOMAIN b : i = m + j
  BY ConcatElements
<1>2. /\ \A i \in DOMAIN a : i \in Nat /\ (i > 1 => i - 1 \in DOMAIN a)
      /\ \A j \in DOMAIN b : j \in Nat /\ (j > 1 => j - 1 \in DOMAIN b)
  OBVIOUS
<1>3. (\A i \in DOMAIN a : Good(a, i)) /\ (\A j \in DOMAIN b : Good(b, j))
  BY DEF Fragment
<1> HIDE DEF c, m
<1>4. ASSUME NEW i \in DOMAIN a PROVE Good(c, i)
  <2>1. c[i] = a[i] /\ Good(a, i)
    BY <1>1, <1>3
  <2>2. ASSUME c[i].op = "goto" PROVE c[i - 1] = a[i - 1] /\ i > 1
    <3>1. i > 1
      BY <2>1, <2>2
    <3>2. i - 1 \in DOMAIN a
      BY <1>2, <3>1
    <3> QED
      BY <1>1, <3>1, <3>2
  <2> QED
    BY <2>1, <2>2
<1>5. ASSUME NEW j \in DOMAIN b PROVE Good(c, m + j)
  <2>1. c[m + j] = b[j] /\ Good(b, j)
    BY <1>1, <1>3
  <2>2. ASSUME c[m + j].op = "goto" PROVE c[(m + j) - 1] = b[j - 1] /\ m + j > 1
    <3>1. j > 1
      BY <2>1, <2>2
    <3>2. j - 1 \in DOMAIN b /\ (m + j) - 1 = m + (j - 1) /\ m + j > 1
      BY <1>1, <1>2, <3>1
    <3> QED
      BY <1>1, <3>2
  <2> QED
    BY <2>1, <2>2
<1>6. \A i \in DOMAIN c : Good(c, i)
  BY <1>1, <1>4, <1>5
<1> QED
  BY <1>6 DEF Fragment, c

(* A frame with one result more.                                           *)
LEMMA ExitsWith ==
  ASSUME NEW label, NEW slot, NEW fr \in Frames, NEW r \in Results,
         FrameExits(fr, label, slot), Fragment(r.code, label, slot)
  PROVE  FrameExits(With(fr, r), label, slot)
<1>1. fr.sons \in Seq(Results) /\ With(fr, r).sons = Append(fr.sons, r) /\ r.code \in Seq(Insts)
  BY WithIs DEF Frames, Results
<1> DEFINE sons == fr.sons
           more == Append(sons, r)
<1>2. Code(more) = Code(sons) \o r.code /\ Code(sons) \in Seq(Insts)
  BY <1>1, CodeAppend
<1>3. Fragment(Code(sons), label, slot) /\ \A k \in DOMAIN sons : Fragment(sons[k].code, label, slot)
  BY DEF FrameExits
<1>4. \A k \in DOMAIN more : (k \in DOMAIN sons /\ more[k] = sons[k]) \/ more[k] = r
  BY <1>1
<1> HIDE DEF more, sons
<1>5. Fragment(Code(more), label, slot)
  BY <1>1, <1>2, <1>3, FragmentConcat
<1>6. \A k \in DOMAIN more : Fragment(more[k].code, label, slot)
  BY <1>3, <1>4
<1>7. With(fr, r).sons = more
  BY <1>1 DEF more, sons
<1> QED
  BY <1>5, <1>6, <1>7 DEF FrameExits


(* What a handler leaves: a return moves its value and jumps, no other     *)
(* handler jumps.                                                          *)
LEMMA ReturnedExits ==
  ASSUME Inv, NEW val, NEW old, NEW new, Returns(val, old, new), Func # NoFunc,
         FrameExits(Top, info[Func].exitLabel, info[Func].returnValue)
  PROVE  Fragment(old \o new, info[Func].exitLabel, info[Func].returnValue)
<1> DEFINE label == info[Func].exitLabel
           slot  == info[Func].returnValue
<1>1. /\ old \in Seq(Insts) /\ new \in Seq(Insts) /\ Gathered(old) /\ Added(val, new) /\ ~Pending
  BY DEF Returns
<1>2. Top.sons \in Seq(Results)
  BY <1>1, AtFinish
<1>3. Fragment(Code(Top.sons), label, slot) /\ \A k \in DOMAIN Top.sons : Fragment(Top.sons[k].code, label, slot)
  BY DEF FrameExits
<1>4. Fragment(old, label, slot)
  <2>1. CASE old = Code(Top.sons)
    BY <1>3, <2>1
  <2>2. CASE Len(Top.sons) = 2 /\ old = Top.sons[2].code \o Top.sons[1].code
    <3> DEFINE a == Top.sons[1].code
               b == Top.sons[2].code
    <3>1. a \in Seq(Insts) /\ b \in Seq(Insts) /\ old = b \o a
      BY <1>2, <2>2, CodeOfTwo
    <3>2. Fragment(a, label, slot) /\ Fragment(b, label, slot)
      BY <1>2, <1>3, <2>2
    <3> HIDE DEF a, b, label, slot
    <3> QED
      BY <3>1, <3>2, FragmentConcat
  <2> QED
    BY <1>1, <2>1, <2>2 DEF Gathered
<1>5. Fragment(new, label, slot)
  <2>1. ASSUME new = << >> PROVE Fragment(new, label, slot)
    BY <2>1, FragmentEmpty
  <2>2. ASSUME NEW op \in {"move", "add", "sub", "call"}, NEW target, new = << Inst(op, created + 1, Vals(Top.sons), target) >>
        PROVE  Fragment(new, label, slot)
    <3> DEFINE a == Inst(op, created + 1, Vals(Top.sons), target)
    <3>1. a.op = op /\ new = << a >>
      BY <2>2 DEF Inst
    <3> HIDE DEF a
    <3>2. \A i \in DOMAIN new : new[i].op = op
      BY <3>1
    <3> QED
      BY <2>2, <3>2 DEF Fragment
  <2>3. ASSUME new = ReturnCode(val) PROVE Fragment(new, label, slot)
    <3> DEFINE a == Inst("move", created + 1, << slot, val >>, Null)
               b == Inst("goto", created + 2, << >>, label)
    <3>1. new = << a, b >> /\ a.op = "move" /\ b.op = "goto" /\ a.args = << slot, val >> /\ b.target = label
      BY <2>3 DEF ReturnCode, Inst
    <3>2. a.args # << >> /\ a.args[1] = slot
      BY <3>1
    <3> HIDE DEF a, b, label, slot
    <3>3. DOMAIN new = {1, 2} /\ new[1] = a /\ new[2] = b
      BY <3>1
    <3>4. ASSUME NEW i \in DOMAIN new
          PROVE  /\ new[i].op \in {"goto", "move", "add", "sub", "call"}
                 /\ new[i].op = "goto" => /\ i > 1 /\ new[i].target = label
                                         /\ new[i - 1].op = "move" /\ new[i - 1].args # << >> /\ new[i - 1].args[1] = slot
      <4>1. CASE i = 1
        BY <3>1, <3>3, <4>1
      <4>2. CASE i = 2
        <5>1. i > 1 /\ i - 1 = 1
          BY <4>2
        <5> QED
          BY <3>1, <3>2, <3>3, <4>2, <5>1
      <4> QED
        BY <3>3, <4>1, <4>2
    <3> QED
      BY <3>4 DEF Fragment
  <2> QED
    BY <1>1, <2>1, <2>2, <2>3, Zenon DEF Added
<1> HIDE DEF label, slot
<1>6. Fragment(old \o new, label, slot)
  BY <1>1, <1>4, <1>5, FragmentConcat
<1> QED
  BY <1>6 DEF label, slot

(* What OneExit says of one function.                                      *)
ExitsOnce(code, f) ==
  LET last == Len(code)
      At(op) == {i \in DOMAIN code : code[i].op = op}
  IN  /\ At("entry") = {1} /\ At("label") = {last - 1} /\ At("exit") = {last}
      /\ \A i \in At("goto") :
           /\ code[i].target = InstVal(f, code[last - 1].id)
           /\ code[i - 1].op = "move" /\ code[i - 1].args[1] = code[last].args[1]

(* Code between the entry and the exit.                                    *)
LEMMA CompletedExits ==
  ASSUME NEW f, NEW slot, NEW entry \in Insts, NEW label \in Insts, NEW exit \in Insts, NEW body \in Seq(Insts),
         entry.op = "entry", label.op = "label", label.id = 2, exit.op = "exit", exit.args = << slot >>,
         Fragment(body, InstVal(f, 2), slot)
  PROVE  ExitsOnce((<< entry >> \o body) \o << label, exit >>, f)
<1> DEFINE m == Len(body)
           e == << entry >>
           x == << label, exit >>
           d == e \o body
           c == d \o x
<1>1. /\ e \in Seq(Insts) /\ Len(e) = 1 /\ DOMAIN e = {1} /\ e[1] = entry
      /\ x \in Seq(Insts) /\ Len(x) = 2 /\ DOMAIN x = {1, 2} /\ x[1] = label /\ x[2] = exit
      /\ DOMAIN body = 1..m /\ m \in Nat
  OBVIOUS
<1> HIDE DEF e, x, m
<1>2. /\ d \in Seq(Insts) /\ Len(d) = 1 + m
      /\ 1 \in DOMAIN d /\ d[1] = entry
      /\ \A j \in DOMAIN body : 1 + j \in DOMAIN d /\ d[1 + j] = body[j]
      /\ \A i \in DOMAIN d : i = 1 \/ \E j \in DOMAIN body : i = 1 + j
  <2>1. /\ d \in Seq(Insts) /\ Len(d) = Len(e) + Len(body)
        /\ \A i \in DOMAIN e : i \in DOMAIN d /\ d[i] = e[i]
        /\ \A j \in DOMAIN body : Len(e) + j \in DOMAIN d /\ d[Len(e) + j] = body[j]
        /\ \A i \in DOMAIN d : i \in DOMAIN e \/ \E j \in DOMAIN body : i = Len(e) + j
    <3>1. e \in Seq(Insts) /\ body \in Seq(Insts)
      BY <1>1
    <3> QED
      BY <3>1, ConcatElements
  <2> HIDE DEF d
  <2> QED
    BY <1>1, <2>1 DEF m
<1> HIDE DEF d
<1>3. /\ c \in Seq(Insts) /\ Len(c) = m + 3
      /\ \A i \in DOMAIN d : i \in DOMAIN c /\ c[i] = d[i]
      /\ m + 2 \in DOMAIN c /\ c[m + 2] = label /\ m + 3 \in DOMAIN c /\ c[m + 3] = exit
      /\ \A i \in DOMAIN c : i \in DOMAIN d \/ i = m + 2 \/ i = m + 3
  <2>1. /\ c \in Seq(Insts) /\ Len(c) = Len(d) + Len(x)
        /\ \A i \in DOMAIN d : i \in DOMAIN c /\ c[i] = d[i]
        /\ \A j \in DOMAIN x : Len(d) + j \in DOMAIN c /\ c[Len(d) + j] = x[j]
        /\ \A i \in DOMAIN c : i \in DOMAIN d \/ \E j \in DOMAIN x : i = Len(d) + j
    <3>1. d \in Seq(Insts) /\ x \in Seq(Insts)
      BY <1>1, <1>2
    <3> QED
      BY <3>1, ConcatElements
  <2> HIDE DEF c
  <2>2. Len(d) + 1 = m + 2 /\ Len(d) + 2 = m + 3 /\ Len(d) + Len(x) = m + 3
    BY <1>1, <1>2
  <2>3. \A j \in DOMAIN x : j = 1 \/ j = 2
    BY <1>1
  <2>4. /\ m + 2 \in DOMAIN c /\ c[m + 2] = label /\ m + 3 \in DOMAIN c /\ c[m + 3] = exit
    BY <1>1, <2>1, <2>2, Zenon
  <2>5. \A i \in DOMAIN c : i \in DOMAIN d \/ i = m + 2 \/ i = m + 3
    BY <2>1, <2>2, <2>3, Zenon
  <2> QED
    BY <2>1, <2>2, <2>4, <2>5
<1> HIDE DEF c
<1>4. /\ 1 \in DOMAIN c /\ c[1] = entry
      /\ \A j \in DOMAIN body : 1 + j \in DOMAIN c /\ c[1 + j] = body[j]
      /\ \A i \in DOMAIN c : i = 1 \/ (\E j \in DOMAIN body : i = 1 + j) \/ i = m + 2 \/ i = m + 3
  BY <1>2, <1>3
<1>5. \A j \in DOMAIN body : /\ body[j].op \in {"goto", "move", "add", "sub", "call"}
                             /\ body[j].op = "goto" => /\ j > 1 /\ body[j].target = InstVal(f, 2)
                                                       /\ body[j - 1].op = "move" /\ body[j - 1].args[1] = slot
  BY DEF Fragment
<1>6. ASSUME NEW i \in DOMAIN c
      PROVE  \/ i = 1 /\ c[i].op = "entry"
             \/ i = m + 2 /\ c[i].op = "label"
             \/ i = m + 3 /\ c[i].op = "exit"
             \/ i # 1 /\ i # m + 2 /\ i # m + 3 /\ c[i].op \in {"goto", "move", "add", "sub", "call"}
  <2>1. ASSUME NEW j \in DOMAIN body, i = 1 + j
        PROVE  i # 1 /\ i # m + 2 /\ i # m + 3 /\ c[i].op \in {"goto", "move", "add", "sub", "call"}
    <3>1. i # 1 /\ i # m + 2 /\ i # m + 3
      BY <1>1, <2>1
    <3> QED
      BY <1>4, <1>5, <2>1, <3>1
  <2>2. i = 1 \/ (\E j \in DOMAIN body : i = 1 + j) \/ i = m + 2 \/ i = m + 3
    BY <1>4
  <2>3. c[1].op = "entry" /\ c[m + 2].op = "label" /\ c[m + 3].op = "exit"
    BY <1>3, <1>4
  <2> QED
    BY <2>1, <2>2, <2>3, Zenon
<1>7. {i \in DOMAIN c : c[i].op = "entry"} = {1} /\ {i \in DOMAIN c : c[i].op = "label"} = {m + 2}
  <2>1. c[1].op = "entry" /\ c[m + 2].op = "label" /\ 1 \in DOMAIN c /\ m + 2 \in DOMAIN c
    BY <1>3, <1>4
  <2>2. \A i \in DOMAIN c : c[i].op = "entry" => i = 1
    BY <1>6
  <2>3. \A i \in DOMAIN c : c[i].op = "label" => i = m + 2
    BY <1>6
  <2> QED
    BY <2>1, <2>2, <2>3, Zenon
<1>8. {i \in DOMAIN c : c[i].op = "exit"} = {m + 3}
  BY <1>3, <1>6
<1>9. Len(c) = m + 3 /\ Len(c) - 1 = m + 2
  BY <1>1, <1>3
<1>10. ASSUME NEW i \in DOMAIN c, c[i].op = "goto"
       PROVE  /\ c[i].target = InstVal(f, c[m + 2].id)
              /\ c[i - 1].op = "move" /\ c[i - 1].args[1] = c[m + 3].args[1]
  <2>1. PICK j \in DOMAIN body : i = 1 + j
    BY <1>3, <1>4, <1>6, <1>10
  <2>2. j > 1 /\ body[j].target = InstVal(f, 2) /\ body[j - 1].op = "move" /\ body[j - 1].args[1] = slot /\ c[i] = body[j]
    BY <1>4, <1>5, <1>10, <2>1
  <2>3. j - 1 \in DOMAIN body /\ i - 1 = 1 + (j - 1)
    BY <1>1, <2>1, <2>2
  <2>4. c[i - 1] = body[j - 1]
    BY <1>4, <2>3
  <2>5. c[m + 3].args[1] = slot /\ c[m + 2].id = 2
    BY <1>3
  <2> QED
    BY <2>2, <2>4, <2>5
<1> DEFINE last == Len(c)
<1>11. /\ {i \in DOMAIN c : c[i].op = "entry"} = {1} /\ {i \in DOMAIN c : c[i].op = "label"} = {last - 1}
       /\ {i \in DOMAIN c : c[i].op = "exit"} = {last}
       /\ \A i \in {k \in DOMAIN c : c[k].op = "goto"} :
            /\ c[i].target = InstVal(f, c[last - 1].id)
            /\ c[i - 1].op = "move" /\ c[i - 1].args[1] = c[last].args[1]
  BY <1>7, <1>8, <1>9, <1>10
<1>12. ExitsOnce(c, f)
  BY <1>11 DEF ExitsOnce
<1> QED
  BY <1>12 DEF c, d, e, x


(* The exit label and the return slot of the current function.             *)
FramesExit(fs, attrs) == \A i \in DOMAIN fs : FrameExits(fs[i], attrs.exitLabel, attrs.returnValue)

(* It holds at the start.                                                  *)
LEMMA ExitInit == Init => ExitInv
<1> SUFFICES ASSUME Init PROVE ExitInv
  OBVIOUS
<1>1. Func = NoFunc /\ DOMAIN ircode = {}
  BY NewModuleOK DEF Init, Func
<1> QED
  BY <1>1 DEF ExitInv, OneExit, Compiled

(* Every step keeps it.                                                    *)
LEMMA ExitStep == ASSUME Inv, ExitInv, [Next]_vars PROVE ExitInv'
<1>1. /\ \A f \in Compiled : ExitsOnce(ircode[f], f)
      /\ Func # NoFunc => FramesExit(frames, info[Func])
  BY DEF ExitInv, OneExit, ExitsOnce, FramesExit
<1>2. FramesOK(frames) /\ frames \in Seq(Frames) /\ frames # << >> /\ \A i \in DOMAIN frames : FrameOK(frames[i])
  BY DEF Inv, FramesOK
<1>3. ASSUME \A f \in Compiled' : ExitsOnce(ircode'[f], f), Func' # NoFunc => FramesExit(frames', info'[Func'])
      PROVE  ExitInv'
  <2>1. OneExit'
    BY <1>3 DEF OneExit, ExitsOnce
  <2>2. (Func # NoFunc => FramesExit(frames, info[Func]))'
    BY <1>3
  <2> QED
    BY <2>1, <2>2 DEF ExitInv, FramesExit
<1>4. ASSUME Within, Func # NoFunc => FramesExit(frames', info'[Func]) PROVE ExitInv'
  <2>1. Compiled' = Compiled /\ Func' = Func /\ ircode' = ircode
    BY <1>4, CompiledAfter
  <2> QED
    BY <1>1, <1>3, <1>4, <2>1
<1>5. CASE Stays \/ UNCHANGED vars
  <2>1. UNCHANGED << program, module, frames, ircode, info, created >>
    BY <1>5 DEF Stays, vars
  <2>2. Compiled' = Compiled /\ Func' = Func
    BY <2>1 DEF Compiled, Func
  <2> QED
    BY <1>1, <1>3, <2>1, <2>2
<1>6. CASE Begins
  <2>1. Compiled' = Compiled /\ \A f \in Compiled : ircode'[f] = ircode[f]
    BY <1>6, CompiledAfter
  <2>2. Len(frames) = 1 /\ Pending /\ frames' = Append(frames, Frame(Current))
    BY <1>6 DEF Begins
  <2>3. Current \in Nodes
    BY <2>2, AtVisit
  <2>4. ASSUME NEW i \in DOMAIN frames' PROVE frames'[i] = frames[1] \/ frames'[i] = Frame(Current)
    <3> DEFINE fr == Frame(Current)
    <3>1. fr \in Frames
      BY <2>3, NewFrame
    <3>2. frames' = Append(frames, fr) /\ Len(frames) = 1
      BY <2>2
    <3> HIDE DEF fr
    <3>3. frames'[i] = frames[1] \/ frames'[i] = fr
      BY <1>2, <2>4, <3>1, <3>2, TwoFrames, Zenon
    <3> QED
      BY <3>3 DEF fr
  <2>5. FrameOK(frames[1]) /\ frames[1].node.op = "unit"
    BY <1>2, FramesFacts
  <2>6. FramesExit(frames', info'[Func'])
    <3> DEFINE attrs == info'[Func']
    <3> HIDE DEF attrs
    <3>1. /\ FrameExits(frames[1], attrs.exitLabel, attrs.returnValue)
          /\ FrameExits(Frame(Current), attrs.exitLabel, attrs.returnValue)
      BY <2>3, <2>5, FragmentEmpty
    <3>2. FramesExit(frames', attrs)
      BY <2>4, <3>1, Zenon DEF FramesExit
    <3> QED
      BY <3>2 DEF attrs
  <2> QED
    BY <1>1, <1>3, <2>1, <2>6
<1>7. CASE Ends
  <2>1. /\ Compiled' = Compiled \cup {Func} /\ Func' = NoFunc /\ Func # NoFunc
        /\ ircode'[Func] = (ircode[Func] \o Code(Top.sons)) \o Exit
        /\ \A f \in Compiled : ircode'[f] = ircode[f]
    BY <1>7, CompiledAfter DEF Ends
  <2> DEFINE slot  == info[Func].returnValue
             entry == Inst("entry", 1, << >>, Null)
             label == Inst("label", 2, << >>, Null)
             exit  == Inst("exit", created + 1, << slot >>, Null)
             body  == Code(Top.sons)
  <2>2. ircode[Func] = << entry >> /\ info[Func].exitLabel = InstVal(Func, 2) /\ Exit = << label, exit >>
    BY <2>1 DEF Inv, Opened, Exit
  <2>3. Fragment(body, InstVal(Func, 2), slot)
    <3>1. FrameExits(Top, info[Func].exitLabel, slot)
      <4>1. Len(frames) \in DOMAIN frames /\ Top = frames[Len(frames)]
        BY <1>2, FramesFacts DEF Top
      <4> QED
        BY <1>1, <2>1, <4>1 DEF FramesExit
    <3> QED
      BY <2>2, <3>1 DEF FrameExits
  <2>4. body \in Seq(Insts)
    <3>1. ~Pending
      BY <1>7 DEF Ends
    <3>2. Top.sons \in Seq(Results) /\ << >> \in Seq(Insts)
      BY <3>1, AtFinish
    <3>3. Result(Null, << >>) \in Results
      BY <3>2, NullIsValue, ResultType
    <3> QED
      BY <3>2, <3>3, CodeAppend
  <2>5. /\ entry.op = "entry" /\ label.op = "label" /\ label.id = 2 /\ exit.op = "exit" /\ exit.args = << slot >>
    BY DEF Inst
  <2>6. entry \in Insts /\ label \in Insts /\ exit \in Insts
    <3>1. slot \in IRValues /\ created \in Nat
      BY <2>1, Inside DEF Inv, FunctionsOK, Attrs
    <3> HIDE DEF slot
    <3>2. << >> \in Seq(IRValues) /\ << slot >> \in Seq(IRValues) /\ 1 \in Nat /\ 2 \in Nat /\ created + 1 \in Nat
      BY <3>1
    <3> QED
      BY <3>2, NullIsValue, InstType DEF Ops
  <2>7. ircode'[Func] = (<< entry >> \o body) \o << label, exit >>
    BY <2>1, <2>2
  <2> HIDE DEF slot, entry, label, exit, body
  <2>8. ExitsOnce(ircode'[Func], Func)
    BY <2>3, <2>4, <2>5, <2>6, <2>7, CompletedExits
  <2> QED
    BY <1>1, <1>3, <2>1, <2>8
<1>8. ASSUME NEW t, Enters(t) PROVE ExitInv'
  <2>1. /\ t \in Nodes /\ frames' = Append(frames, Frame(t)) /\ Within
        /\ info' = IF t.op = "call" THEN [info EXCEPT ![Func] = CountCall(@, Len(t.sons))] ELSE info
    BY <1>8 DEF Enters
  <2>2. ASSUME Func # NoFunc PROVE FramesExit(frames', info'[Func])
    <3> DEFINE n == Len(t.sons)
    <3>1. Func \in DOMAIN info /\ info[Func] \in Attrs
      BY <2>2, Inside DEF Inv, FunctionsOK
    <3>2. info'[Func] = CountCall(info[Func], n) \/ info'[Func] = info[Func]
      BY <2>1, <3>1
    <3> HIDE DEF n
    <3>3. info'[Func].exitLabel = info[Func].exitLabel /\ info'[Func].returnValue = info[Func].returnValue
      BY <3>1, <3>2 DEF CountCall, Attrs
    <3>4. ASSUME NEW i \in DOMAIN frames' PROVE (i \in DOMAIN frames /\ frames'[i] = frames[i]) \/ frames'[i] = Frame(t)
      BY <1>2, <2>1
    <3>5. FrameExits(Frame(t), info[Func].exitLabel, info[Func].returnValue)
      BY <2>1, FragmentEmpty
    <3>6. \A i \in DOMAIN frames : FrameExits(frames[i], info[Func].exitLabel, info[Func].returnValue)
      BY <1>1, <2>2 DEF FramesExit
    <3>7. ASSUME NEW i \in DOMAIN frames' PROVE FrameExits(frames'[i], info'[Func].exitLabel, info'[Func].returnValue)
      BY <3>3, <3>4, <3>5, <3>6
    <3> QED
      BY <3>7 DEF FramesExit
  <2> QED
    BY <1>4, <2>1, <2>2
<1>9. ASSUME NEW val, Reads(val) PROVE ExitInv'
  <2> DEFINE r == Result(val, << >>)
  <2>1. Within /\ info' = info /\ frames' = LeftWith(frames, r) /\ val \in IRValues
    BY <1>9 DEF Reads
  <2>2. r \in Results /\ r.code = << >>
    <3>1. << >> \in Seq(Insts)
      OBVIOUS
    <3> QED
      BY <2>1, <3>1, ResultType
  <2> HIDE DEF r
  <2>3. ASSUME Func # NoFunc PROVE FramesExit(frames', info[Func])
    <3> DEFINE label == info[Func].exitLabel
               slot  == info[Func].returnValue
    <3>1. \A i \in DOMAIN frames : FrameExits(frames[i], label, slot)
      BY <1>1, <2>3 DEF FramesExit
    <3>2. Last(frames) = frames[Len(frames)] /\ Len(frames) \in DOMAIN frames /\ Last(frames) \in Frames
      BY <1>2, FramesFacts
    <3> HIDE DEF label, slot
    <3>3. FrameExits(With(Last(frames), r), label, slot)
      BY <2>2, <3>1, <3>2, FragmentEmpty, ExitsWith
    <3>4. \A i \in DOMAIN frames' : (\E j \in DOMAIN frames : frames'[i] = frames[j]) \/ frames'[i] = With(Last(frames), r)
      BY <1>2, <2>1, <2>2, FramesLeft
    <3>5. ASSUME NEW i \in DOMAIN frames' PROVE FrameExits(frames'[i], label, slot)
      BY <3>1, <3>3, <3>4
    <3> QED
      BY <3>5 DEF FramesExit, label, slot
  <2> QED
    BY <1>4, <2>1, <2>3
<1>10. ASSUME NEW val, NEW old, NEW new, Returns(val, old, new) PROVE ExitInv'
  <2> DEFINE r == Result(val, old \o new)
             n == Len(frames) - 1
  <2>1. Within /\ info' = info /\ frames' = PoppedWith(frames, r) /\ Len(frames) >= 2
    BY <1>10 DEF Returns
  <2>2. r \in Results /\ r.code = old \o new
    BY <1>10, ReturnedType
  <2> HIDE DEF r
  <2>3. ASSUME Func # NoFunc PROVE FramesExit(frames', info[Func])
    <3> DEFINE label == info[Func].exitLabel
               slot  == info[Func].returnValue
    <3>1. \A i \in DOMAIN frames : FrameExits(frames[i], label, slot)
      BY <1>1, <2>3 DEF FramesExit
    <3>2. Top = frames[Len(frames)] /\ Len(frames) \in DOMAIN frames
      BY <1>2, FramesFacts DEF Top
    <3>3. FrameExits(Top, label, slot)
      BY <3>1, <3>2
    <3>4. Fragment(r.code, label, slot)
      BY <1>10, <2>2, <2>3, <3>3, ReturnedExits
    <3> HIDE DEF label, slot
    <3>5. /\ n \in DOMAIN frames
          /\ \A i \in DOMAIN frames' : (\E j \in DOMAIN frames : frames'[i] = frames[j]) \/ frames'[i] = With(frames[n], r)
      BY <1>2, <2>1, <2>2, FramesLeft
    <3> HIDE DEF n
    <3>6. frames[n] \in Frames
      BY <1>2, <3>5
    <3>7. FrameExits(With(frames[n], r), label, slot)
      BY <2>2, <3>1, <3>4, <3>5, <3>6, ExitsWith
    <3>8. ASSUME NEW i \in DOMAIN frames' PROVE FrameExits(frames'[i], label, slot)
      BY <3>1, <3>5, <3>7
    <3> QED
      BY <3>8 DEF FramesExit, label, slot
  <2> QED
    BY <1>4, <2>1, <2>3
<1> QED
  BY <1>5, <1>6, <1>7, <1>8, <1>9, <1>10, EveryKind DEF Kinds

(* Every function has one entry and one exit, and every return stores to   *)
(* the slot the exit reads before it jumps to the exit's label             *)
(* (ir_function_define, ir_return).                                        *)
THEOREM FunctionsExitOnce == Spec => []OneExit
<1>1. Inv /\ ExitInv /\ [Next]_vars => ExitInv'
  BY ExitStep
<1>2. ExitInv => OneExit
  BY DEF ExitInv
<1> QED
  BY <1>1, <1>2, ExitInit, Nesting, PTL DEF Spec


-----------------------------------------------------------------------------
(* An operand is there when it is used.                                    *)

(* What was usable stays so when the table grows, and when there is more   *)
(* code before it or after it.                                             *)
LEMMA UsableGrows ==
  ASSUME NEW st, NEW su, Grows(st, su), NEW f, NEW c
  PROVE  /\ \A v, i : Usable(v, st, f, c, i) => Usable(v, su, f, c, i)
         /\ Closed(c, st, f) => Closed(c, su, f)
<1>1. ASSUME NEW v, NEW i, Usable(v, st, f, c, i) PROVE Usable(v, su, f, c, i)
  <2>1. Held(st, f, v) => Held(su, f, v)
    BY HeldGrows
  <2> QED
    BY <1>1, <2>1 DEF Usable
<1> QED
  BY <1>1 DEF Closed

(* Whether v can be used after the code c.                                 *)
UsableAfter(v, st, f, c) == Usable(v, st, f, c, Len(c) + 1)

(* After more code, whether that comes before or after.                    *)
LEMMA UsableMore ==
  ASSUME NEW st, NEW f, NEW v, NEW a \in Seq(Insts), NEW b \in Seq(Insts)
  PROVE  /\ UsableAfter(v, st, f, a) => UsableAfter(v, st, f, a \o b)
         /\ UsableAfter(v, st, f, b) => UsableAfter(v, st, f, a \o b)
         /\ UsableAfter(v, st, f, a \o b) => UsableAfter(v, st, f, a) \/ UsableAfter(v, st, f, b)
<1> DEFINE c == a \o b
           m == Len(a)
           n == Len(b)
           Yields(d) == \E j \in DOMAIN d : d[j].id = v.id /\ d[j].op \in Computes
<1>1. /\ c \in Seq(Insts) /\ Len(c) = m + n /\ m \in Nat /\ n \in Nat
      /\ \A i \in DOMAIN a : i \in DOMAIN c /\ c[i] = a[i]
      /\ \A j \in DOMAIN b : m + j \in DOMAIN c /\ c[m + j] = b[j]
      /\ \A i \in DOMAIN c : i \in DOMAIN a \/ \E j \in DOMAIN b : i = m + j
  BY ConcatElements
<1>2. ASSUME NEW d \in Seq(Insts)
      PROVE  UsableAfter(v, st, f, d) <=> (v.kind = "inst" /\ v.func = f /\ Yields(d)) \/ Held(st, f, v)
  <2>1. 1..(Len(d) + 1) - 1 = DOMAIN d
    OBVIOUS
  <2> QED
    BY <2>1 DEF UsableAfter, Usable, Computed
<1> HIDE DEF c, m, n
<1>3. Yields(a) => Yields(c)
  BY <1>1
<1>4. Yields(b) => Yields(c)
  BY <1>1
<1>5. ASSUME Yields(c) PROVE Yields(a) \/ Yields(b)
  <2>1. PICK i \in DOMAIN c : c[i].id = v.id /\ c[i].op \in Computes
    BY <1>5
  <2>2. CASE i \in DOMAIN a
    BY <1>1, <2>1, <2>2
  <2>3. ASSUME NEW j \in DOMAIN b, i = m + j PROVE Yields(b)
    BY <1>1, <2>1, <2>3
  <2> QED
    BY <1>1, <2>2, <2>3
<1> HIDE DEF Yields
<1>6. /\ UsableAfter(v, st, f, a) => UsableAfter(v, st, f, c)
      /\ UsableAfter(v, st, f, b) => UsableAfter(v, st, f, c)
      /\ UsableAfter(v, st, f, c) => UsableAfter(v, st, f, a) \/ UsableAfter(v, st, f, b)
  BY <1>1, <1>2, <1>3, <1>4, <1>5
<1> QED
  BY <1>6 DEF c

(* At a place in two pieces of code.                                       *)
LEMMA UsableWithin ==
  ASSUME NEW st, NEW f, NEW v, NEW a \in Seq(Insts), NEW b \in Seq(Insts)
  PROVE  /\ \A i \in DOMAIN a : Usable(v, st, f, a, i) => Usable(v, st, f, a \o b, i)
         /\ \A j \in DOMAIN b : Usable(v, st, f, b, j) => Usable(v, st, f, a \o b, Len(a) + j)
         /\ \A j \in DOMAIN b : UsableAfter(v, st, f, a) => Usable(v, st, f, a \o b, Len(a) + j)
<1> DEFINE c == a \o b
           m == Len(a)
<1>1. /\ m \in Nat
      /\ \A i \in DOMAIN a : i \in DOMAIN c /\ c[i] = a[i]
      /\ \A j \in DOMAIN b : m + j \in DOMAIN c /\ c[m + j] = b[j]
  BY ConcatElements
<1>2. DOMAIN a = 1..m /\ DOMAIN b = 1..Len(b) /\ Len(b) \in Nat
  OBVIOUS
<1> HIDE DEF c, m
<1>3. ASSUME NEW i \in DOMAIN a, Usable(v, st, f, a, i) PROVE Usable(v, st, f, c, i)
  <2>1. CASE Held(st, f, v)
    BY <2>1 DEF Usable
  <2>2. ASSUME NEW k \in 1..i - 1, a[k].id = v.id, a[k].op \in Computes, v.kind = "inst", v.func = f
        PROVE  Usable(v, st, f, c, i)
    <3>1. c[k] = a[k]
      BY <1>1, <1>2, <2>2
    <3> QED
      BY <2>2, <3>1 DEF Usable, Computed
  <2> QED
    BY <1>3, <2>1, <2>2 DEF Usable, Computed
<1>4. ASSUME NEW j \in DOMAIN b, Usable(v, st, f, b, j) PROVE Usable(v, st, f, c, m + j)
  <2>1. CASE Held(st, f, v)
    BY <2>1 DEF Usable
  <2>2. ASSUME NEW k \in 1..j - 1, b[k].id = v.id, b[k].op \in Computes, v.kind = "inst", v.func = f
        PROVE  Usable(v, st, f, c, m + j)
    <3>1. k \in DOMAIN b /\ m + k \in 1..(m + j) - 1
      BY <1>1, <1>2, <2>2
    <3>2. c[m + k] = b[k]
      BY <1>1, <3>1
    <3> QED
      BY <2>2, <3>1, <3>2 DEF Usable, Computed
  <2> QED
    BY <1>4, <2>1, <2>2 DEF Usable, Computed
<1>5. ASSUME NEW j \in DOMAIN b, UsableAfter(v, st, f, a) PROVE Usable(v, st, f, c, m + j)
  <2>1. CASE Held(st, f, v)
    BY <2>1 DEF Usable
  <2>2. ASSUME NEW k \in 1..(m + 1) - 1, a[k].id = v.id, a[k].op \in Computes, v.kind = "inst", v.func = f
        PROVE  Usable(v, st, f, c, m + j)
    <3>1. c[k] = a[k] /\ k \in 1..(m + j) - 1
      BY <1>1, <1>2, <2>2
    <3> QED
      BY <2>2, <3>1 DEF Usable, Computed
  <2> QED
    BY <1>5, <2>1, <2>2 DEF UsableAfter, Usable, Computed, m
<1> QED
  BY <1>3, <1>4, <1>5 DEF c, m

(* Two pieces of code that use what is there, or what the first computes.  *)
LEMMA ClosedConcat ==
  ASSUME NEW st, NEW f, NEW a \in Seq(Insts), NEW b \in Seq(Insts), Closed(a, st, f),
         \A j \in DOMAIN b : \A k \in DOMAIN b[j].args :
           Usable(b[j].args[k], st, f, b, j) \/ UsableAfter(b[j].args[k], st, f, a)
  PROVE  Closed(a \o b, st, f)
<1> DEFINE c == a \o b
           m == Len(a)
<1>1. /\ m \in Nat
      /\ \A i \in DOMAIN a : i \in DOMAIN c /\ c[i] = a[i]
      /\ \A j \in DOMAIN b : m + j \in DOMAIN c /\ c[m + j] = b[j]
      /\ \A i \in DOMAIN c : i \in DOMAIN a \/ \E j \in DOMAIN b : i = m + j
  BY ConcatElements
<1>2. ASSUME NEW v
      PROVE  /\ \A i \in DOMAIN a : Usable(v, st, f, a, i) => Usable(v, st, f, c, i)
             /\ \A j \in DOMAIN b : Usable(v, st, f, b, j) => Usable(v, st, f, c, m + j)
             /\ \A j \in DOMAIN b : UsableAfter(v, st, f, a) => Usable(v, st, f, c, m + j)
  BY UsableWithin
<1> HIDE DEF c, m
<1>3. ASSUME NEW i \in DOMAIN a, NEW k \in DOMAIN c[i].args PROVE Usable(c[i].args[k], st, f, c, i)
  <2>1. c[i] = a[i]
    BY <1>1
  <2>2. Usable(a[i].args[k], st, f, a, i)
    BY <1>3, <2>1 DEF Closed
  <2> QED
    BY <1>2, <2>1, <2>2
<1>4. ASSUME NEW j \in DOMAIN b, NEW k \in DOMAIN c[m + j].args PROVE Usable(c[m + j].args[k], st, f, c, m + j)
  <2>1. c[m + j] = b[j]
    BY <1>1
  <2>2. Usable(b[j].args[k], st, f, b, j) \/ UsableAfter(b[j].args[k], st, f, a)
    BY <1>4, <2>1
  <2> QED
    BY <1>2, <2>1, <2>2
<1>5. Closed(c, st, f)
  BY <1>1, <1>3, <1>4 DEF Closed
<1> QED
  BY <1>5 DEF c

(* No code uses nothing, and the frames outside of functions, or of a      *)
(* handler just entered, have none.                                        *)
LEMMA OperandsEmpty ==
  ASSUME NEW st, NEW f
  PROVE  /\ Closed(<< >>, st, f)
         /\ \A fr : FrameOK(fr) /\ fr.node.op \in {"unit", "decl"} => FrameOperands(fr, st, f)
         /\ \A t \in Nodes : FrameOperands(Frame(t), st, f)
<1>1. Closed(<< >>, st, f)
  BY DEF Closed
<1>2. ASSUME NEW fr, FrameOK(fr), fr.node.op \in {"unit", "decl"} PROVE FrameOperands(fr, st, f)
  <2>1. Code(fr.sons) = << >> /\ \A k \in DOMAIN fr.sons : fr.sons[k] = Result(Null, << >>)
    BY <1>2 DEF FrameOK, Quiet
  <2>2. \A k \in DOMAIN fr.sons : fr.sons[k].code = << >> /\ fr.sons[k].val = Null
    BY <2>1 DEF Result
  <2> QED
    BY <1>1, <2>1, <2>2 DEF FrameOperands
<1>3. ASSUME NEW t \in Nodes PROVE FrameOperands(Frame(t), st, f)
  <2>1. Frame(t).sons = << >>
    BY DEF Frame
  <2> QED
    BY <1>1, <2>1, CodeEmpty DEF FrameOperands
<1> QED
  BY <1>1, <1>2, <1>3

(* The same frames on a table that has grown.                              *)
LEMMA OperandsGrow ==
  ASSUME NEW st, NEW su, Grows(st, su), NEW f, NEW fr, FrameOperands(fr, st, f)
  PROVE  FrameOperands(fr, su, f)
<1>1. Closed(Code(fr.sons), su, f) /\ \A k \in DOMAIN fr.sons : Closed(fr.sons[k].code, su, f)
  BY UsableGrows DEF FrameOperands
<1>2. ASSUME NEW k \in DOMAIN fr.sons, fr.node.sons[k].op \in Expressions, fr.sons[k].val # Null
      PROVE  Usable(fr.sons[k].val, su, f, Code(fr.sons), Len(Code(fr.sons)) + 1)
  BY <1>2, UsableGrows DEF FrameOperands
<1> QED
  BY <1>1, <1>2 DEF FrameOperands


(* A frame with one result more: code that is closed, and for an operand a *)
(* value that can be used after it.                                        *)
LEMMA OperandsWith ==
  ASSUME NEW st, NEW f, NEW fr \in Frames, NEW r \in Results, FrameOperands(fr, st, f), Closed(r.code, st, f),
         fr.node.sons[Len(fr.sons) + 1].op \in Expressions => r.val = Null \/ UsableAfter(r.val, st, f, r.code)
  PROVE  FrameOperands(With(fr, r), st, f)
<1>1. /\ fr.sons \in Seq(Results) /\ With(fr, r).sons = Append(fr.sons, r) /\ r.code \in Seq(Insts)
      /\ With(fr, r).node = fr.node
  BY WithIs DEF Frames, Results
<1> DEFINE sons == fr.sons
           more == Append(sons, r)
           a    == Code(sons)
           n    == Len(sons)
<1>2. Code(more) = a \o r.code /\ a \in Seq(Insts)
  BY <1>1, CodeAppend
<1>3. /\ Closed(a, st, f) /\ \A k \in DOMAIN sons : Closed(sons[k].code, st, f)
      /\ \A k \in DOMAIN sons : fr.node.sons[k].op \in Expressions =>
           sons[k].val = Null \/ UsableAfter(sons[k].val, st, f, a)
  BY DEF FrameOperands, UsableAfter
<1>4. \A k \in DOMAIN more : (k \in DOMAIN sons /\ more[k] = sons[k]) \/ (k = n + 1 /\ more[k] = r)
  BY <1>1
<1>5. fr.node.sons[n + 1].op \in Expressions => r.val = Null \/ UsableAfter(r.val, st, f, r.code)
  OBVIOUS
<1> HIDE DEF more, sons, a, n
<1>6. Closed(Code(more), st, f)
  <2>1. \A j \in DOMAIN r.code : \A k \in DOMAIN r.code[j].args : Usable(r.code[j].args[k], st, f, r.code, j)
    BY DEF Closed
  <2>2. Closed(a \o r.code, st, f)
    BY <1>1, <1>2, <1>3, <2>1, ClosedConcat
  <2> QED
    BY <1>2, <2>2
<1>7. \A k \in DOMAIN more : Closed(more[k].code, st, f)
  BY <1>3, <1>4
<1>8. ASSUME NEW k \in DOMAIN more, fr.node.sons[k].op \in Expressions, more[k].val # Null
      PROVE  UsableAfter(more[k].val, st, f, Code(more))
  <2>1. UsableAfter(more[k].val, st, f, a) \/ UsableAfter(more[k].val, st, f, r.code)
    BY <1>3, <1>4, <1>5, <1>8
  <2> QED
    BY <1>1, <1>2, <2>1, UsableMore
<1>9. With(fr, r).sons = more
  BY <1>1 DEF more, sons
<1>10. \A k \in DOMAIN more : fr.node.sons[k].op \in Expressions => more[k].val = Null \/ UsableAfter(more[k].val, st, f, Code(more))
  BY <1>8
<1> QED
  BY <1>1, <1>6, <1>7, <1>9, <1>10 DEF FrameOperands, UsableAfter

(* What a handler leaves.                                                  *)
LEMMA ReturnedOperands ==
  ASSUME Inv, NEW val, NEW old, NEW new, Returns(val, old, new), Func # NoFunc, FrameOperands(Top, module, Func)
  PROVE  /\ Closed(old \o new, module, Func)
         /\ Top.node.op \in Expressions => UsableAfter(val, module, Func, old \o new)
<1> DEFINE sons == Top.sons
           all  == Code(sons)
<1>1. /\ old \in Seq(Insts) /\ new \in Seq(Insts) /\ Gathered(old) /\ Added(val, new) /\ ~Pending /\ created \in Nat
  BY DEF Returns, Inv
<1>2. sons \in Seq(Results) /\ Top.node \in Nodes /\ Len(sons) = Len(Top.node.sons) /\ Top.node.sons \in Seq(Nodes)
  BY <1>1, AtFinish, NodeShape
<1>3. /\ Closed(all, module, Func) /\ \A k \in DOMAIN sons : Closed(sons[k].code, module, Func)
      /\ \A k \in DOMAIN sons : Top.node.sons[k].op \in Expressions =>
           sons[k].val = Null \/ UsableAfter(sons[k].val, module, Func, all)
  BY DEF FrameOperands, UsableAfter
<1>4. Closed(old, module, Func) /\ \A v : UsableAfter(v, module, Func, all) => UsableAfter(v, module, Func, old)
  <2>1. CASE old = all
    BY <1>3, <2>1
  <2>2. CASE /\ Len(sons) = 2 /\ old = sons[2].code \o sons[1].code
             /\ all = sons[1].code \o sons[2].code
    <3> DEFINE a == sons[1].code
               b == sons[2].code
    <3>1. a \in Seq(Insts) /\ b \in Seq(Insts) /\ old = b \o a /\ all = a \o b
      BY <1>2, <2>2, CodeOfTwo
    <3>2. Closed(a, module, Func) /\ Closed(b, module, Func)
      <4>1. sons \in Seq(Results) /\ Len(sons) = 2
        BY <1>2, <2>2
      <4>2. \A k \in DOMAIN sons : Closed(sons[k].code, module, Func)
        BY <1>3
      <4> HIDE DEF sons, all
      <4>3. 1 \in DOMAIN sons /\ 2 \in DOMAIN sons
        BY <4>1
      <4> QED
        BY <4>2, <4>3
    <3> HIDE DEF a, b, all
    <3>3. \A j \in DOMAIN a : \A k \in DOMAIN a[j].args : Usable(a[j].args[k], module, Func, a, j)
      BY <3>2 DEF Closed
    <3>4. Closed(b \o a, module, Func)
      BY <3>1, <3>2, <3>3, ClosedConcat
    <3>5. ASSUME NEW v, UsableAfter(v, module, Func, a \o b) PROVE UsableAfter(v, module, Func, b \o a)
      BY <3>1, <3>5, UsableMore
    <3> QED
      BY <3>1, <3>4, <3>5
  <2> QED
    BY <1>1, <2>1, <2>2 DEF Gathered
<1>5. ASSUME Top.node.op \in {"assign", "return", "add", "sub", "call"}, ~NullAmong(Vals(sons))
      PROVE  /\ \A k \in DOMAIN sons : UsableAfter(sons[k].val, module, Func, old)
             /\ DOMAIN Vals(sons) = DOMAIN sons
             /\ \A k \in DOMAIN sons : Vals(sons)[k] = sons[k].val
  <2>1. DOMAIN Vals(sons) = DOMAIN sons /\ \A k \in DOMAIN sons : Vals(sons)[k] = sons[k].val
    BY <1>2, ValsType DEF Vals
  <2>2. ASSUME NEW k \in DOMAIN sons PROVE UsableAfter(sons[k].val, module, Func, old)
    <3>1. sons[k].val # Null
      BY <1>5, <2>1 DEF NullAmong
    <3>2. k \in DOMAIN Top.node.sons
      BY <1>2
    <3>3. Top.node.sons[k].op \in Expressions
      BY <1>2, <1>5, <3>2, NodeShape
    <3> QED
      BY <1>3, <1>4, <3>1, <3>3
  <2> QED
    BY <2>1, <2>2
<1> HIDE DEF all
<1>6. ASSUME \A j \in DOMAIN new : \A k \in DOMAIN new[j].args : UsableAfter(new[j].args[k], module, Func, old)
      PROVE  Closed(old \o new, module, Func)
  BY <1>1, <1>4, <1>6, ClosedConcat
<1>7. ASSUME Top.node.op \in {"block", "decl"}, new = << >>
      PROVE  Closed(old \o new, module, Func) /\ Top.node.op \notin Expressions
  <2>1. Closed(old \o new, module, Func)
    BY <1>6, <1>7
  <2> QED
    BY <1>7, <2>1 DEF Expressions
<1>8. ASSUME Top.node.op \in {"assign", "add", "sub", "call"}, ~NullAmong(Vals(sons)), val = InstVal(Func, created + 1),
             NEW op, NEW target, op = IF Top.node.op = "assign" THEN "move" ELSE Top.node.op,
             new = << Inst(op, created + 1, Vals(sons), target) >>
      PROVE  /\ Closed(old \o new, module, Func)
             /\ Top.node.op \in Expressions => UsableAfter(val, module, Func, old \o new)
  <2> DEFINE vals == Vals(sons)
             a    == Inst(op, created + 1, vals, target)
  <2>1. a.args = vals /\ a.op = op /\ a.id = created + 1
    BY DEF Inst
  <2>2. new = << a >>
    BY <1>8
  <2>3. DOMAIN vals = DOMAIN sons /\ \A k \in DOMAIN sons : UsableAfter(vals[k], module, Func, old)
    BY <1>5, <1>8
  <2> HIDE DEF a, vals
  <2>4. DOMAIN new = {1} /\ new[1] = a /\ Len(new) = 1
    BY <2>2
  <2>5. \A j \in DOMAIN new : \A k \in DOMAIN new[j].args : UsableAfter(new[j].args[k], module, Func, old)
    BY <2>1, <2>3, <2>4
  <2>6. ASSUME Top.node.op \in Expressions PROVE UsableAfter(val, module, Func, old \o new)
    <3>1. op \in Computes
      BY <1>8, <2>6 DEF Computes, Expressions
    <3>2. val.kind = "inst" /\ val.func = Func /\ val.id = created + 1
      BY <1>8 DEF InstVal, Table!Value
    <3>3. 1 \in 1..(Len(new) + 1) - 1
      BY <2>4
    <3>4. UsableAfter(val, module, Func, new)
      BY <2>1, <2>4, <3>1, <3>2, <3>3 DEF UsableAfter, Usable, Computed
    <3> QED
      BY <1>1, <3>4, UsableMore
  <2> QED
    BY <1>6, <2>5, <2>6
<1>9. ASSUME Top.node.op = "return", Top.sons # << >>, ~NullAmong(Vals(sons)), val = Top.sons[1].val, new = ReturnCode(val)
      PROVE  Closed(old \o new, module, Func) /\ Top.node.op \notin Expressions
  <2> DEFINE slot == info[Func].returnValue
             a    == Inst("move", created + 1, << slot, val >>, Null)
             b    == Inst("goto", created + 2, << >>, info[Func].exitLabel)
  <2>1. new = << a, b >> /\ a.args = << slot, val >> /\ b.args = << >>
    BY <1>9 DEF ReturnCode, Inst
  <2>2. UsableAfter(val, module, Func, old)
    <3>1. 1 \in DOMAIN sons
      BY <1>2, <1>9
    <3> QED
      BY <1>5, <1>9, <3>1
  <2>3. UsableAfter(slot, module, Func, old)
    BY DEF Inv, Opened, Held, UsableAfter, Usable
  <2> HIDE DEF a, b, slot
  <2>4. DOMAIN new = {1, 2} /\ new[1] = a /\ new[2] = b
    BY <2>1
  <2>5. DOMAIN b.args = {} /\ DOMAIN a.args = {1, 2} /\ a.args[1] = slot /\ a.args[2] = val
    BY <2>1
  <2>6. \A k \in DOMAIN a.args : UsableAfter(a.args[k], module, Func, old)
    BY <2>2, <2>3, <2>5
  <2>7. \A j \in DOMAIN new : \A k \in DOMAIN new[j].args : UsableAfter(new[j].args[k], module, Func, old)
    BY <2>4, <2>5, <2>6
  <2> QED
    BY <1>6, <1>9, <2>7 DEF Expressions
<1> QED
  BY <1>1, <1>7, <1>8, <1>9, Zenon DEF Added


(* Nothing is taken out of the table.                                      *)
LEMMA TableGrows ==
  ASSUME Inv
  PROVE  /\ Begins => Grows(module, module')
         /\ Ends => Grows(module, module')
         /\ Within => Grows(module, module')
<1>1. TableOK(module)
  BY DEF Inv
<1>2. ASSUME Begins PROVE Grows(module, module')
  <2> DEFINE f == Current.name
  <2>1. /\ Pending /\ Current.op = "func" /\ Func = NoFunc /\ Len(frames) = 1 /\ f \notin DOMAIN module.funcMap
        /\ module' = Table!BeginFunction(module, f)
    BY <1>2 DEF Begins
  <2>2. f \in Callees /\ Len(module.valueStack) = 1
    BY <2>1, AtVisit, Outside
  <2> HIDE DEF f
  <2> QED
    BY <1>1, <2>1, <2>2, BeginFunctionOK DEF Func
<1>3. ASSUME Ends PROVE Grows(module, module')
  <2>1. module' = Table!EndFunction(module) /\ Len(module.valueStack) = 2
    BY <1>3, EndsScopes DEF Ends
  <2> QED
    BY <1>1, <2>1, EndFunctionOK
<1> QED
  BY <1>2, <1>3 DEF Within

(* Whether a whole function has its operands: its entry has none, its exit *)
(* reads the return-value slot.                                            *)
LEMMA CompletedOperands ==
  ASSUME NEW st, NEW f, NEW slot, NEW entry \in Insts, NEW label \in Insts, NEW exit \in Insts, NEW body \in Seq(Insts),
         entry.args = << >>, label.args = << >>, exit.args = << slot >>, IsLocal(st, f, slot), Closed(body, st, f)
  PROVE  Closed((<< entry >> \o body) \o << label, exit >>, st, f)
<1> DEFINE e == << entry >>
           x == << label, exit >>
           d == e \o body
<1>1. /\ e \in Seq(Insts) /\ DOMAIN e = {1} /\ e[1] = entry
      /\ x \in Seq(Insts) /\ DOMAIN x = {1, 2} /\ x[1] = label /\ x[2] = exit
  OBVIOUS
<1> HIDE DEF e, x
<1>2. DOMAIN entry.args = {} /\ DOMAIN label.args = {} /\ DOMAIN exit.args = {1} /\ exit.args[1] = slot
  OBVIOUS
<1>3. Closed(e, st, f)
  BY <1>1, <1>2 DEF Closed
<1>4. \A j \in DOMAIN body : \A k \in DOMAIN body[j].args : Usable(body[j].args[k], st, f, body, j)
  BY DEF Closed
<1>5. d \in Seq(Insts) /\ Closed(d, st, f)
  BY <1>1, <1>3, <1>4, ClosedConcat, ConcatProperties
<1> HIDE DEF d
<1>6. UsableAfter(slot, st, f, d)
  BY DEF UsableAfter, Usable, Held
<1>7. \A j \in DOMAIN x : \A k \in DOMAIN x[j].args : UsableAfter(x[j].args[k], st, f, d)
  BY <1>1, <1>2, <1>6
<1>8. Closed(d \o x, st, f)
  BY <1>1, <1>5, <1>7, ClosedConcat
<1> QED
  BY <1>8 DEF d, e, x

(* It holds at the start.                                                  *)
LEMMA AvailInit == Init => AvailInv
<1> SUFFICES ASSUME Init PROVE AvailInv
  OBVIOUS
<1>1. Func = NoFunc /\ DOMAIN ircode = {}
  BY NewModuleOK DEF Init, Func
<1> QED
  BY <1>1 DEF AvailInv, Compiled

FramesOperands(fs, st, f) == \A i \in DOMAIN fs : FrameOperands(fs[i], st, f)

(* Every step keeps it.                                                    *)
LEMMA AvailStep == ASSUME Inv, AvailInv, [Next]_vars PROVE AvailInv'
<1>1. /\ \A f \in Compiled : Closed(ircode[f], module, f)
      /\ Func # NoFunc => FramesOperands(frames, module, Func)
  BY DEF AvailInv, FramesOperands
<1>2. FramesOK(frames) /\ frames \in Seq(Frames) /\ frames # << >> /\ \A i \in DOMAIN frames : FrameOK(frames[i])
  BY DEF Inv, FramesOK
<1>3. ASSUME \A f \in Compiled' : Closed(ircode'[f], module', f), Func' # NoFunc => FramesOperands(frames', module', Func')
      PROVE  AvailInv'
  <2>1. (Func # NoFunc => FramesOperands(frames, module, Func))'
    BY <1>3
  <2>2. (\A f \in Compiled : Closed(ircode[f], module, f))'
    BY <1>3
  <2> QED
    BY <2>1, <2>2 DEF AvailInv, FramesOperands
<1>4. ASSUME Grows(module, module'), \A f \in Compiled : ircode'[f] = ircode[f]
      PROVE  \A f \in Compiled : Closed(ircode'[f], module', f)
  BY <1>1, <1>4, UsableGrows
<1>5. ASSUME Func # NoFunc, Grows(module, module')
      PROVE  \A i \in DOMAIN frames : FrameOperands(frames[i], module', Func)
  BY <1>1, <1>5, OperandsGrow DEF FramesOperands
<1>6. ASSUME Within, Func # NoFunc => FramesOperands(frames', module', Func) PROVE AvailInv'
  <2>1. Compiled' = Compiled /\ Func' = Func /\ ircode' = ircode /\ Grows(module, module')
    BY <1>6, CompiledAfter, TableGrows
  <2> QED
    BY <1>3, <1>4, <1>6, <2>1
<1>7. CASE Stays \/ UNCHANGED vars
  <2>1. UNCHANGED << program, module, frames, ircode, info, created >>
    BY <1>7 DEF Stays, vars
  <2>2. Compiled' = Compiled /\ Func' = Func
    BY <2>1 DEF Compiled, Func
  <2> QED
    BY <1>1, <1>3, <2>1, <2>2
<1>8. CASE Begins
  <2>1. Compiled' = Compiled /\ \A f \in Compiled : ircode'[f] = ircode[f]
    BY <1>8, CompiledAfter
  <2>2. Len(frames) = 1 /\ Pending /\ frames' = Append(frames, Frame(Current))
    BY <1>8 DEF Begins
  <2>3. Current \in Nodes
    BY <2>2, AtVisit
  <2>4. ASSUME NEW i \in DOMAIN frames' PROVE frames'[i] = frames[1] \/ frames'[i] = Frame(Current)
    <3> DEFINE fr == Frame(Current)
    <3>1. fr \in Frames
      BY <2>3, NewFrame
    <3>2. frames' = Append(frames, fr) /\ Len(frames) = 1
      BY <2>2
    <3> HIDE DEF fr
    <3>3. frames'[i] = frames[1] \/ frames'[i] = fr
      BY <1>2, <2>4, <3>1, <3>2, TwoFrames, Zenon
    <3> QED
      BY <3>3 DEF fr
  <2>5. FrameOK(frames[1]) /\ frames[1].node.op = "unit"
    BY <1>2, FramesFacts
  <2>6. FramesOperands(frames', module', Func')
    <3> DEFINE st == module'
               f  == Func'
    <3> HIDE DEF st, f
    <3>1. FrameOperands(frames[1], st, f) /\ FrameOperands(Frame(Current), st, f)
      BY <2>3, <2>5, OperandsEmpty
    <3>2. FramesOperands(frames', st, f)
      BY <2>4, <3>1, Zenon DEF FramesOperands
    <3> QED
      BY <3>2 DEF st, f
  <2>7. Grows(module, module')
    BY <1>8, TableGrows
  <2> QED
    BY <1>3, <1>4, <2>1, <2>6, <2>7
<1>9. CASE Ends
  <2>1. /\ Compiled' = Compiled \cup {Func} /\ Func' = NoFunc /\ Func # NoFunc
        /\ ircode'[Func] = (ircode[Func] \o Code(Top.sons)) \o Exit
        /\ \A f \in Compiled : ircode'[f] = ircode[f]
        /\ Grows(module, module')
    BY <1>9, CompiledAfter, TableGrows DEF Ends
  <2> DEFINE slot  == info[Func].returnValue
             entry == Inst("entry", 1, << >>, Null)
             label == Inst("label", 2, << >>, Null)
             exit  == Inst("exit", created + 1, << slot >>, Null)
             body  == Code(Top.sons)
  <2>2. ircode[Func] = << entry >> /\ IsLocal(module, Func, slot) /\ Exit = << label, exit >>
    BY <2>1 DEF Inv, Opened, Exit
  <2>3. Closed(body, module', Func)
    <3>1. FrameOperands(Top, module', Func)
      <4>1. Len(frames) \in DOMAIN frames /\ Top = frames[Len(frames)]
        BY <1>2, FramesFacts DEF Top
      <4> QED
        BY <1>5, <2>1, <4>1
    <3> QED
      BY <3>1 DEF FrameOperands
  <2>4. body \in Seq(Insts)
    <3>1. ~Pending
      BY <1>9 DEF Ends
    <3>2. Top.sons \in Seq(Results) /\ << >> \in Seq(Insts)
      BY <3>1, AtFinish
    <3>3. Result(Null, << >>) \in Results
      BY <3>2, NullIsValue, ResultType
    <3> QED
      BY <3>2, <3>3, CodeAppend
  <2>5. entry.args = << >> /\ label.args = << >> /\ exit.args = << slot >>
    BY DEF Inst
  <2>6. entry \in Insts /\ label \in Insts /\ exit \in Insts
    <3>1. slot \in IRValues /\ created \in Nat
      BY <2>1, Inside DEF Inv, FunctionsOK, Attrs
    <3> HIDE DEF slot
    <3>2. << >> \in Seq(IRValues) /\ << slot >> \in Seq(IRValues) /\ 1 \in Nat /\ 2 \in Nat /\ created + 1 \in Nat
      BY <3>1
    <3> QED
      BY <3>2, NullIsValue, InstType DEF Ops
  <2>7. ircode'[Func] = (<< entry >> \o body) \o << label, exit >>
    BY <2>1, <2>2
  <2>8. IsLocal(module', Func, slot)
    BY <2>1, <2>2, HeldGrows
  <2> HIDE DEF slot, entry, label, exit, body
  <2>9. Closed(ircode'[Func], module', Func)
    <3> DEFINE st == module'
    <3>1. IsLocal(st, Func, slot) /\ Closed(body, st, Func)
      BY <2>3, <2>8
    <3> HIDE DEF st
    <3>2. Closed((<< entry >> \o body) \o << label, exit >>, st, Func)
      BY <2>4, <2>5, <2>6, <3>1, CompletedOperands
    <3> QED
      BY <2>7, <3>2 DEF st
  <2> QED
    BY <1>3, <1>4, <2>1, <2>9
<1>10. ASSUME NEW t, Enters(t) PROVE AvailInv'
  <2>1. t \in Nodes /\ frames' = Append(frames, Frame(t)) /\ Within
    BY <1>10 DEF Enters
  <2>2. ASSUME Func # NoFunc PROVE FramesOperands(frames', module', Func)
    <3> DEFINE st == module'
    <3>1. \A i \in DOMAIN frames : FrameOperands(frames[i], st, Func)
      BY <1>5, <2>1, <2>2, TableGrows
    <3> HIDE DEF st
    <3>2. ASSUME NEW i \in DOMAIN frames' PROVE (i \in DOMAIN frames /\ frames'[i] = frames[i]) \/ frames'[i] = Frame(t)
      BY <1>2, <2>1
    <3>3. FrameOperands(Frame(t), st, Func)
      BY <2>1, OperandsEmpty
    <3>4. ASSUME NEW i \in DOMAIN frames' PROVE FrameOperands(frames'[i], st, Func)
      BY <3>1, <3>2, <3>3
    <3> QED
      BY <3>4 DEF FramesOperands, st
  <2> QED
    BY <1>6, <2>1, <2>2
<1>11. ASSUME NEW val, Reads(val) PROVE AvailInv'
  <2> DEFINE r == Result(val, << >>)
  <2>1. /\ Within /\ frames' = LeftWith(frames, r) /\ val \in IRValues
        /\ val # Null => Func # NoFunc /\ Held(module', Func, val)
    BY <1>11 DEF Reads
  <2>2. r \in Results /\ r.code = << >> /\ r.val = val
    <3>1. << >> \in Seq(Insts)
      OBVIOUS
    <3> QED
      BY <2>1, <3>1, ResultType DEF Result
  <2> HIDE DEF r
  <2>3. ASSUME Func # NoFunc PROVE FramesOperands(frames', module', Func)
    <3> DEFINE st == module'
    <3>1. \A i \in DOMAIN frames : FrameOperands(frames[i], st, Func)
      BY <1>5, <2>1, <2>3, TableGrows
    <3>2. Last(frames) = frames[Len(frames)] /\ Len(frames) \in DOMAIN frames /\ Last(frames) \in Frames
      BY <1>2, FramesFacts
    <3>3. val = Null \/ UsableAfter(val, st, Func, r.code)
      BY <2>1 DEF UsableAfter, Usable
    <3> HIDE DEF st
    <3>4. Closed(r.code, st, Func)
      BY <2>2, OperandsEmpty
    <3>5. FrameOperands(With(Last(frames), r), st, Func)
      BY <2>2, <3>1, <3>2, <3>3, <3>4, OperandsWith
    <3>6. \A i \in DOMAIN frames' : (\E j \in DOMAIN frames : frames'[i] = frames[j]) \/ frames'[i] = With(Last(frames), r)
      BY <1>2, <2>1, <2>2, FramesLeft
    <3>7. ASSUME NEW i \in DOMAIN frames' PROVE FrameOperands(frames'[i], st, Func)
      BY <3>1, <3>5, <3>6
    <3> QED
      BY <3>7 DEF FramesOperands, st
  <2> QED
    BY <1>6, <2>1, <2>3
<1>12. ASSUME NEW val, NEW old, NEW new, Returns(val, old, new) PROVE AvailInv'
  <2> DEFINE r == Result(val, old \o new)
             n == Len(frames) - 1
  <2>1. Within /\ frames' = PoppedWith(frames, r) /\ Len(frames) >= 2
    BY <1>12 DEF Returns
  <2>2. r \in Results /\ r.code = old \o new /\ r.val = val
    BY <1>12, ReturnedType DEF Result
  <2> HIDE DEF r
  <2>3. ASSUME Func # NoFunc PROVE FramesOperands(frames', module', Func)
    <3> DEFINE st == module'
    <3>1. \A i \in DOMAIN frames : FrameOperands(frames[i], st, Func)
      BY <1>5, <2>1, <2>3, TableGrows
    <3>2. Top = frames[Len(frames)] /\ Len(frames) \in DOMAIN frames
      BY <1>2, FramesFacts DEF Top
    <3>3. FrameOperands(Top, module, Func)
      BY <1>1, <2>3, <3>2 DEF FramesOperands
    <3>4. /\ Closed(r.code, module, Func)
          /\ Top.node.op \in Expressions => UsableAfter(r.val, module, Func, r.code)
      BY <1>12, <2>2, <2>3, <3>3, ReturnedOperands
    <3>5. /\ Closed(r.code, st, Func)
          /\ Top.node.op \in Expressions => UsableAfter(r.val, st, Func, r.code)
      BY <2>1, <3>4, TableGrows, UsableGrows DEF UsableAfter
    <3> HIDE DEF st
    <3>6. /\ n \in DOMAIN frames
          /\ \A i \in DOMAIN frames' : (\E j \in DOMAIN frames : frames'[i] = frames[j]) \/ frames'[i] = With(frames[n], r)
      BY <1>2, <2>1, <2>2, FramesLeft
    <3>7. frames[n].node.sons[Len(frames[n].sons) + 1] = Top.node
      <4>1. Len(frames) \in Nat
        BY <1>2, FramesFacts
      <4>2. n \in 1..Len(frames) - 1 /\ n + 1 = Len(frames)
        <5> DEFINE k == Len(frames)
        <5>1. k \in Nat /\ k >= 2
          BY <2>1, <4>1
        <5> HIDE DEF k
        <5>2. k - 1 \in 1..k - 1 /\ (k - 1) + 1 = k
          BY <5>1
        <5> QED
          BY <5>2 DEF k
      <4> HIDE DEF n
      <4>3. NextSon(frames[n], frames[n + 1].node)
        BY <1>2, <4>2 DEF FramesOK
      <4> QED
        BY <3>2, <4>2, <4>3 DEF NextSon
    <3> HIDE DEF n
    <3>8. frames[n] \in Frames
      BY <1>2, <3>6
    <3>9. FrameOperands(With(frames[n], r), st, Func)
      BY <2>2, <3>1, <3>5, <3>6, <3>7, <3>8, OperandsWith
    <3>10. ASSUME NEW i \in DOMAIN frames' PROVE FrameOperands(frames'[i], st, Func)
      BY <3>1, <3>6, <3>9
    <3> QED
      BY <3>10 DEF FramesOperands, st
  <2> QED
    BY <1>6, <2>1, <2>3
<1> QED
  BY <1>7, <1>8, <1>9, <1>10, <1>11, <1>12, EveryKind DEF Kinds

(* Every operand of a compiled function was computed before, by the same   *)
(* function, or is a variable of it, a global variable or a constant that  *)
(* the module has: what an ast_node hands up in val is there wherever its  *)
(* parent puts the code of blockInsts.                                     *)
THEOREM OperandsThere == Spec => []OperandsAvailable
<1>1. Inv /\ AvailInv /\ [Next]_vars => AvailInv'
  BY AvailStep
<1>2. AvailInv => OperandsAvailable
  <2> SUFFICES ASSUME AvailInv, NEW f \in Compiled, NEW i \in DOMAIN ircode[f], NEW k \in DOMAIN ircode[f][i].args
               PROVE  Available(ircode[f][i].args[k], f, i)
    BY DEF OperandsAvailable
  <2> DEFINE v == ircode[f][i].args[k]
  <2>1. Usable(v, module, f, ircode[f], i)
    BY DEF AvailInv, Closed
  <2> HIDE DEF v
  <2>2. Available(v, f, i)
    BY <2>1 DEF Usable, Computed, Held, IsGlobal, IsLocal, IsConst, Available
  <2> QED
    BY <2>2 DEF v
<1> QED
  BY <1>1, <1>2, AvailInit, Nesting, PTL DEF Spec


-----------------------------------------------------------------------------
(* What the back end gets.                                                 *)

IR == INSTANCE IRModule WITH IRVals <- IRValues

(* An instruction of f has its operands before itself: what it uses was    *)
(* created with a smaller number.                                          *)
Earlier(v, f, n) == v.kind = "inst" => v.func = f /\ v.id \in 1..n

OrderedInst(inst, f) ==
  /\ inst.op \in {"add", "sub"} => Len(inst.args) = 2
  /\ \A k \in DOMAIN inst.args : Earlier(inst.args[k], f, inst.id - 1)

Ordered(c, f) == \A i \in DOMAIN c : OrderedInst(c[i], f)

FrameOrdered(fr, f, n) ==
  /\ Ordered(Code(fr.sons), f)
  /\ \A k \in DOMAIN fr.sons : Ordered(fr.sons[k].code, f) /\ Earlier(fr.sons[k].val, f, n)

FramesOrdered(fs, f, n) == \A i \in DOMAIN fs : FrameOrdered(fs[i], f, n)

(* The list of functions has functions of the map, each once.              *)
ListOK(st) ==
  /\ \A i \in DOMAIN st.funcVector : st.funcVector[i] \in DOMAIN st.funcMap
  /\ \A i, j \in DOMAIN st.funcVector : st.funcVector[i] = st.funcVector[j] => i = j

OrderInv ==
  /\ ListOK(module)
  /\ status = "ok" => Func = NoFunc
  /\ \A f \in Compiled : Ordered(ircode[f], f)
  /\ Func # NoFunc => FramesOrdered(frames, Func, created)

(* Variables and scopes do not change the list of functions.               *)
LEMMA ListKept ==
  ASSUME NEW st \in Tables
  PROVE  /\ Table!EnterScope(st).funcVector = st.funcVector /\ Table!EnterScope(st).funcMap = st.funcMap
         /\ Table!LeaveScope(st).funcVector = st.funcVector /\ Table!LeaveScope(st).funcMap = st.funcMap
         /\ Table!EndFunction(st).funcVector = st.funcVector /\ Table!EndFunction(st).funcMap = st.funcMap
         /\ \A i : Table!NewConstInt(st, i).funcVector = st.funcVector /\ Table!NewConstInt(st, i).funcMap = st.funcMap
         /\ \A n, z : Table!NewVarValue(st, n, z).funcVector = st.funcVector /\ Table!NewVarValue(st, n, z).funcMap = st.funcMap
         /\ \A f : Table!SetCurrentFunction(st, f).funcVector = st.funcVector /\ Table!SetCurrentFunction(st, f).funcMap = st.funcMap
<1> DEFINE R == {"valueStack", "currentFunc", "funcMap", "funcVector", "varsVector", "globals", "constInts"}
           IsTable(t) == t = [x \in R |-> t[x]]
           Same(su, t) == IsTable(su) /\ su.funcVector = t.funcVector /\ su.funcMap = t.funcMap
<1>1. IsTable(st)
  BY DEF Tables
<1>2. ASSUME NEW t, IsTable(t), NEW e
      PROVE  /\ Same([t EXCEPT !.valueStack = e], t) /\ Same([t EXCEPT !.currentFunc = e], t)
             /\ Same([t EXCEPT !.constInts = e], t) /\ Same([t EXCEPT !.varsVector = e], t)
             /\ Same([t EXCEPT !.globals = e], t)
  <2>1. ASSUME NEW x \in {"valueStack", "currentFunc", "constInts", "varsVector", "globals"}, NEW u, u = [t EXCEPT ![x] = e]
        PROVE  Same(u, t)
    <3>1. t = [y \in R |-> t[y]] /\ "funcVector" \in R /\ "funcMap" \in R /\ x # "funcVector" /\ x # "funcMap"
      BY <1>2, <2>1
    <3> HIDE DEF R
    <3>2. DOMAIN t = R
      BY <3>1
    <3>3. u = [y \in R |-> IF y = x THEN e ELSE t[y]]
      BY <2>1, <3>2
    <3>4. u = [y \in R |-> u[y]] /\ u.funcVector = t.funcVector /\ u.funcMap = t.funcMap
      BY <3>1, <3>3
    <3> QED
      BY <3>4
  <2> QED
    BY <2>1
<1> HIDE DEF IsTable
<1>3. ASSUME NEW t, IsTable(t)
      PROVE  /\ Same(Table!EnterScope(t), t) /\ Same(Table!LeaveScope(t), t)
             /\ \A f : Same(Table!SetCurrentFunction(t, f), t)
             /\ \A i : Same(Table!NewConstInt(t, i), t)
             /\ \A n, v : Same(Table!InsertValue(t, n, v), t)
             /\ \A n : Same(Table!NewGlobalVariable(t, n), t)
  BY <1>2, <1>3, Zenon DEF Table!EnterScope, Table!LeaveScope, Table!SetCurrentFunction, Table!NewConstInt,
     Table!InsertValue, Table!NewGlobalVariable
<1>3a. ASSUME NEW t, IsTable(t), NEW n, NEW l, NEW z PROVE Same(Table!NewLocalVarValue(t, n, l, z), t)
  BY <1>2, <1>3a, Zenon DEF Table!NewLocalVarValue
<1>4. ASSUME NEW n, NEW z PROVE Same(Table!NewVarValue(st, n, z), st)
  <2> DEFINE level == IF n = Table!Anon THEN 1 ELSE Table!ScopeLevel(st)
             new   == Table!LocalVar(st.currentFunc, Len(st.varsVector[st.currentFunc]) + 1)
             s1    == Table!NewLocalVarValue(st, n, level, z)
             s2    == Table!NewGlobalVariable(st, n)
             g     == Table!GlobalVar(Len(st.globals) + 1)
  <2>1. \/ Table!NewVarValue(st, n, z) = st
        \/ Table!NewVarValue(st, n, z) = Table!InsertValue(s1, n, new)
        \/ Table!NewVarValue(st, n, z) = Table!InsertValue(s2, n, g)
    BY Zenon DEF Table!NewVarValue
  <2> HIDE DEF new, g, level
  <2>2a. Same(s1, st)
    BY <1>1, <1>3a, Zenon
  <2>2b. \A m : Same(Table!NewGlobalVariable(st, m), st)
    BY <1>1, <1>3, Zenon
  <2>2. Same(s1, st) /\ Same(s2, st)
    BY <2>2a, <2>2b, Zenon
  <2>3. Same(Table!InsertValue(s1, n, new), s1) /\ Same(Table!InsertValue(s2, n, g), s2)
    <3> HIDE DEF s1, s2
    <3>1. IsTable(s1) /\ IsTable(s2)
      BY <2>2
    <3>2. ASSUME NEW t, IsTable(t) PROVE \A m, v : Same(Table!InsertValue(t, m, v), t)
      BY <1>3, <3>2, Zenon
    <3> QED
      BY <3>1, <3>2
  <2> HIDE DEF s1, s2
  <2> QED
    BY <1>1, <2>1, <2>2, <2>3
<1>5. Same(Table!EndFunction(st), st)
  <2>1. Same(Table!SetCurrentFunction(st, NoFunc), st)
    BY <1>1, <1>3, Zenon
  <2>2. Same(Table!LeaveScope(Table!SetCurrentFunction(st, NoFunc)), Table!SetCurrentFunction(st, NoFunc))
    BY <1>3, <2>1
  <2> QED
    BY <2>1, <2>2 DEF Table!EndFunction
<1>6. /\ Same(Table!EnterScope(st), st) /\ Same(Table!LeaveScope(st), st)
      /\ \A f : Same(Table!SetCurrentFunction(st, f), st)
      /\ \A i : Same(Table!NewConstInt(st, i), st)
  BY <1>1, <1>3, Zenon
<1> QED
  BY <1>4, <1>5, <1>6, Zenon

(* A number that is early stays early.                                     *)
LEMMA EarlierGrows ==
  ASSUME NEW f, NEW n \in Nat, NEW m \in Nat, n <= m
  PROVE  /\ \A v : Earlier(v, f, n) => Earlier(v, f, m)
         /\ \A fr : FrameOrdered(fr, f, n) => FrameOrdered(fr, f, m)
         /\ \A fs : FramesOrdered(fs, f, n) => FramesOrdered(fs, f, m)
<1>1. ASSUME NEW v, Earlier(v, f, n) PROVE Earlier(v, f, m)
  <2>1. \A x \in 1..n : x \in 1..m
    OBVIOUS
  <2> QED
    BY <1>1, <2>1 DEF Earlier
<1>2. ASSUME NEW fr, FrameOrdered(fr, f, n) PROVE FrameOrdered(fr, f, m)
  BY <1>1, <1>2 DEF FrameOrdered
<1>3. ASSUME NEW fs, FramesOrdered(fs, f, n) PROVE FramesOrdered(fs, f, m)
  BY <1>2, <1>3 DEF FramesOrdered
<1> QED
  BY <1>1, <1>2, <1>3

(* No code is in order, and so are the frames outside of functions.        *)
LEMMA OrderedEmpty ==
  ASSUME NEW f, NEW n
  PROVE  /\ Ordered(<< >>, f) /\ Earlier(Null, f, n)
         /\ \A fr : FrameOK(fr) /\ fr.node.op \in {"unit", "decl"} => FrameOrdered(fr, f, n)
         /\ \A t \in Nodes : FrameOrdered(Frame(t), f, n)
<1>1. Ordered(<< >>, f)
  BY DEF Ordered
<1>2. Earlier(Null, f, n)
  BY DEF Earlier, Null, Table!NoVal, Table!Value
<1>3. ASSUME NEW fr, FrameOK(fr), fr.node.op \in {"unit", "decl"} PROVE FrameOrdered(fr, f, n)
  <2>1. Code(fr.sons) = << >> /\ \A k \in DOMAIN fr.sons : fr.sons[k] = Result(Null, << >>)
    BY <1>3 DEF FrameOK, Quiet
  <2>2. \A k \in DOMAIN fr.sons : fr.sons[k].code = << >> /\ fr.sons[k].val = Null
    BY <2>1 DEF Result
  <2> QED
    BY <1>1, <1>2, <2>1, <2>2 DEF FrameOrdered
<1>4. ASSUME NEW t \in Nodes PROVE FrameOrdered(Frame(t), f, n)
  <2>1. Frame(t).sons = << >>
    BY DEF Frame
  <2> QED
    BY <1>1, <2>1, CodeEmpty DEF FrameOrdered
<1> QED
  BY <1>1, <1>2, <1>3, <1>4

(* Two pieces of code one after the other.                                 *)
LEMMA OrderedConcat ==
  ASSUME NEW f, NEW a \in Seq(Insts), NEW b \in Seq(Insts), Ordered(a, f), Ordered(b, f)
  PROVE  Ordered(a \o b, f)
<1> DEFINE c == a \o b
<1>1. /\ \A i \in DOMAIN a : i \in DOMAIN c /\ c[i] = a[i]
      /\ \A j \in DOMAIN b : Len(a) + j \in DOMAIN c /\ c[Len(a) + j] = b[j]
      /\ \A i \in DOMAIN c : i \in DOMAIN a \/ \E j \in DOMAIN b : i = Len(a) + j
  BY ConcatElements
<1> HIDE DEF c
<1>2. \A i \in DOMAIN c : OrderedInst(c[i], f)
  BY <1>1 DEF Ordered
<1> QED
  BY <1>2 DEF Ordered, c

(* A frame with one result more.                                           *)
LEMMA OrderedWith ==
  ASSUME NEW f, NEW n, NEW fr \in Frames, NEW r \in Results,
         FrameOrdered(fr, f, n), Ordered(r.code, f), Earlier(r.val, f, n)
  PROVE  FrameOrdered(With(fr, r), f, n)
<1>1. fr.sons \in Seq(Results) /\ With(fr, r).sons = Append(fr.sons, r) /\ r.code \in Seq(Insts)
  BY WithIs DEF Frames, Results
<1> DEFINE sons == fr.sons
           more == Append(sons, r)
<1>2. Code(more) = Code(sons) \o r.code /\ Code(sons) \in Seq(Insts)
  BY <1>1, CodeAppend
<1>3. Ordered(Code(sons), f) /\ \A k \in DOMAIN sons : Ordered(sons[k].code, f) /\ Earlier(sons[k].val, f, n)
  BY DEF FrameOrdered
<1>4. \A k \in DOMAIN more : (k \in DOMAIN sons /\ more[k] = sons[k]) \/ more[k] = r
  BY <1>1
<1> HIDE DEF more, sons
<1>5. Ordered(Code(more), f)
  BY <1>1, <1>2, <1>3, OrderedConcat
<1>6. \A k \in DOMAIN more : Ordered(more[k].code, f) /\ Earlier(more[k].val, f, n)
  BY <1>3, <1>4
<1>7. With(fr, r).sons = more
  BY <1>1 DEF more, sons
<1> QED
  BY <1>5, <1>6, <1>7 DEF FrameOrdered

(* What a handler leaves: its new instructions have the highest numbers.   *)
LEMMA ReturnedOrder ==
  ASSUME Inv, NEW val, NEW old, NEW new, Returns(val, old, new), Func # NoFunc, FrameOrdered(Top, Func, created)
  PROVE  Ordered(old \o new, Func) /\ Earlier(val, Func, created') /\ created' \in Nat /\ created <= created'
<1>1. /\ old \in Seq(Insts) /\ new \in Seq(Insts) /\ Gathered(old) /\ Added(val, new) /\ ~Pending
      /\ created' = created + Len(new)
  BY DEF Returns
<1>2. Top.sons \in Seq(Results) /\ Top.node \in Nodes /\ Len(Top.sons) = Len(Top.node.sons)
  BY <1>1, AtFinish
<1>3. created \in Nat /\ created' \in Nat /\ created <= created' /\ DOMAIN Top.sons = 1..Len(Top.sons)
  BY <1>1, <1>2 DEF Inv
<1>4. Ordered(Code(Top.sons), Func) /\ \A k \in DOMAIN Top.sons : Ordered(Top.sons[k].code, Func) /\ Earlier(Top.sons[k].val, Func, created)
  BY DEF FrameOrdered
<1>5. Ordered(old, Func)
  <2>1. CASE old = Code(Top.sons)
    BY <1>4, <2>1
  <2>2. CASE Len(Top.sons) = 2 /\ old = Top.sons[2].code \o Top.sons[1].code
    <3> DEFINE a == Top.sons[1].code
               b == Top.sons[2].code
    <3>1. a \in Seq(Insts) /\ b \in Seq(Insts) /\ old = b \o a
      BY <1>2, <2>2, CodeOfTwo
    <3>2. Ordered(a, Func) /\ Ordered(b, Func)
      BY <1>3, <1>4, <2>2
    <3> HIDE DEF a, b
    <3> QED
      BY <3>1, <3>2, OrderedConcat
  <2> QED
    BY <1>1, <2>1, <2>2 DEF Gathered
<1>6. Ordered(new, Func) /\ Earlier(val, Func, created')
  <2>1. ASSUME new = << >>, val = Null PROVE Ordered(new, Func) /\ Earlier(val, Func, created')
    BY <2>1, OrderedEmpty
  <2>2. ASSUME Top.node.op \in {"assign", "add", "sub", "call"}, val = InstVal(Func, created + 1),
               NEW op, NEW target, op = IF Top.node.op = "assign" THEN "move" ELSE Top.node.op,
               new = << Inst(op, created + 1, Vals(Top.sons), target) >>
        PROVE  Ordered(new, Func) /\ Earlier(val, Func, created')
    <3> DEFINE a == Inst(op, created + 1, Vals(Top.sons), target)
    <3>1. a.op = op /\ a.id = created + 1 /\ a.args = Vals(Top.sons) /\ new = << a >>
      BY <2>2 DEF Inst
    <3>2. /\ DOMAIN Vals(Top.sons) = DOMAIN Top.sons /\ Len(Vals(Top.sons)) = Len(Top.sons)
          /\ \A k \in DOMAIN Top.sons : Vals(Top.sons)[k] = Top.sons[k].val
      BY <1>2 DEF Vals
    <3> HIDE DEF a
    <3>3. ASSUME a.op \in {"add", "sub"} PROVE Len(a.args) = 2
      <4>1. Top.node.op \in {"add", "sub"}
        BY <2>2, <3>1, <3>3
      <4>2. Len(Top.node.sons) = 2
        BY <1>2, <4>1, NodeShape
      <4> QED
        BY <1>2, <3>1, <3>2, <4>2
    <3>4. ASSUME NEW k \in DOMAIN a.args PROVE Earlier(a.args[k], Func, a.id - 1)
      <4>1. a.id - 1 = created
        BY <1>3, <3>1
      <4>2. a.args[k] = Top.sons[k].val /\ k \in DOMAIN Top.sons
        BY <3>1, <3>2, <3>4
      <4> QED
        BY <1>4, <4>1, <4>2
    <3>5. OrderedInst(a, Func)
      BY <3>3, <3>4 DEF OrderedInst
    <3>6. Ordered(new, Func)
      BY <3>1, <3>5 DEF Ordered
    <3>7. Len(new) = 1
      BY <3>1
    <3>8. created' = created + 1 /\ created + 1 \in 1..created + 1
      BY <1>1, <1>3, <3>7
    <3>9. val.func = Func /\ val.id = created + 1
      BY <2>2 DEF InstVal, Table!Value
    <3> QED
      BY <3>6, <3>8, <3>9 DEF Earlier
  <2>3. ASSUME Top.node.op = "return", Top.sons # << >>, val = Top.sons[1].val, new = ReturnCode(val)
        PROVE  Ordered(new, Func) /\ Earlier(val, Func, created')
    <3> DEFINE slot  == info[Func].returnValue
               label == info[Func].exitLabel
               a == Inst("move", created + 1, << slot, val >>, Null)
               b == Inst("goto", created + 2, << >>, label)
    <3>1. /\ new = << a, b >> /\ a.op = "move" /\ b.op = "goto" /\ a.args = << slot, val >> /\ b.args = << >>
          /\ a.id = created + 1
      BY <2>3 DEF ReturnCode, Inst
    <3>2. slot.kind = "local"
      BY DEF Inv, Opened, IsLocal
    <3> HIDE DEF a, b, slot, label
    <3>3. 1 \in DOMAIN Top.sons
      BY <1>2, <2>3
    <3>4. Earlier(val, Func, created)
      BY <1>4, <2>3, <3>3
    <3>5. a.id - 1 = created /\ Earlier(slot, Func, created)
      BY <1>3, <3>1, <3>2 DEF Earlier
    <3>6. DOMAIN a.args = {1, 2} /\ a.args[1] = slot /\ a.args[2] = val /\ DOMAIN b.args = {}
      BY <3>1
    <3>7. OrderedInst(a, Func)
      BY <3>1, <3>4, <3>5, <3>6 DEF OrderedInst
    <3>8. OrderedInst(b, Func)
      BY <3>1, <3>6 DEF OrderedInst
    <3>9. DOMAIN new = {1, 2} /\ new[1] = a /\ new[2] = b
      BY <3>1
    <3>10. Ordered(new, Func)
      BY <3>7, <3>8, <3>9 DEF Ordered
    <3>11. Earlier(val, Func, created')
      BY <1>3, <3>4, EarlierGrows
    <3> QED
      BY <3>10, <3>11
  <2> QED
    BY <1>1, <2>1, <2>2, <2>3, Zenon DEF Added
<1> QED
  BY <1>1, <1>3, <1>5, <1>6, OrderedConcat

(* A whole function: its entry, its body, its exit.                        *)
LEMMA CompletedOrder ==
  ASSUME NEW f, NEW entry \in Insts, NEW label \in Insts, NEW exit \in Insts, NEW body \in Seq(Insts),
         OrderedInst(entry, f), OrderedInst(label, f), OrderedInst(exit, f), Ordered(body, f)
  PROVE  Ordered((<< entry >> \o body) \o << label, exit >>, f)
<1> DEFINE e == << entry >>
           x == << label, exit >>
           d == e \o body
<1>1. /\ e \in Seq(Insts) /\ DOMAIN e = {1} /\ e[1] = entry
      /\ x \in Seq(Insts) /\ DOMAIN x = {1, 2} /\ x[1] = label /\ x[2] = exit
  OBVIOUS
<1> HIDE DEF e, x
<1>2. Ordered(e, f) /\ Ordered(x, f)
  BY <1>1 DEF Ordered
<1>3. d \in Seq(Insts) /\ Ordered(d, f)
  BY <1>1, <1>2, OrderedConcat, ConcatProperties
<1> HIDE DEF d
<1>4. Ordered(d \o x, f)
  BY <1>1, <1>2, <1>3, OrderedConcat
<1> QED
  BY <1>4 DEF d, e, x

(* A list of functions with one function more.                             *)
LEMMA ListAppend ==
  ASSUME NEW st \in Tables, ListOK(st), NEW f \in Callees, f \notin DOMAIN st.funcMap, NEW sig
  PROVE  ListOK(Table!NewFunction(st, f, sig))
<1> DEFINE su   == Table!NewFunction(st, f, sig)
           list == st.funcVector
           map  == Table!Insert(st.funcMap, f, sig)
<1>1. list \in Seq(Callees) /\ ~Table!FindFunction(st, f)
  BY TableFields DEF Table!FindFunction
<1>2. su = [st EXCEPT !.funcMap = map, !.funcVector = Append(list, f),
                      !.varsVector = Table!Insert(st.varsVector, f, << >>)]
  BY <1>1, Zenon DEF Table!NewFunction
<1>3. su.funcMap = map /\ su.funcVector = Append(list, f)
  <2> DEFINE vv == Table!Insert(st.varsVector, f, << >>)
             ff == Append(list, f)
  <2>1. su = [st EXCEPT !.funcMap = map, !.funcVector = ff, !.varsVector = vv]
    BY <1>2
  <2> HIDE DEF vv, ff, map, su
  <2>2. su.funcMap = map /\ su.funcVector = ff
    BY <2>1 DEF Tables
  <2> QED
    BY <2>2 DEF ff
<1>4. DOMAIN map = DOMAIN st.funcMap \cup {f}
  BY DEF Table!Insert
<1> HIDE DEF su, map
<1>5. /\ DOMAIN Append(list, f) = 1..Len(list) + 1 /\ Append(list, f)[Len(list) + 1] = f
      /\ DOMAIN list = 1..Len(list) /\ Len(list) \in Nat
      /\ \A i \in 1..Len(list) : Append(list, f)[i] = list[i]
  BY <1>1
<1>6. \A i \in 1..Len(list) : list[i] \in DOMAIN st.funcMap /\ list[i] # f
  BY <1>5 DEF ListOK
<1>7. \A i, j \in 1..Len(list) : list[i] = list[j] => i = j
  BY <1>5 DEF ListOK
<1> HIDE DEF list
<1>8. \A i \in 1..Len(list) + 1 : i \in 1..Len(list) \/ i = Len(list) + 1
  BY <1>5
<1>9. \A i \in DOMAIN su.funcVector : su.funcVector[i] \in DOMAIN su.funcMap
  BY <1>3, <1>4, <1>5, <1>6, <1>8
<1>10. \A i, j \in DOMAIN su.funcVector : su.funcVector[i] = su.funcVector[j] => i = j
  BY <1>3, <1>5, <1>6, <1>7, <1>8
<1> QED
  BY <1>9, <1>10 DEF ListOK, su

(* The list at the start.                                                  *)
LEMMA ListInit == ListOK(Table!NewModule)
<1> DEFINE st == Table!NewModule
<1>1. st.funcVector = << "putint", "getint" >> /\ DOMAIN st.funcMap = {"putint", "getint"}
  BY NewModuleOK DEF Table!Builtins
<1> HIDE DEF st
<1>2. DOMAIN st.funcVector = {1, 2} /\ st.funcVector[1] = "putint" /\ st.funcVector[2] = "getint"
  BY <1>1
<1> QED
  BY <1>1, <1>2 DEF ListOK, st

(* A function that is begun is entered in the list.                        *)
LEMMA ListBegins ==
  ASSUME NEW st, TableOK(st), st.currentFunc = NoFunc, Len(st.valueStack) = 1, ListOK(st),
         NEW f \in Callees, f \notin DOMAIN st.funcMap
  PROVE  ListOK(Table!BeginFunction(st, f))
<1> DEFINE s1 == Table!NewFunction(st, f, Table!Signature(0, FALSE))
           s2 == Table!SetCurrentFunction(s1, f)
           s3 == Table!EnterScope(s2)
           s4 == Table!NewVarValue(s3, Table!Anon, Table!IntSize)
<1>1. Table!BeginFunction(st, f) = s4
  BY DEF Table!BeginFunction
<1>2. Table!Signature(0, FALSE) \in Table!FuncTypes
  BY DEF Table!Signature, Table!FuncTypes
<1>3. ListOK(s1)
  BY ListAppend DEF TableOK
<1>4. TableOK(s1) /\ s1.valueStack = st.valueStack /\ DOMAIN s1.funcMap = DOMAIN st.funcMap \cup {f}
  BY <1>2, NewFunctionOK
<1> HIDE DEF s1
<1>5. TableOK(s2) /\ s2.funcVector = s1.funcVector /\ s2.funcMap = s1.funcMap
  <2>1. f \in DOMAIN s1.funcMap /\ f \in Callees \cup {NoFunc} /\ Len(s1.valueStack) = 1
    BY <1>4
  <2>2. TableOK(s2)
    BY <1>4, <2>1, SetCurrentFunctionOK
  <2>3. s2.funcVector = s1.funcVector /\ s2.funcMap = s1.funcMap
    BY <1>4, ListKept DEF TableOK
  <2> QED
    BY <2>2, <2>3
<1> HIDE DEF s2
<1>6. TableOK(s3) /\ s3.funcVector = s1.funcVector /\ s3.funcMap = s1.funcMap
  <2>1. TableOK(s3)
    BY <1>5, EnterScopeOK
  <2>2. s3.funcVector = s2.funcVector /\ s3.funcMap = s2.funcMap
    BY <1>5, ListKept DEF TableOK
  <2> QED
    BY <1>5, <2>1, <2>2
<1> HIDE DEF s3
<1>7. s4.funcVector = s1.funcVector /\ s4.funcMap = s1.funcMap
  <2>1. s4.funcVector = s3.funcVector /\ s4.funcMap = s3.funcMap
    BY <1>6, ListKept DEF TableOK
  <2> QED
    BY <1>6, <2>1
<1> HIDE DEF s4
<1> QED
  BY <1>1, <1>3, <1>7 DEF ListOK

(* Every step keeps the list in order.                                     *)
LEMMA ListStep == ASSUME Inv, ListOK(module), [Next]_vars PROVE ListOK(module')
<1>1. TableOK(module) /\ module \in Tables
  BY DEF Inv, TableOK
<1>2. ASSUME NEW su, su.funcVector = module.funcVector, su.funcMap = module.funcMap, module' = su PROVE ListOK(module')
  BY <1>2 DEF ListOK
<1>3. ASSUME module' = module PROVE ListOK(module')
  BY <1>3
<1>4. CASE VisitFunction
  <2> DEFINE f == Current.name
  <2>1. \/ Stop("failed")
        \/ ~CannotDefine(f) /\ module' = Table!BeginFunction(module, f)
    BY <1>4, Zenon DEF VisitFunction
  <2>2. CASE ~CannotDefine(f) /\ module' = Table!BeginFunction(module, f)
    <3>1. Func = NoFunc /\ f \notin DOMAIN module.funcMap /\ Pending /\ Current.op = "func"
      BY <1>4, <2>2 DEF CannotDefine, Table!FindFunction, VisitFunction, Visiting
    <3>2. f \in Callees /\ Len(module.valueStack) = 1
      BY <3>1, AtVisit, Outside
    <3> HIDE DEF f
    <3> QED
      BY <1>1, <2>2, <3>1, <3>2, ListBegins DEF Func
  <2> QED
    BY <1>3, <2>1, <2>2 DEF Stop
<1>5. CASE FinishFunction
  BY <1>1, <1>2, <1>5, ListKept, Zenon DEF FinishFunction
<1>6. CASE VisitBlock
  BY <1>1, <1>2, <1>6, ListKept, Zenon DEF VisitBlock
<1>7. CASE FinishBlock
  BY <1>1, <1>2, <1>7, ListKept, Zenon DEF FinishBlock
<1>8. CASE VisitVarDecl
  <2> DEFINE n == Current.name
             z == Current.num
  <2>1. /\ Table!NewVarValue(module, n, z).funcVector = module.funcVector
        /\ Table!NewVarValue(module, n, z).funcMap = module.funcMap
    <3> HIDE DEF n, z
    <3> QED
      BY <1>1, ListKept
  <2>2. module' = module \/ module' = Table!NewVarValue(module, n, z)
    BY <1>8, Zenon DEF VisitVarDecl, Stop
  <2> QED
    BY <1>2, <1>3, <2>1, <2>2, Zenon
<1>9. CASE VisitUint
  <2> DEFINE n == Current.num
  <2>1. Table!NewConstInt(module, n).funcVector = module.funcVector /\ Table!NewConstInt(module, n).funcMap = module.funcMap
    <3> HIDE DEF n
    <3> QED
      BY <1>1, ListKept
  <2>2. module' = module \/ module' = Table!NewConstInt(module, n)
    BY <1>9, Zenon DEF VisitUint, Stop
  <2> QED
    BY <1>2, <1>3, <2>1, <2>2, Zenon
<1>10. CASE \/ FinishUnit \/ FinishDecl \/ VisitOperator \/ VisitVarId \/ VisitUnknown
            \/ FinishBinary("add") \/ FinishBinary("sub")
            \/ FinishAssign \/ FinishReturn \/ VisitCall \/ FinishCall \/ UNCHANGED vars
  <2>1. module' = module
    BY <1>10, Zenon DEF FinishUnit, FinishDecl, VisitOperator, VisitVarId, VisitUnknown, FinishBinary, FinishAssign,
       FinishReturn, VisitCall, FinishCall, Stop, Emit, vars
  <2> QED
    BY <1>3, <2>1
<1> QED
  BY <1>4, <1>5, <1>6, <1>7, <1>8, <1>9, <1>10, Zenon DEF Next

(* The unit is finished outside of functions, and then nothing more is     *)
(* done.                                                                   *)
LEMMA OkStep == ASSUME Inv, status = "ok" => Func = NoFunc, [Next]_vars PROVE status' = "ok" => Func' = NoFunc
<1>1. CASE UNCHANGED vars
  <2>1. module' = module /\ status' = status
    BY <1>1 DEF vars
  <2>2. Func' = Func
    BY <2>1 DEF Func
  <2> QED
    BY <2>1, <2>2
<1>2. CASE Next
  <2>1. CASE FinishUnit
    <3>1. ~Pending /\ Top.node.op = "unit" /\ module' = module
      BY <2>1 DEF FinishUnit, Finishing
    <3>2. Func' = Func
      BY <3>1 DEF Func
    <3>3. Func = NoFunc
      <4>1. /\ Top = Last(frames) /\ Last(frames) = frames[Len(frames)] /\ Len(frames) \in DOMAIN frames
        BY <3>1, AtFinish, FramesFacts DEF Inv
      <4>2. Len(frames) = 1
        BY <3>1, <4>1 DEF Inv, FramesOK
      <4>3. 2 \notin DOMAIN frames
        <5>1. DOMAIN frames = 1..Len(frames)
          BY FramesFacts DEF Inv
        <5> QED
          BY <4>2, <5>1
      <4> QED
        BY <4>3 DEF Inv, Compiling
    <3> QED
      BY <3>2, <3>3
  <2>2. CASE ~FinishUnit
    <3>1. status = "running"
      BY <1>2 DEF Next, VisitFunction, FinishFunction, VisitBlock, FinishBlock, FinishUnit, VisitVarDecl, FinishDecl,
             VisitOperator, VisitVarId, VisitUint, VisitUnknown, FinishBinary, FinishAssign, FinishReturn,
             VisitCall, FinishCall, Visiting, Finishing
    <3>2. \/ status' = status \/ Stop("failed") \/ Stop("crashed") \/ \E outcome \in {"failed", "crashed"} : Stop(outcome)
      BY <1>2, <2>2, Zenon DEF Next, VisitFunction, FinishFunction, VisitBlock, FinishBlock, VisitVarDecl, FinishDecl,
         VisitOperator, VisitVarId, VisitUint, VisitUnknown, FinishBinary, FinishAssign, FinishReturn,
         VisitCall, FinishCall, Emit
    <3>3. status' \in {"running", "failed", "crashed"}
      BY <3>1, <3>2 DEF Stop
    <3> QED
      BY <3>3
  <2> QED
    BY <2>1, <2>2
<1> QED
  BY <1>1, <1>2

(* It holds at the start.                                                  *)
LEMMA OrderInit == Init => OrderInv
<1> SUFFICES ASSUME Init PROVE OrderInv
  OBVIOUS
<1>1. Func = NoFunc /\ DOMAIN ircode = {} /\ module = Table!NewModule /\ status = "running"
  BY NewModuleOK DEF Init, Func
<1>2. ListOK(module)
  BY <1>1, ListInit
<1> QED
  BY <1>1, <1>2 DEF OrderInv, Compiled

(* Every step keeps it.                                                    *)
LEMMA OrderStep == ASSUME Inv, OrderInv, [Next]_vars PROVE OrderInv'
<1>1. /\ \A f \in Compiled : Ordered(ircode[f], f)
      /\ Func # NoFunc => FramesOrdered(frames, Func, created)
  BY DEF OrderInv
<1>2. FramesOK(frames) /\ frames \in Seq(Frames) /\ frames # << >> /\ \A i \in DOMAIN frames : FrameOK(frames[i])
  BY DEF Inv, FramesOK
<1>3. ASSUME \A f \in Compiled' : Ordered(ircode'[f], f), Func' # NoFunc => FramesOrdered(frames', Func', created')
      PROVE  OrderInv'
  <2>1. ListOK(module') /\ (status' = "ok" => Func' = NoFunc)
    BY ListStep, OkStep DEF OrderInv
  <2> QED
    BY <1>3, <2>1 DEF OrderInv
<1>4. ASSUME Within, Func # NoFunc => FramesOrdered(frames', Func, created') PROVE OrderInv'
  <2>1. Compiled' = Compiled /\ Func' = Func /\ ircode' = ircode
    BY <1>4, CompiledAfter
  <2> QED
    BY <1>1, <1>3, <1>4, <2>1
<1>5. CASE Stays \/ UNCHANGED vars
  <2>1. UNCHANGED << program, module, frames, ircode, info, created >>
    BY <1>5 DEF Stays, vars
  <2>2. Compiled' = Compiled /\ Func' = Func
    BY <2>1 DEF Compiled, Func
  <2> QED
    BY <1>1, <1>3, <2>1, <2>2
<1>6. CASE Begins
  <2>1. Compiled' = Compiled /\ \A f \in Compiled : ircode'[f] = ircode[f]
    BY <1>6, CompiledAfter
  <2>2. Len(frames) = 1 /\ Pending /\ frames' = Append(frames, Frame(Current))
    BY <1>6 DEF Begins
  <2>3. Current \in Nodes
    BY <2>2, AtVisit
  <2>4. ASSUME NEW i \in DOMAIN frames' PROVE frames'[i] = frames[1] \/ frames'[i] = Frame(Current)
    <3> DEFINE fr == Frame(Current)
    <3>1. fr \in Frames
      BY <2>3, NewFrame
    <3>2. frames' = Append(frames, fr) /\ Len(frames) = 1
      BY <2>2
    <3> HIDE DEF fr
    <3>3. frames'[i] = frames[1] \/ frames'[i] = fr
      BY <1>2, <2>4, <3>1, <3>2, TwoFrames, Zenon
    <3> QED
      BY <3>3 DEF fr
  <2>5. FrameOK(frames[1]) /\ frames[1].node.op = "unit"
    BY <1>2, FramesFacts
  <2>6. FramesOrdered(frames', Func', created')
    <3>1. FrameOrdered(frames[1], Func', created') /\ FrameOrdered(Frame(Current), Func', created')
      BY <2>3, <2>5, OrderedEmpty
    <3> QED
      BY <2>4, <3>1, Zenon DEF FramesOrdered
  <2> QED
    BY <1>1, <1>3, <2>1, <2>6
<1>7. CASE Ends
  <2>1. /\ Compiled' = Compiled \cup {Func} /\ Func' = NoFunc /\ Func # NoFunc
        /\ ircode'[Func] = (ircode[Func] \o Code(Top.sons)) \o Exit
        /\ \A f \in Compiled : ircode'[f] = ircode[f]
    BY <1>7, CompiledAfter DEF Ends
  <2> DEFINE slot  == info[Func].returnValue
             entry == Inst("entry", 1, << >>, Null)
             label == Inst("label", 2, << >>, Null)
             exit  == Inst("exit", created + 1, << slot >>, Null)
             body  == Code(Top.sons)
  <2>2. ircode[Func] = << entry >> /\ slot.kind = "local" /\ Exit = << label, exit >>
    BY <2>1 DEF Inv, Opened, Exit, IsLocal
  <2>3. Ordered(body, Func)
    <3>1. FrameOrdered(Top, Func, created)
      <4>1. Len(frames) \in DOMAIN frames /\ Top = frames[Len(frames)]
        BY <1>2, FramesFacts DEF Top
      <4> QED
        BY <1>1, <2>1, <4>1 DEF FramesOrdered
    <3> QED
      BY <3>1 DEF FrameOrdered
  <2>4. body \in Seq(Insts)
    <3>1. ~Pending
      BY <1>7 DEF Ends
    <3>2. Top.sons \in Seq(Results) /\ << >> \in Seq(Insts)
      BY <3>1, AtFinish
    <3>3. Result(Null, << >>) \in Results
      BY <3>2, NullIsValue, ResultType
    <3> QED
      BY <3>2, <3>3, CodeAppend
  <2>5. /\ entry.op = "entry" /\ label.op = "label" /\ exit.op = "exit"
        /\ entry.args = << >> /\ label.args = << >> /\ exit.args = << slot >>
    BY DEF Inst
  <2>6. entry \in Insts /\ label \in Insts /\ exit \in Insts
    <3>1. slot \in IRValues /\ created \in Nat
      BY <2>1, Inside DEF Inv, FunctionsOK, Attrs
    <3> HIDE DEF slot
    <3>2. << >> \in Seq(IRValues) /\ << slot >> \in Seq(IRValues) /\ 1 \in Nat /\ 2 \in Nat /\ created + 1 \in Nat
      BY <3>1
    <3> QED
      BY <3>2, NullIsValue, InstType DEF Ops
  <2>7. ircode'[Func] = (<< entry >> \o body) \o << label, exit >>
    BY <2>1, <2>2
  <2> HIDE DEF slot, entry, label, exit, body
  <2>8. OrderedInst(entry, Func) /\ OrderedInst(label, Func) /\ OrderedInst(exit, Func)
    <3>1. DOMAIN exit.args = {1} /\ exit.args[1] = slot /\ DOMAIN entry.args = {} /\ DOMAIN label.args = {}
      BY <2>5
    <3> QED
      BY <2>2, <2>5, <3>1 DEF OrderedInst, Earlier
  <2>9. Ordered(ircode'[Func], Func)
    BY <2>3, <2>4, <2>6, <2>7, <2>8, CompletedOrder
  <2> QED
    BY <1>1, <1>3, <2>1, <2>9
<1>8. ASSUME NEW t, Enters(t) PROVE OrderInv'
  <2>1. t \in Nodes /\ frames' = Append(frames, Frame(t)) /\ Within /\ created' = created
    BY <1>8 DEF Enters
  <2>2. ASSUME Func # NoFunc PROVE FramesOrdered(frames', Func, created)
    <3>1. ASSUME NEW i \in DOMAIN frames' PROVE (i \in DOMAIN frames /\ frames'[i] = frames[i]) \/ frames'[i] = Frame(t)
      BY <1>2, <2>1
    <3>2. FrameOrdered(Frame(t), Func, created)
      BY <2>1, OrderedEmpty
    <3>3. \A i \in DOMAIN frames : FrameOrdered(frames[i], Func, created)
      BY <1>1, <2>2 DEF FramesOrdered
    <3>4. ASSUME NEW i \in DOMAIN frames' PROVE FrameOrdered(frames'[i], Func, created)
      BY <3>1, <3>2, <3>3
    <3> QED
      BY <3>4 DEF FramesOrdered
  <2> QED
    BY <1>4, <2>1, <2>2
<1>9. ASSUME NEW val, Reads(val) PROVE OrderInv'
  <2> DEFINE r == Result(val, << >>)
  <2>1. /\ Within /\ created' = created /\ frames' = LeftWith(frames, r) /\ val \in IRValues
        /\ val # Null => Held(module', Func, val)
    BY <1>9 DEF Reads
  <2>2. r \in Results /\ r.code = << >> /\ r.val = val
    <3>1. << >> \in Seq(Insts)
      OBVIOUS
    <3> QED
      BY <2>1, <3>1, ResultType DEF Result
  <2> HIDE DEF r
  <2>3. ASSUME Func # NoFunc PROVE FramesOrdered(frames', Func, created)
    <3>1. \A i \in DOMAIN frames : FrameOrdered(frames[i], Func, created)
      BY <1>1, <2>3 DEF FramesOrdered
    <3>2. Last(frames) = frames[Len(frames)] /\ Len(frames) \in DOMAIN frames /\ Last(frames) \in Frames
      BY <1>2, FramesFacts
    <3>3. Ordered(r.code, Func) /\ Earlier(r.val, Func, created)
      <4>1. val.kind = "local" \/ val.kind = "global" \/ val.kind = "const" \/ val = Null
        BY <2>1 DEF Held, IsGlobal, IsLocal, IsConst
      <4>2. Earlier(val, Func, created)
        BY <4>1, OrderedEmpty DEF Earlier
      <4> QED
        BY <2>2, <4>2, OrderedEmpty
    <3>4. FrameOrdered(With(Last(frames), r), Func, created)
      BY <2>2, <3>1, <3>2, <3>3, OrderedWith
    <3>5. \A i \in DOMAIN frames' : (\E j \in DOMAIN frames : frames'[i] = frames[j]) \/ frames'[i] = With(Last(frames), r)
      BY <1>2, <2>1, <2>2, FramesLeft
    <3>6. ASSUME NEW i \in DOMAIN frames' PROVE FrameOrdered(frames'[i], Func, created)
      BY <3>1, <3>4, <3>5
    <3> QED
      BY <3>6 DEF FramesOrdered
  <2> QED
    BY <1>4, <2>1, <2>3
<1>10. ASSUME NEW val, NEW old, NEW new, Returns(val, old, new) PROVE OrderInv'
  <2> DEFINE r == Result(val, old \o new)
             n == Len(frames) - 1
             m == created'
  <2>1. Within /\ frames' = PoppedWith(frames, r) /\ Len(frames) >= 2
    BY <1>10 DEF Returns
  <2>2. r \in Results /\ r.code = old \o new /\ r.val = val
    BY <1>10, ReturnedType DEF Result
  <2> HIDE DEF r
  <2>3. ASSUME Func # NoFunc PROVE FramesOrdered(frames', Func, m)
    <3>1. Top = frames[Len(frames)] /\ Len(frames) \in DOMAIN frames
      BY <1>2, FramesFacts DEF Top
    <3>2. FrameOrdered(Top, Func, created)
      BY <1>1, <2>3, <3>1 DEF FramesOrdered
    <3>3. Ordered(r.code, Func) /\ Earlier(r.val, Func, m) /\ m \in Nat /\ created <= m
      BY <1>10, <2>2, <2>3, <3>2, ReturnedOrder
    <3> HIDE DEF m
    <3>4. FramesOrdered(frames, Func, m)
      <4>1. created \in Nat
        BY DEF Inv
      <4> QED
        BY <1>1, <2>3, <3>3, <4>1, EarlierGrows
    <3>5. \A i \in DOMAIN frames : FrameOrdered(frames[i], Func, m)
      BY <3>4 DEF FramesOrdered
    <3>6. /\ n \in DOMAIN frames
          /\ \A i \in DOMAIN frames' : (\E j \in DOMAIN frames : frames'[i] = frames[j]) \/ frames'[i] = With(frames[n], r)
      BY <1>2, <2>1, <2>2, FramesLeft
    <3> HIDE DEF n
    <3>7. frames[n] \in Frames
      BY <1>2, <3>6
    <3>8. FrameOrdered(With(frames[n], r), Func, m)
      BY <2>2, <3>3, <3>5, <3>6, <3>7, OrderedWith
    <3>9. ASSUME NEW i \in DOMAIN frames' PROVE FrameOrdered(frames'[i], Func, m)
      BY <3>5, <3>6, <3>8
    <3> QED
      BY <3>9 DEF FramesOrdered
  <2> QED
    BY <1>4, <2>1, <2>3
<1> QED
  BY <1>5, <1>6, <1>7, <1>8, <1>9, <1>10, EveryKind DEF Kinds

(* Numbers that cover 1..n at n places are at one place each.              *)
LEMMA EachIdOnce ==
  ASSUME NEW c \in Seq(Insts), EachOnce(c, 1..Len(c))
  PROVE  /\ \A i \in DOMAIN c : c[i].id \in 1..Len(c)
         /\ \A n \in DOMAIN c : \E i \in DOMAIN c : c[i].id = n
         /\ \A i, j \in DOMAIN c : c[i].id = c[j].id => i = j
<1> DEFINE n == Len(c)
           g == [i \in 1..n |-> c[i].id]
<1>1. n \in Nat /\ DOMAIN c = 1..n
  OBVIOUS
<1>2. {c[i].id : i \in 1..n} = 1..n
  BY <1>1 DEF EachOnce
<1> HIDE DEF n
<1>3. g \in [1..n -> 1..n] /\ \A x \in 1..n : \E i \in 1..n : g[i] = x
  <2>1. \A i \in 1..n : c[i].id \in 1..n
    BY <1>2
  <2>2. \A x \in 1..n : \E i \in 1..n : c[i].id = x
    BY <1>2
  <2> QED
    BY <2>1, <2>2
<1>6. \A i \in 1..n : g[i] = c[i].id
  OBVIOUS
<1> HIDE DEF g
<1>4. g \in Injection(1..n, 1..n)
  <2>1. g \in Surjection(1..n, 1..n)
    BY <1>3, Fun_IsSurj
  <2>2. IsFiniteSet(1..n)
    BY <1>1, FS_Interval
  <2> QED
    BY <2>1, <2>2, FS_SurjSameCardinalityImpliesInj
<1>5. \A i, j \in 1..n : g[i] = g[j] => i = j
  BY <1>4, Fun_InjectionProperties
<1>7. \A i \in 1..n : c[i].id \in 1..n
  BY <1>3, <1>6
<1>8. \A i, j \in 1..n : c[i].id = c[j].id => i = j
  BY <1>5, <1>6
<1>9. \A x \in 1..n : \E i \in 1..n : c[i].id = x
  BY <1>3, <1>6
<1> QED
  BY <1>1, <1>7, <1>8, <1>9, Zenon DEF n

(* A compiled function is one that the back end takes.                     *)
LEMMA FunctionDelivered ==
  ASSUME Inv, NEW f \in Callees, f \in DOMAIN ircode, f \notin Table!Builtins,
         EachOnce(ircode[f], 1..Len(ircode[f])), ExitsOnce(ircode[f], f), Ordered(ircode[f], f)
  PROVE  IR!IsFunction(Delivered(f))
<1> DEFINE c  == ircode[f]
           fn == Delivered(f)
           L  == Lowered(c)
<1>1. c \in Seq(Insts) /\ info[f] \in Attrs /\ module.varsVector[f] \in Seq(Variables)
  <2>1. FunctionsOK(ircode, info, module) /\ TableOK(module)
    BY DEF Inv
  <2>2. f \in DOMAIN info /\ f \in DOMAIN module.varsVector /\ module.varsVector \in Table!Maps(Callees, Seq(Variables))
    BY <2>1, TableFields DEF FunctionsOK, TableOK
  <2> QED
    BY <2>1, <2>2 DEF FunctionsOK, Table!Maps
<1>2. /\ fn.name = f /\ fn.builtin = FALSE /\ fn.code = L
      /\ fn = [name |-> f, builtin |-> FALSE,
               vars |-> Len(module.varsVector[f]), voids |-> Voids(module.varsVector[f]), code |-> L,
               existFuncCall |-> info[f].existFuncCall, maxFuncCallArgCnt |-> info[f].maxFuncCallArgCnt]
  BY Zenon DEF Delivered
<1>3. /\ DOMAIN L = DOMAIN c /\ DOMAIN c = 1..Len(c) /\ Len(c) \in Nat
      /\ L = [i \in DOMAIN c |-> L[i]]
      /\ \A i \in DOMAIN c : L[i] = [op |-> c[i].op, id |-> c[i].id, args |-> c[i].args, target |-> c[i].target,
                                     void |-> IsVoid(c[i])]
  BY <1>1 DEF Lowered
<1>4. /\ \A i \in DOMAIN c : c[i].id \in 1..Len(c)
      /\ \A n \in DOMAIN c : \E i \in DOMAIN c : c[i].id = n
      /\ \A i, j \in DOMAIN c : c[i].id = c[j].id => i = j
  BY <1>1, EachIdOnce
<1>5. PICK k \in DOMAIN c : /\ \A i \in DOMAIN c : c[i].op = "label" <=> i = k
                            /\ \A i \in DOMAIN c : c[i].op = "goto" => c[i].target = InstVal(f, c[k].id)
  <2>1. {i \in DOMAIN c : c[i].op = "label"} = {Len(c) - 1}
    BY Zenon DEF ExitsOnce
  <2>2. \A i \in DOMAIN c : c[i].op = "goto" => c[i].target = InstVal(f, c[Len(c) - 1].id)
    BY Zenon DEF ExitsOnce
  <2>3. Len(c) - 1 \in DOMAIN c /\ \A i \in DOMAIN c : c[i].op = "label" <=> i = Len(c) - 1
    BY <2>1
  <2> QED
    BY <2>2, <2>3
<1>6. Ordered(c, f)
  OBVIOUS
<1>7. \A n \in Nat : IR!Val("inst", f, n) \in IRValues
  <2>1. f \in Identifiers \cup {NoFunc}
    BY Zenon DEF Identifiers, Callees
  <2> QED
    BY <2>1 DEF IR!Val, IRValues
<1> HIDE DEF c, L, fn
<1>8. /\ DOMAIN L = 1..Len(L) /\ Len(L) = Len(c) /\ L \in Seq(Range(L))
  <2>1. L \in [1..Len(c) -> Range(L)]
    BY <1>3 DEF Range
  <2> QED
    BY <1>3, <2>1
<1>9. ASSUME NEW i \in DOMAIN c PROVE IR!IsInst(L[i], fn)
  <2>1. c[i] \in Insts /\ c[i].id \in 1..Len(c)
    BY <1>1, <1>4
  <2>2. OrderedInst(c[i], f)
    BY <1>6 DEF Ordered
  <2>3. IsVoid(c[i]) \in BOOLEAN
    BY DEF IsVoid
  <2>4. /\ L[i].op = c[i].op /\ L[i].id = c[i].id /\ L[i].args = c[i].args
        /\ L[i] = [op |-> c[i].op, id |-> c[i].id, args |-> c[i].args, target |-> c[i].target, void |-> IsVoid(c[i])]
    BY <1>3
  <2>5. L[i] \in [op : {"entry", "label", "exit", "goto", "move", "add", "sub", "call"}, id : 1 .. Len(fn.code),
                  args : Seq(IRValues), target : {L[i].target}, void : BOOLEAN]
    <3>1. Len(fn.code) = Len(c)
      BY <1>2, <1>8
    <3>2. c[i].op \in Ops /\ c[i].args \in Seq(IRValues)
      BY <2>1 DEF Insts
    <3> QED
      BY <2>1, <2>3, <2>4, <3>1, <3>2 DEF Ops
  <2>6. \A j \in DOMAIN L[i].args :
          L[i].args[j].kind = "inst" => L[i].args[j].func = fn.name /\ L[i].args[j].id \in 1 .. L[i].id - 1
    BY <1>2, <2>2, <2>4 DEF OrderedInst, Earlier
  <2>7. IR!Val("inst", fn.name, L[i].id) \in IRValues
    BY <1>2, <1>7, <2>1, <2>4
  <2>8. L[i].op \in {"add", "sub"} => Len(L[i].args) = 2
    BY <2>2, <2>4 DEF OrderedInst
  <2> QED
    BY <2>5, <2>6, <2>7, <2>8 DEF IR!IsInst
<1>10. fn \in [name : {fn.name}, builtin : BOOLEAN, vars : Nat, voids : SUBSET Nat, code : Seq(Range(fn.code)),
               existFuncCall : BOOLEAN, maxFuncCallArgCnt : Nat]
  <2> DEFINE attrs == info[f]
             vars1 == module.varsVector[f]
  <2>1. attrs.existFuncCall \in BOOLEAN /\ attrs.maxFuncCallArgCnt \in Nat /\ Len(vars1) \in Nat
        /\ Voids(vars1) \in SUBSET Nat
    BY <1>1 DEF Attrs, Voids
  <2> HIDE DEF attrs, vars1
  <2>2. fn = [name |-> f, builtin |-> FALSE, vars |-> Len(vars1), voids |-> Voids(vars1), code |-> L,
              existFuncCall |-> attrs.existFuncCall, maxFuncCallArgCnt |-> attrs.maxFuncCallArgCnt]
    BY <1>2 DEF attrs, vars1
  <2> QED
    BY <1>8, <2>1, <2>2
<1>11. IR!ExitLabel(L, f, k)
  <2>1. \A i \in DOMAIN c : L[i].op = c[i].op /\ L[i].target = c[i].target /\ L[i].id = c[i].id
    BY <1>3
  <2>2. \A n : InstVal(f, n) = IR!Val("inst", f, n)
    BY DEF InstVal, Table!Value, IR!Val
  <2> QED
    BY <1>3, <1>5, <2>1, <2>2 DEF IR!ExitLabel
<1>12. /\ \A i, j \in DOMAIN L : L[i].id = L[j].id => i = j
       /\ \A n \in DOMAIN L : \E i \in DOMAIN L : L[i].id = n
  <2>1. \A i \in DOMAIN c : L[i].id = c[i].id
    BY <1>3
  <2>2. DOMAIN L = DOMAIN c
    BY <1>3
  <2> QED
    BY <1>4, <2>1, <2>2, Zenon
<1>13. IR!IsFunction(fn)
  <2>1. fn.code = L /\ fn.name = f /\ DOMAIN L = DOMAIN c
    BY <1>2, <1>3
  <2>2. Range(fn.code) = IR!Range(fn.code)
    BY DEF Range, IR!Range
  <2> QED
    BY <1>5, <1>9, <1>10, <1>11, <1>12, <2>1, <2>2, Zenon DEF IR!IsFunction
<1> QED
  BY <1>13 DEF fn

(* A function of the library.                                              *)
LEMMA BuiltinDelivered ==
  ASSUME NEW f \in Table!Builtins
  PROVE  IR!IsFunction(Delivered(f)) /\ Delivered(f).name = f
<1> DEFINE fn == Delivered(f)
<1>1. fn = [name |-> f, builtin |-> TRUE, vars |-> 0, voids |-> {}, code |-> << >>,
            existFuncCall |-> FALSE, maxFuncCallArgCnt |-> 0]
  BY Zenon DEF Delivered
<1> HIDE DEF fn
<1>2. /\ fn.name = f /\ fn.builtin = TRUE /\ fn.code = << >> /\ DOMAIN fn.code = {}
      /\ fn.code \in Seq(Range(fn.code))
  BY <1>1
<1>3. fn \in [name : {fn.name}, builtin : BOOLEAN, vars : Nat, voids : SUBSET Nat, code : Seq(Range(fn.code)),
              existFuncCall : BOOLEAN, maxFuncCallArgCnt : Nat]
  BY <1>1, <1>2
<1> QED
  BY <1>2, <1>3 DEF IR!IsFunction, fn

(* What the generator delivers.                                            *)
ModuleDelivered == status = "ok" => IR!IsModule(FunctionList)

(* Every module that the generator delivers is one that the code generator *)
(* takes (InputsAssumption of CodeGenerator): the functions of the list    *)
(* are compiled, each once, and their code has what the instruction        *)
(* selector relies on, operands that were computed before they are used    *)
(* and one exit label that every jump leads to.                            *)
THEOREM DeliversModules == Spec => []ModuleDelivered
<1>1. Inv /\ LostInv /\ [Next]_vars => LostInv'
  BY LostStep
<1>2. Inv /\ ExitInv /\ [Next]_vars => ExitInv'
  BY ExitStep
<1>3. Inv /\ OrderInv /\ [Next]_vars => OrderInv'
  BY OrderStep
<1>4. ASSUME Inv, LostInv, ExitInv, OrderInv PROVE ModuleDelivered
  <2> SUFFICES ASSUME status = "ok" PROVE IR!IsModule(FunctionList)
    BY DEF ModuleDelivered
  <2> DEFINE list == module.funcVector
             fns  == FunctionList
  <2>1. /\ DOMAIN fns = DOMAIN list /\ fns = [i \in DOMAIN list |-> fns[i]]
        /\ \A i \in DOMAIN list : fns[i] = Delivered(list[i])
    BY Zenon DEF FunctionList
  <2>2. list \in Seq(Callees) /\ DOMAIN list = 1..Len(list) /\ Len(list) \in Nat
    BY <1>4, TableFields DEF Inv, TableOK
  <2>3. ASSUME NEW i \in DOMAIN list PROVE IR!IsFunction(Delivered(list[i])) /\ Delivered(list[i]).name = list[i]
    <3> DEFINE f == list[i]
    <3>1. f \in Callees /\ f \in DOMAIN module.funcMap
      BY <1>4, <2>2 DEF OrderInv, ListOK
    <3>2. CASE f \in Table!Builtins
      BY <3>2, BuiltinDelivered
    <3>3. CASE f \notin Table!Builtins
      <4>1. f \in DOMAIN ircode /\ f # Func
        <5>1. Func = NoFunc /\ NoFunc \notin DOMAIN ircode
          BY <1>4, CompiledAfter DEF OrderInv
        <5> QED
          BY <1>4, <3>1, <3>3, <5>1 DEF Inv, FunctionsOK
      <4> HIDE DEF f
      <4>2. f \in Compiled
        BY <4>1 DEF Compiled
      <4>3. EachOnce(ircode[f], 1..Len(ircode[f])) /\ ExitsOnce(ircode[f], f) /\ Ordered(ircode[f], f)
        <5>1. EachOnce(ircode[f], 1..Len(ircode[f]))
          BY <1>4, <4>2 DEF LostInv, NoInstructionLost
        <5>2. ExitsOnce(ircode[f], f)
          BY <1>4, <4>2 DEF ExitInv, OneExit, ExitsOnce
        <5>3. Ordered(ircode[f], f)
          BY <1>4, <4>2 DEF OrderInv
        <5> QED
          BY <5>1, <5>2, <5>3
      <4>4. Delivered(f).name = f
        BY <3>3, Zenon DEF Delivered
      <4>5. IR!IsFunction(Delivered(f))
        BY <1>4, <3>1, <3>3, <4>1, <4>3, FunctionDelivered
      <4> QED
        BY <4>4, <4>5 DEF f
    <3> QED
      BY <3>2, <3>3
  <2>4. \A i, j \in DOMAIN list : list[i] = list[j] => i = j
    BY <1>4 DEF OrderInv, ListOK
  <2> HIDE DEF fns, list
  <2>5. fns \in Seq(Range(fns))
    <3>1. fns \in [1..Len(list) -> Range(fns)]
      BY <2>1, <2>2 DEF Range
    <3> QED
      BY <2>2, <3>1
  <2>6. \A i \in DOMAIN fns : IR!IsFunction(fns[i])
    BY <2>1, <2>3
  <2>7. \A i, j \in DOMAIN fns : fns[i].name = fns[j].name => i = j
    BY <2>1, <2>3, <2>4
  <2>8. IR!IsModule(fns)
    BY <2>5, <2>6, <2>7 DEF IR!IsModule, Range, IR!Range
  <2> QED
    BY <2>8 DEF fns
<1> QED
  BY <1>1, <1>2, <1>3, <1>4, LostInit, ExitInit, OrderInit, Nesting, PTL DEF Spec
=============================================================================
