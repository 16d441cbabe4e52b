--------------------------- MODULE CodeGenerator ---------------------------
(***************************************************************************)
(* The ARM32 back end (CodeGeneratorAsm, CodeGeneratorArm32 and            *)
(* InstSelectorArm32): function by function it rewrites the calls in the   *)
(* IR, lays out the stack frame, and translates one instruction after the  *)
(* other with the register allocator of RegisterAllocator, the use lists   *)
(* of UseGraph and the sequences of ILoc.                                  *)
(*                                                                         *)
(* Functions have no parameters, as the front ends build them.             *)
(***************************************************************************)
EXTENDS ILoc, UseGraph, IRModule, TLC

CONSTANTS
  Inputs,        \* the modules to compile: sequences of functions
  NoFunc,        \* no function: of constants, globals and registers
  NullVal, Nobody,
  Uses,          \* bound: the Use objects
  MaxInsts,      \* bound: instructions in a function
  MaxOperands    \* bound: operands of a call

VARIABLES
  funcs,       \* the functions of the module
  cur,         \* the number of the function that is being compiled
  phase,       \* what is done with it
  pos,         \* the instruction it is done with
  turn,        \* the operand of that instruction
  insts,       \* the instructions of the function (InterCode)
  created,     \* number of instructions created in it
  graph,       \* operands and users
  addr,        \* the addresses of values in memory
  maxDep,      \* size of the frame
  labelName,   \* the names of the labels
  alloc,       \* the register allocator
  realArgCount,
  deleted,     \* the instructions that were deleted again
  asm,         \* ARM instructions of the function
  output       \* those of the functions before

vars == << funcs, cur, phase, pos, turn, insts, created, graph, addr, maxDep,
           labelName, alloc, realArgCount, deleted, asm, output >>

RA == INSTANCE RegisterAllocator
        WITH Vals <- IRVals, maxUsableRegNum <- 11, crashed <- FALSE

Reg(n)           == Val("reg", NoFunc, n)

Func       == funcs[cur]
InstVal(i) == Val("inst", Func.name, i)
Local(i)   == Val("local", Func.name, i)

IRInst(op, id, target, void) == [op |-> op, id |-> id, target |-> target, void |-> void]
Move(id)    == IRInst("move", id, NullVal, TRUE)
ArgInst(id) == IRInst("arg", id, NullVal, TRUE)

HasResult(inst) == inst.op \in {"add", "sub", "call"} /\ ~inst.void

-----------------------------------------------------------------------------
ASSUME InputsAssumption == \A fns \in Inputs : IsModule(fns)
ASSUME MaxOperandsAssumption == MaxOperands \in Nat
ASSUME ValuesAssumption == NullVal \notin IRVals
(* The values there may be include the places that arguments are moved to. *)
ASSUME PlacesAssumption ==
  /\ \A n \in 0 .. 3 : Val("reg", NoFunc, n) \in IRVals
  /\ \A fns \in Inputs : \A i \in DOMAIN fns, k \in 5 .. MaxOperands :
       ~fns[i].builtin => Val("mem", fns[i].name, k) \in IRVals

-----------------------------------------------------------------------------
(* The use lists *)

OperandNum(g, v) == Len(g.uses[v])
OperandAt(g, v, k) == g.edge[g.uses[v][k]].usee

FreeUse(g) == CHOOSE u \in Uses : g.edge[u] = Freed /\ \A w \in 1 .. u - 1 : g.edge[w] # Freed

Operands(user, vals) == [k \in DOMAIN vals |-> [usee |-> vals[k], user |-> user]]

Link(g, e) == AddOperand(g, e.user, e.usee, FreeUse(g))

Connect(g, user, vals) == FoldLeft(Link, g, Operands(user, vals))

(* The graph as the IR generator leaves it: instructions were connected in *)
(* the order of their creation.                                            *)
ById(f, n) == f.code[CHOOSE i \in DOMAIN f.code : f.code[i].id = n]

AllOperands(f) == FlattenSeq([n \in DOMAIN f.code |-> Operands(Val("inst", f.name, n), ById(f, n).args)])

Connected(module) ==
  FoldLeft(Link, NewGraph(IRVals, Uses), FlattenSeq([i \in DOMAIN module |-> AllOperands(module[i])]))

Unstarted ==
  /\ cur = 0 /\ phase = "next" /\ pos = 0 /\ turn = 0
  /\ insts = << >> /\ created = 0
  /\ addr = [v \in IRVals |-> NoAddr] /\ maxDep = 0
  /\ labelName = << >>
  /\ alloc = RA!NewAllocator /\ realArgCount = 0
  /\ deleted = {} /\ asm = << >> /\ output = << >>

Init == funcs \in Inputs /\ graph = Connected(funcs) /\ Unstarted

-----------------------------------------------------------------------------
(* registerAllocation: the calls, then the frame *)

(* The function f becomes the current one; nothing is done for a built-in. *)
Begin(f) ==
  /\ IF f.builtin THEN UNCHANGED << phase, insts, created, pos >>
     ELSE /\ phase' = "calls" /\ created' = Len(f.code) /\ pos' = 1
          /\ insts' = [i \in DOMAIN f.code |->
                         LET inst == f.code[i] IN IRInst(inst.op, inst.id, inst.target, inst.void)]
  /\ UNCHANGED << funcs, turn, graph, addr, maxDep, labelName, alloc, realArgCount, deleted, asm, output >>

NextFunction ==
  /\ phase = "next" /\ cur < Len(funcs)
  /\ cur' = cur + 1
  /\ Begin(funcs[cur + 1])

Finish ==
  /\ phase = "next" /\ cur = Len(funcs)
  /\ phase' = "finished"
  /\ UNCHANGED << funcs, cur, pos, turn, insts, created, graph, addr, maxDep,
                  labelName, alloc, realArgCount, deleted, asm, output >>

Inserted(seq, i, new) == SubSeq(seq, 1, i - 1) \o new \o SubSeq(seq, i, Len(seq))

(* A move into the place of an argument, which becomes the operand.        *)
Passed(st, call, k, place) ==
  [st EXCEPT !.g = SetOperand(Connect(@, InstVal(st.id + 1), << place, OperandAt(@, call, k) >>),
                              call, k, place),
             !.moves = Append(@, Move(st.id + 1)), !.id = @ + 1]

(* Arguments from the fifth on go to the stack, the others to r0 to r3;    *)
(* the number of operands is asked for again at every turn.                *)
PassStack(st, call, k) ==
  LET place == Val("mem", Func.name, k)
  IN  IF k > OperandNum(st.g, call) THEN st
      ELSE [Passed(st, call, k, place) EXCEPT !.at = (place :> [base |-> SP, off |-> 4 * (k - 5)]) @@ @]

(* Wrong: the first argument goes to r1. *)
PassRegisterNext(st, call, k) ==
  IF k > OperandNum(st.g, call) THEN st ELSE Passed(st, call, k, Reg(k))

PassRegister(st, call, k) ==
  IF k > OperandNum(st.g, call) \/ RegId(OperandAt(st.g, call, k)) = k - 1 THEN st
  ELSE Passed(st, call, k, Reg(k - 1))

Passing(call) ==
  LET st0   == [g |-> graph, moves |-> << >>, at |-> addr, id |-> created]
      stack == FoldLeft(LAMBDA st, k : PassStack(st, call, k), st0, [j \in 1 .. MaxOperands - 4 |-> 4 + j])
  IN  FoldLeft(LAMBDA st, k : PassRegister(st, call, k), stack, << 1, 2, 3, 4 >>)

SkipInst ==
  /\ phase = "calls" /\ pos <= Len(insts) /\ insts[pos].op # "call"
  /\ pos' = pos + 1
  /\ UNCHANGED << funcs, cur, phase, turn, insts, created, graph, addr, maxDep,
                  labelName, alloc, realArgCount, deleted, asm, output >>

PassArguments ==
  /\ phase = "calls" /\ pos <= Len(insts) /\ insts[pos].op = "call"
  /\ \E passed \in {Passing(InstVal(insts[pos].id))} :
       /\ graph' = passed.g /\ addr' = passed.at /\ created' = passed.id
       /\ insts' = Inserted(insts, pos, passed.moves)
       /\ pos' = pos + Len(passed.moves)
  /\ phase' = "args" /\ turn' = 1
  /\ UNCHANGED << funcs, cur, maxDep, labelName, alloc, realArgCount, deleted, asm, output >>

MoreArguments == turn <= OperandNum(graph, InstVal(insts[pos].id))

(* One turn of the loop that puts an ARG in front of the call for every    *)
(* operand of the call.                                                    *)
MakeArg ==
  /\ phase = "args" /\ MoreArguments /\ Len(insts) < MaxInsts
  /\ created' = created + 1
  /\ graph' = Connect(graph, InstVal(created'), << OperandAt(graph, InstVal(insts[pos].id), turn) >>)
  /\ insts' = Inserted(insts, pos, << ArgInst(created') >>)
  /\ pos' = pos + 1 /\ turn' = turn + 1
  /\ UNCHANGED << funcs, cur, phase, addr, maxDep, labelName, alloc, realArgCount, deleted, asm, output >>

TakeResult ==
  /\ phase = "args" /\ ~MoreArguments
  /\ IF HasResult(insts[pos])
     THEN /\ created' = created + 1
          /\ graph' = Connect(graph, InstVal(created'), << InstVal(insts[pos].id), Reg(0) >>)
          /\ insts' = Inserted(insts, pos + 1, << Move(created') >>)
          /\ pos' = pos + 2
     ELSE pos' = pos + 1 /\ UNCHANGED << created, graph, insts >>
  /\ phase' = "calls"
  /\ UNCHANGED << funcs, cur, turn, addr, maxDep, labelName, alloc, realArgCount, deleted, asm, output >>

(* The values that live in the frame: the local variables, but for those   *)
(* that pass an argument on the stack, and the results of instructions.    *)
Temps   == {i \in DOMAIN insts : HasResult(insts[i])}
InFrame == {Local(i) : i \in 1 .. Func.vars} \cup {InstVal(insts[i].id) : i \in Temps}

(* Wrong: the temporaries start again at the bottom of the frame. *)
SlotAddressOverlapping(v) ==
  [base |-> FP, off |-> 4 * (IF v.kind = "local" THEN v.id - 1
                             ELSE Cardinality({i \in Temps : insts[i].id < v.id}))]

(* Slots in the order of declaration, then of the code: four bytes for an  *)
(* int; the size of void is -1, which is rounded up to no bytes at all.    *)
Sized(locals) == 4 * Cardinality(locals \ Func.voids)

SlotAddress(v) ==
  LET before(i) == {j \in Temps : j < i}
  IN  [base |-> FP,
       off  |-> IF v.kind = "local" THEN Sized(1 .. v.id - 1)
                ELSE Sized(1 .. Func.vars) + 4 * Cardinality(before(CHOOSE i \in Temps : insts[i].id = v.id))]

FrameSize == Sized(1 .. Func.vars) + 4 * Cardinality(Temps)

(* Wrong: every function counts its labels from zero. *)
LabelNamesLocal(labels) == [i \in labels |-> Cardinality({j \in labels : j < i})]

(* Labels are numbered through the whole module. *)
LabelNames(labels) ==
  [i \in labels |-> Cardinality(DOMAIN labelName) + Cardinality({j \in labels : j < i})]

AllocateStack ==
  /\ phase = "calls" /\ pos > Len(insts)
  /\ LET labels == {i \in DOMAIN insts : insts[i].op = "label"}
         named  == {InstVal(insts[i].id) : i \in labels}
         name   == LabelNames(labels)
     IN  /\ addr' = [v \in DOMAIN addr \cup InFrame |-> IF v \in InFrame THEN SlotAddress(v) ELSE addr[v]]
         /\ maxDep' = FrameSize
         /\ labelName' = [v \in DOMAIN labelName \cup named |->
                            IF v \in named THEN name[CHOOSE i \in labels : InstVal(insts[i].id) = v]
                            ELSE labelName[v]]
  /\ phase' = "select" /\ pos' = 1 /\ asm' = << >> /\ realArgCount' = 0
  /\ UNCHANGED << funcs, cur, turn, insts, created, graph, alloc, deleted, output >>

-----------------------------------------------------------------------------
(* Instruction selection: every handler is an operator on its state.       *)

Selection == [asm |-> asm, alloc |-> alloc, graph |-> graph, id |-> created, deleted |-> deleted, addr |-> addr]

Emit(s, code) == [s EXCEPT !.asm = @ \o code]

translate_assign(s, result, arg1) ==
  LET from == RegId(arg1)
      to   == RegId(result)
      t    == RA!Granted(s.alloc, NullVal, NoReg)
  IN  IF from # NoReg THEN Emit(s, store_var(s.addr, from, result, TMP))
      ELSE IF to # NoReg THEN Emit(s, load_var(s.addr, to, arg1))
      ELSE Emit([s EXCEPT !.alloc = RA!FreeReg(RA!Allocate(@, NullVal, NoReg), t)],
                load_var(s.addr, t, arg1) \o store_var(s.addr, t, result, TMP))

FreeAll(al, arg1, arg2, result) == RA!FreeVal(RA!FreeVal(RA!FreeVal(al, arg1), arg2), result)

(* A register that holds the value of v. *)
InRegister(s, v) ==
  IF RegId(v) # NoReg THEN [reg |-> RegId(v), s |-> s]
  ELSE LET r == RA!Granted(s.alloc, v, NoReg)
       IN  [reg |-> r, s |-> Emit([s EXCEPT !.alloc = RA!Allocate(@, v, NoReg)], load_var(s.addr, r, v))]

translate_two_operator(s, result, op) ==
  LET arg1  == OperandAt(s.graph, result, 1)
      arg2  == OperandAt(s.graph, result, 2)
      left  == InRegister(s, arg1)
      right == InRegister(left.s, arg2)
      r     == RA!Granted(right.s.alloc, result, NoReg)
      done  == Emit([right.s EXCEPT !.alloc = RA!Allocate(@, result, NoReg)],
                    << ArmInst(op, R(r), R(left.reg), R(right.reg)) >>
                      \o store_var(s.addr, r, result, TMP))
  IN  [done EXCEPT !.alloc = FreeAll(@, arg1, arg2, result)]

(* A move that exists while it is translated. *)
TempMove(s, result, arg) ==
  LET id == s.id + 1
      m  == [s EXCEPT !.id = id, !.graph = Connect(@, InstVal(id), << result, arg >>)]
  IN  [translate_assign(m, OperandAt(m.graph, InstVal(id), 1), OperandAt(m.graph, InstVal(id), 2))
         EXCEPT !.deleted = @ \cup {InstVal(id)}]

ClaimAll(al) == FoldLeft(RA!Claim, al, << 0, 1, 2, 3 >>)
FreeRegs(al) == FoldLeft(RA!FreeReg, al, << 0, 1, 2, 3 >>)

StackOperand(s, call, k) ==
  LET place == Val("mem", Func.name, k)
  IN  TempMove([s EXCEPT !.addr[place] = [base |-> SP, off |-> 4 * (k - 5)]], place, OperandAt(s.graph, call, k))

(* Wrong: the argument registers stay claimed after a call. *)
translate_call_keeping(s, call, inst) ==
  LET num == OperandNum(s.graph, call)
      claimed == IF num = 0 THEN s ELSE [s EXCEPT !.alloc = ClaimAll(@)]
      passed  == FoldLeft(LAMBDA t, k : TempMove(t, Reg(k - 1), OperandAt(t.graph, call, k)),
                          claimed, [k \in 1 .. Min({num, 4}) |-> k])
      called  == Emit(passed, << ArmInst("bl", Symbol(inst.target.func), Blank, Blank) >>)
  IN  IF HasResult(inst) THEN TempMove(called, call, Reg(0)) ELSE called

translate_call(s, call, inst) ==
  LET num     == OperandNum(s.graph, call)
      claimed == IF num = 0 THEN s ELSE [s EXCEPT !.alloc = ClaimAll(@)]
      stacked == FoldLeft(LAMBDA t, k : StackOperand(t, call, k), claimed, [j \in 1 .. Max({num - 4, 0}) |-> 4 + j])
      passed  == FoldLeft(LAMBDA t, k : TempMove(t, Reg(k - 1), OperandAt(t.graph, call, k)),
                          stacked, [k \in 1 .. Min({num, 4}) |-> k])
      called  == Emit(passed, << ArmInst("bl", Symbol(inst.target.func), Blank, Blank) >>)
      freed   == IF num = 0 THEN called ELSE [called EXCEPT !.alloc = FreeRegs(@)]
  IN  IF HasResult(inst) THEN TempMove(freed, call, Reg(0)) ELSE freed

(* Wrong: the link register is not saved around calls. *)
ProtectedRegsLeaf == << TMP, FP >>

ProtectedRegs == << TMP, FP >> \o (IF Func.existFuncCall THEN << LX >> ELSE << >>)

translate_entry(s) ==
  Emit(s, << ArmInst("push", List(ProtectedRegs), Blank, Blank) >>
            \o allocStack(maxDep, Func.maxFuncCallArgCnt, TMP))

translate_exit(s, exit) ==
  Emit(s, load_var(s.addr, 0, OperandAt(s.graph, exit, 1))
            \o << ArmInst("add", R(FP), R(FP), Imm(maxDep)), Mov(SP, FP),
                  ArmInst("pop", List(ProtectedRegs), Blank, Blank), ArmInst("bx", R(LX), Blank, Blank) >>)

Selecting(op) == phase = "select" /\ pos <= Len(insts) /\ insts[pos].op = op

This == InstVal(insts[pos].id)

(* The handler leaves a state s, and the selector goes on with the next.   *)
Select(selection) ==
  /\ \E s \in {selection} :
       /\ asm' = s.asm /\ alloc' = s.alloc /\ graph' = s.graph /\ created' = s.id
       /\ deleted' = s.deleted /\ addr' = s.addr
  /\ pos' = pos + 1
  /\ UNCHANGED << funcs, cur, phase, turn, insts, maxDep, labelName, output >>

SelectEntry == Selecting("entry") /\ Select(translate_entry(Selection)) /\ UNCHANGED realArgCount
SelectExit  == Selecting("exit") /\ Select(translate_exit(Selection, This)) /\ UNCHANGED realArgCount

SelectLabel ==
  /\ Selecting("label")
  /\ Select(Emit(Selection, << ArmInst(":", Label(labelName[This]), Blank, Blank) >>))
  /\ UNCHANGED realArgCount

SelectGoto ==
  /\ Selecting("goto")
  /\ Select(Emit(Selection, << ArmInst("b", Label(labelName[insts[pos].target]), Blank, Blank) >>))
  /\ UNCHANGED realArgCount

SelectAssign ==
  /\ Selecting("move")
  /\ Select(translate_assign(Selection, OperandAt(graph, This, 1), OperandAt(graph, This, 2)))
  /\ UNCHANGED realArgCount

SelectTwoOperator(op) ==
  Selecting(op) /\ Select(translate_two_operator(Selection, This, op)) /\ UNCHANGED realArgCount

SelectCall == Selecting("call") /\ Select(translate_call(Selection, This, insts[pos])) /\ realArgCount' = 0

(* An ARG emits nothing: it is counted, and checked with a message.        *)
SelectArg == Selecting("arg") /\ Select(Selection) /\ realArgCount' = realArgCount + 1

FinishFunction ==
  /\ phase = "select" /\ pos > Len(insts)
  /\ output' = output \o << ArmInst("func", Symbol(Func.name), Blank, Blank) >> \o deleteUsedLabel(asm)
  /\ phase' = "next"
  /\ funcs' = [funcs EXCEPT ![cur].code = insts]
  /\ UNCHANGED << cur, pos, turn, insts, created, graph, addr, maxDep,
                  labelName, alloc, realArgCount, deleted, asm >>

Next ==
  \/ NextFunction \/ Finish
  \/ SkipInst \/ PassArguments \/ MakeArg \/ TakeResult \/ AllocateStack
  \/ SelectEntry \/ SelectExit \/ SelectLabel \/ SelectGoto \/ SelectAssign
  \/ SelectTwoOperator("add") \/ SelectTwoOperator("sub") \/ SelectCall \/ SelectArg
  \/ FinishFunction

Spec == Init /\ [][Next]_vars

-----------------------------------------------------------------------------
(* Properties *)

(* No two variables or temporaries share a slot, and all the slots are     *)
(* inside the frame, so that neither the saved registers above nor the     *)
(* arguments below are overwritten.                                        *)
FrameSlotsDisjoint ==
  phase = "select" =>
    LET offsets == {addr[v].off : v \in InFrame}
    IN  /\ \A v \in InFrame : addr[v].base = FP
        /\ Cardinality(offsets) = Cardinality(InFrame)
        /\ \A o \in offsets : o % 4 = 0 /\ o + 4 <= maxDep

(* Between two instructions no register is in use, as everything lives in  *)
(* memory: a register that is not given back is lost for the module.       *)
AllocatorIdle == alloc.regBitmap = {} /\ alloc.regValues = << >>

(* r10, with which large offsets and the addresses of global variables are *)
(* formed while another register holds the value to store, is never handed *)
(* out; hence no register is ever taken from a value that still needs it.  *)
ScratchRegisterReserved == TMP \notin alloc.usedBitmap

(* An ARG stands for the register its argument was moved to, in order.     *)
ArgumentsInPlace ==
  Selecting("arg") /\ realArgCount < 4 => RegId(OperandAt(graph, This, 1)) = realArgCount

(* What the comment of registerAllocation says of r10: an immediate that   *)
(* is too large goes through it.  So the immediates that are written have  *)
(* an encoding: a byte, shifted by an even number of bits.                 *)
ImmediatesEncodable ==
  \A inst \in Range(asm) :
    inst.op \in {"add", "sub"} /\ inst.arg2.kind = "imm" =>
      \E byte \in 0..255, k \in 0..11 : inst.arg2.n = byte * 4^k

(* A label is defined once in the whole assembly file, and every branch    *)
(* finds its label there after the labels nobody needs were removed.       *)
BranchesResolved ==
  LET at(l) == {i \in DOMAIN output : IsLabel(output[i]) /\ output[i].result = l}
  IN  \A i \in DOMAIN output :
        (IsLabel(output[i]) \/ output[i].op = "b") => Cardinality(at(output[i].result)) = 1

(* What the message of translate_call says: there is an ARG for every      *)
(* argument of the call, and no more.                                      *)
ArgsMatchCall ==
  phase = "args" =>
    \E i \in DOMAIN Func.code : Func.code[i].id = insts[pos].id /\ turn - 1 <= Len(Func.code[i].args)
=============================================================================
