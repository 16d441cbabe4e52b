------------------------------ MODULE Compiler ------------------------------
(***************************************************************************)
(* The way of a program through the compiler (compile() in main.cpp): the  *)
(* IR generator makes the module, the ARM32 code generator the assembly,   *)
(* and Module::Delete releases the IR.  The first two are IRGenerator and  *)
(* CodeGenerator, whose steps these are.                                   *)
(***************************************************************************)
EXTENDS MiniC

CONSTANTS Freed, NullVal, Nobody, IRVals, Uses, MaxInsts, MaxOperands, WordBits

VARIABLES
  funcs, cur, phase, pos, turn, insts, instNo, graph, addr, maxDep, labelName,
  alloc, realArgCount, deleted, asm, output,    \* of the code generator
  stage,       \* "front", "back", then "released"
  fault        \* a deleted object was accessed

backVars == << funcs, cur, phase, pos, turn, insts, instNo, graph, addr, maxDep, labelName,
               alloc, realArgCount, deleted, asm, output >>

allVars == << vars, backVars, stage, fault >>

Back == INSTANCE CodeGenerator WITH created <- instNo, Inputs <- {}

-----------------------------------------------------------------------------
CompileInit ==
  /\ Init
  /\ funcs = << >> /\ graph = Back!NewGraph(IRVals, Uses) /\ Back!Unstarted
  /\ stage = "front" /\ fault = FALSE

GenerateIR == stage = "front" /\ Next /\ UNCHANGED << backVars, stage, fault >>

(* A program that was refused goes no further. *)
StartCodeGenerator ==
  /\ stage = "front" /\ status = "ok"
  /\ funcs' = FunctionList
  /\ graph' = Back!Connected(FunctionList)
  /\ stage' = "back"
  /\ UNCHANGED << vars, cur, phase, pos, turn, insts, instNo, addr, maxDep, labelName,
                  alloc, realArgCount, deleted, asm, output, fault >>

GenerateCode == stage = "back" /\ Back!Next /\ UNCHANGED << vars, stage, fault >>

-----------------------------------------------------------------------------
(* Module::Delete: the operands of all the instructions of a function are  *)
(* cleared (InterCode::Delete), then the instructions are deleted.         *)
Clear(st, val) ==
  LET Unlink(s, u) ==
        [g     |-> Back!Drop(s.g, u),
         fault |-> s.fault \/ {s.g.edge[u].usee, s.g.edge[u].user} \cap deleted # {}]
  IN  FoldLeft(Unlink, st, st.g.uses[val])

ClearFunction(st, f) ==
  FoldLeft(LAMBDA s, inst : Clear(s, Table!Value("inst", f.name, inst.id)), st, f.code)

(* Wrong: the first function is overlooked. *)
DeleteModuleTail ==
  /\ stage = "back" /\ phase = "finished"
  /\ \E st \in {FoldLeft(ClearFunction, [g |-> graph, fault |-> FALSE], Tail(Tail(Tail(funcs))))} :
       graph' = st.g /\ fault' = st.fault
  /\ stage' = "released"
  /\ UNCHANGED << vars, funcs, cur, phase, pos, turn, insts, instNo, addr, maxDep, labelName,
                  alloc, realArgCount, deleted, asm, output >>

DeleteModule ==
  /\ stage = "back" /\ phase = "finished"
  /\ \E st \in {FoldLeft(ClearFunction, [g |-> graph, fault |-> FALSE], funcs)} :
       graph' = st.g /\ fault' = st.fault
  /\ stage' = "released"
  /\ UNCHANGED << vars, funcs, cur, phase, pos, turn, insts, instNo, addr, maxDep, labelName,
                  alloc, realArgCount, deleted, asm, output >>

CompileNext == GenerateIR \/ StartCodeGenerator \/ GenerateCode \/ DeleteModule

CompileSpec == CompileInit /\ [][CompileNext]_allVars

-----------------------------------------------------------------------------
(* Properties *)

(* When the module is deleted, the edges between its instructions and      *)
(* their operands are freed, those of all functions: only the edges of     *)
(* moves that were deleted before can be left.                             *)
AllReleased ==
  stage = "released" =>
    \A u \in Uses : graph.edge[u] # Freed => graph.edge[u].user \in deleted

(* What the comment in InterCode::Delete says: an instruction is deleted   *)
(* only after its operands are cleared, so that no edge leads to one that  *)
(* is gone.                                                                *)
NoUseAfterFree == ~fault
=============================================================================
