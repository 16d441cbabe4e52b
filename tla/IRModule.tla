------------------------------ MODULE IRModule ------------------------------
(***************************************************************************)
(* A module of linear IR (symboltable/Module, ir/Function, ir/Instruction) *)
(* as the IR generator delivers it and the back end takes it: a sequence   *)
(* of functions, each with the sequence of its instructions.               *)
(***************************************************************************)
EXTENDS Integers, Sequences, SequencesExt

CONSTANT IRVals    \* the values there may be

Val(kind, f, id) == [kind |-> kind, func |-> f, id |-> id]

(* The instructions of a function are numbered in the order of their       *)
(* creation, and use what was created before them; one of them is the      *)
(* label in front of the exit, to which the jumps lead.                    *)
IsInst(inst, fn) ==
  /\ inst \in [op : {"entry", "label", "exit", "goto", "move", "add", "sub", "call"}, id : 1 .. Len(fn.code),
               args : Seq(IRVals), target : {inst.target}, void : BOOLEAN]
  /\ \A k \in DOMAIN inst.args :
       inst.args[k].kind = "inst" => inst.args[k].func = fn.name /\ inst.args[k].id \in 1 .. inst.id - 1
  /\ Val("inst", fn.name, inst.id) \in IRVals
  /\ inst.op \in {"add", "sub"} => Len(inst.args) = 2

ExitLabel(code, name, k) ==
  /\ \A i \in DOMAIN code : code[i].op = "label" <=> i = k
  /\ \A i \in DOMAIN code : code[i].op = "goto" => code[i].target = Val("inst", name, code[k].id)

IsFunction(fn) ==
  /\ fn \in [name : {fn.name}, builtin : BOOLEAN, vars : Nat, voids : SUBSET Nat, code : Seq(Range(fn.code)),
             existFuncCall : BOOLEAN, maxFuncCallArgCnt : Nat]
  /\ \A i \in DOMAIN fn.code : IsInst(fn.code[i], fn)
  /\ \A i, j \in DOMAIN fn.code : fn.code[i].id = fn.code[j].id => i = j
  /\ \A n \in DOMAIN fn.code : \E i \in DOMAIN fn.code : fn.code[i].id = n
  /\ ~fn.builtin => \E k \in DOMAIN fn.code : ExitLabel(fn.code, fn.name, k)

IsModule(fns) ==
  /\ fns \in Seq(Range(fns)) /\ \A i \in DOMAIN fns : IsFunction(fns[i])
  /\ \A i, j \in DOMAIN fns : fns[i].name = fns[j].name => i = j
=============================================================================
