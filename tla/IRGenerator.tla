---------------------------- MODULE IRGenerator ----------------------------
(***************************************************************************)
(* The translation of the abstract syntax tree into linear IR              *)
(* (ir/Generator/IRGenerator.cpp, with InterCode of ir/IRCode.cpp).        *)
(*                                                                         *)
(* The generator is a recursive descent over the tree.  A frame is the     *)
(* activation of one handler: its node, and for every son visited so far   *)
(* what the visit left in it, its value (ast_node::val) and the code that  *)
(* computes it (ast_node::blockInsts).  A handler that has work to do      *)
(* before it visits its sons has an action for that, and each has one for  *)
(* what it does after them.                                                *)
(***************************************************************************)
EXTENDS Integers, Sequences, SequencesExt

CONSTANTS Names, FuncNames, NoFunc, Literals, MaxScopes, MaxVars,
          Programs,   \* the trees to translate
          Nodes       \* and all their nodes

VARIABLES
  module,   \* the symbol table
  program,  \* the tree being translated
  frames,   \* the handlers being executed, innermost last
  ircode,   \* per function, its code (Function::getInterCode)
  info,     \* per function, its other attributes
  created,  \* number of instructions created in the current function
  status    \* "running", or the outcome: "ok", "failed", "crashed"

Table == INSTANCE SymbolTable WITH Sizes <- {4, -1}

vars == << module, program, frames, ircode, info, created, status >>

-----------------------------------------------------------------------------
(* Trees *)

Node(op, name, num, sons) == [op |-> op, name |-> name, num |-> num, sons |-> sons]

Unit(sons)       == Node("unit", "", 0, sons)
FuncDef(f, body) == Node("func", f, 0, body)
Block(body)      == Node("block", "", 0, body)
DeclStmt(decls)  == Node("decl", "", 0, decls)
VarDecl(n)       == Node("vardecl", n, Table!IntSize, << >>)
VoidDecl(n)      == Node("vardecl", n, Table!VoidSize, << >>)
Assign(lval, e)  == Node("assign", "", 0, << lval, e >>)
Return(e)        == Node("return", "", 0, << e >>)
Binary(op, l, r) == Node(op, "", 0, << l, r >>)
Call(f, args)    == Node("call", f, 0, args)
VarId(n)         == Node("var", n, 0, << >>)
Uint(i)          == Node("uint", "", i, << >>)

(* What the parsers build (AST.cpp): a unit holds functions and            *)
(* declarations, a declaration holds variables, in the trees of Bison of   *)
(* type void after the first, and operands are expressions.  An assignment *)
(* may lack its right side (x = ;), a return its operand.                  *)
Identifiers == Names \cup Table!Functions \cup {""}
Expressions == {"add", "sub", "call", "params", "var", "uint"}

Trees(op, name, sons) == [op : op, name : name, num : Int, sons : sons]
Having(op, trees)     == {t \in trees : t.op \in op}

TreesOver(trees) ==
  LET operands == Having(Expressions, trees) IN
       Trees({"unit"}, {""}, Seq(Having({"func", "decl"}, trees)))
  \cup Trees({"func"}, Table!Functions, Seq(trees))
  \cup Trees({"decl"}, {""}, Seq(Having({"vardecl"}, trees)))
  \cup Trees({"assign"}, {""}, {s \in Seq(operands) : Len(s) <= 2})
  \cup Trees({"add", "sub"}, {""}, {s \in Seq(operands) : Len(s) = 2})
  \cup Trees({"return", "call"}, Identifiers, Seq(operands))
  \cup Trees({"block", "params", "vardecl", "var", "uint"}, Identifiers, Seq(trees))

ASSUME ProgramsAssumption == Programs \subseteq Having({"unit"}, Nodes)
ASSUME NodesAssumption    == Nodes \subseteq TreesOver(Nodes)
ASSUME NullAssumption     == NoFunc \notin Table!Functions

-----------------------------------------------------------------------------
(* Instructions are objects; their number tells them apart, in the order   *)
(* they are created in their function.  An instruction is also the value   *)
(* it computes.                                                            *)

Inst(op, id, args, target) == [op |-> op, id |-> id, args |-> args, target |-> target]
InstVal(f, id)             == Table!Value("inst", f, id)
ConstInt(i)                == Table!Value("const", NoFunc, i)
Null                       == Table!NoVal

Result(val, code) == [val |-> val, code |-> code]
Frame(node)       == [node |-> node, sons |-> << >>]

Top     == Last(frames)
Pending == Len(Top.sons) < Len(Top.node.sons)
Current == Top.node.sons[Len(Top.sons) + 1]

(* ir_visit_ast_node dispatches on the operator of the node.               *)
Visiting(op)  == status = "running" /\ Pending /\ Current.op = op
Finishing(op) == status = "running" /\ ~Pending /\ Top.node.op = op

Push == frames' = Append(frames, Frame(Current))

Leaf(val) == frames' = [frames EXCEPT ![Len(frames)].sons = Append(@, Result(val, << >>))]

Pop(val, code) ==
  frames' = [Front(frames) EXCEPT ![Len(frames) - 1].sons = Append(@, Result(val, code))]

(* A handler that returns false makes every caller return false, and none  *)
(* of them undoes anything.                                                *)
Stop(outcome) ==
  /\ status' = outcome
  /\ UNCHANGED << module, program, frames, ircode, info, created >>

(* Creating an instruction registers it with each operand it is given      *)
(* (User::addOperand), which crashes on a null one.                        *)
NullAmong(vals) == \E i \in DOMAIN vals : vals[i] = Null

Code(sons) == FlattenSeq([i \in DOMAIN sons |-> sons[i].code])
Vals(sons) == [i \in DOMAIN sons |-> sons[i].val]

Func == module.currentFunc

(* Wrong: the instruction is put in front of the code of its operands. *)
EmitFirst(op, code, target) ==
  /\ created' = created + 1
  /\ Pop(InstVal(Func, created'), << Inst(op, created', Vals(Top.sons), target) >> \o code)
  /\ UNCHANGED << module, program, ircode, info, status >>

(* A new instruction on the values of the sons, after the code given.      *)
Emit(op, code, target) ==
  /\ created' = created + 1
  /\ Pop(InstVal(Func, created'), code \o << Inst(op, created', Vals(Top.sons), target) >>)
  /\ UNCHANGED << module, program, ircode, info, status >>

-----------------------------------------------------------------------------
(* Functions and blocks *)

(* Wrong: only nesting is refused. *)
CannotDefineNested(f) == Func # NoFunc

CannotDefine(f) == Func # NoFunc \/ Table!FindFunction(module, f)

VisitFunction ==
  /\ Visiting("func")
  /\ LET name == Current.name IN
     IF CannotDefine(name)
     THEN Stop("failed")
     ELSE /\ module'  = Table!BeginFunction(module, name)
          /\ ircode'  = Table!Insert(ircode, name, << Inst("entry", 1, << >>, Null) >>)
          /\ info'    = Table!Insert(info, name,
                          [exitLabel          |-> InstVal(name, 2),
                           returnValue        |-> Table!FindCurrentScope(module', Table!Anon),
                           existFuncCall      |-> FALSE,
                           maxFuncCallArgCnt  |-> 0])
          /\ created' = 2
          /\ Push
          /\ UNCHANGED << program, status >>

(* The body is a block that opens no scope of its own. *)
FinishFunction ==
  /\ Finishing("func")
  /\ LET label == Inst("label", 2, << >>, Null)
         exit  == Inst("exit", created + 1, << info[Func].returnValue >>, Null)
     IN  ircode' = [ircode EXCEPT ![Func] = @ \o Code(Top.sons) \o << label, exit >>]
  /\ created' = created + 1
  /\ module' = Table!EndFunction(module)
  /\ Pop(Null, << >>)
  /\ UNCHANGED << program, info, status >>

VisitBlock ==
  /\ Visiting("block")
  /\ module' = Table!EnterScope(module)
  /\ Push
  /\ UNCHANGED << program, ircode, info, created, status >>

(* Wrong: the scope stays open. *)
FinishBlockOpen ==
  /\ Finishing("block")
  /\ Pop(Null, Code(Top.sons))
  /\ UNCHANGED << module, program, ircode, info, created, status >>

FinishBlock ==
  /\ Finishing("block")
  /\ module' = Table!LeaveScope(module)
  /\ Pop(Null, Code(Top.sons))
  /\ UNCHANGED << program, ircode, info, created, status >>

FinishUnit ==
  /\ Finishing("unit")
  /\ status' = "ok"
  /\ UNCHANGED << module, program, frames, ircode, info, created >>

-----------------------------------------------------------------------------
(* Declarations: whether the symbol table takes the name is not looked at. *)

VisitVarDecl ==
  /\ Visiting("vardecl")
  /\ module' = Table!NewVarValue(module, Current.name, Current.num)
  /\ Leaf(Null)
  /\ UNCHANGED << program, ircode, info, created, status >>

FinishDecl ==
  /\ Finishing("decl")
  /\ IF Top.sons = << >> THEN Stop("failed")
     ELSE /\ Pop(Null, << >>)
          /\ UNCHANGED << module, program, ircode, info, created, status >>

-----------------------------------------------------------------------------
(* Statements and expressions *)

(* These handlers begin by visiting their sons. *)
VisitOperator ==
  /\ \E op \in {"decl", "assign", "return", "add", "sub"} : Visiting(op)
  /\ Push
  /\ UNCHANGED << module, program, ircode, info, created, status >>

VisitVarId ==
  /\ Visiting("var")
  /\ Leaf(Table!FindVarValue(module, Current.name))
  /\ UNCHANGED << module, program, ircode, info, created, status >>

VisitUint ==
  /\ Visiting("uint")
  /\ module' = Table!NewConstInt(module, Current.num)
  /\ Leaf(ConstInt(Current.num))
  /\ UNCHANGED << program, ircode, info, created, status >>

(* Wrong: the visit is tried again and again. *)
VisitUnknownAgain == Visiting("params") /\ UNCHANGED vars

(* ir_default: a list of arguments that is not under a call. *)
VisitUnknown ==
  /\ Visiting("params")
  /\ Leaf(Null)
  /\ UNCHANGED << module, program, ircode, info, created, status >>

(* Wrong: the code of the left operand is left out, or put last. *)
FinishBinaryRightOnly(op) == Finishing(op) /\ ~NullAmong(Vals(Top.sons)) /\ Emit(op, Top.sons[2].code, Null)
FinishBinaryRightFirst(op) == Finishing(op) /\ ~NullAmong(Vals(Top.sons)) /\ Emit(op, Code(Reverse(Top.sons)), Null)

FinishBinary(op) ==
  /\ Finishing(op)
  /\ IF NullAmong(Vals(Top.sons)) THEN Stop("crashed") ELSE Emit(op, Code(Top.sons), Null)

(* An assignment without its right side takes what is behind the one son   *)
(* for a node.                                                             *)
FinishAssign ==
  /\ Finishing("assign")
  /\ IF Len(Top.sons) < 2 THEN \E outcome \in {"failed", "crashed"} : Stop(outcome)
     ELSE IF NullAmong(Vals(Top.sons)) THEN Stop("crashed") ELSE Emit("move", Code(Reverse(Top.sons)), Null)

(* Wrong: the jump comes before the move. *)
ReturnCodeSwapped(val) ==
  << Inst("goto", created + 1, << >>, info[Func].exitLabel),
     Inst("move", created + 2, << info[Func].returnValue, val >>, Null) >>

ReturnCode(val) ==
  << Inst("move", created + 1, << info[Func].returnValue, val >>, Null),
     Inst("goto", created + 2, << >>, info[Func].exitLabel) >>

(* A return without an expression reads the missing son. *)
FinishReturn ==
  /\ Finishing("return")
  /\ IF Top.sons = << >> \/ NullAmong(Vals(Top.sons)) THEN Stop("crashed")
     ELSE /\ created' = created + 2
          /\ Pop(Top.sons[1].val, Code(Top.sons) \o ReturnCode(Top.sons[1].val))
          /\ UNCHANGED << module, program, ircode, info, status >>

(* Wrong: the last call counts, not the one with most arguments. *)
CountLastCall(attrs, n) == [attrs EXCEPT !.existFuncCall = TRUE, !.maxFuncCallArgCnt = n]

CountCall(attrs, n) == [attrs EXCEPT !.existFuncCall = TRUE, !.maxFuncCallArgCnt = Max({@, n})]

VisitCall ==
  /\ Visiting("call")
  /\ IF ~Table!FindFunction(module, Current.name) THEN Stop("failed")
     ELSE /\ info' = [info EXCEPT ![Func] = CountCall(@, Len(Current.sons))]
          /\ Push
          /\ UNCHANGED << module, program, ircode, created, status >>

(* Wrong: arguments too many are not noticed. *)
TooFewArgs(callee, args) == Len(args) < module.funcMap[callee].params

WrongArgs(callee, args) == Len(args) # module.funcMap[callee].params

FinishCall ==
  /\ Finishing("call")
  /\ IF WrongArgs(Top.node.name, Top.sons) THEN Stop("failed")
     ELSE IF NullAmong(Vals(Top.sons)) THEN Stop("crashed")
     ELSE Emit("call", Code(Top.sons), Table!Value("func", Top.node.name, 0))

-----------------------------------------------------------------------------
(* run: the root is the compile unit. *)
Init ==
  /\ program \in Programs
  /\ module  = Table!NewModule
  /\ frames  = << Frame(program) >>
  /\ ircode  = [f \in {} |-> << >>]
  /\ info    = [f \in {} |-> << >>]
  /\ created = 0
  /\ status  = "running"

Next ==
  \/ VisitFunction \/ FinishFunction \/ VisitBlock \/ FinishBlock \/ FinishUnit
  \/ VisitVarDecl \/ FinishDecl
  \/ VisitOperator \/ VisitVarId \/ VisitUint \/ VisitUnknown
  \/ FinishBinary("add") \/ FinishBinary("sub")
  \/ FinishAssign \/ FinishReturn \/ VisitCall \/ FinishCall

(* run is one call on one thread: it goes on until it returns.             *)
Spec == Init /\ [][Next]_vars /\ WF_vars(Next)

-----------------------------------------------------------------------------
(* What it delivers: the functions as Module::getFunctionList gives them.  *)

IsVoid(inst) == inst.op = "call" /\ module.funcMap[inst.target.func].isVoid

Lowered(code) ==
  [i \in DOMAIN code |-> [op |-> code[i].op, id |-> code[i].id, args |-> code[i].args,
                          target |-> code[i].target, void |-> IsVoid(code[i])]]

(* The variables of type void. *)
Voids(variables) == {i \in DOMAIN variables : variables[i].size = Table!VoidSize}

Delivered(fn) ==
  IF fn \in Table!Builtins
  THEN [name |-> fn, builtin |-> TRUE, vars |-> 0, voids |-> {}, code |-> << >>,
        existFuncCall |-> FALSE, maxFuncCallArgCnt |-> 0]
  ELSE [name |-> fn, builtin |-> FALSE,
        vars |-> Len(module.varsVector[fn]), voids |-> Voids(module.varsVector[fn]), code |-> Lowered(ircode[fn]),
        existFuncCall |-> info[fn].existFuncCall, maxFuncCallArgCnt |-> info[fn].maxFuncCallArgCnt]

FunctionList == [i \in DOMAIN module.funcVector |-> Delivered(module.funcVector[i])]

-----------------------------------------------------------------------------
(* Properties *)

Ops      == {"entry", "label", "exit", "goto", "move", "add", "sub", "call"}
Computes == {"add", "sub", "call"}     \* the instructions used as operands

Compiled == DOMAIN ircode \ {Func}     \* the functions whose code is complete

(* The type invariant: only the innermost handler may have visited all its *)
(* sons, and there is code for the functions of the table that were        *)
(* defined by the program, the current one included.                       *)
TypeOK ==
  /\ status \in {"running", "ok", "failed", "crashed"}
  /\ created \in Nat
  /\ DOMAIN ircode = DOMAIN info
  /\ DOMAIN ircode = DOMAIN module.funcMap \ Table!Builtins
  /\ \A f \in DOMAIN ircode : \A i \in DOMAIN ircode[f] : ircode[f][i].op \in Ops
  /\ frames # << >> /\ frames[1].node = program
  /\ \A i \in 1..Len(frames) - 1 :
       frames[i].node.sons[Len(frames[i].sons) + 1] = frames[i + 1].node

(* Every step of the generator is a legal use of the symbol table: scopes  *)
(* are closed in the order they were opened, on every path that goes on.   *)
UsesSymbolTable == Table!Spec

(* The code of the current function that is still in nodes.                *)
InFlight == FlattenSeq([i \in DOMAIN frames |-> Code(frames[i].sons)])

EachOnce(code, ids) ==
  Len(code) = Cardinality(ids) /\ {code[i].id : i \in DOMAIN code} = ids

(* No instruction is lost on its way up the tree, and none is taken twice  *)
(* (InterCode::Delete would free it twice): the code of the current        *)
(* function, with all that is still in nodes, holds every instruction that *)
(* was created, each once, but for the exit label that is put in last.     *)
NoInstructionLost ==
  /\ Func # NoFunc => EachOnce(ircode[Func] \o InFlight, (1..created) \ {2})
  /\ Func = NoFunc => InFlight = << >>
  /\ \A f \in Compiled : EachOnce(ircode[f], 1..Len(ircode[f]))

(* Whether the i-th instruction of f may use v.                            *)
Available(v, f, i) ==
  CASE v.kind = "inst"   -> v.func = f /\ \E j \in 1..i - 1 : ircode[f][j].id = v.id /\ ircode[f][j].op \in Computes
    [] v.kind = "local"  -> v.func = f /\ v.id \in DOMAIN module.varsVector[f]
    [] v.kind = "global" -> v.id \in DOMAIN module.globals
    [] v.kind = "const"  -> v.id \in module.constInts
    [] OTHER             -> FALSE

(* An operand is there when it is used: a temporary was computed before,   *)
(* by this function; a local variable belongs to this function; a global   *)
(* variable and a constant are registered in the module.                   *)
OperandsAvailable ==
  \A f \in Compiled : \A i \in DOMAIN ircode[f] : \A k \in DOMAIN ircode[f][i].args :
    Available(ircode[f][i].args[k], f, i)

(* A function has one entry and one exit.  Every return stores to the slot *)
(* that the exit reads and jumps to the one label in front of the exit.    *)
OneExit ==
  \A f \in Compiled :
    LET code == ircode[f]
        last == Len(code)
        At(op) == {i \in DOMAIN code : code[i].op = op}
    IN  /\ At("entry") = {1} /\ At("label") = {last - 1} /\ At("exit") = {last}
        /\ \A i \in At("goto") :
             /\ code[i].target = InstVal(f, code[last - 1].id)
             /\ code[i - 1].op = "move" /\ code[i - 1].args[1] = code[last].args[1]

(* The frame of a function is laid out from attributes that were set while *)
(* its calls were visited, before it was known whether they are legal: in  *)
(* a compiled function they say what its code says.                        *)
FrameAttributesMatchCode ==
  \A f \in Compiled :
    LET calls == {i \in DOMAIN ircode[f] : ircode[f][i].op = "call"}
    IN  /\ info[f].existFuncCall <=> calls # {}
        /\ info[f].maxFuncCallArgCnt = Max({0} \cup {Len(ircode[f][i].args) : i \in calls})

(* Every program is translated or refused.                                 *)
Terminates == <>(status # "running")
=============================================================================
