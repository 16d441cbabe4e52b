---------------------------- MODULE SymbolTable ----------------------------
(***************************************************************************)
(* The symbol table of the compiler: class Module with its ScopeStack      *)
(* (symboltable/), and the list of local variables each Function keeps     *)
(* (ir/Function.cpp).                                                      *)
(*                                                                         *)
(* The table is one record.  Every method is an operator that takes the    *)
(* table and returns the table after the call, so that a caller which      *)
(* makes several calls in one handler composes them.  The actions at the   *)
(* end are those callers: the handlers of the IR generator, which is the   *)
(* only client that changes the table.                                     *)
(***************************************************************************)
EXTENDS Integers, Sequences

CONSTANTS
  Names,      \* the identifiers a program declares variables with
  FuncNames,  \* the identifiers a program defines functions with
  NoFunc,     \* the null Function pointer
  Literals,   \* the integer literals a program is written with
  Sizes,      \* the sizes of the types a variable is declared with
  MaxScopes,  \* bound: nesting depth of scopes, the global one included
  MaxVars     \* bound: variables created globally, and in each function

Anon     == ""                     \* the empty name of the return-value slot
Builtins == {"putint", "getint"}

ASSUME NamesAssumption == Anon \notin Names /\ NoFunc \notin FuncNames \cup Builtins
ASSUME BoundAssumption == MaxScopes \in Nat /\ MaxVars \in Nat
ASSUME LiteralsAssumption == Literals \subseteq Int
ASSUME SizesAssumption == Sizes \subseteq Int

Functions == FuncNames \cup Builtins

(* Type::getSize: int has four bytes; void, which the Bison parser gives   *)
(* to the second and later variables of a declaration, has the default.    *)
IntSize  == 4
VoidSize == -1

-----------------------------------------------------------------------------
(* A Value is an object, so only its identity counts: the i-th variable of *)
(* function f, the i-th global variable, the integer constant i, or the    *)
(* i-th value computed in f by an instruction.  NoVal is the null pointer. *)

Value(kind, f, i) == [kind |-> kind, func |-> f, id |-> i]
NoVal             == Value("null", NoFunc, 0)
LocalVar(f, i)    == Value("local", f, i)
GlobalVar(i)      == Value("global", NoFunc, i)

(* unordered_map::insert and emplace leave the entry of a known key alone. *)
Insert(map, key, val) ==
  [k \in DOMAIN map \cup {key} |-> IF k \in DOMAIN map THEN map[k] ELSE val]

-----------------------------------------------------------------------------
(* ScopeStack *)

NoEntries == [n \in {} |-> NoVal]

ScopeLevel(st)   == Len(st.valueStack) - 1     \* getCurrentScopeLevel
CurrentScope(st) == st.valueStack[Len(st.valueStack)]

EnterScope(st) == [st EXCEPT !.valueStack = Append(@, NoEntries)]
LeaveScope(st) == [st EXCEPT !.valueStack = SubSeq(@, 1, Len(@) - 1)]

(* Wrong: the outermost scope takes the name. *)
InsertValueOutermost(st, name, val) == [st EXCEPT !.valueStack[1] = Insert(@, name, val)]

InsertValue(st, name, val) ==
  [st EXCEPT !.valueStack[Len(st.valueStack)] = Insert(@, name, val)]

FindCurrentScope(st, name) ==
  IF name \in DOMAIN CurrentScope(st) THEN CurrentScope(st)[name] ELSE NoVal

(* The search from the top of the stack stops at the first scope that has  *)
(* the name.                                                               *)
ScopesWith(stack, name)  == {i \in 1..Len(stack) : name \in DOMAIN stack[i]}
OutermostInstead(scopes) == CHOOSE i \in scopes : \A j \in scopes : i <= j   \* wrong
Innermost(scopes)        == CHOOSE i \in scopes : \A j \in scopes : j <= i

FindAllScope(stack, name) ==
  LET scopes == ScopesWith(stack, name)
  IN  IF scopes = {} THEN NoVal ELSE stack[Innermost(scopes)][name]

-----------------------------------------------------------------------------
(* Module *)

(* Wrong: only the function defined last is found. *)
FindLastFunction(st, f) == st.funcVector # << >> /\ st.funcVector[Len(st.funcVector)] = f

FindFunction(st, f) == f \in DOMAIN st.funcMap

NewFunction(st, f, signature) ==
  IF FindFunction(st, f)
  THEN st
  ELSE [st EXCEPT !.funcMap    = Insert(@, f, signature),
                  !.funcVector = Append(@, f),
                  !.varsVector = Insert(@, f, << >>)]

SetCurrentFunction(st, f) == [st EXCEPT !.currentFunc = f]

NewConstInt(st, i) == [st EXCEPT !.constInts = @ \cup {i}]

(* newVarValue returns nullptr, and creates nothing, when the name is      *)
(* already in the current scope or when a global variable has no name.     *)
Rejected(st, name) ==
  IF name # Anon THEN FindCurrentScope(st, name) # NoVal
                 ELSE st.currentFunc = NoFunc

NewLocalVarValue(st, name, level, size) ==
  [st EXCEPT !.varsVector[st.currentFunc] = Append(@, [name |-> name, level |-> level, size |-> size])]

NewGlobalVariable(st, name) == [st EXCEPT !.globals = Append(@, name)]

FindVarValue(st, name) == FindAllScope(st.valueStack, name)

(* Wrong: an inner declaration reuses the variable of an outer one. *)
NewVarValueReusing(st, name, size) ==
  LET outer == FindVarValue(st, name)
      new   == LocalVar(st.currentFunc, Len(st.varsVector[st.currentFunc]) + 1)
  IN  IF Rejected(st, name) \/ st.currentFunc = NoFunc THEN st
      ELSE IF outer # NoVal THEN InsertValue(st, name, outer)
      ELSE InsertValue(NewLocalVarValue(st, name, ScopeLevel(st), size), name, new)

NewVarValue(st, name, size) ==
  IF Rejected(st, name) THEN st
  ELSE IF st.currentFunc # NoFunc
  THEN LET level == IF name = Anon THEN 1 ELSE ScopeLevel(st)
           new   == LocalVar(st.currentFunc, Len(st.varsVector[st.currentFunc]) + 1)
       IN  InsertValue(NewLocalVarValue(st, name, level, size), name, new)
  ELSE InsertValue(NewGlobalVariable(st, name), name, GlobalVar(Len(st.globals) + 1))

Signature(params, isVoid) == [params |-> params, isVoid |-> isVoid]

(* The constructor opens the global scope and enters the two built-in      *)
(* functions of the language.                                              *)
EmptyModule == [valueStack |-> << >>, currentFunc |-> NoFunc,
                funcMap |-> [f \in {} |-> Signature(0, FALSE)], funcVector |-> << >>,
                varsVector |-> [f \in {} |-> << >>], globals |-> << >>, constInts |-> {}]

NewModule ==
  NewFunction(NewFunction(EnterScope(EmptyModule), "putint", Signature(1, TRUE)),
              "getint", Signature(0, FALSE))

-----------------------------------------------------------------------------
(* The callers, as table transformers used by the IR generator. *)

(* ir_function_define, up to the function body. *)
BeginFunction(st, f) ==
  NewVarValue(EnterScope(SetCurrentFunction(NewFunction(st, f, Signature(0, FALSE)), f)), Anon, IntSize)

(* Wrong: the current function stays set; or the body closes the scope too. *)
EndFunctionStillCurrent(st) == LeaveScope(st)
EndFunctionTwice(st)        == LeaveScope(LeaveScope(SetCurrentFunction(st, NoFunc)))

(* ir_function_define, after the function body. *)
EndFunction(st) == LeaveScope(SetCurrentFunction(st, NoFunc))

VARIABLE module

vars == << module >>

Init == module = NewModule

DefineFunction(f) ==
  /\ module.currentFunc = NoFunc
  /\ ~FindFunction(module, f)
  /\ module' = BeginFunction(module, f)

FinishFunction ==
  /\ module.currentFunc # NoFunc
  /\ ScopeLevel(module) = 1
  /\ module' = EndFunction(module)

EnterBlock ==
  /\ module.currentFunc # NoFunc
  /\ Len(module.valueStack) < MaxScopes
  /\ module' = EnterScope(module)

LeaveBlock ==
  /\ ScopeLevel(module) > 1
  /\ module' = LeaveScope(module)

Created(st) == IF st.currentFunc = NoFunc THEN Len(st.globals)
                                          ELSE Len(st.varsVector[st.currentFunc])

DeclareVariable(n, size) ==
  /\ Created(module) < MaxVars
  /\ module' = NewVarValue(module, n, size)

UseConstant(i) == module' = NewConstInt(module, i)

Next ==
  \/ \E f \in FuncNames : DefineFunction(f)
  \/ FinishFunction
  \/ EnterBlock
  \/ LeaveBlock
  \/ \E n \in Names, size \in Sizes : DeclareVariable(n, size)
  \/ \E i \in Literals : UseConstant(i)

Spec == Init /\ [][Next]_vars

-----------------------------------------------------------------------------
(* Properties *)

Values ==
       {LocalVar(f, i)  : f \in FuncNames, i \in 1..MaxVars + 1}
  \cup {GlobalVar(i)    : i \in 1..MaxVars}

(* The partial maps from K to V: the maps of the code. *)
Maps(K, V) == UNION {[S -> V] : S \in SUBSET K}

Scopes    == Maps(Names \cup {Anon}, Values)
Variable  == [name : Names \cup {Anon}, level : Nat, size : Int]
FuncTypes == [params : {0, 1}, isVoid : BOOLEAN]

(* The tables in which the functions of F are entered. *)
TablesOf(F) ==
  [valueStack  : Seq(Scopes),
   currentFunc : FuncNames \cup {NoFunc},
   funcMap     : Maps(Functions, FuncTypes),
   funcVector  : Seq(Functions),
   varsVector  : [F -> Seq(Variable)],
   globals     : Seq(Names),
   constInts   : SUBSET Literals]

(* The type invariant.  The global scope is never popped, the built-in     *)
(* functions are never lost, every function has a list of variables, and   *)
(* the current function is one of the functions.                           *)
TypeOK ==
  /\ module \in TablesOf(DOMAIN module.funcMap)
  /\ module.valueStack # << >>
  /\ Builtins \subseteq DOMAIN module.funcMap
  /\ module.currentFunc # NoFunc => FindFunction(module, module.currentFunc)

(* What the global scope holds, and what scope i on the stack does.        *)
HoldsGlobals(st) ==
  \A n \in DOMAIN st.valueStack[1] :
    \E g \in DOMAIN st.globals : st.valueStack[1][n] = GlobalVar(g) /\ st.globals[g] = n

HoldsLocals(st, i) ==
  /\ st.currentFunc # NoFunc
  /\ \A n \in DOMAIN st.valueStack[i] :
       \E l \in DOMAIN st.varsVector[st.currentFunc] :
         /\ st.valueStack[i][n] = LocalVar(st.currentFunc, l)
         /\ st.varsVector[st.currentFunc][l].name = n
         /\ st.varsVector[st.currentFunc][l].level = i - 1

(* What a scope may hold: the global scope holds global variables created  *)
(* with that name; an inner scope at level l holds only local variables of *)
(* the function being compiled, created with that name and with scope      *)
(* level l (the level Function::toString prints).  A variable of another   *)
(* function, or a scope left open by it, is never visible.                 *)
ScopesHoldOwnVariables ==
  HoldsGlobals(module) /\ \A i \in 2..Len(module.valueStack) : HoldsLocals(module, i)

(* Only the global scope is open outside of functions, and a function      *)
(* being compiled has its own scope open.                                  *)
FunctionHasScope == (module.currentFunc = NoFunc) <=> (ScopeLevel(module) = 0)

(* Two declarations never share a variable: an inner declaration of a name *)
(* gets storage of its own, whatever is declared around it.                *)
NoAliasing ==
  \A i, j \in DOMAIN module.valueStack :
    \A n \in DOMAIN module.valueStack[i], m \in DOMAIN module.valueStack[j] :
      module.valueStack[i][n] = module.valueStack[j][m] => i = j /\ n = m

(* The list of functions, which is what gets compiled and printed, and the *)
(* map, which is what calls are resolved with, hold the same functions,    *)
(* each of them once.                                                      *)
FunctionListMatchesMap ==
  /\ \A f \in DOMAIN module.funcMap : \E i \in DOMAIN module.funcVector : module.funcVector[i] = f
  /\ \A i \in DOMAIN module.funcVector : module.funcVector[i] \in DOMAIN module.funcMap
  /\ \A i, j \in DOMAIN module.funcVector : module.funcVector[i] = module.funcVector[j] => i = j

(* What every name means when the scopes of stack are open.                *)
Env(stack) == [n \in Names |-> FindAllScope(stack, n)]

B == INSTANCE Bindings WITH
       Unbound <- NoVal,
       env     <- Env(module.valueStack),
       local   <- DOMAIN CurrentScope(module) \ {Anon},
       saved   <- [i \in 1..ScopeLevel(module) |->
                    [env   |-> Env(SubSeq(module.valueStack, 1, i)),
                     local |-> DOMAIN module.valueStack[i] \ {Anon}]]

(* The scope stack implements block-structured bindings: what a name means *)
(* after a block is left is what it meant when the block was entered, an   *)
(* inner declaration shadows, a second one in the same scope is refused.   *)
ImplementsBindings == B!Spec
=============================================================================
