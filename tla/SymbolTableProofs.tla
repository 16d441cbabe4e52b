------------------------- MODULE SymbolTableProofs -------------------------
(***************************************************************************)
(* The invariants of SymbolTable, proved for every set of names and        *)
(* functions and every bound, and the refinement: the scope stack          *)
(* implements the block-structured bindings of module Bindings.            *)
(***************************************************************************)
EXTENDS SymbolTable, SequenceTheorems, WellFoundedInduction, TLAPS

(* The type invariant with a type for tables that names no function.       *)
Tables ==
  [valueStack  : Seq(Scopes),
   currentFunc : FuncNames \cup {NoFunc},
   funcMap     : Maps(Functions, FuncTypes),
   funcVector  : Seq(Functions),
   varsVector  : Maps(Functions, Seq(Variable)),
   globals     : Seq(Names),
   constInts   : SUBSET Literals]

TypeInv ==
  /\ module \in Tables
  /\ module.valueStack # << >>
  /\ Builtins \subseteq DOMAIN module.funcMap
  /\ DOMAIN module.varsVector = DOMAIN module.funcMap
  /\ module.currentFunc # NoFunc => FindFunction(module, module.currentFunc)

(* The steps are proved with TypeInv; what it establishes is TypeOK.       *)
LEMMA TypeInvImpliesTypeOK ==
  ASSUME TypeInv
  PROVE  TypeOK
<1>1. PICK S \in SUBSET Functions : module.varsVector \in [S -> Seq(Variable)]
  BY DEF TypeInv, Tables, Maps
<1>2. module.varsVector \in [DOMAIN module.funcMap -> Seq(Variable)]
  BY <1>1 DEF TypeInv
<1> QED
  BY <1>2 DEF TypeInv, Tables, TypeOK, TablesOf

(* unordered_map::insert returns a map of the same type, with one key more. *)
LEMMA InsertMap ==
  ASSUME NEW K, NEW V, NEW map \in Maps(K, V), NEW k \in K, NEW v \in V
  PROVE  /\ Insert(map, k, v) \in Maps(K, V)
         /\ DOMAIN Insert(map, k, v) = DOMAIN map \cup {k}
         /\ \A j \in DOMAIN map : Insert(map, k, v)[j] = map[j]
         /\ k \notin DOMAIN map => Insert(map, k, v)[k] = v
<1>1. PICK S \in SUBSET K : map \in [S -> V]
  BY DEF Maps
<1>2. Insert(map, k, v) \in [S \cup {k} -> V]
  BY <1>1 DEF Insert
<1>3. S \cup {k} \in SUBSET K
  OBVIOUS
<1>4. Insert(map, k, v) \in Maps(K, V)
  BY <1>2, <1>3 DEF Maps
<1> QED
  BY <1>4 DEF Insert

(* The map without entries.                                                *)
LEMMA EmptyMap ==
  ASSUME NEW K, NEW V, NEW F(_)
  PROVE  [k \in {} |-> F(k)] \in Maps(K, V)
<1>1. [k \in {} |-> F(k)] \in [{} -> V]
  OBVIOUS
<1> QED
  BY <1>1, {} \in SUBSET K DEF Maps

(* The last element replaced, after it was appended.                       *)
LEMMA AppendExcept ==
  ASSUME NEW S, NEW s \in Seq(S), NEW a \in S, NEW b \in S
  PROVE  [Append(s, a) EXCEPT ![Len(Append(s, a))] = b] = Append(s, b)
<1> DEFINE t == [Append(s, a) EXCEPT ![Len(Append(s, a))] = b]
<1>1. /\ Append(s, a) \in Seq(S) /\ Append(s, b) \in Seq(S)
      /\ Len(Append(s, a)) = Len(s) + 1 /\ Len(Append(s, b)) = Len(s) + 1
  OBVIOUS
<1>2. t \in Seq(S) /\ Len(t) = Len(s) + 1
  BY <1>1
<1>3. ASSUME NEW i \in 1..Len(s) + 1 PROVE t[i] = Append(s, b)[i]
  <2>1. CASE i = Len(s) + 1
    BY <1>1, <2>1
  <2>2. CASE i # Len(s) + 1
    <3>1. i \in 1..Len(s)
      BY <2>2
    <3>2. Append(s, a)[i] = s[i] /\ Append(s, b)[i] = s[i]
      BY <3>1
    <3>3. DOMAIN Append(s, a) = 1..Len(s) + 1
      BY <1>1
    <3>4. t[i] = Append(s, a)[i]
      BY <2>2, <3>3, <1>1
    <3> QED
      BY <3>2, <3>4
  <2> QED
    BY <2>1, <2>2
<1> HIDE DEF t
<1>4. t = Append(s, b)
  BY <1>1, <1>2, <1>3, SeqEqual
<1> QED
  BY <1>4 DEF t

(* A new key with an empty list, and then one element on that list.        *)
LEMMA InsertThenAppend ==
  ASSUME NEW map, NEW k, k \notin DOMAIN map, NEW e
  PROVE  [Insert(map, k, << >>) EXCEPT ![k] = Append(@, e)] = Insert(map, k, << e >>)
<1>1. DOMAIN Insert(map, k, << >>) = DOMAIN Insert(map, k, << e >>)
  BY DEF Insert
<1>2. \A j \in DOMAIN Insert(map, k, << >>) :
        [Insert(map, k, << >>) EXCEPT ![k] = Append(@, e)][j] = Insert(map, k, << e >>)[j]
  BY DEF Insert
<1> QED
  BY <1>1, <1>2 DEF Insert

(* One lemma per method: the table it returns is a table, and what its     *)
(* fields are.                                                             *)
LEMMA EnterScopeTable ==
  ASSUME NEW st \in Tables
  PROVE  /\ EnterScope(st) \in Tables
         /\ EnterScope(st).valueStack = Append(st.valueStack, NoEntries)
         /\ EnterScope(st).currentFunc = st.currentFunc
         /\ EnterScope(st).funcMap = st.funcMap
         /\ EnterScope(st).funcVector = st.funcVector
         /\ EnterScope(st).varsVector = st.varsVector
         /\ EnterScope(st).globals = st.globals
         /\ EnterScope(st).constInts = st.constInts
<1>1. NoEntries \in Scopes
  BY EmptyMap DEF NoEntries, Scopes
<1>2. Append(st.valueStack, NoEntries) \in Seq(Scopes)
  BY <1>1 DEF Tables
<1> QED
  BY <1>2 DEF EnterScope, Tables

(* Popping a scope.                                                        *)
LEMMA LeaveScopeTable ==
  ASSUME NEW st \in Tables, st.valueStack # << >>
  PROVE  /\ LeaveScope(st) \in Tables
         /\ LeaveScope(st).valueStack = SubSeq(st.valueStack, 1, Len(st.valueStack) - 1)
         /\ LeaveScope(st).currentFunc = st.currentFunc
         /\ LeaveScope(st).funcMap = st.funcMap
         /\ LeaveScope(st).funcVector = st.funcVector
         /\ LeaveScope(st).varsVector = st.varsVector
         /\ LeaveScope(st).globals = st.globals
         /\ LeaveScope(st).constInts = st.constInts
<1>1. SubSeq(st.valueStack, 1, Len(st.valueStack) - 1) \in Seq(Scopes)
  BY DEF Tables
<1> QED
  BY <1>1 DEF LeaveScope, Tables

(* Setting the current function.                                           *)
LEMMA SetCurrentFunctionTable ==
  ASSUME NEW st \in Tables, NEW f \in FuncNames \cup {NoFunc}
  PROVE  /\ SetCurrentFunction(st, f) \in Tables
         /\ SetCurrentFunction(st, f).valueStack = st.valueStack
         /\ SetCurrentFunction(st, f).currentFunc = f
         /\ SetCurrentFunction(st, f).funcMap = st.funcMap
         /\ SetCurrentFunction(st, f).funcVector = st.funcVector
         /\ SetCurrentFunction(st, f).varsVector = st.varsVector
         /\ SetCurrentFunction(st, f).globals = st.globals
         /\ SetCurrentFunction(st, f).constInts = st.constInts
BY DEF SetCurrentFunction, Tables

(* Entering a function that is not there yet.                              *)
LEMMA NewFunctionTable ==
  ASSUME NEW st \in Tables, NEW f \in Functions, NEW s \in FuncTypes,
         ~FindFunction(st, f)
  PROVE  /\ NewFunction(st, f, s) \in Tables
         /\ NewFunction(st, f, s).valueStack = st.valueStack
         /\ NewFunction(st, f, s).currentFunc = st.currentFunc
         /\ NewFunction(st, f, s).funcMap = Insert(st.funcMap, f, s)
         /\ NewFunction(st, f, s).funcVector = Append(st.funcVector, f)
         /\ NewFunction(st, f, s).varsVector = Insert(st.varsVector, f, << >>)
         /\ NewFunction(st, f, s).globals = st.globals
         /\ NewFunction(st, f, s).constInts = st.constInts
<1>1. Insert(st.funcMap, f, s) \in Maps(Functions, FuncTypes)
  BY InsertMap DEF Tables
<1>2. Insert(st.varsVector, f, << >>) \in Maps(Functions, Seq(Variable))
  <2>1. << >> \in Seq(Variable) /\ st.varsVector \in Maps(Functions, Seq(Variable))
    BY DEF Tables
  <2> QED
    BY <2>1, InsertMap
<1>3. Append(st.funcVector, f) \in Seq(Functions)
  BY DEF Tables
<1> QED
  BY <1>1, <1>2, <1>3 DEF NewFunction, Tables

(* A name entered in the innermost scope: the other scopes keep theirs.    *)
LEMMA InsertValueTable ==
  ASSUME NEW st \in Tables, st.valueStack # << >>,
         NEW n \in Names \cup {Anon}, NEW v \in Values
  PROVE  /\ InsertValue(st, n, v) \in Tables
         /\ InsertValue(st, n, v).valueStack =
              [st.valueStack EXCEPT ![Len(st.valueStack)] = Insert(@, n, v)]
         /\ InsertValue(st, n, v).currentFunc = st.currentFunc
         /\ InsertValue(st, n, v).funcMap = st.funcMap
         /\ InsertValue(st, n, v).funcVector = st.funcVector
         /\ InsertValue(st, n, v).varsVector = st.varsVector
         /\ InsertValue(st, n, v).globals = st.globals
         /\ InsertValue(st, n, v).constInts = st.constInts
<1>1. /\ st.valueStack \in Seq(Scopes)
      /\ Len(st.valueStack) \in DOMAIN st.valueStack
  BY DEF Tables
<1>2. Insert(st.valueStack[Len(st.valueStack)], n, v) \in Scopes
  <2>1. st.valueStack[Len(st.valueStack)] \in Maps(Names \cup {Anon}, Values)
    BY <1>1 DEF Scopes
  <2> QED
    BY <2>1, InsertMap DEF Scopes
<1>3. [st.valueStack EXCEPT ![Len(st.valueStack)] = Insert(@, n, v)] \in Seq(Scopes)
  BY <1>1, <1>2
<1> QED
  BY <1>3 DEF InsertValue, Tables

(* A local variable at the end of the list of the current function.        *)
LEMMA NewLocalVarValueTable ==
  ASSUME NEW st \in Tables, st.currentFunc \in DOMAIN st.varsVector,
         NEW n \in Names \cup {Anon}, NEW level \in Nat, NEW size \in Int
  PROVE  /\ NewLocalVarValue(st, n, level, size) \in Tables
         /\ NewLocalVarValue(st, n, level, size).valueStack = st.valueStack
         /\ NewLocalVarValue(st, n, level, size).currentFunc = st.currentFunc
         /\ NewLocalVarValue(st, n, level, size).funcMap = st.funcMap
         /\ NewLocalVarValue(st, n, level, size).funcVector = st.funcVector
         /\ NewLocalVarValue(st, n, level, size).varsVector =
              [st.varsVector EXCEPT ![st.currentFunc] = Append(@, [name |-> n, level |-> level, size |-> size])]
         /\ NewLocalVarValue(st, n, level, size).globals = st.globals
         /\ NewLocalVarValue(st, n, level, size).constInts = st.constInts
<1> DEFINE new == [st.varsVector EXCEPT ![st.currentFunc] = Append(@, [name |-> n, level |-> level, size |-> size])]
<1>1. PICK S \in SUBSET Functions : st.varsVector \in [S -> Seq(Variable)]
  BY DEF Tables, Maps
<1>2. [name |-> n, level |-> level, size |-> size] \in Variable
  BY DEF Variable
<1>3. new \in [S -> Seq(Variable)]
  BY <1>1, <1>2
<1>4. new \in Maps(Functions, Seq(Variable))
  BY <1>3 DEF Maps
<1> QED
  BY <1>4 DEF NewLocalVarValue, Tables

(* A global variable at the end of the list.                               *)
LEMMA NewGlobalVariableTable ==
  ASSUME NEW st \in Tables, NEW n \in Names
  PROVE  /\ NewGlobalVariable(st, n) \in Tables
         /\ NewGlobalVariable(st, n).valueStack = st.valueStack
         /\ NewGlobalVariable(st, n).currentFunc = st.currentFunc
         /\ NewGlobalVariable(st, n).funcMap = st.funcMap
         /\ NewGlobalVariable(st, n).funcVector = st.funcVector
         /\ NewGlobalVariable(st, n).varsVector = st.varsVector
         /\ NewGlobalVariable(st, n).globals = Append(st.globals, n)
         /\ NewGlobalVariable(st, n).constInts = st.constInts
<1>1. Append(st.globals, n) \in Seq(Names)
  BY DEF Tables
<1> QED
  BY <1>1 DEF NewGlobalVariable, Tables

(* What the composed calls of ir_function_define leave in the table: one   *)
(* more function, with one more scope that holds its return-value slot.    *)
LEMMA BeginFunctionTable ==
  ASSUME TypeInv, NEW f \in FuncNames, ~FindFunction(module, f)
  PROVE  /\ BeginFunction(module, f) \in Tables
         /\ BeginFunction(module, f).valueStack =
              Append(module.valueStack, Insert(NoEntries, Anon, LocalVar(f, 1)))
         /\ BeginFunction(module, f).currentFunc = f
         /\ BeginFunction(module, f).funcMap = Insert(module.funcMap, f, Signature(0, FALSE))
         /\ BeginFunction(module, f).funcVector = Append(module.funcVector, f)
         /\ BeginFunction(module, f).varsVector =
              Insert(module.varsVector, f, << [name |-> Anon, level |-> 1, size |-> IntSize] >>)
         /\ BeginFunction(module, f).globals = module.globals
         /\ BeginFunction(module, f).constInts = module.constInts
<1> DEFINE s1 == NewFunction(module, f, Signature(0, FALSE))
           s2 == SetCurrentFunction(s1, f)
           s3 == EnterScope(s2)
           s4 == NewLocalVarValue(s3, Anon, 1, IntSize)
           s5 == InsertValue(s4, Anon, LocalVar(f, 1))
           slot == [name |-> Anon, level |-> 1, size |-> IntSize]
<1>0. /\ module \in Tables /\ f \in Functions /\ f # NoFunc
      /\ Signature(0, FALSE) \in FuncTypes
      /\ f \notin DOMAIN module.varsVector
  BY NamesAssumption DEF TypeInv, Functions, Signature, FuncTypes, FindFunction
<1> HIDE DEF s1, s2, s3, s4, s5
<1>1. /\ s1 \in Tables
      /\ s1.valueStack = module.valueStack
      /\ s1.funcMap = Insert(module.funcMap, f, Signature(0, FALSE))
      /\ s1.funcVector = Append(module.funcVector, f)
      /\ s1.varsVector = Insert(module.varsVector, f, << >>)
      /\ s1.globals = module.globals
      /\ s1.constInts = module.constInts
  BY <1>0, NewFunctionTable DEF s1
<1>2. /\ s2 \in Tables
      /\ s2.currentFunc = f
      /\ s2.valueStack = s1.valueStack /\ s2.funcMap = s1.funcMap
      /\ s2.funcVector = s1.funcVector /\ s2.varsVector = s1.varsVector
      /\ s2.globals = s1.globals /\ s2.constInts = s1.constInts
  BY <1>1, SetCurrentFunctionTable DEF s2
<1>3. /\ s3 \in Tables
      /\ s3.valueStack = Append(s2.valueStack, NoEntries)
      /\ s3.currentFunc = s2.currentFunc /\ s3.funcMap = s2.funcMap
      /\ s3.funcVector = s2.funcVector /\ s3.varsVector = s2.varsVector
      /\ s3.globals = s2.globals /\ s3.constInts = s2.constInts
  BY <1>2, EnterScopeTable DEF s3
<1>4. s3.varsVector = Insert(module.varsVector, f, << >>) /\ s3.currentFunc = f
  BY <1>1, <1>2, <1>3
<1>5. f \in DOMAIN s3.varsVector /\ s3.varsVector[f] = << >>
  BY <1>4, <1>0 DEF Insert
<1>6. /\ s4 \in Tables
      /\ s4.varsVector = [s3.varsVector EXCEPT ![f] = Append(@, slot)]
      /\ s4.valueStack = s3.valueStack
      /\ s4.currentFunc = s3.currentFunc /\ s4.funcMap = s3.funcMap
      /\ s4.funcVector = s3.funcVector
      /\ s4.globals = s3.globals /\ s4.constInts = s3.constInts
  <2>1. s3 \in Tables /\ s3.currentFunc \in DOMAIN s3.varsVector
    BY <1>3, <1>4, <1>5
  <2>2. /\ s4 \in Tables
        /\ s4.varsVector = [s3.varsVector EXCEPT ![s3.currentFunc] = Append(@, slot)]
        /\ s4.valueStack = s3.valueStack
        /\ s4.currentFunc = s3.currentFunc /\ s4.funcMap = s3.funcMap
        /\ s4.funcVector = s3.funcVector
        /\ s4.globals = s3.globals /\ s4.constInts = s3.constInts
    <3>1. Anon \in Names \cup {Anon} /\ 1 \in Nat /\ IntSize \in Int
      BY DEF IntSize
    <3> QED
      BY <2>1, <3>1, NewLocalVarValueTable DEF s4
  <2> QED
    BY <2>2, <1>4
<1>7. s4.varsVector = Insert(module.varsVector, f, << slot >>)
  <2> HIDE DEF slot
  <2>1. [Insert(module.varsVector, f, << >>) EXCEPT ![f] = Append(@, slot)]
          = Insert(module.varsVector, f, << slot >>)
    BY <1>0, InsertThenAppend
  <2>2. s4.varsVector = [s3.varsVector EXCEPT ![f] = Append(@, slot)]
    BY <1>6
  <2>3. s3.varsVector = Insert(module.varsVector, f, << >>)
    BY <1>4
  <2> QED
    BY <2>1, <2>2, <2>3
<1>8. LocalVar(f, 1) \in Values
  BY BoundAssumption DEF Values
<1>9. s4.valueStack = Append(module.valueStack, NoEntries)
  BY <1>1, <1>2, <1>3, <1>6
<1>10. module.valueStack \in Seq(Scopes)
  BY <1>0 DEF Tables
<1>11. s4.valueStack # << >> /\ s4.valueStack[Len(s4.valueStack)] = NoEntries
  BY <1>9, <1>10
<1>12. /\ s5 \in Tables
       /\ s5.valueStack = [s4.valueStack EXCEPT ![Len(s4.valueStack)] = Insert(@, Anon, LocalVar(f, 1))]
       /\ s5.currentFunc = s4.currentFunc /\ s5.funcMap = s4.funcMap
       /\ s5.funcVector = s4.funcVector /\ s5.varsVector = s4.varsVector
       /\ s5.globals = s4.globals /\ s5.constInts = s4.constInts
  <2>1. s4 \in Tables /\ s4.valueStack # << >> /\ Anon \in Names \cup {Anon}
    BY <1>6, <1>11
  <2> QED
    BY <2>1, <1>8, InsertValueTable DEF s5
<1>13. s5.valueStack = Append(module.valueStack, Insert(NoEntries, Anon, LocalVar(f, 1)))
  <2> DEFINE new   == Insert(NoEntries, Anon, LocalVar(f, 1))
             stack == module.valueStack
  <2>1. s5.valueStack = [Append(stack, NoEntries) EXCEPT ![Len(Append(stack, NoEntries))] = new]
    BY <1>9, <1>11, <1>12
  <2>2. NoEntries \in Scopes /\ new \in Scopes
    <3>1. NoEntries \in Maps(Names \cup {Anon}, Values)
      BY EmptyMap DEF NoEntries
    <3> QED
      BY <1>8, <3>1, InsertMap DEF Scopes
  <2>3. stack \in Seq(Scopes)
    BY <1>10
  <2>4. s5.valueStack = Append(stack, new)
    <3> HIDE DEF new, stack
    <3> QED
      BY <2>1, <2>2, <2>3, AppendExcept
  <2> QED
    BY <2>4
<1>14. NewVarValue(s3, Anon, IntSize) = s5
  BY <1>0, <1>4, <1>5 DEF NewVarValue, Rejected, s4, s5
<1>15. BeginFunction(module, f) = s5
  BY <1>14 DEF BeginFunction, s1, s2, s3
<1> QED
  BY <1>1, <1>2, <1>3, <1>6, <1>7, <1>12, <1>13, <1>15, ZenonT(40)

(* A declaration that is not rejected: of a local variable.                *)
LEMMA NewLocalTable ==
  ASSUME TypeInv, NEW n \in Names, NEW size \in Sizes, ~Rejected(module, n),
         module.currentFunc \in DOMAIN module.varsVector,
         module.currentFunc # NoFunc,
         Created(module) < MaxVars
  PROVE  LET f   == module.currentFunc
             lev == ScopeLevel(module)
             new == LocalVar(f, Len(module.varsVector[f]) + 1)
             st  == NewVarValue(module, n, size)
         IN  /\ st \in Tables
             /\ new \in Values
             /\ st.valueStack = [module.valueStack EXCEPT ![Len(module.valueStack)] = Insert(@, n, new)]
             /\ st.currentFunc = f
             /\ st.funcMap = module.funcMap
             /\ st.funcVector = module.funcVector
             /\ st.varsVector = [module.varsVector EXCEPT ![f] = Append(@, [name |-> n, level |-> lev, size |-> size])]
             /\ st.globals = module.globals
             /\ st.constInts = module.constInts
<1> DEFINE f   == module.currentFunc
           lev == ScopeLevel(module)
           new == LocalVar(f, Len(module.varsVector[f]) + 1)
           s1  == NewLocalVarValue(module, n, lev, size)
           s2  == InsertValue(s1, n, new)
<1>1. /\ module \in Tables /\ module.valueStack # << >> /\ n # Anon /\ n \in Names \cup {Anon}
      /\ size \in Int
  BY NamesAssumption, SizesAssumption DEF TypeInv
<1>2. lev \in Nat
  BY <1>1 DEF ScopeLevel, Tables
<1>3. new \in Values
  <2>1. f \in FuncNames
    BY <1>1 DEF Tables
  <2>2. module.varsVector[f] \in Seq(Variable)
    BY <1>1 DEF Tables, Maps
  <2>3. Len(module.varsVector[f]) + 1 \in 1..MaxVars + 1
    BY <2>2, BoundAssumption DEF Created
  <2> QED
    BY <2>1, <2>3 DEF Values
<1>4. /\ s1 \in Tables
      /\ s1.varsVector = [module.varsVector EXCEPT ![f] = Append(@, [name |-> n, level |-> lev, size |-> size])]
      /\ s1.valueStack = module.valueStack
      /\ s1.currentFunc = f /\ s1.funcMap = module.funcMap
      /\ s1.funcVector = module.funcVector
      /\ s1.globals = module.globals /\ s1.constInts = module.constInts
  BY <1>1, <1>2, NewLocalVarValueTable
<1>5. /\ s2 \in Tables
      /\ s2.valueStack = [s1.valueStack EXCEPT ![Len(s1.valueStack)] = Insert(@, n, new)]
      /\ s2.currentFunc = s1.currentFunc /\ s2.funcMap = s1.funcMap
      /\ s2.funcVector = s1.funcVector /\ s2.varsVector = s1.varsVector
      /\ s2.globals = s1.globals /\ s2.constInts = s1.constInts
  <2>1. s1 \in Tables /\ s1.valueStack # << >>
    BY <1>1, <1>4
  <2> HIDE DEF s1, new
  <2> QED
    BY <1>1, <1>3, <2>1, InsertValueTable
<1>6. NewVarValue(module, n, size) = s2
  BY <1>1 DEF NewVarValue
<1> HIDE DEF s1, s2
<1> QED
  BY <1>3, <1>4, <1>5, <1>6

(* A declaration that is not rejected: of a global variable.               *)
LEMMA NewGlobalTable ==
  ASSUME TypeInv, NEW n \in Names, NEW size \in Sizes, ~Rejected(module, n),
         module.currentFunc = NoFunc,
         Created(module) < MaxVars
  PROVE  LET new == GlobalVar(Len(module.globals) + 1)
             st  == NewVarValue(module, n, size)
         IN  /\ st \in Tables
             /\ new \in Values
             /\ st.valueStack = [module.valueStack EXCEPT ![Len(module.valueStack)] = Insert(@, n, new)]
             /\ st.currentFunc = NoFunc
             /\ st.funcMap = module.funcMap
             /\ st.funcVector = module.funcVector
             /\ st.varsVector = module.varsVector
             /\ st.globals = Append(module.globals, n)
             /\ st.constInts = module.constInts
<1> DEFINE new == GlobalVar(Len(module.globals) + 1)
           s1  == NewGlobalVariable(module, n)
           s2  == InsertValue(s1, n, new)
<1>1. module \in Tables /\ module.valueStack # << >> /\ n # Anon /\ n \in Names \cup {Anon}
  BY NamesAssumption DEF TypeInv
<1>2. new \in Values
  <2>1. Len(module.globals) + 1 \in 1..MaxVars
    BY <1>1, BoundAssumption DEF Created, Tables
  <2> QED
    BY <2>1 DEF Values
<1>3. /\ s1 \in Tables
      /\ s1.globals = Append(module.globals, n)
      /\ s1.valueStack = module.valueStack
      /\ s1.currentFunc = NoFunc /\ s1.funcMap = module.funcMap
      /\ s1.funcVector = module.funcVector
      /\ s1.varsVector = module.varsVector /\ s1.constInts = module.constInts
  BY <1>1, NewGlobalVariableTable
<1>4. /\ s2 \in Tables
      /\ s2.valueStack = [s1.valueStack EXCEPT ![Len(s1.valueStack)] = Insert(@, n, new)]
      /\ s2.currentFunc = s1.currentFunc /\ s2.funcMap = s1.funcMap
      /\ s2.funcVector = s1.funcVector /\ s2.varsVector = s1.varsVector
      /\ s2.globals = s1.globals /\ s2.constInts = s1.constInts
  <2> HIDE DEF s1, new
  <2> QED
    BY <1>1, <1>2, <1>3, InsertValueTable
<1>5. NewVarValue(module, n, size) = s2
  BY <1>1 DEF NewVarValue
<1> HIDE DEF s1, s2
<1> QED
  BY <1>2, <1>3, <1>4, <1>5

-----------------------------------------------------------------------------
(* There is always a scope to look a name up in, and to enter it into.     *)
LEMMA StackNonEmpty ==
  ASSUME TypeInv
  PROVE  /\ module \in Tables
         /\ module.valueStack \in Seq(Scopes) /\ module.valueStack # << >>
         /\ Len(module.valueStack) \in Nat /\ Len(module.valueStack) >= 1
<1>1. module.valueStack \in Seq(Scopes) /\ module.valueStack # << >>
  BY DEF TypeInv, Tables
<1> QED
  BY <1>1 DEF TypeInv

(* The inductive invariant: types, and what each scope may hold.  The two  *)
(* other conjuncts tell a block from a function body.                      *)
IndInv == TypeInv /\ FunctionHasScope /\ ScopesHoldOwnVariables

(* The module as constructed: the global scope is open and empty.          *)
LEMMA InitIndInv ==
  ASSUME Init
  PROVE  IndInv /\ FunctionListMatchesMap
<1> DEFINE s0 == EmptyModule
           s1 == EnterScope(s0)
           s2 == NewFunction(s1, "putint", Signature(1, TRUE))
           s3 == NewFunction(s2, "getint", Signature(0, FALSE))
<1>1. /\ s0 \in Tables
      /\ s0.valueStack = << >> /\ s0.currentFunc = NoFunc /\ s0.funcMap = [f \in {} |-> Signature(0, FALSE)]
      /\ s0.funcVector = << >> /\ s0.varsVector = [f \in {} |-> << >>] /\ s0.globals = << >>
  <2>1. /\ [f \in {} |-> Signature(0, FALSE)] \in Maps(Functions, FuncTypes)
        /\ [f \in {} |-> << >>] \in Maps(Functions, Seq(Variable))
    BY EmptyMap
  <2> QED
    BY <2>1 DEF EmptyModule, Tables
<1> HIDE DEF s0, s1, s2, s3
<1>2. /\ s1 \in Tables
      /\ s1.valueStack = << NoEntries >> /\ s1.currentFunc = NoFunc /\ s1.funcMap = s0.funcMap
      /\ s1.funcVector = << >> /\ s1.varsVector = s0.varsVector /\ s1.globals = << >>
  BY <1>1, EnterScopeTable DEF s1
<1>3. {"putint", "getint"} \subseteq Functions /\ Signature(1, TRUE) \in FuncTypes
      /\ Signature(0, FALSE) \in FuncTypes
  BY DEF Functions, Builtins, Signature, FuncTypes
<1>4. /\ s2 \in Tables
      /\ s2.valueStack = << NoEntries >> /\ s2.currentFunc = NoFunc
      /\ DOMAIN s2.funcMap = {"putint"} /\ DOMAIN s2.varsVector = {"putint"}
      /\ s2.funcVector = << "putint" >> /\ s2.globals = << >>
  <2>1. DOMAIN s1.funcMap = {} /\ DOMAIN s1.varsVector = {}
    BY <1>1, <1>2
  <2>2. ~FindFunction(s1, "putint")
    BY <2>1 DEF FindFunction
  <2>3. /\ s2 \in Tables
        /\ s2.valueStack = s1.valueStack /\ s2.currentFunc = s1.currentFunc
        /\ s2.funcMap = Insert(s1.funcMap, "putint", Signature(1, TRUE))
        /\ s2.varsVector = Insert(s1.varsVector, "putint", << >>)
        /\ s2.funcVector = Append(s1.funcVector, "putint") /\ s2.globals = s1.globals
    BY <1>2, <1>3, <2>2, NewFunctionTable DEF s2
  <2> QED
    BY <1>2, <2>1, <2>3 DEF Insert
<1>5. /\ s3 \in Tables
      /\ s3.valueStack = << NoEntries >> /\ s3.currentFunc = NoFunc
      /\ DOMAIN s3.funcMap = Builtins /\ DOMAIN s3.varsVector = Builtins
      /\ s3.funcVector = << "putint", "getint" >> /\ s3.globals = << >>
  <2>1. ~FindFunction(s2, "getint")
    BY <1>4 DEF FindFunction
  <2>2. /\ s3 \in Tables
        /\ s3.valueStack = s2.valueStack /\ s3.currentFunc = s2.currentFunc
        /\ s3.funcMap = Insert(s2.funcMap, "getint", Signature(0, FALSE))
        /\ s3.varsVector = Insert(s2.varsVector, "getint", << >>)
        /\ s3.funcVector = Append(s2.funcVector, "getint") /\ s3.globals = s2.globals
    BY <1>3, <1>4, <2>1, NewFunctionTable DEF s3
  <2> QED
    <3>1. s3.funcVector = << "putint", "getint" >>
      <4>1. s3.funcVector = Append(<< "putint" >>, "getint")
        BY <1>4, <2>2
      <4>2. ASSUME NEW a, NEW b PROVE Append(<< a >>, b) = << a, b >>
        <5>1. /\ << a >> \in Seq({a, b}) /\ << a, b >> \in Seq({a, b})
              /\ Len(<< a >>) = 1 /\ Len(<< a, b >>) = 2
              /\ << a >>[1] = a /\ << a, b >>[1] = a /\ << a, b >>[2] = b
          OBVIOUS
        <5>2. /\ Append(<< a >>, b) \in Seq({a, b}) /\ Len(Append(<< a >>, b)) = 2
              /\ Append(<< a >>, b)[1] = a /\ Append(<< a >>, b)[2] = b
          BY <5>1
        <5>3. \A i \in 1..2 : i = 1 \/ i = 2
          OBVIOUS
        <5> QED
          BY <5>1, <5>2, <5>3, SeqEqual
      <4> QED
        BY <4>1, <4>2
    <3>2. DOMAIN s3.funcMap = DOMAIN s2.funcMap \cup {"getint"} /\ DOMAIN s3.varsVector = DOMAIN s2.varsVector \cup {"getint"}
      BY <2>2 DEF Insert
    <3>3. DOMAIN s3.funcMap = Builtins /\ DOMAIN s3.varsVector = Builtins
      BY <1>4, <3>2, Zenon DEF Builtins
    <3> QED
      BY <1>4, <2>2, <3>1, <3>3
<1>6. module = s3
  BY DEF Init, NewModule, s0, s1, s2, s3
<1>7. TypeInv
  <2>1. << NoEntries >> # << >>
    OBVIOUS
  <2>2. module.valueStack # << >>
    BY <1>5, <1>6, <2>1
  <2> QED
    BY <1>5, <1>6, <2>2 DEF TypeInv
<1>8. FunctionHasScope
  <2>1. Len(<< NoEntries >>) = 1
    OBVIOUS
  <2>2. Len(module.valueStack) = 1
    BY <1>5, <1>6, <2>1
  <2>3. ScopeLevel(module) = 0
    BY <2>2 DEF ScopeLevel
  <2> QED
    BY <1>5, <1>6, <2>3 DEF FunctionHasScope
<1>9. ScopesHoldOwnVariables
  BY <1>5, <1>6 DEF ScopesHoldOwnVariables, HoldsGlobals, NoEntries
<1>10. FunctionListMatchesMap
  BY <1>5, <1>6 DEF FunctionListMatchesMap, Builtins
<1> QED
  BY <1>7, <1>8, <1>9, <1>10 DEF IndInv

(* Starting a function: its scope holds the return-value slot, at level 1. *)
LEMMA DefineFunctionStep ==
  ASSUME IndInv, NEW f \in FuncNames, DefineFunction(f)
  PROVE  IndInv'
<1> DEFINE slot == [name |-> Anon, level |-> 1, size |-> IntSize]
           top  == Insert(NoEntries, Anon, LocalVar(f, 1))
<1>1. /\ TypeInv /\ module \in Tables /\ f \in Functions /\ f # NoFunc
      /\ ~FindFunction(module, f)
      /\ module.valueStack \in Seq(Scopes)
      /\ Len(module.valueStack) = 1
  BY NamesAssumption DEF IndInv, TypeInv, Tables, DefineFunction, FunctionHasScope, ScopeLevel, Functions
<1>2. /\ module' \in Tables
      /\ module'.valueStack = Append(module.valueStack, top)
      /\ module'.currentFunc = f
      /\ module'.funcMap = Insert(module.funcMap, f, Signature(0, FALSE))
      /\ module'.funcVector = Append(module.funcVector, f)
      /\ module'.varsVector = Insert(module.varsVector, f, << slot >>)
      /\ module'.globals = module.globals
  BY <1>1, BeginFunctionTable DEF DefineFunction
<1>3. /\ Len(module'.valueStack) = 2
      /\ module'.valueStack # << >>
      /\ module'.valueStack[1] = module.valueStack[1]
      /\ module'.valueStack[2] = top
  <2> HIDE DEF top
  <2> QED
    BY <1>1, <1>2, SMTT(40)
<1>4. /\ DOMAIN module'.funcMap = DOMAIN module.funcMap \cup {f}
      /\ DOMAIN module'.varsVector = DOMAIN module.varsVector \cup {f}
      /\ module'.varsVector[f] = << slot >>
  BY <1>1, <1>2 DEF Insert, TypeInv, FindFunction
<1>5. TypeInv'
  BY <1>1, <1>2, <1>3, <1>4 DEF TypeInv, FindFunction
<1>6. FunctionHasScope'
  BY <1>1, <1>2, <1>3 DEF FunctionHasScope, ScopeLevel
<1>7. HoldsGlobals(module')
  BY <1>2, <1>3 DEF HoldsGlobals, IndInv, ScopesHoldOwnVariables
<1>8. HoldsLocals(module', 2)
  <2>1. DOMAIN top = {Anon} /\ top[Anon] = LocalVar(f, 1)
    BY DEF Insert, NoEntries
  <2>2. 1 \in DOMAIN << slot >> /\ << slot >>[1] = slot
    OBVIOUS
  <2> QED
    BY <1>1, <1>2, <1>3, <1>4, <2>1, <2>2 DEF HoldsLocals
<1> QED
  BY <1>3, <1>5, <1>6, <1>7, <1>8 DEF IndInv, ScopesHoldOwnVariables

(* Ending a function: only the global scope is left.                       *)
LEMMA FinishFunctionStep ==
  ASSUME IndInv, FinishFunction
  PROVE  IndInv'
<1>1. /\ TypeInv /\ module \in Tables
      /\ module.valueStack \in Seq(Scopes) /\ module.valueStack # << >>
      /\ Len(module.valueStack) = 2
  BY DEF IndInv, TypeInv, Tables, FinishFunction, ScopeLevel
<1>2. /\ module' \in Tables
      /\ module'.valueStack = SubSeq(module.valueStack, 1, 1)
      /\ module'.currentFunc = NoFunc
      /\ module'.funcMap = module.funcMap
      /\ module'.varsVector = module.varsVector
      /\ module'.globals = module.globals
  <2> DEFINE s1 == SetCurrentFunction(module, NoFunc)
  <2>1. /\ s1 \in Tables
        /\ s1.valueStack = module.valueStack /\ s1.currentFunc = NoFunc
        /\ s1.funcMap = module.funcMap /\ s1.varsVector = module.varsVector
        /\ s1.globals = module.globals
    BY <1>1, SetCurrentFunctionTable
  <2>2. module' = LeaveScope(s1) /\ s1.valueStack # << >>
    BY <1>1, <2>1 DEF FinishFunction, EndFunction
  <2> HIDE DEF s1
  <2>3. /\ module' \in Tables
        /\ module'.valueStack = SubSeq(s1.valueStack, 1, Len(s1.valueStack) - 1)
        /\ module'.currentFunc = s1.currentFunc /\ module'.funcMap = s1.funcMap
        /\ module'.varsVector = s1.varsVector /\ module'.globals = s1.globals
    BY <2>1, <2>2, LeaveScopeTable
  <2>4. Len(s1.valueStack) - 1 = 1
    BY <1>1, <2>1
  <2> QED
    BY <2>1, <2>3, <2>4
<1>3. /\ Len(module'.valueStack) = 1
      /\ module'.valueStack # << >>
      /\ module'.valueStack[1] = module.valueStack[1]
  BY <1>1, <1>2
<1>4. TypeInv'
  BY <1>1, <1>2, <1>3 DEF TypeInv
<1>5. FunctionHasScope'
  BY <1>2, <1>3 DEF FunctionHasScope, ScopeLevel
<1>6. HoldsGlobals(module')
  BY <1>2, <1>3 DEF HoldsGlobals, IndInv, ScopesHoldOwnVariables
<1> QED
  BY <1>3, <1>4, <1>5, <1>6 DEF IndInv, ScopesHoldOwnVariables

(* A new scope is empty and takes nothing from the others.                 *)
LEMMA EnterBlockStep ==
  ASSUME IndInv, EnterBlock
  PROVE  IndInv'
<1>1. /\ TypeInv /\ module \in Tables
      /\ module.valueStack \in Seq(Scopes) /\ module.valueStack # << >>
      /\ Len(module.valueStack) \in Nat /\ Len(module.valueStack) > 1
      /\ module.currentFunc # NoFunc
  <2>1. TypeInv /\ FunctionHasScope /\ module.currentFunc # NoFunc
    BY DEF IndInv, EnterBlock
  <2>2. Len(module.valueStack) - 1 # 0
    BY <2>1 DEF FunctionHasScope, ScopeLevel
  <2>3. /\ module \in Tables
        /\ module.valueStack \in Seq(Scopes) /\ module.valueStack # << >>
        /\ Len(module.valueStack) \in Nat /\ Len(module.valueStack) >= 1
    BY <2>1, StackNonEmpty
  <2>4. Len(module.valueStack) > 1
    <3> DEFINE top == Len(module.valueStack)
    <3>1. top \in Nat /\ top >= 1 /\ top - 1 # 0
      BY <2>2, <2>3
    <3> HIDE DEF top
    <3>2. top > 1
      BY <3>1
    <3> QED
      BY <3>2 DEF top
  <2> QED
    BY <2>1, <2>3, <2>4
<1>2. /\ module' \in Tables
      /\ module'.valueStack = Append(module.valueStack, NoEntries)
      /\ module'.currentFunc = module.currentFunc
      /\ module'.funcMap = module.funcMap
      /\ module'.varsVector = module.varsVector
      /\ module'.globals = module.globals
  BY <1>1, EnterScopeTable DEF EnterBlock
<1>3. /\ Len(module'.valueStack) = Len(module.valueStack) + 1
      /\ module'.valueStack # << >>
      /\ \A i \in 1..Len(module.valueStack) : module'.valueStack[i] = module.valueStack[i]
      /\ module'.valueStack[Len(module.valueStack) + 1] = NoEntries
  BY <1>1, <1>2
<1>4. TypeInv'
  BY <1>1, <1>2, <1>3 DEF TypeInv, FindFunction
<1>5. FunctionHasScope'
  BY <1>1, <1>2, <1>3 DEF FunctionHasScope, ScopeLevel
<1>6. HoldsGlobals(module')
  BY <1>1, <1>2, <1>3 DEF HoldsGlobals, IndInv, ScopesHoldOwnVariables
<1>7. ASSUME NEW i \in 2..Len(module'.valueStack) PROVE HoldsLocals(module', i)
  <2>1. CASE i = Len(module.valueStack) + 1
    BY <1>1, <1>2, <1>3, <2>1 DEF HoldsLocals, NoEntries
  <2>2. CASE i # Len(module.valueStack) + 1
    <3>1. i \in 2..Len(module.valueStack) /\ i \in 1..Len(module.valueStack)
      BY <1>1, <1>3, <2>2
    <3> QED
      BY <1>2, <1>3, <3>1 DEF HoldsLocals, IndInv, ScopesHoldOwnVariables
  <2> QED
    BY <2>1, <2>2
<1> QED
  BY <1>4, <1>5, <1>6, <1>7 DEF IndInv, ScopesHoldOwnVariables

(* The scopes that remain are what they were.                              *)
LEMMA LeaveBlockStep ==
  ASSUME IndInv, LeaveBlock
  PROVE  IndInv'
<1> DEFINE top == Len(module.valueStack)
<1>1. /\ TypeInv /\ module \in Tables
      /\ module.valueStack \in Seq(Scopes) /\ module.valueStack # << >>
      /\ top \in Nat /\ top > 2
      /\ module.currentFunc # NoFunc
  <2>1. TypeInv /\ FunctionHasScope /\ top - 1 > 1
    BY DEF IndInv, LeaveBlock, ScopeLevel
  <2>2. top \in Nat /\ top > 2
    BY <2>1, StackNonEmpty
  <2>3. module.currentFunc # NoFunc
    <3>1. ScopeLevel(module) # 0
      <4>1. top - 1 # 0
        <5> HIDE DEF top
        <5> QED
          BY <2>2
      <4> QED
        BY <4>1 DEF ScopeLevel
    <3> QED
      BY <2>1, <3>1 DEF FunctionHasScope
  <2> QED
    BY <2>1, <2>2, <2>3, StackNonEmpty
<1>2. /\ module' \in Tables
      /\ module'.valueStack = SubSeq(module.valueStack, 1, top - 1)
      /\ module'.currentFunc = module.currentFunc
      /\ module'.funcMap = module.funcMap
      /\ module'.varsVector = module.varsVector
      /\ module'.globals = module.globals
  BY <1>1, LeaveScopeTable DEF LeaveBlock
<1>3. /\ Len(module'.valueStack) = top - 1
      /\ module'.valueStack # << >>
      /\ \A i \in 1..top - 1 : module'.valueStack[i] = module.valueStack[i]
  <2> DEFINE stack == module.valueStack
  <2>1. stack \in Seq(Scopes) /\ Len(stack) = top /\ top \in Nat /\ top > 2
        /\ module'.valueStack = SubSeq(stack, 1, top - 1)
    BY <1>1, <1>2
  <2> HIDE DEF stack, top
  <2>2. /\ Len(SubSeq(stack, 1, top - 1)) = top - 1
        /\ \A i \in 1..top - 1 : SubSeq(stack, 1, top - 1)[i] = stack[i]
    BY <2>1
  <2> QED
    BY <2>1, <2>2 DEF stack
<1>4. TypeInv'
  BY <1>1, <1>2, <1>3 DEF TypeInv, FindFunction
<1>5. FunctionHasScope'
  BY <1>1, <1>2, <1>3 DEF FunctionHasScope, ScopeLevel
<1>6. HoldsGlobals(module')
  BY <1>1, <1>2, <1>3 DEF HoldsGlobals, IndInv, ScopesHoldOwnVariables
<1>7. ASSUME NEW i \in 2..Len(module'.valueStack) PROVE HoldsLocals(module', i)
  <2>1. i \in 2..top /\ i \in 1..top - 1
    BY <1>1, <1>3
  <2> QED
    BY <1>2, <1>3, <2>1 DEF HoldsLocals, IndInv, ScopesHoldOwnVariables
<1> QED
  BY <1>4, <1>5, <1>6, <1>7 DEF IndInv, ScopesHoldOwnVariables

(* A declaration in the innermost scope of a function, and in the global   *)
(* scope.  The variables declared before keep their entries.               *)
LEMMA DeclareLocalStep ==
  ASSUME IndInv, NEW n \in Names, NEW size \in Sizes, DeclareVariable(n, size),
         ~Rejected(module, n), module.currentFunc # NoFunc
  PROVE  IndInv'
<1> DEFINE f   == module.currentFunc
           lev == ScopeLevel(module)
           top == Len(module.valueStack)
           new == LocalVar(f, Len(module.varsVector[f]) + 1)
           var == [name |-> n, level |-> lev, size |-> size]
<1>1. /\ TypeInv /\ module \in Tables /\ f # NoFunc
      /\ module.valueStack \in Seq(Scopes) /\ module.valueStack # << >>
      /\ top \in Nat /\ top >= 1
      /\ f \in DOMAIN module.varsVector
  BY StackNonEmpty DEF IndInv, TypeInv, FindFunction
<1>2. top >= 2
  <2>1. lev # 0
    BY <1>1 DEF IndInv, FunctionHasScope
  <2>2. top - 1 # 0
    BY <2>1 DEF ScopeLevel
  <2> HIDE DEF top
  <2> QED
    BY <1>1, <2>2
<1>3. /\ module' \in Tables
      /\ module'.valueStack = [module.valueStack EXCEPT ![top] = Insert(@, n, new)]
      /\ module'.currentFunc = f
      /\ module'.funcMap = module.funcMap
      /\ module'.varsVector = [module.varsVector EXCEPT ![f] = Append(@, var)]
      /\ module'.globals = module.globals
  BY <1>1, NewLocalTable DEF DeclareVariable
<1>4. /\ Len(module'.valueStack) = top
      /\ module'.valueStack # << >>
      /\ \A i \in 1..top - 1 : module'.valueStack[i] = module.valueStack[i]
      /\ module'.valueStack[top] = Insert(module.valueStack[top], n, new)
  <2> DEFINE stack == module.valueStack
             ins   == Insert(stack[top], n, new)
  <2>1. stack \in Seq(Scopes) /\ top = Len(stack) /\ top \in Nat /\ top >= 1
        /\ module'.valueStack = [stack EXCEPT ![top] = ins]
    BY <1>1, <1>3
  <2> HIDE DEF stack, top, ins
  <2>2. /\ Len([stack EXCEPT ![top] = ins]) = top
        /\ [stack EXCEPT ![top] = ins] # << >>
        /\ \A i \in 1..top - 1 : [stack EXCEPT ![top] = ins][i] = stack[i]
        /\ [stack EXCEPT ![top] = ins][top] = ins
    BY <2>1
  <2> QED
    BY <2>1, <2>2 DEF stack, ins
<1>5. /\ DOMAIN module'.varsVector = DOMAIN module.varsVector
      /\ module'.varsVector[f] = Append(module.varsVector[f], var)
      /\ module.varsVector[f] \in Seq(Variable)
  BY <1>1, <1>3 DEF Tables, Maps
<1>6. /\ DOMAIN module'.varsVector[f] = DOMAIN module.varsVector[f] \cup {Len(module.varsVector[f]) + 1}
      /\ \A l \in DOMAIN module.varsVector[f] : module'.varsVector[f][l] = module.varsVector[f][l]
      /\ module'.varsVector[f][Len(module.varsVector[f]) + 1] = var
  <2> DEFINE old == module.varsVector[f]
  <2>1. old \in Seq(Variable) /\ module'.varsVector[f] = Append(old, var)
    BY <1>5
  <2> HIDE DEF old, var
  <2>2. /\ DOMAIN Append(old, var) = DOMAIN old \cup {Len(old) + 1}
        /\ \A l \in DOMAIN old : Append(old, var)[l] = old[l]
        /\ Append(old, var)[Len(old) + 1] = var
    BY <2>1
  <2> QED
    BY <2>1, <2>2 DEF old
<1>7. TypeInv'
  BY <1>1, <1>3, <1>4, <1>5 DEF TypeInv, FindFunction
<1>8. FunctionHasScope'
  BY <1>1, <1>3, <1>4 DEF FunctionHasScope, ScopeLevel, IndInv
<1>9. HoldsGlobals(module')
  <2>1. module'.valueStack[1] = module.valueStack[1]
    <3>1. 1 \in 1..top - 1
      <4> HIDE DEF top
      <4> QED
        BY <1>1, <1>2
    <3> QED
      BY <1>4, <3>1
  <2> QED
    BY <1>3, <2>1 DEF HoldsGlobals, IndInv, ScopesHoldOwnVariables
<1>10. ASSUME NEW i \in 2..top PROVE HoldsLocals(module', i)
  <2>1. HoldsLocals(module, i)
    BY DEF IndInv, ScopesHoldOwnVariables
  <2>2. CASE i # top
    <3>1. i \in 1..top - 1
      <4> HIDE DEF top
      <4> QED
        BY <1>1, <2>2
    <3>2. module'.valueStack[i] = module.valueStack[i]
      BY <1>4, <3>1
    <3> QED
      BY <1>3, <1>6, <2>1, <3>2 DEF HoldsLocals
  <2>3. CASE i = top
    <3>1. /\ DOMAIN module'.valueStack[i] = DOMAIN module.valueStack[i] \cup {n}
          /\ n \notin DOMAIN module.valueStack[i]
          /\ module'.valueStack[i][n] = new
          /\ \A m \in DOMAIN module.valueStack[i] :
               module'.valueStack[i][m] = module.valueStack[i][m]
      <4>1. n \notin DOMAIN module.valueStack[i]
        <5>1. n # Anon /\ FindCurrentScope(module, n) = NoVal
          BY NamesAssumption DEF Rejected
        <5>2. ASSUME n \in DOMAIN module.valueStack[i] PROVE FALSE
          <6>1. module.valueStack[i][n] = NoVal
            BY <2>3, <5>1, <5>2 DEF FindCurrentScope, CurrentScope
          <6>2. PICK l \in DOMAIN module.varsVector[f] : module.valueStack[i][n] = LocalVar(f, l)
            BY <2>1, <5>2 DEF HoldsLocals
          <6> QED
            BY <6>1, <6>2 DEF LocalVar, NoVal, Value
        <5> QED
          BY <5>2
      <4>2. module'.valueStack[i] = Insert(module.valueStack[i], n, new)
        BY <1>4, <2>3
      <4> QED
        BY <4>1, <4>2 DEF Insert
    <3>2. i - 1 = lev
      BY <2>3 DEF ScopeLevel
    <3>3. ASSUME NEW m \in DOMAIN module'.valueStack[i]
          PROVE  \E l \in DOMAIN module'.varsVector[f] :
                   /\ module'.valueStack[i][m] = LocalVar(f, l)
                   /\ module'.varsVector[f][l].name = m /\ module'.varsVector[f][l].level = i - 1
      <4>1. CASE m = n
        <5>1. var.name = m /\ var.level = i - 1
          BY <3>2, <4>1
        <5> DEFINE l == Len(module.varsVector[f]) + 1
        <5>2. l \in DOMAIN module'.varsVector[f] /\ module'.varsVector[f][l] = var
          BY <1>6
        <5>3. module'.valueStack[i][m] = LocalVar(f, l)
          BY <3>1, <4>1
        <5> HIDE DEF l, var
        <5> QED
          BY <5>1, <5>2, <5>3
      <4>2. CASE m # n
        <5>1. m \in DOMAIN module.valueStack[i]
              /\ module'.valueStack[i][m] = module.valueStack[i][m]
          BY <3>1, <4>2
        <5>2. PICK l \in DOMAIN module.varsVector[f] :
                /\ module.valueStack[i][m] = LocalVar(f, l)
                /\ module.varsVector[f][l].name = m /\ module.varsVector[f][l].level = i - 1
          BY <2>1, <5>1 DEF HoldsLocals
        <5> QED
          BY <1>6, <5>1, <5>2
      <4> QED
        BY <4>1, <4>2
    <3> QED
      BY <1>1, <1>3, <3>3 DEF HoldsLocals
  <2> QED
    BY <2>2, <2>3
<1> QED
  BY <1>4, <1>7, <1>8, <1>9, <1>10 DEF IndInv, ScopesHoldOwnVariables

(* A declaration outside of functions goes to the global scope.            *)
LEMMA DeclareGlobalStep ==
  ASSUME IndInv, NEW n \in Names, NEW size \in Sizes, DeclareVariable(n, size),
         ~Rejected(module, n), module.currentFunc = NoFunc
  PROVE  IndInv'
<1> DEFINE new   == GlobalVar(Len(module.globals) + 1)
           scope == module.valueStack[1]
<1>1. /\ TypeInv /\ module \in Tables
      /\ module.valueStack \in Seq(Scopes) /\ Len(module.valueStack) = 1
      /\ module.globals \in Seq(Names)
  BY StackNonEmpty DEF IndInv, FunctionHasScope, ScopeLevel, Tables
<1>2. /\ module' \in Tables
      /\ module'.valueStack = [module.valueStack EXCEPT ![1] = Insert(@, n, new)]
      /\ module'.currentFunc = NoFunc
      /\ module'.funcMap = module.funcMap
      /\ module'.varsVector = module.varsVector
      /\ module'.globals = Append(module.globals, n)
  BY <1>1, NewGlobalTable DEF DeclareVariable
<1>3. /\ Len(module'.valueStack) = 1
      /\ module'.valueStack # << >>
      /\ module'.valueStack[1] = Insert(scope, n, new)
  BY <1>1, <1>2
<1>4. TypeInv'
  BY <1>1, <1>2, <1>3 DEF TypeInv
<1>5. FunctionHasScope'
  BY <1>2, <1>3 DEF FunctionHasScope, ScopeLevel
<1>6. /\ DOMAIN module'.globals = DOMAIN module.globals \cup {Len(module.globals) + 1}
      /\ \A g \in DOMAIN module.globals : module'.globals[g] = module.globals[g]
      /\ module'.globals[Len(module.globals) + 1] = n
  BY <1>1, <1>2
<1>7. n \notin DOMAIN scope
  <2>1. n # Anon /\ FindCurrentScope(module, n) = NoVal
    BY NamesAssumption DEF Rejected
  <2>2. ASSUME n \in DOMAIN scope PROVE FALSE
    <3>1. scope[n] = NoVal
      BY <1>1, <2>1, <2>2 DEF FindCurrentScope, CurrentScope
    <3>2. PICK g \in DOMAIN module.globals : scope[n] = GlobalVar(g)
      BY <2>2 DEF IndInv, ScopesHoldOwnVariables, HoldsGlobals
    <3> QED
      BY <3>1, <3>2 DEF GlobalVar, NoVal, Value
  <2> QED
    BY <2>2
<1>8. /\ DOMAIN module'.valueStack[1] = DOMAIN scope \cup {n}
      /\ module'.valueStack[1][n] = new
      /\ \A m \in DOMAIN scope : module'.valueStack[1][m] = scope[m]
  BY <1>3, <1>7 DEF Insert
<1>9. HoldsGlobals(module')
  BY <1>6, <1>8 DEF HoldsGlobals, IndInv, ScopesHoldOwnVariables
<1> QED
  BY <1>3, <1>4, <1>5, <1>9 DEF IndInv, ScopesHoldOwnVariables

(* A constant touches no scope.                                            *)
LEMMA UseConstantStep ==
  ASSUME IndInv, NEW i \in Literals, UseConstant(i)
  PROVE  IndInv'
<1>1. /\ module' \in Tables
      /\ module'.valueStack = module.valueStack
      /\ module'.currentFunc = module.currentFunc
      /\ module'.funcMap = module.funcMap
      /\ module'.varsVector = module.varsVector
      /\ module'.globals = module.globals
  BY DEF IndInv, TypeInv, Tables, UseConstant, NewConstInt
<1> QED
  BY <1>1 DEF IndInv, TypeInv, FindFunction, FunctionHasScope, ScopeLevel,
              ScopesHoldOwnVariables, HoldsGlobals, HoldsLocals

(* A declaration is refused, local, or global.                             *)
LEMMA DeclareVariableStep ==
  ASSUME IndInv, NEW n \in Names, NEW size \in Sizes, DeclareVariable(n, size)
  PROVE  IndInv'
<1>1. CASE Rejected(module, n)
  <2>1. module' = module
    BY <1>1 DEF DeclareVariable, NewVarValue
  <2> QED
    BY <2>1 DEF IndInv, TypeInv, FindFunction, FunctionHasScope, ScopeLevel,
                ScopesHoldOwnVariables, HoldsGlobals, HoldsLocals
<1>2. CASE ~Rejected(module, n) /\ module.currentFunc # NoFunc
  BY <1>2, DeclareLocalStep
<1>3. CASE ~Rejected(module, n) /\ module.currentFunc = NoFunc
  BY <1>3, DeclareGlobalStep
<1> QED
  BY <1>1, <1>2, <1>3

(* Every reachable table satisfies the inductive invariant.                *)
LEMMA IndInvHolds == Spec => []IndInv
<1>1. Init => IndInv
  BY InitIndInv
<1>2. IndInv /\ [Next]_vars => IndInv'
  <2> SUFFICES ASSUME IndInv, [Next]_vars
               PROVE  IndInv'
    OBVIOUS
  <2>1. ASSUME NEW f \in FuncNames, DefineFunction(f) PROVE IndInv'
    BY <2>1, DefineFunctionStep
  <2>2. CASE FinishFunction
    BY <2>2, FinishFunctionStep
  <2>3. CASE EnterBlock
    BY <2>3, EnterBlockStep
  <2>4. CASE LeaveBlock
    BY <2>4, LeaveBlockStep
  <2>5. ASSUME NEW n \in Names, NEW size \in Sizes, DeclareVariable(n, size) PROVE IndInv'
    BY <2>5, DeclareVariableStep
  <2>6. ASSUME NEW i \in Literals, UseConstant(i) PROVE IndInv'
    BY <2>6, UseConstantStep
  <2>7. CASE UNCHANGED vars
    BY <2>7 DEF vars, IndInv, TypeInv, FindFunction, FunctionHasScope, ScopeLevel,
                ScopesHoldOwnVariables, HoldsGlobals, HoldsLocals
  <2> QED
    BY <2>1, <2>2, <2>3, <2>4, <2>5, <2>6, <2>7 DEF Next
<1> QED
  BY <1>1, <1>2, PTL DEF Spec

(* Every reachable table has its types, holds nothing but the global scope *)
(* outside of functions, and holds in every scope only variables of that   *)
(* scope, under the names and levels they were created with.               *)
THEOREM ScopesAreSound == Spec => [](TypeOK /\ FunctionHasScope /\ ScopesHoldOwnVariables)
<1>1. IndInv => TypeOK /\ FunctionHasScope /\ ScopesHoldOwnVariables
  BY TypeInvImpliesTypeOK DEF IndInv
<1> QED
  BY <1>1, IndInvHolds, PTL

(* Every reachable table has its types: maps and lists refer to functions, *)
(* scopes and variables that exist.                                        *)
THEOREM TableIsWellTyped == Spec => []TypeOK
<1>1. IndInv => TypeOK
  BY TypeInvImpliesTypeOK DEF IndInv
<1> QED
  BY <1>1, IndInvHolds, PTL

(* Local scopes are open exactly while a function is compiled.             *)
THEOREM FunctionsHaveScopes == Spec => []FunctionHasScope
<1>1. IndInv => FunctionHasScope
  BY DEF IndInv
<1> QED
  BY <1>1, IndInvHolds, PTL

(* The identities of variables are distinct.                               *)
LEMMA LocalIsNotGlobal == ASSUME NEW f, NEW i, NEW j PROVE LocalVar(f, i) # GlobalVar(j)
BY DEF LocalVar, GlobalVar, Value

(* Equal local variables are the same variable of the same function.       *)
LEMMA SameLocal ==
  ASSUME NEW f, NEW i, NEW j, LocalVar(f, i) = LocalVar(f, j)
  PROVE  i = j
BY DEF LocalVar, Value

(* Equal global variables are the same.                                    *)
LEMMA SameGlobal ==
  ASSUME NEW i, NEW j, GlobalVar(i) = GlobalVar(j)
  PROVE  i = j
BY DEF GlobalVar, Value

(* The table never lets two declarations share a variable: it follows from *)
(* the invariant, since the variable determines the scope and the name.    *)
LEMMA IndInvNoAliasing ==
  ASSUME IndInv
  PROVE  NoAliasing
<1>1. /\ module.valueStack \in Seq(Scopes)
      /\ Len(module.valueStack) \in Nat
      /\ DOMAIN module.valueStack = 1..Len(module.valueStack)
  BY StackNonEmpty DEF IndInv
<1>2. ASSUME NEW i \in DOMAIN module.valueStack, NEW n \in DOMAIN module.valueStack[i], i # 1
      PROVE  \E l \in DOMAIN module.varsVector[module.currentFunc] :
               /\ module.valueStack[i][n] = LocalVar(module.currentFunc, l)
               /\ module.varsVector[module.currentFunc][l].name = n
               /\ module.varsVector[module.currentFunc][l].level = i - 1
  <2>1. i \in 2..Len(module.valueStack)
    BY <1>1, <1>2
  <2> QED
    BY <2>1 DEF IndInv, ScopesHoldOwnVariables, HoldsLocals
<1>3. ASSUME NEW n \in DOMAIN module.valueStack[1]
      PROVE  \E g \in DOMAIN module.globals :
               module.valueStack[1][n] = GlobalVar(g) /\ module.globals[g] = n
  BY DEF IndInv, ScopesHoldOwnVariables, HoldsGlobals
<1> SUFFICES ASSUME NEW i \in DOMAIN module.valueStack, NEW j \in DOMAIN module.valueStack,
                    NEW n \in DOMAIN module.valueStack[i], NEW m \in DOMAIN module.valueStack[j],
                    module.valueStack[i][n] = module.valueStack[j][m]
             PROVE  i = j /\ n = m
  BY DEF NoAliasing
<1>5. CASE i = 1 /\ j = 1
  <2>1. PICK g \in DOMAIN module.globals :
          module.valueStack[i][n] = GlobalVar(g) /\ module.globals[g] = n
    BY <1>3, <1>5
  <2>2. PICK h \in DOMAIN module.globals :
          module.valueStack[j][m] = GlobalVar(h) /\ module.globals[h] = m
    BY <1>3, <1>5
  <2>3. g = h
    <3>1. GlobalVar(g) = GlobalVar(h)
      BY <2>1, <2>2, Zenon
    <3> QED
      BY <3>1, SameGlobal
  <2> QED
    BY <1>5, <2>1, <2>2, <2>3
<1>6. CASE i = 1 /\ j # 1
  <2>1. \E g : module.valueStack[i][n] = GlobalVar(g)
    BY <1>3, <1>6
  <2>2. \E f, l : module.valueStack[j][m] = LocalVar(f, l)
    BY <1>2, <1>6
  <2> QED
    BY <2>1, <2>2, LocalIsNotGlobal, Zenon
<1>7. CASE i # 1 /\ j = 1
  <2>1. \E f, l : module.valueStack[i][n] = LocalVar(f, l)
    BY <1>2, <1>7
  <2>2. \E g : module.valueStack[j][m] = GlobalVar(g)
    BY <1>3, <1>7
  <2> QED
    BY <2>1, <2>2, LocalIsNotGlobal, Zenon
<1>8. CASE i # 1 /\ j # 1
  <2>1. PICK l \in DOMAIN module.varsVector[module.currentFunc] :
          /\ module.valueStack[i][n] = LocalVar(module.currentFunc, l)
          /\ module.varsVector[module.currentFunc][l].name = n
          /\ module.varsVector[module.currentFunc][l].level = i - 1
    BY <1>2, <1>8
  <2>2. PICK k \in DOMAIN module.varsVector[module.currentFunc] :
          /\ module.valueStack[j][m] = LocalVar(module.currentFunc, k)
          /\ module.varsVector[module.currentFunc][k].name = m
          /\ module.varsVector[module.currentFunc][k].level = j - 1
    BY <1>2, <1>8
  <2>3. n = m /\ i - 1 = j - 1
    <3>1. l = k
      <4>1. LocalVar(module.currentFunc, l) = LocalVar(module.currentFunc, k)
        BY <2>1, <2>2, Zenon
      <4> QED
        BY <4>1, SameLocal
    <3> QED
      BY <2>1, <2>2, <3>1
  <2>4. i \in Int /\ j \in Int /\ n = m /\ i - 1 = j - 1
    BY <1>1, <2>3
  <2> QED
    BY <2>4
<1> QED
  BY <1>5, <1>6, <1>7, <1>8

(* Declarations of the same or of different names, in any scopes open at   *)
(* the same time, always denote different variables.                       *)
THEOREM DeclarationsDoNotAlias == Spec => []NoAliasing
<1>1. IndInv => NoAliasing
  BY IndInvNoAliasing
<1> QED
  BY <1>1, IndInvHolds, PTL

(* Only newFunction changes the list and the map, and it changes both.     *)
LEMMA FunctionListStep ==
  ASSUME IndInv, FunctionListMatchesMap, [Next]_vars
  PROVE  FunctionListMatchesMap'
<1>1. module \in Tables /\ TypeInv /\ module.valueStack # << >> /\ module.funcVector \in Seq(Functions)
  BY DEF IndInv, TypeInv, Tables
<1>2. ASSUME NEW f \in FuncNames, DefineFunction(f)
      PROVE  FunctionListMatchesMap'
  <2> DEFINE fs == module.funcVector
  <2>1. /\ f \notin DOMAIN module.funcMap
        /\ module'.funcVector = Append(fs, f)
        /\ DOMAIN module'.funcMap = DOMAIN module.funcMap \cup {f}
    <3>1. ~FindFunction(module, f) /\ module' = BeginFunction(module, f)
      BY <1>2 DEF DefineFunction
    <3>2. /\ module'.funcVector = Append(fs, f)
          /\ module'.funcMap = Insert(module.funcMap, f, Signature(0, FALSE))
      BY <1>1, <3>1, BeginFunctionTable
    <3> QED
      BY <3>1, <3>2 DEF Insert, FindFunction
  <2>2. fs \in Seq(Functions) /\ f \in Functions
    BY <1>1 DEF Functions
  <2> DEFINE gs == Append(fs, f)
  <2>3. /\ DOMAIN gs = DOMAIN fs \cup {Len(fs) + 1}
        /\ Len(fs) + 1 \notin DOMAIN fs
        /\ gs[Len(fs) + 1] = f
        /\ \A i \in DOMAIN fs : gs[i] = fs[i]
    <3> HIDE DEF fs
    <3> QED
      BY <2>2
  <2> HIDE DEF gs
  <2> QED
    BY <2>1, <2>3 DEF FunctionListMatchesMap, gs
<1>3. ASSUME module'.funcVector = module.funcVector, module'.funcMap = module.funcMap
      PROVE  FunctionListMatchesMap'
  BY <1>3 DEF FunctionListMatchesMap
<1>4. CASE FinishFunction
  <2> DEFINE s1 == SetCurrentFunction(module, NoFunc)
  <2>1. /\ s1 \in Tables /\ s1.valueStack # << >>
        /\ s1.funcVector = module.funcVector /\ s1.funcMap = module.funcMap
    BY <1>1, SetCurrentFunctionTable
  <2>2. module' = LeaveScope(s1)
    BY <1>4 DEF FinishFunction, EndFunction
  <2> HIDE DEF s1
  <2> QED
    BY <1>3, <2>1, <2>2, LeaveScopeTable
<1>5. CASE EnterBlock
  BY <1>1, <1>3, <1>5, EnterScopeTable DEF EnterBlock
<1>6. CASE LeaveBlock
  BY <1>1, <1>3, <1>6, LeaveScopeTable DEF LeaveBlock
<1>7. ASSUME NEW n \in Names, NEW size \in Sizes, DeclareVariable(n, size) PROVE FunctionListMatchesMap'
  <2>1. CASE Rejected(module, n)
    <3>1. module' = module
      BY <1>7, <2>1 DEF DeclareVariable, NewVarValue
    <3> QED
      BY <1>3, <3>1
  <2>2. CASE ~Rejected(module, n) /\ module.currentFunc # NoFunc
    <3>1. module.currentFunc \in DOMAIN module.varsVector
      BY <1>1, <2>2 DEF TypeInv, FindFunction
    <3> QED
      BY <1>1, <1>3, <1>7, <2>2, <3>1, NewLocalTable DEF DeclareVariable
  <2>3. CASE ~Rejected(module, n) /\ module.currentFunc = NoFunc
    BY <1>1, <1>3, <1>7, <2>3, NewGlobalTable DEF DeclareVariable
  <2> QED
    BY <2>1, <2>2, <2>3
<1>8. ASSUME NEW i \in Literals, UseConstant(i) PROVE FunctionListMatchesMap'
  BY <1>1, <1>3, <1>8 DEF UseConstant, NewConstInt, Tables
<1>9. CASE UNCHANGED vars
  BY <1>3, <1>9 DEF vars
<1> QED
  BY <1>2, <1>4, <1>5, <1>6, <1>7, <1>8, <1>9 DEF Next

(* The functions that are compiled are exactly those that calls resolve    *)
(* to, each compiled once.                                                 *)
THEOREM FunctionsCompiledOnce == Spec => []FunctionListMatchesMap
<1>1. Init => FunctionListMatchesMap
  BY InitIndInv
<1>2. IndInv /\ FunctionListMatchesMap /\ [Next]_vars => FunctionListMatchesMap'
  BY FunctionListStep
<1> QED
  BY <1>1, <1>2, IndInvHolds, PTL DEF Spec

-----------------------------------------------------------------------------
(* The scope stack implements the block-structured bindings of module      *)
(* Bindings: every step of SymbolTable is a step of Bindings or leaves the *)
(* bindings alone.  The refinement mapping reads the stack only, so each   *)
(* lemma is about a stack of scopes and what pushing, popping and          *)
(* inserting do to what is bound.                                          *)


(* What Bindings keeps, of a stack of scopes. *)
LocalOf(stack) == DOMAIN stack[Len(stack)] \ {Anon}
Frame(stack, i) == [env |-> Env(SubSeq(stack, 1, i)), local |-> DOMAIN stack[i] \ {Anon}]
SavedOf(stack) == [i \in 1..Len(stack) - 1 |-> Frame(stack, i)]

(* A nonempty set of positions has a greatest one, so the search for the   *)
(* innermost scope with a name finds a scope with that name.               *)
LEMMA InnermostIsGreatest ==
  ASSUME NEW top \in Nat, NEW scopes \in SUBSET (1..top), scopes # {}
  PROVE  /\ Innermost(scopes) \in scopes
         /\ \A j \in scopes : j <= Innermost(scopes)
<1> DEFINE below == {top - i : i \in scopes}
           less  == OpToRel(<, Nat)
<1>1. below \in SUBSET Nat /\ below # {}
  <2>1. ASSUME NEW i \in scopes PROVE i \in Nat /\ top - i \in Nat
    <3>1. i \in 1..top
      OBVIOUS
    <3> QED
      BY <3>1
  <2> QED
    BY <2>1
<1>2. IsWellFoundedOn(less, Nat)
  BY NatLessThanWellFounded
<1>3. ASSUME NEW x \in Nat, NEW y \in Nat, x < y PROVE << x, y >> \in less
  BY <1>3 DEF OpToRel
<1> HIDE DEF less
<1>4. PICK x \in below : \A y \in below : ~(<< y, x >> \in less)
  BY <1>1, <1>2, WFMin
<1>5. ASSUME NEW y \in below PROVE x <= y
  <2>1. x \in Nat /\ y \in Nat
    BY <1>1
  <2>2. ~(y < x)
    BY <2>1, <1>3, <1>4
  <2> QED
    BY <2>1, <2>2
<1>6. PICK i \in scopes : x = top - i
  BY <1>4
<1>7. ASSUME NEW j \in scopes PROVE j <= i
  <2>1. top - j \in below
    OBVIOUS
  <2>2. top - i <= top - j
    BY <2>1, <1>5, <1>6
  <2>3. i \in 1..top /\ j \in 1..top
    OBVIOUS
  <2> HIDE DEF below
  <2> QED
    BY <2>2, <2>3
<1> QED
  BY <1>6, <1>7 DEF Innermost

(* The same scopes are searched, up to where the stacks differ in names    *)
(* that are not looked for.                                                *)
LEMMA SameSearch ==
  ASSUME NEW s \in Seq(Scopes), NEW t \in Seq(Scopes), NEW n,
         ScopesWith(s, n) = ScopesWith(t, n),
         \A i \in ScopesWith(s, n) : s[i][n] = t[i][n]
  PROVE  FindAllScope(s, n) = FindAllScope(t, n)
<1>1. CASE ScopesWith(s, n) = {}
  BY <1>1 DEF FindAllScope
<1>2. CASE ScopesWith(s, n) # {}
  <2>1. Len(s) \in Nat /\ ScopesWith(s, n) \in SUBSET (1..Len(s))
    BY DEF ScopesWith
  <2>2. Innermost(ScopesWith(s, n)) \in ScopesWith(s, n)
    BY <1>2, <2>1, InnermostIsGreatest
  <2> QED
    BY <1>2, <2>2 DEF FindAllScope
<1> QED
  BY <1>1, <1>2

(* What a name denotes is in one of the scopes, under that name.           *)
LEMMA FoundInScope ==
  ASSUME NEW s \in Seq(Scopes), NEW n, FindAllScope(s, n) # NoVal
  PROVE  \E i \in 1..Len(s) : n \in DOMAIN s[i] /\ FindAllScope(s, n) = s[i][n]
<1>1. ScopesWith(s, n) # {}
  BY DEF FindAllScope
<1>2. Len(s) \in Nat /\ ScopesWith(s, n) \in SUBSET (1..Len(s))
  BY DEF ScopesWith
<1>3. Innermost(ScopesWith(s, n)) \in ScopesWith(s, n)
  BY <1>1, <1>2, InnermostIsGreatest
<1> QED
  BY <1>1, <1>3 DEF FindAllScope, ScopesWith

(* The lower part of a stack.                                              *)
LEMMA LowerPart ==
  ASSUME NEW s \in Seq(Scopes), NEW k \in 1..Len(s)
  PROVE  /\ SubSeq(s, 1, k) \in Seq(Scopes)
         /\ Len(SubSeq(s, 1, k)) = k
         /\ \A i \in 1..k : SubSeq(s, 1, k)[i] = s[i]
OBVIOUS

(* Stacks that agree up to k have the same lower part.                     *)
LEMMA SameLowerPart ==
  ASSUME NEW s \in Seq(Scopes), NEW t \in Seq(Scopes),
         NEW k \in 1..Len(s), k <= Len(t), \A i \in 1..k : s[i] = t[i]
  PROVE  SubSeq(s, 1, k) = SubSeq(t, 1, k)
<1>1. k \in 1..Len(t)
  OBVIOUS
<1>2. /\ SubSeq(s, 1, k) \in Seq(Scopes) /\ SubSeq(t, 1, k) \in Seq(Scopes)
      /\ Len(SubSeq(s, 1, k)) = k /\ Len(SubSeq(t, 1, k)) = k
      /\ \A i \in 1..k : SubSeq(s, 1, k)[i] = SubSeq(t, 1, k)[i]
  BY <1>1, LowerPart
<1> QED
  BY <1>2, SeqEqual

(* A scope with no declared name on top binds nothing new and saves what   *)
(* was bound: the step Enter.                                              *)
LEMMA PushBindings ==
  ASSUME NEW s \in Seq(Scopes), s # << >>, NEW new \in Scopes, DOMAIN new \subseteq {Anon}
  PROVE  /\ Env(Append(s, new)) = Env(s)
         /\ LocalOf(Append(s, new)) = {}
         /\ SavedOf(Append(s, new)) = Append(SavedOf(s), [env |-> Env(s), local |-> LocalOf(s)])
<1> DEFINE t == Append(s, new)
           top == Len(s)
<1>1. /\ t \in Seq(Scopes) /\ Len(t) = top + 1 /\ top \in Nat /\ top >= 1
      /\ \A i \in 1..top : t[i] = s[i]
      /\ t[top + 1] = new
  OBVIOUS
<1> HIDE DEF t
<1>2. ASSUME NEW n \in Names PROVE FindAllScope(t, n) = FindAllScope(s, n)
  <2>1. n \notin DOMAIN new
    BY NamesAssumption
  <2>2. ASSUME NEW i \in 1..top + 1 PROVE n \in DOMAIN t[i] => i \in 1..top
    BY <1>1, <2>1
  <2>3. ScopesWith(t, n) = ScopesWith(s, n)
    BY <1>1, <2>2 DEF ScopesWith
  <2>4. \A i \in ScopesWith(t, n) : t[i][n] = s[i][n]
    BY <1>1, <2>3 DEF ScopesWith
  <2> QED
    BY <1>1, <2>3, <2>4, SameSearch
<1>3. Env(t) = Env(s)
  BY <1>2 DEF Env
<1>4. LocalOf(t) = {}
  BY <1>1 DEF LocalOf
<1>5. ASSUME NEW i \in 1..top PROVE Frame(t, i) = Frame(s, i)
  <2>1. SubSeq(s, 1, i) = SubSeq(t, 1, i)
    BY <1>1, SameLowerPart
  <2> QED
    BY <1>1, <2>1 DEF Frame
<1>6. Frame(s, top) = [env |-> Env(s), local |-> LocalOf(s)]
  <2>1. SubSeq(s, 1, top) = s
    BY <1>1, SubSeqFull
  <2> QED
    BY <2>1 DEF Frame, LocalOf
<1>7. SavedOf(t) = Append(SavedOf(s), Frame(s, top))
  <2> DEFINE F == {Frame(s, i) : i \in 1..top}
  <2>1. /\ SavedOf(s) \in Seq(F) /\ Len(SavedOf(s)) = top - 1
        /\ \A i \in 1..top - 1 : SavedOf(s)[i] = Frame(s, i)
    <3>1. SavedOf(s) = [i \in 1..top - 1 |-> Frame(s, i)]
      BY DEF SavedOf
    <3>2. \A i \in 1..top - 1 : Frame(s, i) \in F
      BY <1>1
    <3>3. top - 1 \in Nat
      BY <1>1
    <3> HIDE DEF F, top
    <3>4. [i \in 1..top - 1 |-> Frame(s, i)] \in Seq(F)
      BY <3>2, <3>3, IsASeq
    <3> QED
      BY <3>1, <3>3, <3>4
  <2>2. /\ SavedOf(t) \in Seq(F) /\ Len(SavedOf(t)) = top
        /\ \A i \in 1..top : SavedOf(t)[i] = Frame(s, i)
    <3>1. SavedOf(t) = [i \in 1..top |-> Frame(t, i)]
      <4>1. Len(t) - 1 = top
        BY <1>1
      <4> QED
        BY <4>1 DEF SavedOf
    <3>2. \A i \in 1..top : Frame(t, i) \in F
      BY <1>5
    <3> HIDE DEF F, top
    <3>3. [i \in 1..top |-> Frame(t, i)] \in Seq(F)
      BY <1>1, <3>2, IsASeq
    <3>4. Len([i \in 1..top |-> Frame(t, i)]) = top
      BY <1>1, <3>3
    <3> QED
      BY <1>5, <3>1, <3>3, <3>4
  <2>3. Frame(s, top) \in F
    BY <1>1
  <2> HIDE DEF F, top
  <2>4. /\ Append(SavedOf(s), Frame(s, top)) \in Seq(F)
        /\ Len(Append(SavedOf(s), Frame(s, top))) = top
        /\ \A i \in 1..top : Append(SavedOf(s), Frame(s, top))[i] = Frame(s, i)
    BY <1>1, <2>1, <2>3
  <2> QED
    BY <2>2, <2>4, SeqEqual
<1> QED
  BY <1>3, <1>4, <1>6, <1>7 DEF t

(* Taking the top scope off restores what was saved: the step Leave.       *)
LEMMA PopBindings ==
  ASSUME NEW s \in Seq(Scopes), Len(s) >= 2
  PROVE  LET t == SubSeq(s, 1, Len(s) - 1)
         IN  /\ SavedOf(s) # << >>
             /\ Env(t) = SavedOf(s)[Len(SavedOf(s))].env
             /\ LocalOf(t) = SavedOf(s)[Len(SavedOf(s))].local
             /\ SavedOf(t) = SubSeq(SavedOf(s), 1, Len(SavedOf(s)) - 1)
<1> DEFINE top == Len(s)
           t == SubSeq(s, 1, top - 1)
           F == {Frame(s, i) : i \in 1..top}
<1>1. top \in Nat /\ top >= 2 /\ top - 1 \in 1..top /\ top - 1 \in Nat /\ top - 2 \in Nat
  OBVIOUS
<1>2. t \in Seq(Scopes) /\ Len(t) = top - 1 /\ \A i \in 1..top - 1 : t[i] = s[i]
  BY <1>1, LowerPart
<1> HIDE DEF t, top
<1>3. /\ SavedOf(s) \in Seq(F) /\ Len(SavedOf(s)) = top - 1
      /\ \A i \in 1..top - 1 : SavedOf(s)[i] = Frame(s, i)
  <2>1. SavedOf(s) = [i \in 1..top - 1 |-> Frame(s, i)]
    BY DEF SavedOf, top
  <2>2. \A i \in 1..top - 1 : Frame(s, i) \in F
    BY <1>1
  <2> HIDE DEF F
  <2>3. [i \in 1..top - 1 |-> Frame(s, i)] \in Seq(F)
    BY <1>1, <2>2, IsASeq
  <2>4. Len([i \in 1..top - 1 |-> Frame(s, i)]) = top - 1
    BY <1>1, <2>3
  <2> QED
    BY <2>1, <2>3, <2>4
<1>4. SavedOf(s) # << >>
  BY <1>1, <1>3
<1>5. SavedOf(s)[Len(SavedOf(s))] = [env |-> Env(t), local |-> LocalOf(t)]
  <2>1. SavedOf(s)[top - 1] = Frame(s, top - 1)
    BY <1>1, <1>3
  <2>2. SubSeq(s, 1, top - 1) = t /\ s[top - 1] = t[Len(t)]
    BY <1>1, <1>2 DEF t
  <2> QED
    BY <1>3, <2>1, <2>2 DEF Frame, LocalOf
<1>6. ASSUME NEW i \in 1..top - 2 PROVE Frame(t, i) = Frame(s, i)
  <2>1. i \in 1..Len(t) /\ i <= Len(s) /\ t[i] = s[i] /\ \A j \in 1..i : t[j] = s[j]
    BY <1>1, <1>2 DEF top
  <2>2. SubSeq(t, 1, i) = SubSeq(s, 1, i)
    BY <1>2, <2>1, SameLowerPart
  <2> QED
    BY <2>1, <2>2 DEF Frame
<1>7. SavedOf(t) = SubSeq(SavedOf(s), 1, Len(SavedOf(s)) - 1)
  <2>1. SavedOf(t) = [i \in 1..top - 2 |-> Frame(t, i)]
    <3>1. Len(t) - 1 = top - 2
      BY <1>1, <1>2
    <3> QED
      BY <3>1 DEF SavedOf
  <2>2. \A i \in 1..top - 2 : Frame(t, i) \in F
    BY <1>1, <1>6
  <2> HIDE DEF F
  <2>3. [i \in 1..top - 2 |-> Frame(t, i)] \in Seq(F)
    BY <1>1, <2>2, IsASeq
  <2>4. /\ SavedOf(t) \in Seq(F) /\ Len(SavedOf(t)) = top - 2
        /\ \A i \in 1..top - 2 : SavedOf(t)[i] = Frame(s, i)
    BY <1>1, <1>6, <2>1, <2>3
  <2>5. /\ SubSeq(SavedOf(s), 1, top - 2) \in Seq(F)
        /\ Len(SubSeq(SavedOf(s), 1, top - 2)) = top - 2
        /\ \A i \in 1..top - 2 : SubSeq(SavedOf(s), 1, top - 2)[i] = Frame(s, i)
    BY <1>1, <1>3
  <2>6. SavedOf(t) = SubSeq(SavedOf(s), 1, top - 2)
    BY <2>4, <2>5, SeqEqual
  <2>7. Len(SavedOf(s)) - 1 = top - 2
    BY <1>1, <1>3
  <2> QED
    BY <2>6, <2>7
<1> QED
  BY <1>4, <1>5, <1>7 DEF t, top

(* A name entered in the top scope denotes the value entered, the other    *)
(* names and the scopes below keep what they had: the step Declare.        *)
LEMMA InsertBindings ==
  ASSUME NEW s \in Seq(Scopes), s # << >>, NEW n \in Names, NEW v \in Values,
         n \notin DOMAIN s[Len(s)],
         Insert(s[Len(s)], n, v) \in Scopes
  PROVE  LET t == [s EXCEPT ![Len(s)] = Insert(@, n, v)]
         IN  /\ Env(t) = [Env(s) EXCEPT ![n] = v]
             /\ LocalOf(t) = LocalOf(s) \cup {n}
             /\ SavedOf(t) = SavedOf(s)
<1> DEFINE top == Len(s)
           ins == Insert(s[top], n, v)
           t   == [s EXCEPT ![top] = ins]
<1>1. /\ top \in Nat /\ top >= 1 /\ ins \in Scopes
      /\ t \in Seq(Scopes) /\ Len(t) = top
      /\ \A i \in 1..top - 1 : t[i] = s[i]
      /\ t[top] = ins
  <2> HIDE DEF ins
  <2>1. ins \in Scopes
    BY DEF ins
  <2> QED
    BY <2>1
<1>2. /\ DOMAIN ins = DOMAIN s[top] \cup {n}
      /\ ins[n] = v
      /\ \A m \in DOMAIN s[top] : ins[m] = s[top][m]
  BY DEF Insert
<1> HIDE DEF t, ins
<1>3. FindAllScope(t, n) = v
  <2>1. ScopesWith(t, n) \in SUBSET (1..top) /\ top \in ScopesWith(t, n)
    BY <1>1, <1>2 DEF ScopesWith
  <2>2. Innermost(ScopesWith(t, n)) \in 1..top /\ top <= Innermost(ScopesWith(t, n))
    BY <1>1, <2>1, InnermostIsGreatest
  <2>3. Innermost(ScopesWith(t, n)) = top
    <3> DEFINE k == Innermost(ScopesWith(t, n))
    <3>1. k \in 1..top /\ top <= k
      BY <2>2
    <3> HIDE DEF k, top
    <3>2. k = top
      BY <1>1, <3>1
    <3> QED
      BY <3>2 DEF k
  <2>4. FindAllScope(t, n) = t[top][n]
    BY <2>1, <2>3 DEF FindAllScope
  <2> QED
    BY <1>1, <1>2, <2>4
<1>4. ASSUME NEW m \in Names, m # n PROVE FindAllScope(t, m) = FindAllScope(s, m)
  <2>1. ASSUME NEW i \in 1..top
        PROVE  /\ m \in DOMAIN t[i] <=> m \in DOMAIN s[i]
               /\ m \in DOMAIN s[i] => t[i][m] = s[i][m]
    <3>1. CASE i = top
      BY <1>1, <1>2, <1>4, <3>1
    <3>2. CASE i # top
      <4>1. i \in 1..top - 1
        BY <1>1, <3>2
      <4> QED
        BY <1>1, <4>1
    <3> QED
      BY <3>1, <3>2
  <2>2. ScopesWith(t, m) = ScopesWith(s, m)
    BY <1>1, <2>1 DEF ScopesWith
  <2>3. \A i \in ScopesWith(t, m) : t[i][m] = s[i][m]
    BY <1>1, <2>1 DEF ScopesWith
  <2> QED
    BY <1>1, <2>2, <2>3, SameSearch
<1>5. Env(t) = [Env(s) EXCEPT ![n] = v]
  BY <1>3, <1>4 DEF Env
<1>6. LocalOf(t) = LocalOf(s) \cup {n}
  <2>1. n # Anon
    BY NamesAssumption
  <2> QED
    BY <1>1, <1>2, <2>1 DEF LocalOf
<1>7. ASSUME NEW i \in 1..top - 1 PROVE Frame(t, i) = Frame(s, i)
  <2>1. i \in 1..Len(t) /\ i <= Len(s) /\ t[i] = s[i] /\ \A j \in 1..i : t[j] = s[j]
    BY <1>1
  <2>2. SubSeq(t, 1, i) = SubSeq(s, 1, i)
    BY <1>1, <2>1, SameLowerPart
  <2> QED
    BY <2>1, <2>2 DEF Frame
<1>8. SavedOf(t) = SavedOf(s)
  BY <1>1, <1>7 DEF SavedOf
<1> QED
  BY <1>5, <1>6, <1>8 DEF t, ins

-----------------------------------------------------------------------------
(* The bindings of the table.                                              *)
LEMMA MappedTable ==
  /\ B!Init <=> /\ Env(module.valueStack) = [n \in Names |-> NoVal]
                /\ LocalOf(module.valueStack) = {}
                /\ SavedOf(module.valueStack) = << >>
  /\ B!vars = << Env(module.valueStack), LocalOf(module.valueStack), SavedOf(module.valueStack) >>
  /\ B!vars' = << Env(module'.valueStack), LocalOf(module'.valueStack), SavedOf(module'.valueStack) >>
BY DEF B!Init, B!vars, LocalOf, SavedOf, Frame, CurrentScope, ScopeLevel

(* The stack that is not touched binds what it bound.                      *)
LEMMA SameStack ==
  ASSUME module'.valueStack = module.valueStack
  PROVE  B!vars' = B!vars
BY MappedTable

(* A table whose stack was pushed has entered a block.                     *)
LEMMA PushStep ==
  ASSUME TypeInv, NEW new \in Scopes, DOMAIN new \subseteq {Anon},
         module'.valueStack = Append(module.valueStack, new)
  PROVE  B!Enter
<1> DEFINE s == module.valueStack
<1>1. s \in Seq(Scopes) /\ s # << >>
  BY StackNonEmpty
<1>2. /\ Env(module'.valueStack) = Env(s)
      /\ LocalOf(module'.valueStack) = {}
      /\ SavedOf(module'.valueStack) = Append(SavedOf(s), [env |-> Env(s), local |-> LocalOf(s)])
  BY <1>1, PushBindings
<1> QED
  BY <1>2 DEF B!Enter, LocalOf, SavedOf, Frame, CurrentScope, ScopeLevel

(* A table whose stack was popped has left one.                            *)
LEMMA PopStep ==
  ASSUME TypeInv, Len(module.valueStack) >= 2,
         module'.valueStack = SubSeq(module.valueStack, 1, Len(module.valueStack) - 1)
  PROVE  B!Leave
<1> DEFINE s == module.valueStack
<1>1. s \in Seq(Scopes) /\ Len(s) >= 2
  BY StackNonEmpty
<1>2. /\ SavedOf(s) # << >>
      /\ Env(module'.valueStack) = SavedOf(s)[Len(SavedOf(s))].env
      /\ LocalOf(module'.valueStack) = SavedOf(s)[Len(SavedOf(s))].local
      /\ SavedOf(module'.valueStack) = SubSeq(SavedOf(s), 1, Len(SavedOf(s)) - 1)
  BY <1>1, PopBindings
<1> QED
  BY <1>2 DEF B!Leave, LocalOf, SavedOf, Frame, CurrentScope, ScopeLevel

(* Declaring, with a variable that no scope on the stack holds.            *)
LEMMA InsertStep ==
  ASSUME TypeInv, NEW n \in Names, NEW v \in Values,
         v # NoVal,
         n \notin DOMAIN module.valueStack[Len(module.valueStack)],
         \A i \in 1..Len(module.valueStack) : \A m \in DOMAIN module.valueStack[i] :
           module.valueStack[i][m] # v,
         module'.valueStack = [module.valueStack EXCEPT ![Len(module.valueStack)] = Insert(@, n, v)],
         module' \in Tables
  PROVE  B!Declare(n)
<1> DEFINE s == module.valueStack
           ins == Insert(s[Len(s)], n, v)
<1>1. s \in Seq(Scopes) /\ s # << >> /\ Len(s) \in Nat /\ Len(s) >= 1
  BY StackNonEmpty
<1>2. ins \in Scopes
  <2>1. s[Len(s)] \in Maps(Names \cup {Anon}, Values)
    BY <1>1 DEF Scopes
  <2> QED
    BY <2>1, InsertMap DEF Scopes
<1>3. /\ Env(module'.valueStack) = [Env(s) EXCEPT ![n] = v]
      /\ LocalOf(module'.valueStack) = LocalOf(s) \cup {n}
      /\ SavedOf(module'.valueStack) = SavedOf(s)
  BY <1>1, <1>2, InsertBindings
<1>4. n \notin LocalOf(s)
  BY DEF LocalOf
<1>5. ASSUME NEW m \in Names PROVE FindAllScope(s, m) # v
  <2>1. SUFFICES ASSUME FindAllScope(s, m) = v PROVE FALSE
    OBVIOUS
  <2>2. PICK i \in 1..Len(s) : m \in DOMAIN s[i] /\ FindAllScope(s, m) = s[i][m]
    BY <1>1, <2>1, FoundInScope
  <2> QED
    BY <2>1, <2>2
<1>6. ASSUME NEW k \in 1..Len(s) - 1, NEW m \in Names PROVE FindAllScope(SubSeq(s, 1, k), m) # v
  <2> DEFINE low == SubSeq(s, 1, k)
  <2>1. SUFFICES ASSUME FindAllScope(low, m) = v PROVE FALSE
    OBVIOUS
  <2>2. k \in 1..Len(s)
    BY <1>1
  <2>3. low \in Seq(Scopes) /\ Len(low) = k /\ \A i \in 1..k : low[i] = s[i]
    BY <1>1, <2>2, LowerPart
  <2> HIDE DEF low
  <2>4. PICK i \in 1..Len(low) : m \in DOMAIN low[i] /\ FindAllScope(low, m) = low[i][m]
    BY <2>1, <2>3, FoundInScope
  <2>5. i \in 1..Len(s) /\ low[i] = s[i]
    BY <1>1, <2>2, <2>3, <2>4
  <2> QED
    BY <2>1, <2>4, <2>5
<1>7. ~B!InUse(v)
  <2>1. ASSUME NEW m \in Names PROVE Env(s)[m] # v
    BY <1>5 DEF Env
  <2>2. ASSUME NEW k \in DOMAIN SavedOf(s), NEW m \in Names PROVE SavedOf(s)[k].env[m] # v
    <3>1. k \in 1..Len(s) - 1
      BY DEF SavedOf
    <3>2. SavedOf(s)[k].env[m] = FindAllScope(SubSeq(s, 1, k), m)
      BY <3>1 DEF SavedOf, Frame, Env
    <3> QED
      BY <1>6, <3>1, <3>2
  <2> QED
    BY <2>1, <2>2 DEF B!InUse, SavedOf, Frame, ScopeLevel
<1> QED
  BY <1>3, <1>4, <1>7 DEF B!Declare, LocalOf, SavedOf, Frame, CurrentScope, ScopeLevel

-----------------------------------------------------------------------------
(* The actions.  A function body is a block of its own; the slot for its   *)
(* return value has no name and binds none.                                *)
LEMMA DefineFunctionEnters ==
  ASSUME IndInv, NEW f \in FuncNames, DefineFunction(f)
  PROVE  B!Enter
<1> DEFINE new == Insert(NoEntries, Anon, LocalVar(f, 1))
<1>1. TypeInv /\ ~FindFunction(module, f)
  BY DEF IndInv, DefineFunction
<1>2. module'.valueStack = Append(module.valueStack, new)
  BY <1>1, BeginFunctionTable DEF DefineFunction
<1>3. new \in Scopes
  <2>1. NoEntries \in Maps(Names \cup {Anon}, Values)
    BY EmptyMap DEF NoEntries
  <2>2. LocalVar(f, 1) \in Values
    BY BoundAssumption DEF Values
  <2> QED
    BY <2>1, <2>2, InsertMap DEF Scopes
<1>4. DOMAIN new \subseteq {Anon}
  BY DEF Insert, NoEntries
<1> HIDE DEF new
<1> QED
  BY <1>1, <1>2, <1>3, <1>4, PushStep

(* A block of a function.                                                  *)
LEMMA EnterBlockEnters ==
  ASSUME IndInv, EnterBlock
  PROVE  B!Enter
<1>1. TypeInv /\ module \in Tables
  BY DEF IndInv, TypeInv
<1>2. module'.valueStack = Append(module.valueStack, NoEntries)
  BY <1>1, EnterScopeTable DEF EnterBlock
<1>3. NoEntries \in Scopes /\ DOMAIN NoEntries \subseteq {Anon}
  BY EmptyMap DEF NoEntries, Scopes
<1> QED
  BY <1>1, <1>2, <1>3, PushStep

(* The end of a block restores the bindings around it.                     *)
LEMMA LeaveBlockLeaves ==
  ASSUME IndInv, LeaveBlock
  PROVE  B!Leave
<1>1. TypeInv /\ module \in Tables /\ module.valueStack # << >>
      /\ module.valueStack \in Seq(Scopes)
  BY StackNonEmpty DEF IndInv, TypeInv
<1>2. Len(module.valueStack) >= 2
  BY <1>1 DEF LeaveBlock, ScopeLevel
<1>3. module'.valueStack = SubSeq(module.valueStack, 1, Len(module.valueStack) - 1)
  BY <1>1, LeaveScopeTable DEF LeaveBlock
<1> QED
  BY <1>1, <1>2, <1>3, PopStep

(* The end of a function restores the global bindings.                     *)
LEMMA FinishFunctionLeaves ==
  ASSUME IndInv, FinishFunction
  PROVE  B!Leave
<1> DEFINE s1 == SetCurrentFunction(module, NoFunc)
<1>1. TypeInv /\ module \in Tables /\ module.valueStack # << >>
      /\ module.valueStack \in Seq(Scopes)
  BY StackNonEmpty DEF IndInv, TypeInv
<1>2. Len(module.valueStack) >= 2
  BY <1>1 DEF FinishFunction, ScopeLevel
<1>3. /\ s1 \in Tables
      /\ s1.valueStack = module.valueStack
  BY <1>1, SetCurrentFunctionTable
<1>4. module' = LeaveScope(s1) /\ s1.valueStack # << >>
  BY <1>1, <1>3 DEF FinishFunction, EndFunction
<1> HIDE DEF s1
<1>5. module'.valueStack = SubSeq(module.valueStack, 1, Len(module.valueStack) - 1)
  BY <1>3, <1>4, LeaveScopeTable
<1> QED
  BY <1>1, <1>2, <1>5, PopStep

(* A name that is not refused is not declared in the innermost scope: what *)
(* a scope holds is never the null pointer.                                *)
LEMMA NotRejectedIsNew ==
  ASSUME IndInv, NEW n \in Names, ~Rejected(module, n)
  PROVE  n \notin DOMAIN module.valueStack[Len(module.valueStack)]
<1> DEFINE top == module.valueStack[Len(module.valueStack)]
<1>1. TypeInv /\ module.valueStack \in Seq(Scopes) /\ Len(module.valueStack) \in 1..Len(module.valueStack)
  BY StackNonEmpty DEF IndInv
<1>2. FindCurrentScope(module, n) = NoVal
  BY NamesAssumption DEF Rejected
<1>3. SUFFICES ASSUME n \in DOMAIN top PROVE FALSE
  OBVIOUS
<1>4. top[n] = NoVal
  BY <1>2, <1>3 DEF FindCurrentScope, CurrentScope
<1>5. top[n] \in Values
  <2>1. top \in Scopes
    BY <1>1
  <2> QED
    BY <1>3, <2>1 DEF Scopes, Maps
<1>6. ASSUME NEW v \in Values PROVE v # NoVal
  <2>1. v.kind = "local" \/ v.kind = "global"
    BY DEF Values, LocalVar, GlobalVar, Value
  <2> QED
    BY <2>1 DEF NoVal, Value
<1> HIDE DEF top
<1> QED
  BY <1>4, <1>5, <1>6

(* A new local variable is in no scope yet.                                *)
LEMMA NewLocalIsFresh ==
  ASSUME IndInv, module.currentFunc # NoFunc,
         NEW i \in 1..Len(module.valueStack), NEW m \in DOMAIN module.valueStack[i]
  PROVE  module.valueStack[i][m]
           # LocalVar(module.currentFunc, Len(module.varsVector[module.currentFunc]) + 1)
<1> DEFINE vs == module.varsVector[module.currentFunc]
<1>1. TypeInv /\ module.valueStack \in Seq(Scopes)
  BY StackNonEmpty DEF IndInv
<1>2. CASE i = 1
  <2>1. PICK g \in DOMAIN module.globals : module.valueStack[1][m] = GlobalVar(g)
    BY <1>2 DEF IndInv, ScopesHoldOwnVariables, HoldsGlobals
  <2> QED
    BY <1>2, <2>1, LocalIsNotGlobal
<1>3. CASE i # 1
  <2>1. i \in 2..Len(module.valueStack)
    BY <1>1, <1>3
  <2>2. PICK l \in DOMAIN vs : module.valueStack[i][m] = LocalVar(module.currentFunc, l)
    BY <2>1 DEF IndInv, ScopesHoldOwnVariables, HoldsLocals
  <2>3. vs \in Seq(Variable)
    <3>1. module \in Tables /\ module.currentFunc \in DOMAIN module.varsVector
      BY <1>1 DEF TypeInv, FindFunction
    <3> QED
      BY <3>1 DEF Tables, Maps
  <2>4. l # Len(vs) + 1
    <3> HIDE DEF vs
    <3> QED
      BY <2>3
  <2> QED
    BY <2>2, <2>4, SameLocal
<1> QED
  BY <1>2, <1>3

(* A new global variable is in no scope yet.                               *)
LEMMA NewGlobalIsFresh ==
  ASSUME IndInv, module.currentFunc = NoFunc,
         NEW i \in 1..Len(module.valueStack), NEW m \in DOMAIN module.valueStack[i]
  PROVE  module.valueStack[i][m] # GlobalVar(Len(module.globals) + 1)
<1>1. TypeInv /\ Len(module.valueStack) = 1 /\ module.globals \in Seq(Names)
  BY StackNonEmpty DEF IndInv, TypeInv, Tables, FunctionHasScope, ScopeLevel
<1>2. i = 1
  BY <1>1
<1>3. PICK g \in DOMAIN module.globals : module.valueStack[1][m] = GlobalVar(g)
  BY <1>2 DEF IndInv, ScopesHoldOwnVariables, HoldsGlobals
<1>4. g # Len(module.globals) + 1
  BY <1>1
<1> QED
  BY <1>2, <1>3, <1>4, SameGlobal

(* A declaration binds the name to a fresh variable, or changes nothing    *)
(* when the scope has the name.                                            *)
LEMMA DeclareVariableDeclares ==
  ASSUME IndInv, NEW n \in Names, NEW size \in Sizes, DeclareVariable(n, size)
  PROVE  B!Declare(n) \/ B!vars' = B!vars
<1>1. CASE Rejected(module, n)
  <2>1. module' = module
    BY <1>1 DEF DeclareVariable, NewVarValue
  <2> QED
    BY <2>1, SameStack
<1>2. CASE ~Rejected(module, n) /\ module.currentFunc # NoFunc
  <2> DEFINE new == LocalVar(module.currentFunc, Len(module.varsVector[module.currentFunc]) + 1)
  <2>1. TypeInv /\ module.currentFunc \in DOMAIN module.varsVector
    BY <1>2 DEF IndInv, TypeInv, FindFunction
  <2>2. /\ module' \in Tables /\ new \in Values
        /\ module'.valueStack = [module.valueStack EXCEPT ![Len(module.valueStack)] = Insert(@, n, new)]
    BY <1>2, <2>1, NewLocalTable DEF DeclareVariable
  <2>3. new # NoVal
    BY DEF LocalVar, NoVal, Value
  <2>4. \A i \in 1..Len(module.valueStack) : \A m \in DOMAIN module.valueStack[i] :
          module.valueStack[i][m] # new
    BY <1>2, NewLocalIsFresh
  <2> HIDE DEF new
  <2> QED
    BY <1>2, <2>1, <2>2, <2>3, <2>4, NotRejectedIsNew, InsertStep
<1>3. CASE ~Rejected(module, n) /\ module.currentFunc = NoFunc
  <2> DEFINE new == GlobalVar(Len(module.globals) + 1)
  <2>1. TypeInv
    BY DEF IndInv
  <2>2. /\ module' \in Tables /\ new \in Values
        /\ module'.valueStack = [module.valueStack EXCEPT ![Len(module.valueStack)] = Insert(@, n, new)]
    BY <1>3, <2>1, NewGlobalTable DEF DeclareVariable
  <2>3. new # NoVal
    BY DEF GlobalVar, NoVal, Value
  <2>4. \A i \in 1..Len(module.valueStack) : \A m \in DOMAIN module.valueStack[i] :
          module.valueStack[i][m] # new
    BY <1>3, NewGlobalIsFresh
  <2> HIDE DEF new
  <2> QED
    BY <1>3, <2>1, <2>2, <2>3, <2>4, NotRejectedIsNew, InsertStep
<1> QED
  BY <1>1, <1>2, <1>3

(* The table as constructed has the global scope only, with no name in it. *)
LEMMA InitBindings ==
  ASSUME Init
  PROVE  B!Init
<1> DEFINE s == module.valueStack
<1>1. s = << NoEntries >>
  <2> DEFINE s1 == EnterScope(EmptyModule)
             s2 == NewFunction(s1, "putint", Signature(1, TRUE))
  <2>1. s1.valueStack = << NoEntries >>
    BY DEF EnterScope, EmptyModule
  <2>2. s2.valueStack = s1.valueStack
    BY DEF NewFunction, EnterScope, EmptyModule
  <2>3. NewFunction(s2, "getint", Signature(0, FALSE)).valueStack = s2.valueStack
    BY DEF NewFunction, EnterScope, EmptyModule
  <2> QED
    BY <2>1, <2>2, <2>3 DEF Init, NewModule
<1>2. s \in Seq(Scopes) /\ Len(s) = 1 /\ s[1] = NoEntries
  <2>1. NoEntries \in Scopes
    BY EmptyMap DEF NoEntries, Scopes
  <2> HIDE DEF s
  <2> QED
    BY <1>1, <2>1
<1> HIDE DEF s
<1>3. ASSUME NEW n \in Names PROVE FindAllScope(s, n) = NoVal
  <2>1. ScopesWith(s, n) = {}
    BY <1>2 DEF ScopesWith, NoEntries
  <2> QED
    BY <2>1 DEF FindAllScope
<1>4. Env(s) = [n \in Names |-> NoVal]
  BY <1>3 DEF Env
<1>5. LocalOf(s) = {}
  BY <1>2 DEF LocalOf, NoEntries
<1>6. SavedOf(s) = << >>
  BY <1>2 DEF SavedOf
<1> QED
  BY <1>4, <1>5, <1>6, MappedTable DEF s

(* The scope stack implements block-structured bindings: what a name means *)
(* after a block is what it meant before, a declaration gets a variable    *)
(* that no other visible or hidden name denotes, and a second declaration  *)
(* in the same scope is refused.                                           *)
THEOREM TableImplementsBindings == Spec => ImplementsBindings
<1>1. Init => B!Init
  BY InitBindings
<1>2. IndInv /\ [Next]_vars => [B!Next]_(B!vars)
  <2> SUFFICES ASSUME IndInv, [Next]_vars
               PROVE  B!Next \/ B!vars' = B!vars
    OBVIOUS
  <2>1. ASSUME NEW f \in FuncNames, DefineFunction(f) PROVE B!Next
    BY <2>1, DefineFunctionEnters DEF B!Next
  <2>2. CASE FinishFunction
    BY <2>2, FinishFunctionLeaves DEF B!Next
  <2>3. CASE EnterBlock
    BY <2>3, EnterBlockEnters DEF B!Next
  <2>4. CASE LeaveBlock
    BY <2>4, LeaveBlockLeaves DEF B!Next
  <2>5. ASSUME NEW n \in Names, NEW size \in Sizes, DeclareVariable(n, size) PROVE B!Next \/ B!vars' = B!vars
    BY <2>5, DeclareVariableDeclares DEF B!Next
  <2>6. ASSUME NEW i \in Literals, UseConstant(i) PROVE B!vars' = B!vars
    BY <2>6, SameStack DEF UseConstant, NewConstInt, IndInv, TypeInv, Tables
  <2>7. CASE UNCHANGED vars
    BY <2>7, SameStack DEF vars
  <2> QED
    BY <2>1, <2>2, <2>3, <2>4, <2>5, <2>6, <2>7 DEF Next
<1> QED
  BY <1>1, <1>2, IndInvHolds, PTL DEF Spec, ImplementsBindings, B!Spec
=============================================================================
