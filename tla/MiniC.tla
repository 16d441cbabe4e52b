------------------------------- MODULE MiniC -------------------------------
(***************************************************************************)
(* What a MiniC program means, and what the linear IR of one means: two    *)
(* interpreters, and the properties of IRGenerator that compare them.      *)
(*                                                                         *)
(* An uninitialised variable holds the same arbitrary value for both, and  *)
(* the k-th call of getint reads the same number.  Calls nested deeper     *)
(* than MaxDepth count as a program that does not end.                     *)
(***************************************************************************)
EXTENDS IRGenerator

CONSTANTS
  Main,      \* the function a program starts with
  MaxDepth   \* bound: nesting depth of calls

Junk     == 77
Input(k) == 10 * k

-----------------------------------------------------------------------------
(* The tree, as the comments of the handlers describe it: operands are     *)
(* evaluated from left to right, every declaration makes a variable.  A    *)
(* scope maps names to places in the store; ret is empty until a return    *)
(* gives the function its value.  C leaves the order of the operands free: *)
(* raced says that it mattered, because an operand changed a variable that *)
(* is itself an operand to its left.                                       *)

Scope0 == [n \in {} |-> 0]

Start == [scopes |-> << Scope0 >>, store |-> << >>, out |-> << >>, in |-> 0,
          ret |-> << >>, diverged |-> FALSE, raced |-> FALSE]

Done(st) == st.ret # << >> \/ st.diverged

Place(st, n) ==
  LET in == {i \in DOMAIN st.scopes : n \in DOMAIN st.scopes[i]}
  IN  IF in = {} THEN 0 ELSE st.scopes[Max(in)][n]

Read(st, n)     == IF Place(st, n) = 0 THEN Junk ELSE st.store[Place(st, n)]
Write(st, n, v) == [st EXCEPT !.store[Place(st, n)] = v]

DeclareName(st, n) ==
  [st EXCEPT !.scopes = Append(Front(@), (n :> Len(st.store) + 1) @@ Last(@)),
             !.store  = Append(@, IF Len(st.scopes) = 1 THEN 0 ELSE Junk)]

Valued(val, st) == [val |-> val, st |-> st]

RECURSIVE Eval(_, _, _), EvalAll(_, _, _), Apply(_, _, _, _), Exec(_, _, _), ExecAll(_, _, _)

EvalAll(es, st, depth) ==
  IF es = << >> THEN [vals |-> << >>, st |-> st]
  ELSE LET first == Eval(Head(es), st, depth)
           rest  == EvalAll(Tail(es), first.st, depth)
           late  == Head(es).op = "var" /\ Read(rest.st, Head(es).name) # first.val
       IN  [vals |-> << first.val >> \o rest.vals, st |-> [rest.st EXCEPT !.raced = @ \/ late]]

Eval(e, st, depth) ==
  LET operands == EvalAll(e.sons, st, depth)
  IN  CASE e.op = "uint" -> Valued(e.num, st)
        [] e.op = "var"  -> Valued(Read(st, e.name), st)
        [] e.op = "add"  -> Valued(operands.vals[1] + operands.vals[2], operands.st)
        [] e.op = "sub"  -> Valued(operands.vals[1] - operands.vals[2], operands.st)
        [] e.op = "call" -> Apply(e.name, operands.vals, operands.st, depth)
        [] OTHER         -> Valued(Junk, st)

Body(f) == (CHOOSE n \in Range(program.sons) : n.op = "func" /\ n.name = f).sons

Apply(f, args, st, depth) ==
  CASE f = "getint" -> Valued(Input(st.in + 1), [st EXCEPT !.in = @ + 1])
    [] f = "putint" -> Valued(Junk, [st EXCEPT !.out = Append(@, args[1])])
    [] OTHER ->
         IF depth = 0 THEN Valued(Junk, [st EXCEPT !.diverged = TRUE])
         ELSE LET end == ExecAll(Body(f), [st EXCEPT !.scopes = << st.scopes[1], Scope0 >>, !.ret = << >>],
                                 depth - 1)
              IN  Valued(IF end.ret = << >> THEN Junk ELSE end.ret[1],
                         [end EXCEPT !.scopes = st.scopes, !.ret = << >>])

Exec(s, st, depth) ==
  CASE s.op = "decl"    -> FoldLeft(LAMBDA t, d : DeclareName(t, d.name), st, s.sons)
    [] s.op = "block"   -> [ExecAll(s.sons, [st EXCEPT !.scopes = Append(@, Scope0)], depth)
                              EXCEPT !.scopes = st.scopes]
    [] s.op = "assign"  -> LET r == Eval(s.sons[2], st, depth) IN Write(r.st, s.sons[1].name, r.val)
    [] s.op = "return"  -> LET r == Eval(s.sons[1], st, depth) IN [r.st EXCEPT !.ret = << r.val >>]
    [] OTHER            -> Eval(s, st, depth).st

ExecAll(body, st, depth) ==
  IF body = << >> \/ Done(st) THEN st
  ELSE ExecAll(Tail(body), Exec(Head(body), st, depth), depth)

(* What can be seen of an execution. *)
Outcome(diverged, ret, out, in, globals) ==
  [diverged |-> diverged,
   seen     |-> IF diverged THEN << >> ELSE << ret, out, in, globals >>]

DeclsOf(t) == SelectSeq(t.sons, LAMBDA s : s.op = "decl")

Evaluation == Apply(Main, << >>, ExecAll(DeclsOf(program), Start, MaxDepth), MaxDepth)

Meaning ==
  LET end   == Evaluation
      scope == end.st.scopes[1]
  IN  Outcome(end.st.diverged, end.val, end.st.out, end.st.in,
              [n \in DOMAIN scope |-> end.st.store[scope[n]]])

-----------------------------------------------------------------------------
(* The IR.  The temporaries and the local variables belong to the          *)
(* activation of a function, the rest to the machine.                      *)

Activation(f) == [temps |-> [i \in {} |-> 0], locals |-> [i \in DOMAIN module.varsVector[f] |-> Junk]]

Get(v, act, m) ==
  CASE v.kind = "inst"   -> IF v.id \in DOMAIN act.temps THEN act.temps[v.id] ELSE Junk
    [] v.kind = "local"  -> act.locals[v.id]
    [] v.kind = "global" -> m.globals[v.id]
    [] v.kind = "const"  -> v.id

RECURSIVE Run(_, _, _, _, _), Invoke(_, _, _, _)

Invoke(f, args, m, depth) ==
  CASE f = "getint" -> Valued(Input(m.in + 1), [m EXCEPT !.in = @ + 1])
    [] f = "putint" -> Valued(Junk, [m EXCEPT !.out = Append(@, args[1])])
    [] OTHER -> IF depth = 0 THEN Valued(Junk, [m EXCEPT !.diverged = TRUE])
                ELSE Run(ircode[f], 1, Activation(f), m, depth - 1)

Run(code, pc, act, m, depth) ==
  LET inst    == code[pc]
      arg(k)  == Get(inst.args[k], act, m)
      temp(x) == [act EXCEPT !.temps = (inst.id :> x) @@ @]
  IN  CASE m.diverged        -> Valued(Junk, m)
        [] inst.op = "exit"  -> Valued(arg(1), m)
        [] inst.op \in {"entry", "label"} -> Run(code, pc + 1, act, m, depth)
        [] inst.op = "goto"  ->
             Run(code, CHOOSE i \in DOMAIN code : code[i].op = "label" /\ code[i].id = inst.target.id, act, m, depth)
        [] inst.op = "add"   -> Run(code, pc + 1, temp(arg(1) + arg(2)), m, depth)
        [] inst.op = "sub"   -> Run(code, pc + 1, temp(arg(1) - arg(2)), m, depth)
        [] inst.op = "move"  ->
             IF inst.args[1].kind = "local"
             THEN Run(code, pc + 1, [act EXCEPT !.locals[inst.args[1].id] = arg(2)], m, depth)
             ELSE Run(code, pc + 1, act, [m EXCEPT !.globals[inst.args[1].id] = arg(2)], depth)
        [] inst.op = "call"  ->
             LET r == Invoke(inst.target.func, [k \in DOMAIN inst.args |-> arg(k)], m, depth)
             IN  Run(code, pc + 1, temp(r.val), r.st, depth)

Execution ==
  LET start == [globals |-> [i \in DOMAIN module.globals |-> 0], out |-> << >>, in |-> 0, diverged |-> FALSE]
      end   == Invoke(Main, << >>, start, MaxDepth)
  IN  Outcome(end.st.diverged, end.val, end.st.out, end.st.in,
              [n \in Range(module.globals) |-> end.st.globals[CHOOSE i \in DOMAIN module.globals : module.globals[i] = n]])

Runnable == status = "ok" /\ Main \in DOMAIN ircode

-----------------------------------------------------------------------------
(* Properties *)

(* A tree and all its parts. *)
RECURSIVE NodesOf(_)
NodesOf(t) == {t} \cup UNION {NodesOf(t.sons[i]) : i \in DOMAIN t.sons}

(* Some scope of the program declares a name twice. *)
Redeclares(p) ==
  \E t \in {n \in NodesOf(p) : n.op \in {"unit", "func", "block"}} :
    LET variables == FlattenSeq([i \in DOMAIN DeclsOf(t) |-> DeclsOf(t)[i].sons])
    IN  \E i, j \in DOMAIN variables : i < j /\ variables[i].name = variables[j].name

(* The IR of an accepted program does what the program means: same value   *)
(* returned, same output, same input read, same final global variables,    *)
(* and it ends if and only if the program does.  C gives no meaning to a   *)
(* program that declares a name twice in a scope, and leaves open what one *)
(* does whose operands change each other.                                  *)
SemanticsPreserved ==
  Runnable /\ ~Redeclares(program) /\ ~Evaluation.st.raced => Execution = Meaning

(* What two comments say.  A name that is declared twice in a scope is a   *)
(* semantic error (Module::newVarValue), so that the program is refused;   *)
(* the left operand of an operator is computed first (IRGenerator::ir_add, *)
(* ir_sub), so that a function called on its right cannot change it.  An   *)
(* accepted program keeps one of these promises at least: weaker than      *)
(* each of them.                                                           *)
RefusedOrLeftFirst == Runnable => ~Redeclares(program) \/ Execution = Meaning

(* The programs in which every call is legal. *)
Defines(p, i, f) == p.sons[i].op = "func" /\ p.sons[i].name = f

CallsLegal(p) ==
  \A i \in DOMAIN p.sons :
    /\ p.sons[i].op = "func" => /\ p.sons[i].name \notin Table!Builtins
                                /\ \A j \in 1..i - 1 : ~Defines(p, j, p.sons[i].name)
    /\ \A c \in NodesOf(p.sons[i]) :
         c.op = "call" => \/ c.name = "putint" /\ Len(c.sons) = 1
                          \/ c.name = "getint" /\ c.sons = << >>
                          \/ c.sons = << >> /\ \E j \in 1..i : Defines(p, j, c.name)

HalfAssignment(t) == t.op = "assign" /\ Len(t.sons) < 2

(* The programs that are refused are those with a call to a function that  *)
(* is not defined yet or takes another number of arguments, and those that *)
(* define a function again, a built-in one included; a tree in which an    *)
(* assignment has one side is refused only by luck.                        *)
RefusesIllegalCalls ==
  /\ status = "ok"     => CallsLegal(program)
  /\ status = "failed" => ~CallsLegal(program) \/ \E t \in NodesOf(program) : HalfAssignment(t)
=============================================================================
