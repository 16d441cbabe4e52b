--------------------------- MODULE MCIRGenerator ---------------------------
(* The programs to translate: a global variable g, a local x that may      *)
(* shadow it or be missing, and functions that change g.                   *)
EXTENDS MiniC

CONSTANTS g, x, f, main

MCNames     == {g, x, f}
MCFuncNames == {f, main}

Exprs == {VarId(g), VarId(x), Uint(1)}
Calls == {Call(f, << >>), Call("getint", << >>)} \cup {Call("putint", << e >>) : e \in Exprs}
Sums(L, R) == {Binary(op, l, r) : op \in {"add", "sub"}, l \in L, r \in R}

Decl(n) == DeclStmt(<< VarDecl(n) >>)

(* f changes g and returns it. *)
Bump == FuncDef(f, << Assign(VarId(g), Binary("add", VarId(g), Uint(1))), Return(VarId(g)) >>)

(* Every expression with two operators, of which g + f() is one. *)
ExprPrograms ==
  {Unit(<< Decl(g), Bump, FuncDef(main, << Decl(x), Assign(VarId(x), Uint(1)), Return(e) >>) >>) :
     e \in Sums(Exprs \cup Calls, Exprs \cup Calls) \cup Sums(Sums(Exprs, Calls), Exprs \cup Calls)}

(* Nested blocks that declare, shadow and forget names, of the types the   *)
(* parsers give them.                                                      *)
Simple == {Decl(x), Decl(g), DeclStmt(<< VarDecl(x), VoidDecl(g) >>), DeclStmt(<< VarDecl(x), VarDecl(x) >>),
           Assign(VarId(x), Uint(1)), Assign(VarId(g), VarId(x)), VarId(x)}
Blocks == {Block(<< a, b >>) : a, b \in Simple} \cup {Block(<< a, Block(<< b >>) >>) : a, b \in Simple}

ScopePrograms ==
  {Unit(<< Decl(g), FuncDef(main, << a, b, c, Return(VarId(x)) >>) >>) : a, c \in Simple, b \in Blocks}

(* Functions defined in any order or twice, called before or after they    *)
(* are, with the wrong number of arguments, with or without a return, and  *)
(* the odd trees the hand-written parser builds.                           *)
Bodies == {<< >>, << Return(Uint(1)) >>, << Return(VarId(x)) >>, << Return(Uint(1)), Call(f, << >>) >>,
           << Node("return", "", 0, << >>) >>, << Decl(x), Node("assign", "", 0, << VarId(x) >>) >>, << Return(Node("params", "", 0, << >>)) >>,
           << Return(Call(main, << >>)) >>, << Call("putint", << >>) >>, << Call(f, << Uint(1) >>) >>,
           << Decl(x), Assign(VarId(x), Call("putint", << Call(f, << >>) >>)), Block(<< Return(VarId(x)) >>) >>}
Defs   == {FuncDef(n, b) : n \in {f, main}, b \in Bodies} \cup {FuncDef("getint", << >>)}

UnitPrograms == {Unit(<< d >>) : d \in Defs \cup {Decl(g)}} \cup {Unit(<< d, e >>) : d, e \in Defs}
                \cup {Unit(<< d, Decl(f), e >>) : d, e \in Defs}

MCPrograms == ExprPrograms \cup ScopePrograms \cup UnitPrograms

(* int g; int f() { g = g + 1; return g; }                                 *)
(* int main() { int x, x; return g + f(); }                                *)
LateRead ==
  {Unit(<< Decl(g), Bump, FuncDef(main, << DeclStmt(<< VarDecl(x), VarDecl(x) >>),
                                           Return(Binary("add", VarId(g), Call(f, << >>))) >>) >>)}

(* The nodes of the programs. *)
Sons(nodes) == UNION {Range(t.sons) : t \in nodes}

PartsOf(programs) ==
  LET functions == Sons(programs)
      body      == Sons(functions)
      inner     == Sons(body)
  IN  programs \cup functions \cup body \cup inner \cup Sons(inner) \cup Sons(Sons(inner))

MCNodes   == PartsOf(MCPrograms)
LateNodes == PartsOf(LateRead)
=============================================================================
