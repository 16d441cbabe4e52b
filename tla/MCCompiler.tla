----------------------------- MODULE MCCompiler -----------------------------
(* Whole programs: globals, locals and nested scopes, sums that need       *)
(* several temporaries, constants beyond 16 bits, output, input that is    *)
(* not used, calls whose result is not used, recursion.                    *)
EXTENDS ArmMachine

CONSTANTS g, x, f, main

MCNames     == {g, x, f}
MCFuncNames == {f, main}

MCIRVals ==
  {Table!Value("inst", fn, i) : fn \in MCFuncNames, i \in 1..30}
    \cup {Table!Value("local", fn, i) : fn \in MCFuncNames, i \in 1..6}
    \cup {Table!Value("global", NoFunc, i) : i \in 1..2}
    \cup {Table!Value("const", NoFunc, i) : i \in {1, 65537}}
    \cup {Table!Value("reg", NoFunc, i) : i \in 0..15}
MCUses        == 1..70
MCMaxInsts    == 25
MCMaxOperands == 4

Atoms == {VarId(g), VarId(x), Uint(1), Uint(65537)}
Sums(L, R) == {Binary(op, l, r) : op \in {"add", "sub"}, l \in L, r \in R}
Exprs == Atoms \cup Sums({VarId(x), Uint(65537)}, Atoms)
           \cup Sums(Sums({VarId(g)}, {VarId(x), Uint(1)}), Sums({VarId(x)}, Atoms))

Decl(n) == DeclStmt(<< VarDecl(n) >>)
Show(e) == Call("putint", << e >>)

Bump == FuncDef(f, << Assign(VarId(g), Binary("add", VarId(g), Uint(1))), Return(VarId(g)) >>)
Loop == FuncDef(f, << Call(f, << >>), Return(Uint(1)) >>)

MainDef(body) == FuncDef(main, << Decl(x), Assign(VarId(x), Uint(1)) >> \o body)

Steps == {Call(f, << >>), Call("getint", << >>), Show(VarId(g)), Show(Binary("sub", VarId(x), VarId(g))),
          Block(<< Decl(x), Assign(VarId(x), Uint(65537)), Show(VarId(x)) >>), Return(VarId(x))}

Ended(body) == body \o << Return(VarId(g)) >>

(* A second variable f in the declaration of x, which Bison makes void, in *)
(* front of an inner one of g, and with or without a use of f.             *)
VoidUses == {Assign(VarId(f), Uint(1)), Assign(VarId(x), VarId(f))}

VoidPrograms ==
  {Unit(<< Decl(g), Bump,
           FuncDef(main, << DeclStmt(<< VarDecl(x), VoidDecl(f) >>), Assign(VarId(x), Uint(1)) >> \o d \o Ended(<< a, b >>)) >>) :
     d \in {<< >>, << Decl(g), Assign(VarId(g), Uint(65537)) >>}, a \in Steps \cup VoidUses, b \in Steps}

MCPrograms ==
  {Unit(<< Decl(g), Bump, MainDef(<< Assign(VarId(x), e), Show(VarId(x)), Return(VarId(x)) >>) >>) : e \in Exprs}
    \cup {Unit(<< Decl(g), Bump, MainDef(Ended(<< a, b, c >>)) >>) : a, b, c \in Steps}
    \cup {Unit(<< Decl(g), Loop, MainDef(Ended(<< a, b >>)) >>) : a, b \in Steps}
    \cup {Unit(<< Decl(g), MainDef(<< Call("putint", << >>) >>) >>)}
    \cup VoidPrograms

MCNodes == UNION {NodesOf(p) : p \in MCPrograms}

(* f(); return g; *)
CallPrograms == {Unit(<< Decl(g), Bump, MainDef(Ended(<< Call(f, << >>) >>)) >>)}
CallNodes    == UNION {NodesOf(p) : p \in CallPrograms}
=============================================================================
