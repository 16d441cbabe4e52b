------------------------------ MODULE Grammar ------------------------------
(***************************************************************************)
(* The language of MiniC.y, as the set of its sentences up to a length,    *)
(* each with the tree it stands for.  A token is named by its kind.        *)
(*                                                                         *)
(* Levels[n] holds the phrases of n tokens; they are made from shorter     *)
(* ones, production by production.                                         *)
(***************************************************************************)
EXTENDS AST, Integers

CONSTANTS BodyTokens,    \* bound: tokens between the braces of a function
          MaxTokens      \* bound: length of a sentence

Tokens == {"digit", "id", "int", "return", ";", "(", ")", "{", "}", ",", "=", "-", "+"}

Phrase(toks, tree) == [toks |-> toks, tree |-> tree]

Of(ok, phrases) == IF ok THEN phrases ELSE {}

(* Phrases of n tokens that consist of a phrase a, tokens, and a phrase b. *)
Pairs(n, between) == {p \in (1 .. n) \X (1 .. n) : p[1] + p[2] + between = n}

Bracketed(open, p, close, tree) == Phrase(open \o p.toks \o close, tree)

PrimaryExps(t, n) ==
  Of(n = 1, {Phrase(<< "digit" >>, UintLeaf), Phrase(<< "id" >>, IdLeaf)})
    \cup Of(n > 2, {Bracketed(<< "(" >>, e, << ")" >>, e.tree) : e \in t[n - 2].exprs})

UnaryExps(t, n) ==
  PrimaryExps(t, n)
    \cup Of(n = 3, {Phrase(<< "id", "(", ")" >>, Node("call", "void", << IdLeaf, New("params") >>))})
    \cup Of(n > 3, {Bracketed(<< "id", "(" >>, a, << ")" >>,
                              Node("call", "void", << IdLeaf, Node("params", "void", a.tree) >>)) : a \in t[n - 3].args})

Operators == {<< "+", "add" >>, << "-", "sub" >>}

AddExps(t, n, unaries) ==
  unaries \cup UNION {{Phrase(l.toks \o << op[1] >> \o r.toks, Node(op[2], "void", << l.tree, r.tree >>)) :
                         l \in t[p[1]].exprs, op \in Operators, r \in t[p[2]].unaries} : p \in Pairs(n, 1)}

RealParamLists(t, n, exprs) ==
  {Phrase(e.toks, << e.tree >>) : e \in exprs}
    \cup UNION {{Phrase(a.toks \o << "," >> \o e.toks, Append(a.tree, e.tree)) :
                   a \in t[p[1]].args, e \in t[p[2]].exprs} : p \in Pairs(n, 1)}

Statements(t, n, blocks) ==
  Of(n > 2, {Bracketed(<< "return" >>, e, << ";" >>, Node("return", "void", << e.tree >>)) : e \in t[n - 2].exprs})
    \cup Of(n > 3, {Bracketed(<< "id", "=" >>, e, << ";" >>,
                              Node("assign", "void", << IdLeaf, e.tree >>)) : e \in t[n - 3].exprs})
    \cup blocks
    \cup Of(n > 1, {Bracketed(<< >>, e, << ";" >>, e.tree) : e \in t[n - 1].exprs})
    \cup Of(n = 1, {Phrase(<< ";" >>, Null)})

(* int id, id, ... id; *)
VarDecls(n) ==
  Of(n > 2 /\ n % 2 = 1,
     {Phrase(<< "int" >> \o [k \in 1 .. n - 2 |-> IF k % 2 = 1 THEN "id" ELSE ","] \o << ";" >>,
             Node("decl", "int", [k \in 1 .. (n - 1) \div 2 |-> createVarDeclNode("int")]))})

Blocks(t, n) ==
  Of(n = 2, {Phrase(<< "{", "}" >>, New("block"))})
    \cup Of(n > 2, {Bracketed(<< "{" >>, b, << "}" >>, create_contain_node("block", b.tree)) : b \in t[n - 2].lists})

BlockItemLists(t, n, items) ==
  {Phrase(i.toks, << i.tree >>) : i \in items}
    \cup UNION {{Phrase(l.toks \o i.toks, Append(l.tree, i.tree)) :
                   l \in t[p[1]].lists, i \in t[p[2]].items} : p \in Pairs(n, 0)}

Level(t, n) ==
  LET unaries == UnaryExps(t, n)
      exprs   == AddExps(t, n, unaries)
      blocks  == Blocks(t, n)
      items   == Statements(t, n, blocks) \cup VarDecls(n)
  IN  [unaries |-> unaries, exprs |-> exprs, args |-> RealParamLists(t, n, exprs), blocks |-> blocks,
       items |-> items, lists |-> BlockItemLists(t, n, items)]

Levels == FoldLeft(LAMBDA t, n : Append(t, Level(t, n)), << >>, [n \in 1 .. BodyTokens |-> n])

FuncDefs(n) ==
  Of(n \in 6 .. BodyTokens + 6,
     {Bracketed(<< "int", "id", "(", ")" >>, b, << >>, create_func_def("int", b.tree)) : b \in Blocks(Levels, n - 4)})

CompileUnits(c, n) ==
  LET units(k) == FuncDefs(k) \cup VarDecls(k)
  IN  {Phrase(u.toks, << u.tree >>) : u \in units(n)}
        \cup UNION {{Phrase(l.toks \o u.toks, Append(l.tree, u.tree)) :
                       l \in c[p[1]], u \in units(p[2])} : p \in Pairs(n, 0)}

(* The sentences, each with the sons of its compilation unit.              *)
Units == UNION Range(FoldLeft(LAMBDA c, n : Append(c, CompileUnits(c, n)), << >>, [n \in 1 .. MaxTokens |-> n]))

Programs == {Phrase(p.toks, Node("unit", "void", p.tree)) : p \in Units}
=============================================================================
