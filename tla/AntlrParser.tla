---------------------------- MODULE AntlrParser ----------------------------
(***************************************************************************)
(* The parser that ANTLR generated from MiniC.g4 (MiniCParser.cpp), which  *)
(* builds a concrete syntax tree, and the visitor that turns it into the   *)
(* abstract one (Antlr4CSTVisitor.cpp).                                    *)
(*                                                                         *)
(* A parser state holds the tokens not yet consumed, and whether an error  *)
(* was reported.  What the runtime makes of the input after it reported an *)
(* error is its own affair and is left out: the rest is dropped.           *)
(***************************************************************************)
EXTENDS AST

LA(s, k) == IF k <= Len(s.rest) THEN s.rest[k] ELSE "$end"

Report(s) == [rest |-> << >>, reported |-> TRUE]

Match(s, toks) ==
  IF \A k \in DOMAIN toks : LA(s, k) = toks[k]
  THEN [s EXCEPT !.rest = SubSeq(@, Len(toks) + 1, Len(@))] ELSE Report(s)

(* A context: the alternative its rule took and the contexts of the rules  *)
(* in it.  It is returned with the state of the parser after the rule.     *)
Ctx(alt, kids) == [alt |-> alt, kids |-> kids]
Parsed(s, alt, kids) == [s |-> s, ctx |-> Ctx(alt, kids)]
Then(p, Continue(_, _)) == Continue(p.s, p.ctx)

(* A rule that is one subrule and then the tokens toks.                    *)
Closed(p, toks, alt) == Then(p, LAMBDA t, c : Parsed(Match(t, toks), alt, << c >>))

ExprFirst  == {"(", "id", "digit"}
(* Wrong: a block item may not start with a semicolon. *)
ItemFirstShort == ExprFirst \cup {"{", "return", "int"}

ItemFirst  == ExprFirst \cup {";", "{", "return", "int"}

(* The alternatives that adaptivePredict finds in the transition network.  *)
PredictUnit(s)      == IF LA(s, 3) = "(" THEN "funcDef" ELSE "varDecl"
PredictStatement(s) ==
  CASE LA(s, 1) = "return" -> "return"
    [] LA(s, 1) = "{"      -> "block"
    [] LA(s, 1) = "id" /\ LA(s, 2) = "=" -> "assign"
    [] OTHER -> "expression"
PredictUnary(s) == IF LA(s, 1) = "id" /\ LA(s, 2) = "(" THEN "call" ELSE "primary"

RECURSIVE expr(_), moreExprs(_, _), moreTerms(_, _), moreVarDefs(_, _), block(_), moreItems(_, _), moreUnits(_, _)

-----------------------------------------------------------------------------
(* The rules of the parser *)

lVal(s) == Parsed(Match(s, << "id" >>), "lVal", << >>)

primaryExp(s) ==
  CASE LA(s, 1) = "("     -> Closed(expr(Match(s, << "(" >>)), << ")" >>, "paren")
    [] LA(s, 1) = "digit" -> Parsed(Match(s, << "digit" >>), "digit", << >>)
    [] LA(s, 1) = "id"    -> lVal(s)
    [] OTHER              -> Parsed(Report(s), "none", << >>)

moreExprs(s, kids) ==
  IF LA(s, 1) # "," THEN Parsed(s, "args", kids)
  ELSE Then(expr(Match(s, << "," >>)), LAMBDA t, e : moreExprs(t, Append(kids, e)))

realParamList(s) == Then(expr(s), LAMBDA t, e : moreExprs(t, << e >>))

unaryExp(s) ==
  IF PredictUnary(s) = "primary" THEN primaryExp(s)
  ELSE LET open == Match(s, << "id", "(" >>)
       IN  Closed(IF LA(open, 1) \in ExprFirst THEN realParamList(open) ELSE Parsed(open, "none", << >>),
                  << ")" >>, "call")

addOp(s) ==
  IF LA(s, 1) \in {"+", "-"} THEN Parsed(Match(s, << LA(s, 1) >>), LA(s, 1), << >>)
  ELSE Parsed(Report(s), "none", << >>)

moreTerms(s, kids) ==
  IF LA(s, 1) \notin {"+", "-"} THEN Parsed(s, "addExp", kids)
  ELSE LET op == addOp(s)
       IN  Then(unaryExp(op.s), LAMBDA t, right : moreTerms(t, kids \o << op.ctx, right >>))

addExp(s) == Then(unaryExp(s), LAMBDA t, left : moreTerms(t, << left >>))

expr(s) == addExp(s)

basicType(s) == Parsed(Match(s, << "int" >>), "int", << >>)
varDef(s)    == Parsed(Match(s, << "id" >>), "varDef", << >>)

moreVarDefs(s, kids) ==
  IF LA(s, 1) # "," THEN Parsed(Match(s, << ";" >>), "varDecl", kids)
  ELSE LET v == varDef(Match(s, << "," >>)) IN moreVarDefs(v.s, Append(kids, v.ctx))

varDecl(s) ==
  LET type == basicType(s)
      v    == varDef(type.s)
  IN  moreVarDefs(v.s, << type.ctx, v.ctx >>)

statement(s) ==
  CASE PredictStatement(s) = "return" ->
         Closed(expr(Match(s, << "return" >>)), << ";" >>, "return")
    [] PredictStatement(s) = "assign" ->
         LET l == lVal(s)
         IN  Then(expr(Match(l.s, << "=" >>)), LAMBDA t, e : Parsed(Match(t, << ";" >>), "assign", << l.ctx, e >>))
    [] PredictStatement(s) = "block" -> Closed(block(s), << >>, "blockStatement")
    [] OTHER ->
         IF LA(s, 1) \in ExprFirst THEN Closed(expr(s), << ";" >>, "expression")
         ELSE Parsed(Match(s, << ";" >>), "expression", << >>)

blockItem(s) ==
  CASE LA(s, 1) = "int" -> varDecl(s)
    [] LA(s, 1) \in ItemFirst \ {"int"} -> statement(s)
    [] OTHER -> Parsed(Report(s), "none", << >>)

moreItems(s, kids) ==
  Then(blockItem(s), LAMBDA t, item : IF LA(t, 1) \in ItemFirst THEN moreItems(t, Append(kids, item))
                                      ELSE Parsed(t, "block", Append(kids, item)))

blockItemList(s) == moreItems(s, << >>)

block(s) ==
  LET open == Match(s, << "{" >>)
  IN  Then(IF LA(open, 1) \in ItemFirst THEN blockItemList(open) ELSE Parsed(open, "block", << >>),
           LAMBDA t, items : Parsed(Match(t, << "}" >>), "block", items.kids))

funcDef(s) == Closed(block(Match(s, << "int", "id", "(", ")" >>)), << >>, "funcDef")

moreUnits(s, kids) ==
  IF LA(s, 1) # "int" THEN Parsed(IF LA(s, 1) = "$end" THEN s ELSE Report(s), "compileUnit", kids)
  ELSE Then(IF PredictUnit(s) = "funcDef" THEN funcDef(s) ELSE varDecl(s),
            LAMBDA t, unit : moreUnits(t, Append(kids, unit)))

compileUnit(s) == moreUnits(s, << >>)

-----------------------------------------------------------------------------
(* The visitor.  NoNode is the nullptr_t that std::any_cast<ast_node *>    *)
(* refuses with an exception that nothing catches.                         *)
NoNode == New("nullptr_t")

RECURSIVE visitExpr(_), visitAddExp(_)

visitRealParamList(ctx) == create_contain_node("params", [k \in DOMAIN ctx.kids |-> visitExpr(ctx.kids[k])])

visitLVal(ctx) == IdLeaf

visitPrimaryExp(ctx) ==
  CASE ctx.alt = "digit" -> UintLeaf
    [] ctx.alt = "lVal"  -> visitLVal(ctx)
    [] ctx.alt = "paren" -> visitExpr(ctx.kids[1])

visitUnaryExp(ctx) ==
  IF ctx.alt # "call" THEN visitPrimaryExp(ctx)
  ELSE create_func_call(IdLeaf, IF ctx.kids[1].alt = "args" THEN visitRealParamList(ctx.kids[1]) ELSE Null)

visitAddOp(ctx) == IF ctx.alt = "+" THEN "add" ELSE "sub"

(* The contexts alternate: an operand, an operator, an operand, ...        *)
visitAddExp(kids) ==
  IF Len(kids) = 1 THEN visitUnaryExp(kids[1])
  ELSE NewWith(visitAddOp(kids[Len(kids) - 1]),
               << visitAddExp(SubSeq(kids, 1, Len(kids) - 2)), visitUnaryExp(Last(kids)) >>)

visitExpr(ctx) == visitAddExp(ctx.kids)

visitReturnStatement(ctx) == create_contain_node("return", << visitExpr(ctx.kids[1]) >>)

visitAssignStatement(ctx) == NewWith("assign", << visitLVal(ctx.kids[1]), visitExpr(ctx.kids[2]) >>)

visitStatement(ctx) ==
  CASE ctx.alt = "assign" -> visitAssignStatement(ctx)
    [] ctx.alt = "return" -> visitReturnStatement(ctx)
    [] OTHER              -> NoNode

visitBasicType(ctx) == IF ctx.alt = "int" THEN "int" ELSE "void"
visitVarDef(ctx)    == IdLeaf

visitVarDecl(ctx) ==
  LET Declared(v) == NewWith("vardecl", << TypeLeaf(visitBasicType(ctx.kids[1])), visitVarDef(v) >>)
  IN  create_contain_node("decl", [k \in 1 .. Len(ctx.kids) - 1 |-> Declared(ctx.kids[k + 1])])

visitBlockItem(ctx) == IF ctx.alt = "varDecl" THEN visitVarDecl(ctx) ELSE visitStatement(ctx)

visitBlockItemList(ctx) == create_contain_node("block", [k \in DOMAIN ctx.kids |-> visitBlockItem(ctx.kids[k])])

visitBlock(ctx) == IF ctx.kids = << >> THEN New("block") ELSE visitBlockItemList(ctx)

visitFuncDef(ctx) == create_func_def("int", visitBlock(ctx.kids[1]))

(* The variables come first, wherever they stood.                          *)
visitCompileUnit(ctx) ==
  LET Of(alt) == SelectSeq(ctx.kids, LAMBDA k : k.alt = alt)
      vars    == [k \in DOMAIN Of("varDecl") |-> visitVarDecl(Of("varDecl")[k])]
      funcs   == [k \in DOMAIN Of("funcDef") |-> visitFuncDef(Of("funcDef")[k])]
  IN  create_contain_node("unit", vars \o funcs)

(* Antlr4Executor::run.  The executor does not ask whether the parser      *)
(* reported errors.                                                        *)
Throws(ast) ==
  \E k \in DOMAIN ast.sons : ast.sons[k].op = "func" /\ Contains(ast.sons[k].sons[4].sons, NoNode)

antlr_run(tokens) ==
  LET Visit(s, unit) ==
        LET ast == visitCompileUnit(unit)
        IN  IF s.reported THEN [ast |-> Null, status |-> "reported"]
            ELSE IF Throws(ast) THEN [ast |-> Null, status |-> "terminated"]
            ELSE [ast |-> ast, status |-> "ok"]
  IN  Then(compileUnit([rest |-> tokens, reported |-> FALSE]), Visit)
=============================================================================
