------------------------------ MODULE RDParser ------------------------------
(***************************************************************************)
(* The recursive descent parser (RecursiveDescentParser.cpp).  Each of its *)
(* functions is an operator from the state of the parser to the state it   *)
(* leaves and the node it returns.                                         *)
(*                                                                         *)
(* look is lookaheadTag, rest what rd_flex has still to read, errors says  *)
(* whether errno_num is not 0.  lval is what the union rd_lval holds: an   *)
(* identifier, a number, a type, or (after the identifier was freed) a     *)
(* null pointer.  undefined is set when rd_lval is read as an identifier   *)
(* and holds none, endless when the parser asks for tokens past the end    *)
(* for ever.                                                               *)
(***************************************************************************)
EXTENDS AST

Result(s, node) == [s |-> s, node |-> node]
Then(r, Continue(_, _)) == Continue(r.s, r.node)

(* Wrong: every token overwrites the value. *)
advanceClobbering(s) ==
  LET tok == IF s.rest = << >> THEN "$end" ELSE Head(s.rest)
  IN  [s EXCEPT !.look = tok, !.rest = IF @ = << >> THEN @ ELSE Tail(@), !.lval = tok]

advance(s) ==
  LET tok == IF s.rest = << >> THEN "$end" ELSE Head(s.rest)
  IN  [s EXCEPT !.look = tok,
                !.rest = IF @ = << >> THEN @ ELSE Tail(@),
                !.lval = IF tok \in {"id", "digit", "int"} THEN tok ELSE @]

semerror(s) == [s EXCEPT !.errors = TRUE]

(* if (!match(tok)) semerror(...)                                          *)
Expect(s, tok) == IF s.look = tok THEN advance(s) ELSE semerror(s)

(* The identifier in rd_lval is copied into a node, and freed.             *)
TakeId(s) == [s EXCEPT !.undefined = @ \/ s.lval # "id", !.lval = "null"]

RECURSIVE expr(_), moreParams(_, _), moreTerms(_, _), varDeclList(_, _), Block(_), BlockItemList(_, _), compileUnit(_, _)

-----------------------------------------------------------------------------
(* Expressions *)

moreParams(s, params) ==
  IF s.look # "," THEN Result(s, params)
  ELSE Then(expr(advance(s)), LAMBDA t, e : moreParams(t, insert_son_node(params, e)))

realParamList(s) ==
  Then(expr(s), LAMBDA t, e : IF e = Null THEN Result(t, New("params"))
                              ELSE moreParams(t, insert_son_node(New("params"), e)))

(* The identifier is read from rd_lval, although the next token was        *)
(* scanned since.  A call without arguments returns the list of arguments. *)
idTail(s) ==
  LET named == TakeId(s)
      open  == advance(named)
  IN  IF named.look # "(" THEN Result(named, IdLeaf)
      ELSE IF open.look = ")" THEN Result(advance(open), New("params"))
      ELSE Then(realParamList(open), LAMBDA t, p : Result(Expect(t, ")"), create_func_call(IdLeaf, p)))

unaryExp(s) ==
  CASE s.look = "digit" -> Result(advance(s), UintLeaf)
    [] s.look = "("     -> Then(expr(advance(s)), LAMBDA t, e : Result(Expect(t, ")"), e))
    [] s.look = "id"    -> idTail(advance(s))
    [] OTHER            -> Result(s, Null)

addOp == [op \in {"+", "-"} |-> IF op = "+" THEN "add" ELSE "sub"]

moreTerms(s, left) ==
  IF s.look \notin DOMAIN addOp THEN Result(s, left)
  ELSE Then(unaryExp(advance(s)),
            LAMBDA t, right : IF right = Null THEN Result(t, left)
                              ELSE moreTerms(t, create_contain_node(addOp[s.look], << left, right >>)))

addExp(s) == Then(unaryExp(s), LAMBDA t, left : IF left = Null THEN Result(t, Null) ELSE moreTerms(t, left))

expr(s) == addExp(s)

-----------------------------------------------------------------------------
(* Statements *)

returnStatement(s) ==
  Then(expr(advance(s)), LAMBDA t, e : Result(Expect(t, ";"), create_contain_node("return", << e >>)))

(* Wrong: the variable becomes the second son. *)
assignExprStmtTailSwapped(s, left) ==
  IF s.look # "=" THEN Result(s, left)
  ELSE IF left = Null THEN Result(semerror(advance(s)), Null)
  ELSE Then(expr(advance(s)), LAMBDA t, right : Result(t, create_contain_node("assign", << right, left >>)))

assignExprStmtTail(s, left) ==
  IF s.look # "=" THEN Result(s, left)
  ELSE IF left = Null THEN Result(semerror(advance(s)), Null)
  ELSE Then(expr(advance(s)), LAMBDA t, right : Result(t, create_contain_node("assign", << left, right >>)))

assignExprStmt(s) == Then(expr(s), assignExprStmtTail)

statement(s) ==
  CASE s.look = "return" -> returnStatement(s)
    [] s.look = "{"      -> Block(s)
    [] s.look = ";"      -> Result(advance(s), Null)
    [] s.look \in {"id", "(", "digit"} ->
         Then(assignExprStmt(s), LAMBDA t, a : Result(Expect(t, ";"), a))
    [] OTHER -> Result(s, Null)

-----------------------------------------------------------------------------
(* Declarations *)

(* A token that does not belong here is skipped, the end of the file too.  *)
varDeclList(s, stmt) ==
  LET next == advance(s)
  IN  CASE s.look = "," /\ next.look = "id" -> varDeclList(advance(TakeId(next)), add_var_decl_node(stmt))
        [] s.look = "," /\ next.look # "id" -> Result(semerror(next), stmt)
        [] s.look = ";"    -> Result(next, stmt)
        [] s.look = "$end" -> Result([semerror(s) EXCEPT !.endless = TRUE], stmt)
        [] OTHER           -> varDeclList(semerror(next), stmt)

FirstVariable == create_var_decl_stmt_node(createVarDeclNode("int"))

varDecl(s) ==
  LET id == advance(s)
  IN  IF id.look = "id" THEN varDeclList(advance(TakeId(id)), FirstVariable) ELSE Result(semerror(id), Null)

-----------------------------------------------------------------------------
(* Blocks, functions, and the whole file *)

BlockItem(s) == IF s.look = "int" THEN varDecl(s) ELSE statement(s)

(* The list ends at an item that returned no node.                         *)
BlockItemList(s, block) ==
  IF s.look = "}" THEN Result(s, block)
  ELSE Then(BlockItem(s), LAMBDA t, item : IF item = Null THEN Result(t, block)
                                           ELSE BlockItemList(t, insert_son_node(block, item)))

Block(s) ==
  LET open == advance(s)
  IN  IF s.look # "{" THEN Result(s, Null)
      ELSE IF open.look = "}" THEN Result(advance(open), New("block"))
      ELSE Then(BlockItemList(open, New("block")), LAMBDA t, b : Result(Expect(t, "}"), b))

idtail(s) ==
  LET open == advance(s)
  IN  IF s.look # "(" THEN varDeclList(s, FirstVariable)
      ELSE IF open.look # ")" THEN Result(semerror(open), Null)
      ELSE Then(Block(advance(open)), LAMBDA t, body : Result(t, create_func_def("int", body)))

(* The file ends at the first token that is not int, whatever it is.       *)
compileUnit(s, unit) ==
  LET id == advance(s)
  IN  IF s.look # "int" THEN Result(s, unit)
      ELSE IF id.look # "id" THEN compileUnit(semerror(id), unit)
      ELSE Then(idtail(advance(id)), LAMBDA t, tail : compileUnit(t, insert_son_node(unit, tail)))

(* rd_parse, and what becomes of it.                                       *)
rd_parse(tokens) ==
  LET start == [look |-> "empty", rest |-> tokens, lval |-> "null", errors |-> FALSE, undefined |-> FALSE,
                endless |-> FALSE]
  IN  Then(compileUnit(advance(start), New("unit")),
           LAMBDA t, unit : [ast |-> unit,
                             status |-> IF t.undefined THEN "undefined"
                                        ELSE IF t.endless THEN "endless"
                                        ELSE IF t.errors THEN "refused" ELSE "ok"])
=============================================================================
