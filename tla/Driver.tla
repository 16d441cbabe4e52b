------------------------------- MODULE Driver -------------------------------
(***************************************************************************)
(* main: the command line is analysed, and compile (main.cpp) makes the    *)
(* executor that it asks for and lets it read the source file.             *)
(***************************************************************************)
EXTENDS FrontEnds, Options

CONSTANT Invocations   \* the command lines that are tried, each with a file: its
                       \* tokens, and the tree they stand for (Null if none)

VARIABLES
  commandLine,      \* history: the arguments as they were given
  reference         \* history: the tree of the file

given   == << commandLine, reference >>
allVars == << vars, feVars, optVars, given >>

DriverInit ==
  \E run \in Invocations :
    Given(run[1]) /\ StartsWith(run[2].toks, "none") /\ commandLine = run[1] /\ reference = run[2].tree

ArgsAnalysis == ArgsNext /\ UNCHANGED << vars, feVars, given >>

CreateExecutor ==
  /\ analysis = "ok" /\ ~config.help /\ executor = "none"
  /\ executor' = config.frontEnd
  /\ UNCHANGED << vars, text, outcome, astRoot, optVars, given >>

RunFrontEnd == FrontEndNext /\ UNCHANGED << optVars, given >>

DriverNext == ArgsAnalysis \/ CreateExecutor \/ RunFrontEnd

(* The loop of yyparse goes on as long as it can.                          *)
DriverSpec == DriverInit /\ [][DriverNext]_allVars /\ WF_allVars((YYParse \/ RunBison) /\ UNCHANGED << optVars, given >>)

-----------------------------------------------------------------------------
(* The file and the tree it stands for *)

IsSentence == reference # Null

(* What the IR generator sees of a tree: of the types, only those of the   *)
(* type nodes.                                                             *)
RECURSIVE Seen(_), LaterVoid(_), BareCalls(_)
Seen(tree) ==
  Node(tree.op, IF tree.op = "type" THEN tree.type ELSE "void", [k \in DOMAIN tree.sons |-> Seen(tree.sons[k])])

(* The tree with type void for all but the first variable of a declaration.*)
LaterVoid(tree) ==
  Node(tree.op, tree.type,
       [k \in DOMAIN tree.sons |->
          IF tree.op = "decl" /\ k > 1 THEN createVarDeclNode("void") ELSE LaterVoid(tree.sons[k])])

(* The tree with the empty list of arguments for a call without arguments. *)
BareCalls(tree) ==
  IF tree.op = "call" /\ tree.sons[2].sons = << >> THEN tree.sons[2]
  ELSE Node(tree.op, tree.type, [k \in DOMAIN tree.sons |-> BareCalls(tree.sons[k])])

DeclarationsFirst(tree) ==
  LET Is(op) == SelectSeq(tree.sons, LAMBDA s : s.op = op) IN Node("unit", "void", Is("decl") \o Is("func"))

IsEmptyStatement(k) == text[k] = ";" /\ k > 1 /\ text[k - 1] \in {"{", "}", ";"}

Declares(tree) == \E k \in DOMAIN tree.sons : tree.sons[k].op = "decl"

Finished(ex) == outcome \notin {"running", "unopened"} /\ executor = ex

-----------------------------------------------------------------------------
(* Properties *)

(* getopt's rescans and exchanges of arguments make no difference: in      *)
(* whatever order options and the source file are given, with or without   *)
(* permutation, the command line is accepted if it is proper, and every    *)
(* option has the value that was asked for last; the arguments are never   *)
(* read past their end, and the front end that runs is the one of the last *)
(* of -A and -D on a command line that is proper as a whole (ArgsAnalysis, *)
(* getopt_internal).  Arguments with a dash inside are left out.           *)
Dashless(args) == \A k \in DOMAIN args : \A j \in 2 .. Len(args[k]) : args[k][j] # "-"

ArgumentsUnderstood ==
  /\ optind \in 1 .. nargc
  /\ analysis # "running" /\ Dashless(commandLine) =>
       IF Proper(commandLine) THEN analysis = "ok" /\ config = DefaultOutput(Asked(commandLine))
       ELSE analysis # "ok"
  /\ executor # "none" /\ Dashless(commandLine) =>
       Proper(commandLine) /\ executor = Asked(commandLine).frontEnd

(* yyparse accepts the programs of the grammar that consist of functions   *)
(* (T_INT T_ID is always taken for the start of a function), as long as    *)
(* its stack may grow, and builds their trees, but for the type of the     *)
(* second and later variables of a declaration.                            *)
BisonDelivers ==
  Finished("bison") /\ verdict # "exhausted" =>
    IF IsSentence /\ ~Declares(reference)
    THEN outcome = "ok" /\ Seen(astRoot) = Seen(LaterVoid(reference))
    ELSE outcome = "refused"

(* The recursive descent parser reads every program, and builds its tree,  *)
(* with the empty argument list in place of a call without arguments.      *)
(* Nothing is said of an empty statement that is not the last of its block.*)
EmptyInside == \E k \in DOMAIN text : IsEmptyStatement(k) /\ text[k + 1] # "}"

RDDelivers ==
  Finished("rd") /\ IsSentence /\ ~EmptyInside => outcome = "ok" /\ Seen(astRoot) = Seen(BareCalls(reference))

(* It reads a dead identifier only where an identifier is followed by a    *)
(* token with a value (rd_lval is overwritten), and it runs past the end   *)
(* of the file only where a declaration has no semicolon.                  *)
RDFaults ==
  /\ outcome = "undefined" =>
       \E k \in DOMAIN text : text[k] = "id" /\ k < Len(text) /\ text[k + 1] \in {"id", "digit", "int"}
  /\ outcome = "endless" =>
       \E k \in DOMAIN text : text[k] = "int" /\ \A j \in k .. Len(text) : text[j] # ";"

(* The ANTLR parser reports an error exactly for the texts that are no     *)
(* programs, and the tree of a program is delivered, with the declarations *)
(* of variables first.  Of the visit of a program that has statements      *)
(* other than return and assignment in the body of a function nothing is   *)
(* said.                                                                   *)
Unvisited(tree) ==
  \E k \in DOMAIN tree.sons :
    tree.sons[k].op = "func" /\ \E s \in Range(tree.sons[k].sons[4].sons) : s.op \notin {"return", "assign", "decl"}

Visited == ~Unvisited(reference) /\ \A k \in DOMAIN text : ~IsEmptyStatement(k)

AntlrDelivers ==
  Finished("antlr") =>
    /\ outcome = "reported" <=> ~IsSentence
    /\ IsSentence /\ Visited => outcome = "ok" /\ Seen(astRoot) = Seen(DeclarationsFirst(reference))

(* Whatever the text, yyparse does not loop for ever: it accepts, or gives *)
(* up, in its error recovery too.                                          *)
BisonAnswers == executor = "bison" ~> outcome # "running"

(* What the sources say of a program of the grammar: yyparse reads it,     *)
(* functions and declarations of variables in any order (MiniC.y); a       *)
(* variable that is added to a declaration has its type (rule VarDeclExpr  *)
(* of MiniC.y); an empty statement is a statement, and a block has any     *)
(* number of them (RecursiveDescentParser.cpp); blocks and expression      *)
(* statements are visited like the others (Antlr4CSTVisitor.cpp).          *)
RECURSIVE TypeNodes(_)
TypeNodes(tree) == IF tree.op = "type" THEN {tree.type} ELSE UNION {TypeNodes(s) : s \in Range(tree.sons)}

BisonReadsTheGrammar == outcome = "ok"
DeclaredTypes        == "void" \notin TypeNodes(ast_root)
RDReadsStatements    == RD!rd_parse(text).status = "ok"
AntlrVisitsStatements == Antlr!antlr_run(text).status = "ok"

(* On every program at least one of the four holds.  A program on which    *)
(* none does refutes them all.                                             *)
SomeFrontEndAsSaid ==
  Finished("bison") /\ verdict # "exhausted" /\ IsSentence =>
    BisonReadsTheGrammar \/ DeclaredTypes \/ RDReadsStatements \/ AntlrVisitsStatements
=============================================================================
