----------------------------- MODULE FrontEnds -----------------------------
(***************************************************************************)
(* The three front ends: an executor reads the tokens of a file and either *)
(* delivers a syntax tree or fails.  yyparse is taken step by step, the    *)
(* other two parsers as a whole.                                           *)
(***************************************************************************)
EXTENDS BisonParser

RD    == INSTANCE RDParser
Antlr == INSTANCE AntlrParser

VARIABLES
  text,       \* the tokens of the file
  executor,   \* "bison", "rd" or "antlr"
  outcome,    \* "running", or how the run ended
  astRoot     \* what getASTRoot returns

feVars == << text, executor, outcome, astRoot >>

Ends(status, ast) == outcome' = status /\ astRoot' = ast

(* All three fail at once when the file cannot be opened.                  *)
CannotOpen ==
  /\ outcome = "running" /\ executor # "none"
  /\ StartsOn(text)
  /\ Ends("unopened", Null)
  /\ UNCHANGED << vars, text, executor >>

(* FlexBisonExecutor::run: any result of yyparse but 0 is a failure.       *)
YYParse == outcome = "running" /\ executor = "bison" /\ Next /\ UNCHANGED feVars

RunBison ==
  /\ outcome = "running" /\ executor = "bison" /\ verdict \notin {"running", "recovering"}
  /\ IF verdict = "accept" THEN Ends("ok", ast_root) ELSE Ends("refused", Null)
  /\ UNCHANGED << vars, text, executor >>

RunRecursiveDescent ==
  /\ outcome = "running" /\ executor = "rd"
  /\ LET r == RD!rd_parse(text) IN Ends(r.status, IF r.status = "ok" THEN r.ast ELSE Null)
  /\ UNCHANGED << vars, text, executor >>

RunAntlr ==
  /\ outcome = "running" /\ executor = "antlr"
  /\ LET r == Antlr!antlr_run(text) IN Ends(r.status, r.ast)
  /\ UNCHANGED << vars, text, executor >>

FrontEndNext == CannotOpen \/ YYParse \/ RunBison \/ RunRecursiveDescent \/ RunAntlr

StartsWith(tokens, ex) ==
  /\ StartsOn(tokens)
  /\ text = tokens /\ executor = ex
  /\ outcome = "running" /\ astRoot = Null
=============================================================================
