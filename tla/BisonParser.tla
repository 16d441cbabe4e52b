---------------------------- MODULE BisonParser ----------------------------
(***************************************************************************)
(* yyparse of the Flex/Bison front end: the loop over states, its stack    *)
(* that grows by doubling, and the semantic actions that build the tree.   *)
(* The state stack yyss and the value stack yyvs move together and are one *)
(* sequence of pairs.                                                      *)
(***************************************************************************)
EXTENDS AST, BisonTables

CONSTANTS YYINITDEPTH, YYMAXDEPTH

ASSUME DepthAssumption ==   \* 200 and 10000
  YYINITDEPTH \in Nat /\ YYMAXDEPTH \in Nat /\ 1 < YYINITDEPTH /\ YYINITDEPTH <= YYMAXDEPTH

VARIABLES
  unread,     \* the tokens yylex has not delivered yet
  yychar,     \* the look-ahead token, "empty", or "$end"
  stack,      \* the states and the values of the symbols read
  yystacksize,
  ast_root,   \* the tree of the compilation unit
  verdict     \* "running", "recovering" from a syntax error, or how yyparse
              \* ended: "accept", "abort", "exhausted"

vars == << unread, yychar, stack, yystacksize, ast_root, verdict >>

Pair(state, val) == [state |-> state, val |-> val]

yystate == stack[Len(stack)].state

StartsOn(tokens) ==
  /\ unread = tokens
  /\ yychar = "empty"
  /\ stack = << Pair(0, "none") >>
  /\ yystacksize = YYINITDEPTH
  /\ ast_root = Null
  /\ verdict = "running"

-----------------------------------------------------------------------------
(* Enter a state.  A full stack is doubled, up to YYMAXDEPTH.              *)
Doubled == IF 2 * yystacksize > YYMAXDEPTH THEN YYMAXDEPTH ELSE 2 * yystacksize

(* Wrong: the stack grows only when it is past its size. *)
EnterLate(below, state, val) ==
  LET full == Len(below) + 1 > yystacksize
  IN  /\ stack' = Append(below, Pair(state, val))
      /\ yystacksize' = IF full /\ yystacksize < YYMAXDEPTH THEN Doubled ELSE yystacksize
      /\ verdict' = IF ~full THEN verdict
                    ELSE IF yystacksize >= YYMAXDEPTH THEN "exhausted"
                    ELSE IF Len(below) + 1 >= Doubled THEN "abort" ELSE verdict

Enter(below, state, val) ==
  LET full == Len(below) + 1 >= yystacksize
  IN  /\ stack' = Append(below, Pair(state, val))
      /\ yystacksize' = IF full /\ yystacksize < YYMAXDEPTH THEN Doubled ELSE yystacksize
      /\ verdict' = IF ~full THEN verdict
                    ELSE IF yystacksize >= YYMAXDEPTH THEN "exhausted"
                    ELSE IF Len(below) + 1 >= Doubled THEN "abort" ELSE verdict

(* The value of the left-hand side of a rule, from those of its right-hand *)
(* side.                                                                   *)
(* Wrong: the type node is forgotten. *)
VarDefUntyped(type, id) == create_contain_node("vardecl", << id >>)

VarDef(type, id) == create_contain_node("vardecl", << TypeLeaf(type), id >>)

UnitValue(rule, v) ==      \* functions, blocks and the whole file
  CASE rule \in {2, 3}     -> create_contain_node("unit", << v[1] >>)
    [] rule \in {4, 5, 10} -> insert_son_node(v[1], v[2])
    [] rule = 6            -> create_func_def(v[1], v[5])
    [] rule = 7            -> New("block")
    [] rule = 8            -> v[2]
    [] rule = 9            -> create_contain_node("block", << v[1] >>)

StatementValue(rule, v) ==
  CASE rule = 14 -> create_var_decl_stmt_node(VarDef(v[1], v[2]))
    [] rule = 15 -> insert_son_node(v[1], VarDef(v[1].type, v[3]))
    [] rule = 16 -> IdLeaf
    [] rule = 18 -> create_contain_node("return", << v[2] >>)
    [] rule = 19 -> create_contain_node("assign", << v[1], v[3] >>)
    [] rule = 22 -> Null
    [] rule \in {11, 12, 13, 17, 20, 21, 23} -> v[1]

ExpressionValue(rule, v) ==
  CASE rule \in {24, 29, 34} -> v[1]
    [] rule \in {25, 26} -> create_contain_node(v[2], << v[1], v[3] >>)
    [] rule = 27         -> "add"
    [] rule = 28         -> "sub"
    [] rule = 30         -> create_func_call(IdLeaf, Null)
    [] rule = 31         -> create_func_call(IdLeaf, v[3])
    [] rule = 32         -> v[2]
    [] rule = 33         -> UintLeaf
    [] rule = 35         -> create_contain_node("params", << v[1] >>)
    [] rule = 36         -> insert_son_node(v[1], v[3])
    [] rule = 37         -> IdLeaf

Value(rule, v) ==
  CASE rule <= 10        -> UnitValue(rule, v)
    [] rule \in 11 .. 23 -> StatementValue(rule, v)
    [] rule >= 24        -> ExpressionValue(rule, v)

-----------------------------------------------------------------------------
(* yylex is called when a state needs a look-ahead token and there is none.*)
ReadToken ==
  /\ verdict = "running" /\ Consults(yystate) /\ yychar = "empty"
  /\ yychar' = IF unread = << >> THEN "$end" ELSE Head(unread)
  /\ unread' = IF unread = << >> THEN unread ELSE Tail(unread)
  /\ UNCHANGED << stack, yystacksize, ast_root, verdict >>

Decides == verdict = "running" /\ (Consults(yystate) => yychar # "empty")

Shift ==
  /\ Decides
  /\ ShiftTo(yystate, yychar) \notin {0, YYFINAL}
  /\ yychar' = IF yychar = "$end" THEN yychar ELSE "empty"
  /\ Enter(stack, ShiftTo(yystate, yychar), yychar)
  /\ UNCHANGED << unread, ast_root >>

(* Rules 4 and 5 add a son to the node that ast_root points to, so the     *)
(* value is the root after them, too.                                      *)
Reduce ==
  /\ Decides
  /\ ReduceBy(yystate, yychar) # 0
  /\ LET rule  == ReduceBy(yystate, yychar)
         yylen == yyr2[rule]
         below == SubSeq(stack, 1, Len(stack) - yylen)
         val   == Value(rule, [k \in 1 .. yylen |-> stack[Len(below) + k].val])
     IN  /\ Enter(below, GotoState(rule, below[Len(below)].state), val)
         /\ ast_root' = IF rule \in 2 .. 5 THEN val ELSE ast_root
  /\ UNCHANGED << unread, yychar >>

Accept ==
  /\ Decides
  /\ ShiftTo(yystate, yychar) = YYFINAL
  /\ verdict' = "accept"
  /\ UNCHANGED << unread, yychar, stack, yystacksize, ast_root >>

SyntaxError ==
  /\ Decides
  /\ ShiftTo(yystate, yychar) = 0 /\ ReduceBy(yystate, yychar) = 0
  /\ verdict' = "recovering"
  /\ UNCHANGED << unread, yychar, stack, yystacksize, ast_root >>

(* Wrong: the state that cannot handle the error token stays on the stack. *)
PopStateKept ==
  /\ verdict = "recovering" /\ ~TakesError(yystate)
  /\ verdict' = IF Len(stack) = 1 THEN "abort" ELSE verdict
  /\ UNCHANGED << unread, yychar, stack, yystacksize, ast_root >>

(* Recovery pops states until one takes the error token, and gives up at   *)
(* the bottom of the stack.  With these tables it always comes to that.    *)
PopState ==
  /\ verdict = "recovering" /\ ~TakesError(yystate)
  /\ IF Len(stack) = 1 THEN verdict' = "abort" /\ UNCHANGED stack
     ELSE stack' = Front(stack) /\ UNCHANGED verdict
  /\ UNCHANGED << unread, yychar, yystacksize, ast_root >>

Next == ReadToken \/ Shift \/ Reduce \/ Accept \/ SyntaxError \/ PopState

(* yyparse on any text.                                                    *)
Spec == (\E tokens \in Seq(Range(Terminals)) : StartsOn(tokens)) /\ [][Next]_vars

-----------------------------------------------------------------------------
(* There is always room to push one more state, the one for the error      *)
(* token included: yyparse stops, or has made the stack larger, before it  *)
(* is full.                                                                *)
RoomToPush ==
  verdict \in {"running", "recovering"} => Len(stack) < yystacksize /\ yystacksize <= YYMAXDEPTH
=============================================================================
