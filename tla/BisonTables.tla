---------------------------- MODULE BisonTables ----------------------------
(***************************************************************************)
(* The tables of the generated LALR(1) parser (MiniCBison.cpp), and the    *)
(* look-ups that yyparse makes in them.  Arrays are indexed from 0.        *)
(***************************************************************************)
EXTENDS Integers, SequencesExt

Array(s) == [k \in 0 .. Len(s) - 1 |-> s[k + 1]]

(* Symbol numbers; a code that is no token of the grammar gets YYUNDEFTOK. *)
Terminals == << "digit", "id", "int", "return", ";", "(", ")", "{", "}", ",", "=", "-", "+" >>

yytranslate(tok) == IF tok = "$end" THEN 0 ELSE 2 + SelectInSeq(Terminals, LAMBDA t : t = tok)

YYFINAL     == 8
YYLAST      == 59
YYNTOKENS   == 16
YYPACT_NINF == -24
YYTERROR    == 1

(* The symbol a rule derives, and the number of symbols it derives it from.*)
yyr1 == Array(<< 0, 16, 17, 17, 17, 17, 18, 19, 19, 20, 20, 21, 21, 22, 23, 23, 24, 25, 26, 26,
                 26, 26, 26, 27, 28, 28, 28, 29, 29, 30, 30, 30, 31, 31, 31, 32, 32, 33 >>)
yyr2 == Array(<< 0, 2, 1, 1, 2, 2, 5, 2, 3, 1, 2, 1, 1, 2, 2, 3, 1, 1, 3, 4,
                 1, 2, 1, 1, 1, 3, 3, 1, 1, 1, 3, 4, 3, 1, 1, 1, 3, 1 >>)

yydefact ==
  Array(<< 0, 0, 0, 2, 3, 0, 0, 0, 1, 4, 5, 13, 0, 16, 14, 0, 15, 0, 0, 6, 33, 37, 17, 0, 22, 0, 7, 20, 0, 9,
           12, 11, 0, 23, 24, 29, 34, 0, 0, 34, 0, 8, 10, 21, 28, 27, 0, 0, 0, 30, 35, 0, 18, 32, 26, 25, 0, 31,
           0, 19, 36 >>)

yydefgoto == Array(<< -1, 2, 3, 27, 28, 29, 30, 5, 14, 6, 31, 32, 33, 46, 34, 35, 51, 39 >>)

yypact ==
  Array(<< 16, 20, 34, -24, -24, 29, 26, 30, -24, -24, -24, -24, 26, -24, -24, 38, -24, 33, 2, -24, -24, 40, -24,
           25, -24, 25, -24, -24, 12, -24, -24, -24, 43, -11, -11, -24, 36, 23, 44, -24, 45, -24, -24, -24, -24,
           -24, 25, 25, 25, -24, -24, 28, -24, -24, -24, -24, 46, -24, 25, -24, -24 >>)

yypgoto == Array(<< -24, -24, 50, 39, -24, 27, 42, -24, 47, -24, -24, -23, -24, 24, -1, -24, -24, -17 >>)

yytable ==
  Array(<< 38, 36, 40, 44, 45, 20, 21, 22, 23, 24, 25, 36, 18, 26, 50, 20, 21, 22, 23, 24, 25, 1, 18, 41, 7, 56,
           20, 21, 20, 21, 13, 25, 49, 25, 8, 60, 11, 57, 15, 1, 58, 12, 4, 18, 10, 54, 55, 17, 37, 48, 43, 52, 9,
           59, 53, 42, 19, 0, 47, 16 >>)

yycheck ==
  Array(<< 23, 18, 25, 14, 15, 3, 4, 5, 6, 7, 8, 28, 10, 11, 37, 3, 4, 5, 6, 7, 8, 5, 10, 11, 4, 48, 3, 4, 3, 4,
           4, 8, 9, 8, 0, 58, 7, 9, 8, 5, 12, 12, 0, 10, 2, 46, 47, 9, 8, 13, 7, 7, 2, 7, 9, 28, 17, -1, 34, 12 >>)

(* yypact and yypgoto displace the entries of yytable; yycheck tells whose *)
(* an entry is.                                                            *)
Entry(at, owner) == IF at \in 0 .. YYLAST /\ yycheck[at] = owner THEN yytable[at] ELSE -1

(* A state with YYPACT_NINF acts without looking at a token.               *)
Consults(state) == yypact[state] # YYPACT_NINF

(* The state to shift to, or 0: an entry of yytable is never negative here.*)
ShiftTo(state, tok) ==
  LET e == Entry(yypact[state] + yytranslate(tok), yytranslate(tok)) IN IF Consults(state) /\ e > 0 THEN e ELSE 0

(* The rule to reduce with, or 0: the default of the state, unless its own *)
(* entry for the token says something else.                                *)
ReduceBy(state, tok) ==
  IF Consults(state) /\ Entry(yypact[state] + yytranslate(tok), yytranslate(tok)) # -1 THEN 0 ELSE yydefact[state]

(* Whether a state shifts the error token.                                 *)
TakesError(state) == Consults(state) /\ Entry(yypact[state] + YYTERROR, YYTERROR) > 0

GotoState(rule, under) ==
  LET symbol == yyr1[rule] - YYNTOKENS
      e      == Entry(yypgoto[symbol] + under, under)
  IN  IF e # -1 THEN e ELSE yydefgoto[symbol]
=============================================================================
