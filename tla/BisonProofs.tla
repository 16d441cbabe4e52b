---------------------------- MODULE BisonProofs ----------------------------
(***************************************************************************)
(* The stack of yyparse never overflows, whatever the text, the initial    *)
(* depth and the greatest depth.  What has to be known of the tables is    *)
(* that every entry leads to a state or a rule that exists, and that the   *)
(* final state is not pushed; then the number of symbols a rule pops is a  *)
(* number, and the stack is a sequence of states.                          *)
(***************************************************************************)
EXTENDS BisonParser, SequenceTheorems, TLAPS

(* An array is indexed from 0.                                             *)
LEMMA ArrayAt ==
  ASSUME NEW S, NEW s \in Seq(S)
  PROVE  \A k \in 0 .. Len(s) - 1 : Array(s)[k] = s[k + 1]
BY DEF Array

-----------------------------------------------------------------------------
(* The entries of the tables *)

(* The default rule of a state other than the final one is no rule 1.     *)
LEMMA DefaultRules == \A k \in 0 .. 60 : k # 8 => yydefact[k] \in (0 .. 37) \ {1}
<1> DEFINE T == << 0, 0, 0, 2, 3, 0, 0, 0, 1, 4, 5, 13, 0, 16, 14, 0, 15, 0, 0, 6, 33, 37, 17, 0,
                22, 0, 7, 20, 0, 9, 12, 11, 0, 23, 24, 29, 34, 0, 0, 34, 0, 8, 10, 21, 28, 27, 0, 0,
                0, 30, 35, 0, 18, 32, 26, 25, 0, 31, 0, 19, 36 >>
<1>1. T \in Seq(Int) /\ Len(T) = 61  OBVIOUS
<1>2. \A j \in 1 .. 61 : j # 9 => T[j] \in (0 .. 37) \ {1}  OBVIOUS
<1> HIDE DEF T
<1>3. \A k \in 0 .. Len(T) - 1 : Array(T)[k] = T[k + 1]  BY <1>1, ArrayAt, ZenonT(40)
<1>4. \A k \in 0 .. 60 : k \in 0 .. Len(T) - 1 /\ k + 1 \in 1 .. 61 /\ (k + 1 = 9 => k = 8)
  BY <1>1
<1>5. yydefact = Array(T)  BY DEF yydefact, T
<1> QED  BY <1>2, <1>3, <1>4, <1>5

(* What the other rules derive is a nonterminal of the grammar.           *)
LEMMA Symbols == \A k \in 2 .. 37 : yyr1[k] \in 17 .. 33
<1> DEFINE T == << 0, 16, 17, 17, 17, 17, 18, 19, 19, 20, 20, 21, 21, 22, 23, 23, 24, 25, 26, 26,
                26, 26, 26, 27, 28, 28, 28, 29, 29, 30, 30, 30, 31, 31, 31, 32, 32, 33 >>
<1>1. T \in Seq(Int) /\ Len(T) = 38  OBVIOUS
<1>2. \A j \in 3 .. 38 : T[j] \in 17 .. 33  OBVIOUS
<1> HIDE DEF T
<1>3. \A k \in 0 .. Len(T) - 1 : Array(T)[k] = T[k + 1]  BY <1>1, ArrayAt
<1>4. \A k \in 2 .. 37 : k \in 0 .. Len(T) - 1 /\ k + 1 \in 3 .. 38
  BY <1>1
<1>5. yyr1 = Array(T)  BY DEF yyr1, T
<1> QED  BY <1>2, <1>3, <1>4, <1>5

(* They pop at most five symbols.                                         *)
LEMMA Lengths == \A k \in 2 .. 37 : yyr2[k] \in 0 .. 5
<1> DEFINE T == << 0, 2, 1, 1, 2, 2, 5, 2, 3, 1, 2, 1, 1, 2, 2, 3, 1, 1, 3, 4, 1, 2, 1, 1, 1, 3, 3,
                1, 1, 1, 3, 4, 3, 1, 1, 1, 3, 1 >>
<1>1. T \in Seq(Int) /\ Len(T) = 38  OBVIOUS
<1>2. \A j \in 3 .. 38 : T[j] \in 0 .. 5  OBVIOUS
<1> HIDE DEF T
<1>3. \A k \in 0 .. Len(T) - 1 : Array(T)[k] = T[k + 1]  BY <1>1, ArrayAt
<1>4. \A k \in 2 .. 37 : k \in 0 .. Len(T) - 1 /\ k + 1 \in 3 .. 38
  BY <1>1
<1>5. yyr2 = Array(T)  BY DEF yyr2, T
<1> QED  BY <1>2, <1>3, <1>4, <1>5

(* The default state after a nonterminal is not the final one.            *)
LEMMA DefaultGotos == \A k \in 1 .. 17 : yydefgoto[k] \in (0 .. 60) \ {8}
<1> DEFINE T == << -1, 2, 3, 27, 28, 29, 30, 5, 14, 6, 31, 32, 33, 46, 34, 35, 51, 39 >>
<1>1. T \in Seq(Int) /\ Len(T) = 18  OBVIOUS
<1>2. \A j \in 2 .. 18 : T[j] \in (0 .. 60) \ {8}  OBVIOUS
<1> HIDE DEF T
<1>3. \A k \in 0 .. Len(T) - 1 : Array(T)[k] = T[k + 1]  BY <1>1, ArrayAt
<1>4. \A k \in 1 .. 17 : k \in 0 .. Len(T) - 1 /\ k + 1 \in 2 .. 18
  BY <1>1
<1>5. yydefgoto = Array(T)  BY DEF yydefgoto, T
<1> QED  BY <1>2, <1>3, <1>4, <1>5

(* Entry 34 of yytable is not for a nonterminal under state 0.            *)
LEMMA Displacements == \A k \in 1 .. 17 : yypgoto[k] \in Int \ {34}
<1> DEFINE T == << -24, -24, 50, 39, -24, 27, 42, -24, 47, -24, -24, -23, -24, 24, -1, -24, -24, -17
                >>
<1>1. T \in Seq(Int) /\ Len(T) = 18  OBVIOUS
<1>2. \A j \in 2 .. 18 : T[j] \in Int \ {34}  OBVIOUS
<1> HIDE DEF T
<1>3. \A k \in 0 .. Len(T) - 1 : Array(T)[k] = T[k + 1]  BY <1>1, ArrayAt
<1>4. \A k \in 1 .. 17 : k \in 0 .. Len(T) - 1 /\ k + 1 \in 2 .. 18
  BY <1>1
<1>5. yypgoto = Array(T)  BY DEF yypgoto, T
<1> QED  BY <1>2, <1>3, <1>4, <1>5

(* Every entry is a state; only one of them is the final one.             *)
LEMMA Entries == \A k \in 0 .. 59 : yytable[k] \in 0 .. 60 /\ (yytable[k] = 8 => k = 34)
<1> DEFINE T == << 38, 36, 40, 44, 45, 20, 21, 22, 23, 24, 25, 36, 18, 26, 50, 20, 21, 22, 23, 24,
                25, 1, 18, 41, 7, 56, 20, 21, 20, 21, 13, 25, 49, 25, 8, 60, 11, 57, 15, 1, 58, 12,
                4, 18, 10, 54, 55, 17, 37, 48, 43, 52, 9, 59, 53, 42, 19, 0, 47, 16 >>
<1>1. T \in Seq(Int) /\ Len(T) = 60  OBVIOUS
<1>2. \A j \in 1 .. 60 : T[j] \in 0 .. 60 /\ (T[j] = 8 => j = 35)  OBVIOUS
<1> HIDE DEF T
<1>3. \A k \in 0 .. Len(T) - 1 : Array(T)[k] = T[k + 1]  BY <1>1, ArrayAt, ZenonT(40)
<1>4. \A k \in 0 .. 59 : k \in 0 .. Len(T) - 1 /\ k + 1 \in 1 .. 60 /\ (k + 1 = 35 => k = 34)
  BY <1>1
<1>5. yytable = Array(T)  BY DEF yytable, T
<1> QED  BY <1>2, <1>3, <1>4, <1>5

(* That entry belongs to the end of the file, or to state 0.              *)
LEMMA Owner == \A k \in 34 .. 34 : yycheck[k] = 0
<1> DEFINE T == << 23, 18, 25, 14, 15, 3, 4, 5, 6, 7, 8, 28, 10, 11, 37, 3, 4, 5, 6, 7, 8, 5, 10,
                11, 4, 48, 3, 4, 3, 4, 4, 8, 9, 8, 0, 58, 7, 9, 8, 5, 12, 12, 0, 10, 2, 46, 47, 9,
                8, 13, 7, 7, 2, 7, 9, 28, 17, -1, 34, 12 >>
<1>1. T \in Seq(Int) /\ Len(T) = 60  OBVIOUS
<1>2. \A j \in 35 .. 35 : T[j] = 0  OBVIOUS
<1> HIDE DEF T
<1>3. \A k \in 0 .. Len(T) - 1 : Array(T)[k] = T[k + 1]  BY <1>1, ArrayAt, ZenonT(40)
<1>4. \A k \in 34 .. 34 : k \in 0 .. Len(T) - 1 /\ k + 1 \in 35 .. 35
  BY <1>1
<1>5. yycheck = Array(T)  BY DEF yycheck, T
<1> QED  BY <1>2, <1>3, <1>4, <1>5

-----------------------------------------------------------------------------
(* The look-ups *)

Live == (0 .. 60) \ {YYFINAL}   \* the states that are pushed

(* A shift goes to a state that may be on the stack.                       *)
LEMMA ShiftIsLive ==
  ASSUME NEW state, NEW tok, ShiftTo(state, tok) \notin {0, YYFINAL}
  PROVE  ShiftTo(state, tok) \in Live
<1>1. \A at, owner : Entry(at, owner) \in -1 .. 60
  BY Entries DEF Entry, YYLAST
<1> QED
  BY <1>1 DEF ShiftTo, Live

(* A reduction is by one of the rules 2 to 37.                             *)
LEMMA RuleExists ==
  ASSUME NEW state \in Live, NEW tok, ReduceBy(state, tok) # 0
  PROVE  ReduceBy(state, tok) \in 2 .. 37
<1>1. yydefact[state] \in (0 .. 37) \ {1}
  BY DefaultRules DEF Live, YYFINAL
<1>2. ReduceBy(state, tok) \in {0, yydefact[state]}
  BY Zenon DEF ReduceBy
<1> QED
  BY <1>1, <1>2

(* The state entered after a reduction may be on the stack.                *)
LEMMA GotoIsLive ==
  ASSUME NEW rule \in 2 .. 37, NEW under
  PROVE  GotoState(rule, under) \in Live
<1> DEFINE symbol == yyr1[rule] - YYNTOKENS
           at     == yypgoto[symbol] + under
<1>1. symbol \in 1 .. 17
  BY Symbols DEF YYNTOKENS
<1>2. yydefgoto[symbol] \in Live
  BY <1>1, DefaultGotos DEF Live, YYFINAL
<1>3. ASSUME at \in 0 .. YYLAST, yycheck[at] = under
      PROVE  yytable[at] \in Live
  <2>1. at \in 0 .. 59
    BY <1>3 DEF YYLAST
  <2>2. yytable[at] \in 0 .. 60 /\ (yytable[at] = 8 => at = 34)
    BY <2>1, Entries
  <2>3. ASSUME at = 34
        PROVE  FALSE
    <3>1. under = 0
      BY <1>3, <2>3, Owner
    <3>2. yypgoto[symbol] \in Int \ {34}
      BY <1>1, Displacements
    <3> QED
      BY <2>3, <3>1, <3>2
  <2> QED
    BY <2>2, <2>3 DEF Live, YYFINAL
<1> HIDE DEF at
<1>4. Entry(at, under) # -1 => Entry(at, under) \in Live
  BY <1>3 DEF Entry
<1> QED
  BY <1>2, <1>4, Zenon DEF GotoState, at

-----------------------------------------------------------------------------
(* The invariant *)

Pairs(V) == [state : Live, val : V]

StackOK == (\E V : stack \in Seq(Pairs(V))) /\ Len(stack) > 0
SizeOK  == yystacksize \in Nat /\ yystacksize <= YYMAXDEPTH

IInv == StackOK /\ SizeOK /\ RoomToPush

(* A sequence over a set is one over a larger set.                         *)
LEMMA SequenceOfMore ==
  ASSUME NEW A, NEW B, A \subseteq B, NEW s \in Seq(A)
  PROVE  s \in Seq(B)
OBVIOUS

(* The top of a stack is one of its elements.                              *)
LEMMA LastElement ==
  ASSUME NEW A, NEW s \in Seq(A), Len(s) > 0
  PROVE  s[Len(s)] \in A
OBVIOUS

(* What is left after popping is a stack of the same elements.             *)
LEMMA Popped ==
  ASSUME NEW A, NEW s \in Seq(A), NEW n \in 0 .. 5
  PROVE  SubSeq(s, 1, Len(s) - n) \in Seq(A)
OBVIOUS

(* A stack of more than one element keeps the others when one is popped.   *)
LEMMA TopPopped ==
  ASSUME NEW A, NEW s \in Seq(A), Len(s) > 0, Len(s) # 1
  PROVE  /\ Front(s) \in Seq(A)
         /\ Len(Front(s)) \in Nat /\ Len(Front(s)) > 0 /\ Len(Front(s)) < Len(s)
<1>1. Front(s) = SubSeq(s, 1, Len(s) - 1)
  BY DEF Front
<1>2. SubSeq(s, 1, Len(s) - 1) \in Seq(A)
  BY Popped
<1> DEFINE n == Len(s)
<1>3. n \in Nat /\ \A i \in 1 .. n - 1 : s[i] \in A
  OBVIOUS
<1>4. n > 0 /\ n # 1
  OBVIOUS
<1> HIDE DEF n
<1>5. n - 1 \in Int /\ 1 <= n - 1 /\ (n - 1) - 1 + 1 = n - 1
  BY <1>3, <1>4
<1>6. Len(SubSeq(s, 1, n - 1)) = n - 1
  BY <1>3, <1>5, SubSeqProperties
<1> QED
  BY <1>1, <1>2, <1>3, <1>5, <1>6 DEF n

(* Whatever was popped before, entering a state keeps it.                  *)
LEMMA EnterKeeps ==
  ASSUME NEW V, NEW below \in Seq(Pairs(V)), NEW state \in Live, NEW val,
         SizeOK, verdict = "running", Enter(below, state, val)
  PROVE  IInv'
<1> USE DepthAssumption
<1> DEFINE W == V \cup {val}
<1>1. below \in Seq(Pairs(W))
  <2>1. Pairs(V) \subseteq Pairs(W)
    BY DEF Pairs
  <2> QED
    BY <2>1, SequenceOfMore
<1>2. Pair(state, val) \in Pairs(W)
  BY DEF Pair, Pairs
<1>3. stack' = Append(below, Pair(state, val))
  BY DEF Enter
<1>4. stack' \in Seq(Pairs(W)) /\ Len(stack') = Len(below) + 1 /\ Len(below) \in Nat
  BY <1>1, <1>2, <1>3
<1>5. StackOK'
  <2>1. Len(stack') > 0
    BY <1>4
  <2> QED
    BY <1>4, <2>1 DEF StackOK
<1>6. Doubled \in Nat /\ Doubled <= YYMAXDEPTH
  BY DEF Doubled, SizeOK
<1>7. SizeOK'
  BY <1>6 DEF SizeOK, Enter
<1>8. RoomToPush'
  <2>1. CASE Len(below) + 1 < yystacksize
    BY <2>1, <1>4 DEF Enter, RoomToPush, SizeOK
  <2>2. CASE Len(below) + 1 >= yystacksize /\ yystacksize >= YYMAXDEPTH
    BY <2>2, <1>4 DEF Enter, RoomToPush, SizeOK
  <2>3. CASE Len(below) + 1 >= yystacksize /\ yystacksize < YYMAXDEPTH
    BY <2>3, <1>4, <1>6 DEF Enter, RoomToPush, SizeOK
  <2> QED
    BY <2>1, <2>2, <2>3, <1>4 DEF SizeOK
<1> QED
  BY <1>5, <1>7, <1>8 DEF IInv

(* The invariant holds when yyparse begins.                                *)
LEMMA InitIInv ==
  ASSUME NEW tokens, StartsOn(tokens)
  PROVE  IInv
<1>1. Pair(0, "none") \in Pairs({"none"})
  BY DEF Pair, Pairs, Live, YYFINAL
<1>2. stack \in Seq(Pairs({"none"})) /\ Len(stack) = 1
  BY <1>1 DEF StartsOn
<1>3. StackOK
  BY <1>2 DEF StackOK
<1> QED
  BY <1>2, <1>3, DepthAssumption DEF StartsOn, IInv, SizeOK, RoomToPush

(* Every step of yyparse keeps it.                                         *)
LEMMA NextIInv == IInv /\ [Next]_vars => IInv'
<1> SUFFICES ASSUME IInv, [Next]_vars PROVE IInv'
  OBVIOUS
<1>1. PICK V : stack \in Seq(Pairs(V))
  BY DEF IInv, StackOK
<1>2. yystate \in Live /\ Len(stack) > 0
  <2>1. Len(stack) > 0
    BY DEF IInv, StackOK
  <2>2. stack[Len(stack)] \in Pairs(V)
    BY <1>1, <2>1, LastElement
  <2> QED
    BY <2>1, <2>2 DEF yystate, Pairs
<1>3. CASE ReadToken
  BY <1>3 DEF ReadToken, IInv, StackOK, SizeOK, RoomToPush
<1>4. CASE Shift
  <2>1. ShiftTo(yystate, yychar) \in Live
    BY <1>4, ShiftIsLive DEF Shift
  <2> QED
    BY <1>1, <1>4, <2>1, EnterKeeps DEF Shift, Decides, IInv
<1>5. CASE Reduce
  <2> DEFINE rule  == ReduceBy(yystate, yychar)
             yylen == yyr2[rule]
             below == SubSeq(stack, 1, Len(stack) - yylen)
             val   == Value(rule, [k \in 1 .. yylen |-> stack[Len(below) + k].val])
             goes  == GotoState(rule, below[Len(below)].state)
  <2>1. rule \in 2 .. 37
    BY <1>2, <1>5, RuleExists DEF Reduce
  <2>2. yylen \in 0 .. 5
    BY <2>1, Lengths
  <2>3. below \in Seq(Pairs(V))
    BY <1>1, <2>2, Popped
  <2>4. goes \in Live
    BY <2>1, GotoIsLive
  <2>5. Enter(below, goes, val) /\ verdict = "running"
    BY <1>5 DEF Reduce, Decides
  <2> HIDE DEF below, goes, val
  <2> QED
    BY <2>3, <2>4, <2>5, EnterKeeps DEF IInv
<1>6. CASE Accept
  BY <1>6 DEF Accept, IInv, StackOK, SizeOK, RoomToPush
<1>7. CASE SyntaxError
  BY <1>7 DEF SyntaxError, Decides, IInv, StackOK, SizeOK, RoomToPush
<1>8. CASE PopState
  <2>1. CASE Len(stack) = 1
    BY <1>8, <2>1 DEF PopState, IInv, StackOK, SizeOK, RoomToPush
  <2>2. CASE Len(stack) # 1
    <3>1. /\ Front(stack) \in Seq(Pairs(V))
          /\ Len(Front(stack)) \in Nat /\ Len(Front(stack)) > 0 /\ Len(Front(stack)) < Len(stack)
      BY <1>1, <1>2, <2>2, TopPopped
    <3>2. stack' = Front(stack) /\ verdict' = verdict /\ yystacksize' = yystacksize
      BY <1>8, <2>2 DEF PopState
    <3>3. Len(stack) < yystacksize /\ yystacksize <= YYMAXDEPTH
      BY <1>8 DEF PopState, IInv, RoomToPush
    <3>4. StackOK'
      BY <3>1, <3>2 DEF StackOK
    <3>5. SizeOK'
      BY <3>2 DEF IInv, SizeOK
    <3>6. RoomToPush'
      <4>1. Len(stack) \in Nat
        BY <1>1
      <4> QED
        BY <3>1, <3>2, <3>3, <4>1 DEF RoomToPush, IInv, SizeOK
    <3> QED
      BY <3>4, <3>5, <3>6 DEF IInv
  <2> QED
    BY <2>1, <2>2
<1>9. CASE UNCHANGED vars
  BY <1>9 DEF vars, IInv, StackOK, SizeOK, RoomToPush
<1> QED
  BY <1>3, <1>4, <1>5, <1>6, <1>7, <1>8, <1>9 DEF Next

(* Whatever the text and whatever the depths: while yyparse runs, the      *)
(* stack is smaller than the memory it has, and that is within YYMAXDEPTH. *)
THEOREM StackNeverOverflows == Spec => []RoomToPush
<1>1. Spec => IInv /\ [][Next]_vars
  BY InitIInv DEF Spec
<1>2. IInv => RoomToPush
  BY DEF IInv
<1> QED
  BY <1>1, <1>2, NextIInv, PTL DEF Spec
=============================================================================
