------------------------------- MODULE ArmImm -------------------------------
(***************************************************************************)
(* Which numbers fit into an ARM instruction (PlatformArm32), and how      *)
(* those that do not are put into a register (ILocArm32::load_imm).        *)
(*                                                                         *)
(* A machine word is the set of the positions of its one bits.             *)
(***************************************************************************)
EXTENDS Integers, FiniteSets, FiniteSetsExt

CONSTANT WordBits    \* width of a word: 32, and less to check all words

(* Two's complement. *)
Bits(n) ==
  {i \in 0 .. WordBits - 2 : (n \div 2^i) % 2 = 1}
    \cup (IF n < 0 THEN {WordBits - 1} ELSE {})

(* Wrong: the bits that overflow are lost. *)
LeftShiftTwoBit(word) == {b + 2 : b \in {p \in word : p + 2 < WordBits}}

roundLeftShiftTwoBit(word) == {(b + 2) % WordBits : b \in word}

(* Two's complement: the bits above the lowest one bit are flipped. *)
Negated(word) ==
  {p \in 0 .. WordBits - 1 :
     \E low \in word : /\ \A b \in word : low <= b
                       /\ p = low \/ (p > low /\ p \notin word)}

FitsByte(word) == word \subseteq 0..7

(* Rotated[i] is the word after i turns of the loop of __constExpr. *)
OneSignConstExpr(word) ==
  LET Rotated[i \in 0 .. (WordBits \div 2) - 1] ==
        IF i = 0 THEN word ELSE roundLeftShiftTwoBit(Rotated[i - 1])
  IN  \E i \in DOMAIN Rotated : FitsByte(Rotated[i])

constExpr(word) == OneSignConstExpr(word) \/ OneSignConstExpr(Negated(word))

isDisp(n) == n < 4096 /\ n > -4096

(* load_imm: movw sets the lower half of the word and clears the rest, and *)
(* movt sets the upper half where there is one.                            *)
UpperHalf(word) == {b \in word : b >= WordBits \div 2}

(* Wrong: only the sign bit makes a second instruction necessary. *)
NeedsMovtIfNegative(word) == WordBits - 1 \in word

NeedsMovt(word) == UpperHalf(word) # {}
=============================================================================
