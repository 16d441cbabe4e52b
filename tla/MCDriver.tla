------------------------------ MODULE MCDriver ------------------------------
(***************************************************************************)
(* Command lines of up to four arguments with one short file, and the     *)
(* three front ends on all programs up to a length and on the texts that   *)
(* one edit makes of the shorter ones.                                     *)
(***************************************************************************)
EXTENDS Driver, Grammar

CONSTANTS EditTokens,   \* bound: length of a program that is edited
          MaxArgs       \* bound: arguments of a command line

MCArgs ==
  {<< "-", "S" >>, << "-", "T" >>, << "-", "I", "S" >>, << "-", "D" >>, << "-", "A" >>, << "-", "h", "c", "t", "y" >>,
   << "-", "o", "y" >>, << "-", "O" >>, << "-", "x" >>, << "-", "-" >>, << "-", "S", "-" >>, << "2" >>}

MCCommandLines == UNION {[1 .. n -> MCArgs] : n \in 0 .. MaxArgs}

MCShortFile == CHOOSE f \in Programs : f.toks = << "int", "id", "(", ")", "{", "}" >>

MCEdits(s) ==
  {RemoveAt(s, k) : k \in DOMAIN s} \cup {ReplaceAt(s, k, t) : k \in DOMAIN s, t \in Tokens}
    \cup {InsertAt(s, k, t) : k \in 1 .. Len(s) + 1, t \in Tokens}

MCFiles ==
  LET sentences == {p.toks : p \in Programs}
      edited    == UNION {MCEdits(s) : s \in {t \in sentences : Len(t) <= EditTokens}}
  IN  Programs \cup {Phrase(t, Null) : t \in edited \ sentences}

MCFrontEndChoices == {<< << "-", "S" >>, << "2" >> >>, << << "-", "S" >>, << "-", "D" >>, << "2" >> >>,
                      << << "2" >>, << "-", "S" >>, << "-", "A" >> >>}

MCInvocations == (MCCommandLines \X {MCShortFile}) \cup (MCFrontEndChoices \X MCFiles)
=============================================================================
