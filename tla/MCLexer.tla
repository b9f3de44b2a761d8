------------------------------- MODULE MCLexer -------------------------------
(***************************************************************************)
(* The lexer on every text of up to MaxLen characters: the six signs, two  *)
(* word characters, a space, a space of three bytes (U+3000) and a letter  *)
(* of two that is no word character.                                       *)
(***************************************************************************)
EXTENDS Lexer

CONSTANT MaxLen   \* bound on the number of characters

MCSpace == {" ", "U+3000"}
MCWordChar == {"a", "/"}
MCWidth == [ch \in Special \cup MCSpace \cup MCWordChar \cup {"U+00E9"} |->
              CASE ch = "U+3000" -> 3 [] ch = "U+00E9" -> 2 [] OTHER -> 1]

(* Where the i-th character starts. *)
StartOf(s) == LET at[i \in 1..(Len(s) + 1)] == IF i = 1 THEN 0 ELSE at[i - 1] + MCWidth[s[i - 1]]
              IN  at
TextOf(s) == [chars |-> [i \in DOMAIN s |-> [start |-> StartOf(s)[i], c |-> s[i]]],
              len |-> StartOf(s)[Len(s) + 1]]

MCTexts == {TextOf(s) : s \in UNION {[1..n -> DOMAIN MCWidth] : n \in 0..MaxLen}}
=============================================================================
