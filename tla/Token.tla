-------------------------------- MODULE Token --------------------------------
(***************************************************************************)
(* Offsets into the filter text (error.rs) and the tokens of lexer.rs: the *)
(* data the lexer hands to the parser, and what it promises about it.      *)
(***************************************************************************)
EXTENDS Naturals, Sequences

(* A range of bytes of the text, the end not included. *)
Offset == [start : Nat, end : Nat]
Span(start, end) == [start |-> start, end |-> end]

WordToken(text, offset) == [tag |-> "Word", text |-> text, offset |-> offset]
Sign(tag, offset) == [tag |-> tag, offset |-> offset]
Eof(at) == Sign("Eof", Span(at, at))

Signs == {"LParen", "RParen", "Dash", "Eof"}

(* What the parser relies on: tokens lie in the text one behind the other, *)
(* none is empty, and a single Eof closes them, at the end of the text.    *)
WellLexed(tokens, len) ==
  /\ tokens # <<>>
  /\ tokens[Len(tokens)] = Eof(len)
  /\ \A i \in 1..(Len(tokens) - 1) :
       /\ tokens[i].tag # "Eof"
       /\ tokens[i].offset.start < tokens[i].offset.end
       /\ tokens[i].offset.end <= tokens[i + 1].offset.start
=============================================================================
