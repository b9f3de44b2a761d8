-------------------------------- MODULE Lexer --------------------------------
(***************************************************************************)
(* lexer.rs: `lex`.  One action per arm of the `match` in its loop; the    *)
(* loop over the characters of a word takes a step for each of them.       *)
(*                                                                         *)
(* A text is what char_indices yields of it: its characters, each with the *)
(* byte it starts at, and its length in bytes.  Characters are strings of  *)
(* which the six signs and the members of Space and WordChar mean          *)
(* something; all others, of any width, cannot start a token.              *)
(***************************************************************************)
EXTENDS Token, FiniteSets

CONSTANTS Texts,       \* the texts `lex` is called with
          Space,       \* char::is_whitespace
          WordChar,    \* is_word_char: ASCII letters and digits, and . : /
          Width        \* Width[c] is c.len_utf8()

Special == {"(", ")", "-", "!", "&", "|"}

IsText(text) ==
  /\ text.chars \in Seq([start : Nat, c : DOMAIN Width])
  /\ text.len \in Nat
  /\ \A i \in DOMAIN text.chars :
       text.chars[i].start + Width[text.chars[i].c]
         = (IF i = Len(text.chars) THEN text.len ELSE text.chars[i + 1].start)
  /\ IF text.chars = <<>> THEN text.len = 0 ELSE text.chars[1].start = 0

ASSUME LexerAssumption ==
  /\ \A c \in DOMAIN Width : Width[c] \in 1..4
  /\ Special \cup WordChar \subseteq {c \in DOMAIN Width : Width[c] = 1}    \* ASCII
  /\ Space \subseteq DOMAIN Width
  /\ Special \cap WordChar = {} /\ Space \cap (Special \cup WordChar) = {}
  /\ \A text \in Texts : IsText(text)

VARIABLES src,
          taken,      \* how many characters the iterator has yielded
          word,       \* {} or {the bytes start..end of the word being read}
          tokens,
          lexStatus,  \* "lexing", "ok" or "error"
          lexError    \* {} or {the offset of the UnexpectedChar}

lexVars == <<src, taken, word, tokens, lexStatus, lexError>>

LexInit ==
  /\ src \in Texts
  /\ taken = 0
  /\ word = {}
  /\ tokens = <<>>
  /\ lexStatus = "lexing"
  /\ lexError = {}

-----------------------------------------------------------------------------
(* chars.peek() is Some(&(start, c)) with c in the set C. *)
Peeks(C) == taken < Len(src.chars) /\ src.chars[taken + 1].c \in C
start == src.chars[taken + 1].start
c == src.chars[taken + 1].c

AtToken == lexStatus = "lexing" /\ word = {}

Push(token) == tokens' = Append(tokens, token)

(* Whitespace that is recognised and not consumed. *)
MutSkipSpace ==
  /\ AtToken
  /\ Peeks(Space)
  /\ UNCHANGED lexVars

SkipSpace ==
  /\ AtToken
  /\ Peeks(Space)
  /\ taken' = taken + 1
  /\ UNCHANGED <<src, word, tokens, lexStatus, lexError>>

TagOf == [sign \in {"(", ")", "-"} |->
            IF sign = "(" THEN "LParen" ELSE IF sign = ")" THEN "RParen" ELSE "Dash"]

LexSign ==
  /\ AtToken
  /\ Peeks(DOMAIN TagOf)
  /\ taken' = taken + 1
  /\ Push(Sign(TagOf[c], Span(start, start + 1)))
  /\ UNCHANGED <<src, word, lexStatus, lexError>>

(* `!` is the word `not`. *)
LexBang ==
  /\ AtToken
  /\ Peeks({"!"})
  /\ taken' = taken + 1
  /\ Push(WordToken(<<"n", "o", "t">>, Span(start, start + 1)))
  /\ UNCHANGED <<src, word, lexStatus, lexError>>

(* The character behind this one is the same. *)
Doubled == taken + 1 < Len(src.chars) /\ src.chars[taken + 2].c = c

(* Whatever follows the first `&` is taken for the second. *)
MutLexDouble ==
  /\ AtToken
  /\ Peeks({"&", "|"})
  /\ taken + 1 < Len(src.chars)
  /\ taken' = taken + 2
  /\ Push(WordToken(IF c = "&" THEN <<"a", "n", "d">> ELSE <<"o", "r">>, Span(start, start + 2)))
  /\ UNCHANGED <<src, word, lexStatus, lexError>>

(* `&&` is the word `and`, `||` the word `or`. *)
LexDouble ==
  /\ AtToken
  /\ Peeks({"&", "|"})
  /\ Doubled
  /\ taken' = taken + 2
  /\ Push(WordToken(IF c = "&" THEN <<"a", "n", "d">> ELSE <<"o", "r">>, Span(start, start + 2)))
  /\ UNCHANGED <<src, word, lexStatus, lexError>>

Unexpected ==
  /\ lexStatus' = "error"
  /\ lexError' = {Span(start, start + 1)}
  /\ UNCHANGED <<src, taken, word, tokens>>

(* A single `&` or `|` skipped as if it were whitespace. *)
MutLexStray ==
  /\ AtToken
  /\ Peeks({"&", "|"})
  /\ ~Doubled
  /\ taken' = taken + 1
  /\ UNCHANGED <<src, word, tokens, lexStatus, lexError>>

LexStray ==
  /\ AtToken
  /\ Peeks({"&", "|"})
  /\ ~Doubled
  /\ Unexpected

LexUnknown ==
  /\ AtToken
  /\ Peeks(DOMAIN Width \ (Space \cup WordChar \cup Special))
  /\ Unexpected

(* The end of the word begins where the word does. *)
MutWordStart ==
  /\ AtToken
  /\ Peeks(WordChar)
  /\ word' = {Span(start, start)}
  /\ taken' = taken + 1
  /\ UNCHANGED <<src, tokens, lexStatus, lexError>>

WordStart ==
  /\ AtToken
  /\ Peeks(WordChar)
  /\ word' = {Span(start, start + Width[c])}
  /\ taken' = taken + 1
  /\ UNCHANGED <<src, tokens, lexStatus, lexError>>

(* The end of the word stays behind its first character. *)
MutWordMore ==
  /\ word # {}
  /\ Peeks(WordChar)
  /\ taken' = taken + 1
  /\ UNCHANGED <<src, word, tokens, lexStatus, lexError>>

WordMore ==
  /\ word # {}
  /\ Peeks(WordChar)
  /\ word' = {Span(w.start, start + Width[c]) : w \in word}
  /\ taken' = taken + 1
  /\ UNCHANGED <<src, tokens, lexStatus, lexError>>

(* bytes[start..end] read as a str: the characters that start in it. *)
Slice(w) ==
  LET inside == SelectSeq(src.chars, LAMBDA p : w.start <= p.start /\ p.start < w.end)
  IN  [i \in DOMAIN inside |-> inside[i].c]

WordEnd ==
  /\ word # {}
  /\ ~Peeks(WordChar)
  /\ \E w \in word : Push(WordToken(Slice(w), w))
  /\ word' = {}
  /\ UNCHANGED <<src, taken, lexStatus, lexError>>

(* The end of the text counted in characters. *)
MutLexEnd ==
  /\ AtToken
  /\ taken = Len(src.chars)
  /\ Push(Eof(Len(src.chars)))
  /\ lexStatus' = "ok"
  /\ UNCHANGED <<src, taken, word, lexError>>

LexEnd ==
  /\ AtToken
  /\ taken = Len(src.chars)
  /\ Push(Eof(src.len))
  /\ lexStatus' = "ok"
  /\ UNCHANGED <<src, taken, word, lexError>>

LexNext ==
  \/ SkipSpace \/ LexSign \/ LexBang \/ LexDouble \/ LexStray \/ LexUnknown
  \/ WordStart \/ WordMore \/ WordEnd \/ LexEnd

(* `lex` is one call on one thread. *)
LexSpec == LexInit /\ [][LexNext]_lexVars /\ WF_lexVars(LexNext)

-----------------------------------------------------------------------------
(* The iterator stands in the text or at its end, and `bytes[start..end]`  *)
(* of the word being read is never an empty or a reversed range.           *)
LexTypeOK ==
  /\ IsText(src)
  /\ taken \in 0..Len(src.chars)
  /\ word \subseteq Offset /\ \A v, w \in word : v = w
  /\ \A w \in word : w.start < w.end
  /\ \A i \in DOMAIN tokens : tokens[i].tag \in Signs \cup {"Word"} /\ tokens[i].offset \in Offset
  /\ lexStatus \in {"lexing", "ok", "error"}
  /\ lexError \subseteq Offset

Boundaries == {p.start : p \in {src.chars[i] : i \in DOMAIN src.chars}} \cup {src.len}

Ranges == {tokens[i].offset : i \in DOMAIN tokens} \cup word

(* "offset boundaries land on char boundaries by construction": the        *)
(* `expect` on from_utf8 cannot fail and the text can be cut at every      *)
(* token, whatever characters of several bytes stand between the tokens.   *)
OnBoundaries == \A r \in Ranges : r.start \in Boundaries /\ r.end \in Boundaries

(* Whether range r holds the i-th character, and whether it is a run of    *)
(* word characters.                                                        *)
Holds(r, i) == r.start <= src.chars[i].start /\ src.chars[i].start < r.end
IsRun(r) == \E i \in DOMAIN src.chars : src.chars[i].start = r.start /\ src.chars[i].c \in WordChar

(* Each character the lexer has passed is whitespace or in exactly one     *)
(* token, no token has whitespace in it, and words are maximal: two runs   *)
(* of word characters never touch.                                         *)
NothingLost ==
  /\ \A i \in 1..taken :
       Cardinality({r \in Ranges : Holds(r, i)}) = (IF src.chars[i].c \in Space THEN 0 ELSE 1)
  /\ \A q, r \in Ranges : IsRun(q) /\ IsRun(r) => q.end # r.start

(* What `lex` returns is what the parser's indexing relies on (its `peek`  *)
(* and its `advance` that stops on the last token).                        *)
HandsOver == lexStatus = "ok" => WellLexed(tokens, src.len)

(* The i-th character cannot be part of any token: it starts none, or it   *)
(* is the last of an odd number of `&` or `|`.                             *)
Odd(i) ==
  \E n \in 1..i :
    /\ n % 2 = 1
    /\ \A j \in (i - n + 1)..i : src.chars[j].c = src.chars[i].c
    /\ n = i \/ src.chars[i - n].c # src.chars[i].c
    /\ i = Len(src.chars) \/ src.chars[i + 1].c # src.chars[i].c
Bad(i) ==
  \/ src.chars[i].c \notin Space \cup WordChar \cup Special
  \/ src.chars[i].c \in {"&", "|"} /\ Odd(i)

(* "bail out at the first offending byte": `lex` fails exactly for a text  *)
(* with a character that belongs to no token, and its error starts at the  *)
(* first such character.                                                   *)
FirstBadChar ==
  /\ lexStatus = "ok" => \A i \in DOMAIN src.chars : ~Bad(i)
  /\ \A e \in lexError : \E i \in DOMAIN src.chars :
       e.start = src.chars[i].start /\ Bad(i) /\ \A j \in 1..(i - 1) : ~Bad(j)

(* `lex` returns for every text. *)
LexTerminates == <>(lexStatus # "lexing")
=============================================================================
