---------------------------- MODULE LexerProofs ----------------------------
(***************************************************************************)
(* The lexer on every text of any length: its ranges lie on character      *)
(* boundaries, the tokens it returns are in order, not empty and closed by *)
(* one Eof, as the parser relies on, no character but whitespace is lost   *)
(* or read twice, and an error is about the first character that cannot be *)
(* part of a filter.                                                       *)
(***************************************************************************)
EXTENDS Lexer, FiniteSetTheorems, SequenceTheorems, WellFoundedInduction, TLAPS

(* The byte behind the first n characters of a text. *)
ByteAt(text, n) == IF n = Len(text.chars) THEN text.len ELSE text.chars[n + 1].start

(* All bytes of a text on which a character begins, or the text ends. *)
Bounds(text) == {p.start : p \in {text.chars[i] : i \in DOMAIN text.chars}} \cup {text.len}

(* A finished token of the text that ends no later than byte e. *)
Finished(text, token, e) ==
  /\ token.tag \in (Signs \ {"Eof"}) \cup {"Word"}
  /\ token.offset \in Offset
  /\ token.offset.start < token.offset.end
  /\ token.offset.start \in Bounds(text) /\ token.offset.end \in Bounds(text)
  /\ token.offset.end <= e

(* A sequence, of whatever it holds. *)
IsSequence(s) == \E S : s \in Seq(S)

(* Tokens in order, up to byte e. *)
InOrder(text, toks, e) ==
  /\ IsSequence(toks)
  /\ \A i \in 1..Len(toks) : Finished(text, toks[i], e)
  /\ \A i \in 1..(Len(toks) - 1) : toks[i].offset.end <= toks[i + 1].offset.start

(* A word being read: from a boundary to the character behind. *)
Open(text, w, n) ==
  /\ w \in Offset
  /\ w.start < w.end
  /\ w.start \in Bounds(text)
  /\ w.end = ByteAt(text, n)

(* The inductive invariant: besides the order of the finished tokens, that *)
(* they end where the text not yet read, or the word being read, begins.   *)
LexInv ==
  /\ IsText(src)
  /\ taken \in 0..Len(src.chars)
  /\ lexStatus \in {"lexing", "ok", "error"}
  /\ lexError \subseteq Offset
  /\ \A v, w \in word : v = w
  /\ \A w \in word : Open(src, w, taken) /\ InOrder(src, tokens, w.start)
  /\ word # {} => lexStatus = "lexing"
  /\ lexStatus # "ok" => InOrder(src, tokens, ByteAt(src, taken))
  /\ lexStatus = "ok" => \E front : /\ InOrder(src, front, src.len)
                                    /\ tokens = Append(front, Eof(src.len))

-----------------------------------------------------------------------------
(* The boundaries of a text. *)
LEMMA TextBytes ==
  ASSUME NEW text, IsText(text), NEW n \in 0..Len(text.chars)
  PROVE  /\ Len(text.chars) \in Nat
         /\ ByteAt(text, n) \in Nat
         /\ ByteAt(text, n) \in Bounds(text)
         /\ n < Len(text.chars) =>
              /\ text.chars[n + 1].start = ByteAt(text, n)
              /\ text.chars[n + 1].c \in DOMAIN Width
              /\ Width[text.chars[n + 1].c] \in 1..4
              /\ ByteAt(text, n + 1) = ByteAt(text, n) + Width[text.chars[n + 1].c]
<1>1. /\ text.chars \in Seq([start : Nat, c : DOMAIN Width])
      /\ text.len \in Nat
      /\ \A i \in DOMAIN text.chars :
           text.chars[i].start + Width[text.chars[i].c]
             = (IF i = Len(text.chars) THEN text.len ELSE text.chars[i + 1].start)
  BY DEF IsText
<1>2. Len(text.chars) \in Nat /\ DOMAIN text.chars = 1..Len(text.chars)
  BY <1>1
<1>3. CASE n = Len(text.chars)
  BY <1>1, <1>2, <1>3 DEF ByteAt, Bounds
<1>4. CASE n < Len(text.chars)
  <2>1. n + 1 \in DOMAIN text.chars
    BY <1>2, <1>4
  <2>2. text.chars[n + 1] \in [start : Nat, c : DOMAIN Width]
    <3> DEFINE P == [start : Nat, c : DOMAIN Width]
    <3>1. text.chars \in Seq(P) /\ n + 1 \in 1..Len(text.chars)
      BY <1>1, <1>2, <2>1
    <3> HIDE DEF P
    <3>2. text.chars[n + 1] \in P
      BY <3>1, ElementOfSeq
    <3> QED
      BY <3>2 DEF P
  <2>3. Width[text.chars[n + 1].c] \in 1..4
    BY <2>2, LexerAssumption
  <2>4. ByteAt(text, n) = text.chars[n + 1].start
    BY <1>2, <1>4 DEF ByteAt
  <2>5. ByteAt(text, n + 1) = text.chars[n + 1].start + Width[text.chars[n + 1].c]
    <3>1. text.chars[n + 1].start + Width[text.chars[n + 1].c]
            = IF n + 1 = Len(text.chars) THEN text.len ELSE text.chars[n + 1 + 1].start
      BY <1>1, <2>1
    <3> QED
      BY <3>1 DEF ByteAt
  <2>6. text.chars[n + 1].start \in Bounds(text)
    BY <2>1 DEF Bounds
  <2> QED
    BY <1>2, <2>2, <2>3, <2>4, <2>5, <2>6
<1> QED
  BY <1>2, <1>3, <1>4

(* One token more. *)
LEMMA OneMore ==
  ASSUME NEW toks, IsSequence(toks), NEW token
  PROVE  /\ IsSequence(Append(toks, token))
         /\ Len(toks) \in Nat
         /\ Len(Append(toks, token)) = Len(toks) + 1
         /\ Append(toks, token)[Len(toks) + 1] = token
         /\ \A i \in 1..Len(toks) : Append(toks, token)[i] = toks[i]
<1>1. PICK S : toks \in Seq(S)
  BY DEF IsSequence
<1>2. toks \in Seq(S \cup {token})
  BY <1>1
<1>3. token \in S \cup {token}
  OBVIOUS
<1> QED
  BY <1>2, <1>3, AppendProperties, LenProperties DEF IsSequence

(* A token pushed behind the others keeps the order. *)
LEMMA PushInOrder ==
  ASSUME NEW text, NEW toks, NEW token, NEW e \in Nat, NEW f \in Nat,
         InOrder(text, toks, e), Finished(text, token, f), e <= token.offset.start, e <= f
  PROVE  InOrder(text, Append(toks, token), f)
<1> DEFINE more == Append(toks, token)
           n == Len(toks)
<1>1. /\ IsSequence(more)
      /\ n \in Nat /\ Len(more) = n + 1 /\ more[n + 1] = token
      /\ \A i \in 1..n : more[i] = toks[i]
  BY OneMore DEF InOrder
<1> HIDE DEF more, n
<1>2. \A i \in 1..n : Finished(text, toks[i], e)
  BY DEF InOrder, n
<1>3. \A i \in 1..n : Finished(text, toks[i], f)
  BY <1>2 DEF Finished, Offset
<1>4. \A i \in 1..Len(more) : Finished(text, more[i], f)
  <2> SUFFICES ASSUME NEW i \in 1..Len(more) PROVE Finished(text, more[i], f)
    OBVIOUS
  <2>1. CASE i \in 1..n
    BY <1>1, <1>3, <2>1
  <2>2. CASE i = n + 1
    BY <1>1, <2>2
  <2> QED
    BY <1>1, <2>1, <2>2
<1>5. \A i \in 1..(Len(more) - 1) : more[i].offset.end <= more[i + 1].offset.start
  <2> SUFFICES ASSUME NEW i \in 1..n PROVE more[i].offset.end <= more[i + 1].offset.start
    BY <1>1
  <2>1. CASE i = n
    <3>1. toks[n].offset.end <= e /\ toks[n].offset.end \in Nat /\ token.offset.start \in Nat
      BY <1>2, <2>1 DEF Finished, Offset
    <3> QED
      BY <1>1, <2>1, <3>1
  <2>2. CASE i < n
    <3>1. i \in 1..(n - 1) /\ i + 1 \in 1..n
      BY <1>1, <2>2
    <3>2. toks[i].offset.end <= toks[i + 1].offset.start
      BY <3>1 DEF InOrder, n
    <3> QED
      BY <1>1, <3>1, <3>2
  <2> QED
    BY <1>1, <2>1, <2>2
<1> QED
  BY <1>1, <1>4, <1>5 DEF InOrder, more

(* Order up to a byte is order up to a later one. *)
LEMMA FurtherInOrder ==
  ASSUME NEW text, NEW toks, NEW e \in Nat, NEW f \in Nat, e <= f, InOrder(text, toks, e)
  PROVE  InOrder(text, toks, f)
  BY DEF InOrder, Finished, Offset

-----------------------------------------------------------------------------
(* One step at a time. *)

(* A sign is one byte wide. *)
LEMMA SpecialWidth ==
  /\ \A ch \in Special : ch \in DOMAIN Width /\ Width[ch] = 1
  /\ DOMAIN TagOf \subseteq Special
  /\ \A ch \in DOMAIN TagOf : TagOf[ch] \in {"LParen", "RParen", "Dash"}
<1>1. \A ch \in Special : ch \in DOMAIN Width /\ Width[ch] = 1
  BY LexerAssumption
<1>2. DOMAIN TagOf \subseteq Special
  BY DEF TagOf, Special
<1>3. \A ch \in DOMAIN TagOf : TagOf[ch] \in {"LParen", "RParen", "Dash"}
  BY DEF TagOf
<1> QED
  BY <1>1, <1>2, <1>3

(* The character peeked at, of a set C. *)
LEMMA Peeked ==
  ASSUME LexInv, NEW C, Peeks(C)
  PROVE  /\ taken + 1 \in 0..Len(src.chars)
         /\ c \in C
         /\ start = ByteAt(src, taken)
         /\ start \in Nat /\ start \in Bounds(src)
         /\ Width[c] \in 1..4
         /\ ByteAt(src, taken + 1) = start + Width[c]
         /\ ByteAt(src, taken + 1) \in Nat /\ ByteAt(src, taken + 1) \in Bounds(src)
<1>1. IsText(src) /\ taken \in 0..Len(src.chars)
  BY DEF LexInv
<1>2. taken < Len(src.chars) /\ c \in C
  BY DEF Peeks, c
<1>3. Len(src.chars) \in Nat /\ ByteAt(src, taken) \in Nat /\ ByteAt(src, taken) \in Bounds(src)
  BY <1>1, TextBytes
<1>4. /\ start = ByteAt(src, taken) /\ Width[c] \in 1..4
      /\ ByteAt(src, taken + 1) = start + Width[c]
  BY <1>1, <1>2, TextBytes DEF start, c
<1>5. taken + 1 \in 0..Len(src.chars)
  BY <1>1, <1>2, <1>3
<1>6. ByteAt(src, taken + 1) \in Nat /\ ByteAt(src, taken + 1) \in Bounds(src)
  BY <1>1, <1>5, TextBytes
<1> QED
  BY <1>2, <1>3, <1>4, <1>5, <1>6

(* A token pushed from the current byte to the one behind m characters. *)
LEMMA PushStep ==
  ASSUME LexInv, AtToken, NEW token, NEW m \in 0..Len(src.chars),
         Finished(src, token, ByteAt(src, m)), token.offset.start = ByteAt(src, taken),
         Push(token), taken' = m, UNCHANGED <<src, word, lexStatus, lexError>>
  PROVE  LexInv'
<1>1. /\ IsText(src) /\ taken \in 0..Len(src.chars) /\ lexStatus = "lexing" /\ word = {}
      /\ InOrder(src, tokens, ByteAt(src, taken))
  BY DEF LexInv, AtToken
<1>2. ByteAt(src, taken) \in Nat /\ ByteAt(src, m) \in Nat
  BY <1>1, TextBytes
<1>3. ByteAt(src, taken) <= ByteAt(src, m)
  BY <1>2 DEF Finished, Offset
<1>4. InOrder(src, Append(tokens, token), ByteAt(src, m))
  BY <1>1, <1>2, <1>3, PushInOrder
<1> QED
  BY <1>1, <1>4 DEF LexInv, Push

(* What a word or a sign from byte p to byte q needs to be finished. *)
LEMMA FinishedToken ==
  ASSUME NEW text, NEW token, NEW p \in Nat, NEW q \in Nat,
         p \in Bounds(text), q \in Bounds(text), p < q, token.offset = Span(p, q),
         token.tag \in {"LParen", "RParen", "Dash", "Word"}
  PROVE  Finished(text, token, q)
  BY DEF Finished, Span, Offset, Signs

(* Whitespace moves the edge and adds no token. *)
LEMMA SkipSpaceInv == ASSUME LexInv, SkipSpace PROVE LexInv'
<1>1. /\ IsText(src) /\ lexStatus = "lexing" /\ word = {}
      /\ InOrder(src, tokens, ByteAt(src, taken)) /\ taken \in 0..Len(src.chars)
  BY DEF LexInv, SkipSpace, AtToken
<1>2. /\ taken + 1 \in 0..Len(src.chars) /\ ByteAt(src, taken) \in Nat /\ ByteAt(src, taken + 1) \in Nat
      /\ ByteAt(src, taken) <= ByteAt(src, taken + 1)
  BY Peeked DEF SkipSpace
<1>3. InOrder(src, tokens, ByteAt(src, taken + 1))
  BY <1>1, <1>2, FurtherInOrder
<1> QED
  BY <1>1, <1>2, <1>3 DEF LexInv, SkipSpace

(* A sign is a token of one byte. *)
LEMMA LexSignInv == ASSUME LexInv, LexSign PROVE LexInv'
<1> DEFINE token == Sign(TagOf[c], Span(start, start + 1))
<1>1. Peeks(DOMAIN TagOf)
  BY DEF LexSign
<1>2. c \in DOMAIN TagOf /\ Width[c] = 1 /\ TagOf[c] \in {"LParen", "RParen", "Dash"}
  BY <1>1, Peeked, SpecialWidth
<1>3. token.tag \in {"LParen", "RParen", "Dash", "Word"} /\ token.offset = Span(start, start + 1)
  BY <1>2 DEF Sign
<1>4. token.offset.start = ByteAt(src, taken)
  BY <1>1, <1>3, Peeked DEF Span
<1>5. Finished(src, token, ByteAt(src, taken + 1))
  BY <1>1, <1>2, <1>3, Peeked, FinishedToken
<1> HIDE DEF token
<1>6. /\ Push(token) /\ taken' = taken + 1 /\ AtToken
      /\ UNCHANGED <<src, word, lexStatus, lexError>>
  BY DEF LexSign, token
<1>7. taken + 1 \in 0..Len(src.chars)
  BY <1>1, Peeked
<1> QED
  BY <1>4, <1>5, <1>6, <1>7, PushStep

(* `!` is a word token over its one byte. *)
LEMMA LexBangInv == ASSUME LexInv, LexBang PROVE LexInv'
<1> DEFINE token == WordToken(<<"n", "o", "t">>, Span(start, start + 1))
<1>1. Peeks({"!"})
  BY DEF LexBang
<1>2. c \in Special
  BY <1>1, Peeked DEF Special
<1>3. token.tag \in {"LParen", "RParen", "Dash", "Word"} /\ token.offset = Span(start, start + 1)
  BY DEF WordToken
<1>4. token.offset.start = ByteAt(src, taken)
  BY <1>1, <1>3, Peeked DEF Span
<1>5. Finished(src, token, ByteAt(src, taken + 1))
  BY <1>1, <1>2, <1>3, Peeked, SpecialWidth, FinishedToken
<1> HIDE DEF token
<1>6. /\ Push(token) /\ taken' = taken + 1 /\ AtToken
      /\ UNCHANGED <<src, word, lexStatus, lexError>>
  BY DEF LexBang, token
<1>7. taken + 1 \in 0..Len(src.chars)
  BY <1>1, Peeked
<1> QED
  BY <1>4, <1>5, <1>6, <1>7, PushStep

(* `&&` and `||` are word tokens over two bytes. *)
LEMMA LexDoubleInv == ASSUME LexInv, LexDouble PROVE LexInv'
<1> DEFINE token == WordToken(IF c = "&" THEN <<"a", "n", "d">> ELSE <<"o", "r">>,
                              Span(start, start + 2))
<1>1. Peeks({"&", "|"}) /\ taken + 1 < Len(src.chars) /\ src.chars[taken + 2].c = c
  BY DEF LexDouble, Doubled
<1>2. c \in Special
  BY <1>1, Peeked DEF Special
<1>3. Width[c] = 1 /\ IsText(src) /\ taken \in 0..Len(src.chars)
  BY <1>2, SpecialWidth DEF LexInv
<1>4. Len(src.chars) \in Nat
  BY <1>3, TextBytes
<1>5. taken + 1 \in 0..Len(src.chars) /\ taken + 2 \in 0..Len(src.chars)
  BY <1>1, <1>3, <1>4
<1>6. ByteAt(src, taken + 2) = start + 2
  <2>1. start \in Nat /\ ByteAt(src, taken + 1) = start + 1
    BY <1>1, <1>3, Peeked
  <2>2. ByteAt(src, (taken + 1) + 1) = ByteAt(src, taken + 1) + Width[src.chars[(taken + 1) + 1].c]
    BY <1>1, <1>3, <1>5, TextBytes
  <2>3. (taken + 1) + 1 = taken + 2
    BY <1>3
  <2> QED
    BY <1>1, <1>3, <2>1, <2>2, <2>3
<1>7. ByteAt(src, taken + 2) \in Nat /\ ByteAt(src, taken + 2) \in Bounds(src)
  BY <1>3, <1>5, TextBytes
<1>8. token.tag \in {"LParen", "RParen", "Dash", "Word"} /\ token.offset = Span(start, start + 2)
  BY DEF WordToken
<1>9. token.offset.start = ByteAt(src, taken)
  BY <1>1, <1>8, Peeked DEF Span
<1>10. Finished(src, token, ByteAt(src, taken + 2))
  BY <1>1, <1>6, <1>7, <1>8, Peeked, FinishedToken
<1> HIDE DEF token
<1>11. /\ Push(token) /\ taken' = taken + 2 /\ AtToken
       /\ UNCHANGED <<src, word, lexStatus, lexError>>
  BY DEF LexDouble, token
<1> QED
  BY <1>5, <1>9, <1>10, <1>11, PushStep

(* An UnexpectedChar leaves the tokens as they are. *)
LEMMA UnexpectedInv ==
  ASSUME LexInv, AtToken, NEW C, Peeks(C), Unexpected PROVE LexInv'
<1>1. start \in Nat
  BY Peeked
<1>2. Span(start, start + 1) \in Offset
  BY <1>1 DEF Span, Offset
<1> QED
  BY <1>2 DEF LexInv, Unexpected, AtToken

(* A word opens where the last token, or whitespace, ended. *)
LEMMA WordStartInv == ASSUME LexInv, WordStart PROVE LexInv'
<1> DEFINE w == Span(start, start + Width[c])
<1>1. /\ IsText(src) /\ lexStatus = "lexing" /\ taken \in 0..Len(src.chars)
      /\ InOrder(src, tokens, ByteAt(src, taken)) /\ Peeks(WordChar)
  BY DEF LexInv, WordStart, AtToken
<1>2. /\ start = ByteAt(src, taken) /\ start \in Nat /\ start \in Bounds(src) /\ Width[c] \in 1..4
      /\ ByteAt(src, taken + 1) = start + Width[c] /\ taken + 1 \in 0..Len(src.chars)
  BY <1>1, Peeked
<1>3. Open(src, w, taken + 1) /\ InOrder(src, tokens, w.start)
  BY <1>1, <1>2 DEF Open, Span, Offset
<1>4. InOrder(src, tokens, ByteAt(src, taken + 1))
  BY <1>1, <1>2, FurtherInOrder
<1> HIDE DEF w
<1>5. /\ word' = {w} /\ taken' = taken + 1
      /\ UNCHANGED <<src, tokens, lexStatus, lexError>>
  BY DEF WordStart, w
<1> QED
  BY <1>1, <1>2, <1>3, <1>4, <1>5 DEF LexInv

(* A word grows by a whole character. *)
LEMMA WordMoreInv == ASSUME LexInv, WordMore PROVE LexInv'
<1>1. PICK w \in word : TRUE
  BY DEF WordMore
<1> DEFINE v == Span(w.start, start + Width[c])
<1>2. /\ IsText(src) /\ lexStatus = "lexing" /\ taken \in 0..Len(src.chars)
      /\ word = {w} /\ Open(src, w, taken) /\ InOrder(src, tokens, w.start)
      /\ InOrder(src, tokens, ByteAt(src, taken)) /\ Peeks(WordChar)
  BY <1>1 DEF LexInv, WordMore
<1>3. /\ start = ByteAt(src, taken) /\ start \in Nat /\ Width[c] \in 1..4
      /\ ByteAt(src, taken + 1) = start + Width[c] /\ taken + 1 \in 0..Len(src.chars)
  BY <1>2, Peeked
<1>4. Open(src, v, taken + 1) /\ v.start = w.start
  BY <1>2, <1>3 DEF Open, Span, Offset
<1>5. InOrder(src, tokens, ByteAt(src, taken + 1))
  BY <1>2, <1>3, FurtherInOrder
<1>6. /\ word' = {v} /\ taken' = taken + 1
      /\ UNCHANGED <<src, tokens, lexStatus, lexError>>
  BY <1>2 DEF WordMore
<1> HIDE DEF v
<1> QED
  BY <1>2, <1>3, <1>4, <1>5, <1>6 DEF LexInv

(* A finished word joins the tokens. *)
LEMMA WordEndInv == ASSUME LexInv, WordEnd PROVE LexInv'
<1>1. PICK w \in word : Push(WordToken(Slice(w), w))
  BY DEF WordEnd
<1> DEFINE token == WordToken(Slice(w), w)
<1>2. /\ IsText(src) /\ lexStatus = "lexing" /\ taken \in 0..Len(src.chars)
      /\ Open(src, w, taken) /\ InOrder(src, tokens, w.start)
  BY <1>1 DEF LexInv
<1>3. token.tag = "Word" /\ token.offset = w
  BY DEF WordToken
<1> HIDE DEF token
<1>4. ByteAt(src, taken) \in Nat /\ ByteAt(src, taken) \in Bounds(src)
  BY <1>2, TextBytes
<1>5. Finished(src, token, ByteAt(src, taken)) /\ w.start \in Nat /\ w.start <= ByteAt(src, taken)
  BY <1>2, <1>3, <1>4 DEF Finished, Open, Offset
<1>6. InOrder(src, Append(tokens, token), ByteAt(src, taken))
  BY <1>2, <1>3, <1>4, <1>5, PushInOrder
<1>7. /\ tokens' = Append(tokens, token) /\ word' = {}
      /\ UNCHANGED <<src, taken, lexStatus, lexError>>
  BY <1>1 DEF WordEnd, Push, token
<1> QED
  BY <1>2, <1>6, <1>7 DEF LexInv

(* The Eof stands behind all tokens. *)
LEMMA LexEndInv == ASSUME LexInv, LexEnd PROVE LexInv'
<1>1. /\ IsText(src) /\ taken = Len(src.chars) /\ word = {}
      /\ InOrder(src, tokens, ByteAt(src, taken))
  BY DEF LexInv, LexEnd, AtToken
<1>2. InOrder(src, tokens, src.len)
  BY <1>1 DEF ByteAt
<1> QED
  BY <1>1, <1>2 DEF LexInv, LexEnd, Push

(* Every arm of the loop of `lex` keeps the invariant. *)
LEMMA LexStep == LexInv /\ [LexNext]_lexVars => LexInv'
<1> SUFFICES ASSUME LexInv, [LexNext]_lexVars PROVE LexInv'
  OBVIOUS
<1>1. CASE LexStray
  BY <1>1, UnexpectedInv DEF LexStray
<1>2. CASE LexUnknown
  BY <1>2, UnexpectedInv DEF LexUnknown
<1>3. CASE UNCHANGED lexVars
  BY <1>3 DEF lexVars, LexInv
<1> QED
  BY <1>1, <1>2, <1>3, SkipSpaceInv, LexSignInv, LexBangInv, LexDoubleInv, WordStartInv,
     WordMoreInv, WordEndInv, LexEndInv DEF LexNext

(* The invariant holds throughout `lex`. *)
LEMMA LexInvariant == LexSpec => []LexInv
<1>1. ASSUME LexInit PROVE LexInv
  <2>1. IsText(src)
    BY <1>1, LexerAssumption DEF LexInit
  <2>2. Len(src.chars) \in Nat
    BY <2>1 DEF IsText
  <2>3. InOrder(src, <<>>, ByteAt(src, 0))
    BY DEF InOrder, IsSequence
  <2> QED
    BY <1>1, <2>1, <2>2, <2>3 DEF LexInit, LexInv
<1> QED
  BY <1>1, LexStep, PTL DEF LexSpec

-----------------------------------------------------------------------------
(* The tokens when `lex` is done, and before. *)
LEMMA TokensAre ==
  ASSUME LexInv
  PROVE  \/ InOrder(src, tokens, ByteAt(src, taken))
         \/ \E front : /\ InOrder(src, front, src.len)
                       /\ tokens = Append(front, Eof(src.len))
  BY DEF LexInv

(* Every token is one of `lex`, in a range of the text. *)
LEMMA TokenFacts ==
  ASSUME LexInv, NEW i \in DOMAIN tokens
  PROVE  /\ tokens[i].tag \in Signs \cup {"Word"}
         /\ tokens[i].offset \in Offset
         /\ tokens[i].offset.start \in Bounds(src) /\ tokens[i].offset.end \in Bounds(src)
<1>1. ASSUME NEW toks, NEW e, InOrder(src, toks, e), NEW j \in 1..Len(toks)
      PROVE  /\ toks[j].tag \in Signs \cup {"Word"}
             /\ toks[j].offset \in Offset
             /\ toks[j].offset.start \in Bounds(src) /\ toks[j].offset.end \in Bounds(src)
  BY <1>1 DEF InOrder, Finished
<1>2. CASE InOrder(src, tokens, ByteAt(src, taken))
  <2>1. i \in 1..Len(tokens)
    BY <1>2 DEF InOrder
  <2> QED
    BY <1>1, <1>2, <2>1
<1>3. ASSUME NEW front, InOrder(src, front, src.len), tokens = Append(front, Eof(src.len))
      PROVE  /\ tokens[i].tag \in Signs \cup {"Word"}
             /\ tokens[i].offset \in Offset
             /\ tokens[i].offset.start \in Bounds(src) /\ tokens[i].offset.end \in Bounds(src)
  <2> DEFINE last == Eof(src.len)
  <2>1. /\ IsSequence(tokens)
        /\ Len(front) \in Nat /\ Len(tokens) = Len(front) + 1 /\ tokens[Len(front) + 1] = last
        /\ \A j \in 1..Len(front) : tokens[j] = front[j]
    <3>1. IsSequence(front) /\ tokens = Append(front, last)
      BY <1>3 DEF InOrder
    <3> HIDE DEF last
    <3>2. /\ IsSequence(Append(front, last))
          /\ Len(front) \in Nat
          /\ Len(Append(front, last)) = Len(front) + 1
          /\ Append(front, last)[Len(front) + 1] = last
          /\ \A j \in 1..Len(front) : Append(front, last)[j] = front[j]
      BY <3>1, OneMore
    <3> QED
      BY <3>1, <3>2, Zenon
  <2>2. DOMAIN tokens = 1..(Len(front) + 1)
    BY <2>1
  <2>3. CASE i \in 1..Len(front)
    BY <1>1, <1>3, <2>1, <2>3
  <2>4. CASE i = Len(front) + 1
    <3>1. src.len \in Nat
      BY DEF LexInv, IsText
    <3>2. last.tag = "Eof" /\ last.offset = Span(src.len, src.len)
      BY DEF Eof, Sign
    <3> HIDE DEF last
    <3>3. src.len \in Bounds(src)
      BY DEF Bounds
    <3> QED
      BY <2>1, <2>4, <3>1, <3>2, <3>3 DEF Span, Offset, Signs
  <2> QED
    BY <2>1, <2>2, <2>3, <2>4
<1> QED
  BY <1>2, <1>3, TokensAre

(* On every text the iterator stays in the text and the range of the word  *)
(* being read is neither empty nor reversed.                               *)
THEOREM LexTypeCorrect == LexSpec => []LexTypeOK
<1>1. LexInv => LexTypeOK
  <2> SUFFICES ASSUME LexInv PROVE LexTypeOK
    OBVIOUS
  <2>1. \A i \in DOMAIN tokens : tokens[i].tag \in Signs \cup {"Word"} /\ tokens[i].offset \in Offset
    BY TokenFacts
  <2>2. /\ word \subseteq Offset /\ \A v, w \in word : v = w
        /\ \A w \in word : w.start < w.end
    BY DEF LexInv, Open
  <2> QED
    BY <2>1, <2>2 DEF LexInv, LexTypeOK
<1> QED
  BY <1>1, LexInvariant, PTL

(* Every token, and the word being read, can be cut out of the text: both  *)
(* ends are character boundaries, so the `expect` of lex cannot fail.      *)
THEOREM LexOnBoundaries == LexSpec => []OnBoundaries
<1>1. LexInv => OnBoundaries
  <2> SUFFICES ASSUME LexInv, NEW r \in Ranges PROVE r.start \in Boundaries /\ r.end \in Boundaries
    BY DEF OnBoundaries
  <2>1. Boundaries = Bounds(src)
    BY DEF Boundaries, Bounds
  <2>2. CASE r \in word
    <3>1. Open(src, r, taken) /\ IsText(src) /\ taken \in 0..Len(src.chars)
      BY <2>2 DEF LexInv
    <3>2. ByteAt(src, taken) \in Bounds(src)
      BY <3>1, TextBytes
    <3> QED
      BY <2>1, <3>1, <3>2 DEF Open
  <2>3. CASE r \in {tokens[i].offset : i \in DOMAIN tokens}
    BY <2>1, <2>3, TokenFacts
  <2> QED
    BY <2>2, <2>3 DEF Ranges
<1> QED
  BY <1>1, LexInvariant, PTL

(* What the parser is handed: for every text that lexes, tokens in order,  *)
(* none empty, with one Eof, at the end (the assumption of module Parser). *)
THEOREM LexHandsOver == LexSpec => []HandsOver
<1>1. LexInv => HandsOver
  <2> SUFFICES ASSUME LexInv, lexStatus = "ok" PROVE WellLexed(tokens, src.len)
    BY DEF HandsOver
  <2> DEFINE last == Eof(src.len)
             len == src.len
  <2>1. PICK front : InOrder(src, front, len) /\ tokens = Append(front, last)
    BY DEF LexInv
  <2>2. /\ Len(front) \in Nat /\ Len(tokens) = Len(front) + 1 /\ tokens[Len(front) + 1] = last
        /\ \A j \in 1..Len(front) : tokens[j] = front[j]
    <3>1. IsSequence(front)
      BY <2>1 DEF InOrder
    <3> HIDE DEF last
    <3>2. /\ Len(front) \in Nat
          /\ Len(Append(front, last)) = Len(front) + 1
          /\ Append(front, last)[Len(front) + 1] = last
          /\ \A j \in 1..Len(front) : Append(front, last)[j] = front[j]
      BY <3>1, OneMore
    <3> QED
      BY <2>1, <3>2, Zenon
  <2>3. tokens # <<>>
    BY <2>2
  <2>4. last.offset.start = len
    BY DEF Eof, Sign, Span
  <2> HIDE DEF last, len
  <2>5. ASSUME NEW i \in 1..(Len(tokens) - 1)
        PROVE  /\ tokens[i].tag # "Eof"
               /\ tokens[i].offset.start < tokens[i].offset.end
               /\ tokens[i].offset.end <= tokens[i + 1].offset.start
    <3>1. i \in 1..Len(front) /\ tokens[i] = front[i]
      BY <2>2
    <3>2. Finished(src, front[i], len)
      BY <2>1, <3>1 DEF InOrder
    <3>3. tokens[i].tag # "Eof" /\ tokens[i].offset.start < tokens[i].offset.end
      BY <3>1, <3>2 DEF Finished
    <3>4. CASE i = Len(front)
      BY <2>2, <2>4, <3>1, <3>2, <3>4 DEF Finished
    <3>5. CASE i < Len(front)
      <4>1. i \in 1..(Len(front) - 1) /\ i + 1 \in 1..Len(front)
        BY <2>2, <3>1, <3>5
      <4>2. front[i].offset.end <= front[i + 1].offset.start
        BY <2>1, <4>1 DEF InOrder
      <4> QED
        BY <2>2, <3>1, <3>3, <4>1, <4>2
    <3> QED
      BY <2>2, <3>1, <3>3, <3>4, <3>5
  <2> QED
    BY <2>2, <2>3, <2>5 DEF WellLexed, last, len
<1> QED
  BY <1>1, LexInvariant, PTL
-----------------------------------------------------------------------------
(* Where the characters are. *)

(* A set of natural numbers that is not empty has a least element; this is *)
(* the form in which the proofs below use induction.                       *)
LEMMA LeastNatural ==
  ASSUME NEW T, T \subseteq Nat, T # {}
  PROVE  \E m \in T : \A k \in T : m <= k
<1> DEFINE R == OpToRel(<, Nat)
<1>1. IsWellFoundedOn(R, Nat)
  BY NatLessThanWellFounded
<1>2. \A x, y \in Nat : y < x => <<y, x>> \in R
  BY DEF OpToRel
<1> HIDE DEF R
<1>3. PICK m \in T : \A k \in T : ~(<<k, m>> \in R)
  BY <1>1, WFMin
<1>4. ASSUME NEW k \in T PROVE m <= k
  <2>1. k \in Nat /\ m \in Nat /\ ~(k < m)
    BY <1>2, <1>3
  <2> QED
    BY <2>1
<1> QED
  BY <1>4

(* Later characters start at later bytes. *)
LEMMA BytesClimb ==
  ASSUME NEW text, IsText(text), NEW m \in 0..Len(text.chars), NEW n \in 0..Len(text.chars), m < n
  PROVE  ByteAt(text, m) < ByteAt(text, n)
<1> DEFINE T == {k \in Nat : m < k /\ k <= Len(text.chars) /\ ~(ByteAt(text, m) < ByteAt(text, k))}
<1>1. Len(text.chars) \in Nat /\ m \in Nat /\ n \in Nat /\ ByteAt(text, m) \in Nat
  BY TextBytes
<1>2. SUFFICES ASSUME T # {} PROVE FALSE
  BY <1>1
<1>3. PICK k \in T : \A l \in T : k <= l
  BY <1>2, LeastNatural
<1>4. k \in Nat /\ m < k /\ k <= Len(text.chars) /\ ~(ByteAt(text, m) < ByteAt(text, k))
  OBVIOUS
<1>5. k - 1 \in Nat /\ k - 1 \in 0..Len(text.chars) /\ k - 1 < Len(text.chars) /\ k - 1 < k
      /\ (k - 1) + 1 = k /\ k - 1 <= Len(text.chars)
  BY <1>1, <1>4
<1>6. k - 1 \notin T
  BY <1>3, <1>5
<1>7. ByteAt(text, m) <= ByteAt(text, k - 1)
  <2>1. CASE k - 1 = m
    BY <1>1, <2>1
  <2>2. CASE m < k - 1
    <3>1. ByteAt(text, m) < ByteAt(text, k - 1)
      BY <1>5, <1>6, <2>2
    <3>2. ByteAt(text, k - 1) \in Nat
      BY <1>5, TextBytes
    <3> QED
      BY <1>1, <3>1, <3>2
  <2> QED
    BY <1>1, <1>4, <1>5, <2>1, <2>2
<1>8. /\ ByteAt(text, k - 1) \in Nat
      /\ Width[text.chars[k].c] \in 1..4
      /\ ByteAt(text, k) = ByteAt(text, k - 1) + Width[text.chars[k].c]
  <2>1. /\ Width[text.chars[(k - 1) + 1].c] \in 1..4
        /\ ByteAt(text, (k - 1) + 1) = ByteAt(text, k - 1) + Width[text.chars[(k - 1) + 1].c]
        /\ ByteAt(text, k - 1) \in Nat
    BY <1>5, TextBytes
  <2> QED
    BY <1>5, <2>1, Zenon
<1> QED
  BY <1>1, <1>4, <1>7, <1>8

(* The i-th character starts behind i - 1 of them, and no other does. *)
LEMMA CharAt ==
  ASSUME NEW text, IsText(text), NEW i \in 1..Len(text.chars)
  PROVE  /\ text.chars[i].start = ByteAt(text, i - 1)
         /\ \A n \in 0..Len(text.chars) :
              /\ ByteAt(text, n) \in Nat
              /\ i <= n => text.chars[i].start < ByteAt(text, n)
              /\ n < i => ByteAt(text, n) <= text.chars[i].start
<1>1. Len(text.chars) \in Nat
  BY DEF IsText
<1>2. i - 1 \in 0..Len(text.chars) /\ i - 1 < Len(text.chars) /\ (i - 1) + 1 = i
  BY <1>1
<1>3. text.chars[i].start = ByteAt(text, i - 1)
  <2>1. text.chars[(i - 1) + 1].start = ByteAt(text, i - 1)
    BY <1>2, TextBytes
  <2> QED
    BY <1>2, <2>1, Zenon
<1>4. ASSUME NEW n \in 0..Len(text.chars)
      PROVE  /\ ByteAt(text, n) \in Nat
             /\ i <= n => text.chars[i].start < ByteAt(text, n)
             /\ n < i => ByteAt(text, n) <= text.chars[i].start
  <2>1. ByteAt(text, n) \in Nat /\ ByteAt(text, i - 1) \in Nat
    BY <1>2, TextBytes
  <2>2. CASE i <= n
    <3>1. i - 1 < n
      BY <1>1, <2>2
    <3>2. ByteAt(text, i - 1) < ByteAt(text, n)
      BY <1>2, <3>1, BytesClimb
    <3> QED
      BY <1>1, <1>3, <2>1, <2>2, <3>2
  <2>3. CASE n = i - 1
    BY <1>1, <1>3, <2>1, <2>3
  <2>4. CASE n < i - 1
    <3>1. ByteAt(text, n) < ByteAt(text, i - 1)
      BY <1>2, <2>4, BytesClimb
    <3> QED
      BY <1>1, <1>3, <2>1, <2>4, <3>1
  <2> QED
    BY <1>1, <2>2, <2>3, <2>4
<1> QED
  BY <1>3, <1>4
-----------------------------------------------------------------------------
(* Every character passed is in one token, unless it is whitespace. *)

(* Ranges, Holds and IsRun, of any text and tokens. *)
RangesOf(toks, open) == {toks[i].offset : i \in DOMAIN toks} \cup open

(* The i-th character begins in the range r. *)
HoldsIn(text, r, i) == r.start <= text.chars[i].start /\ text.chars[i].start < r.end

(* The range r begins with a word character. *)
RunIn(text, r) ==
  \E i \in DOMAIN text.chars : text.chars[i].start = r.start /\ text.chars[i].c \in WordChar

(* Each of the first n characters is whitespace, in none of the ranges R,  *)
(* or it is in exactly one.                                                *)
Covers(text, R, n) ==
  \A i \in 1..n :
    IF text.chars[i].c \in Space THEN \A r \in R : ~HoldsIn(text, r, i)
    ELSE \E r \in R : HoldsIn(text, r, i) /\ \A q \in R : HoldsIn(text, q, i) => q = r

(* No two words touch. *)
RunsApart(text, R) == \A q, r \in R : RunIn(text, q) /\ RunIn(text, r) => q.end # r.start

(* A run that ends behind n characters is not followed by a word character. *)
RunsClosed(text, R, n) ==
  \A q \in R : RunIn(text, q) /\ q.end = ByteAt(text, n)
               => ~(n < Len(text.chars) /\ text.chars[n + 1].c \in WordChar)

(* Ranges that are not empty and end no later than byte e. *)
Behind(R, e) == \A r \in R : r \in Offset /\ r.start < r.end /\ r.end <= e

(* What is inductive of NothingLost. *)
CoverInv ==
  /\ Covers(src, RangesOf(tokens, word), taken)
  /\ RunsApart(src, RangesOf(tokens, word))
  /\ AtToken => RunsClosed(src, RangesOf(tokens, word), taken)

(* A range put behind the others, from character n + 1 to character m, of  *)
(* which none is whitespace.                                               *)
LEMMA RangeAdded ==
  ASSUME NEW text, IsText(text), NEW n \in 0..Len(text.chars), NEW m \in 0..Len(text.chars), n < m,
         NEW R, Behind(R, ByteAt(text, n)), Covers(text, R, n), RunsApart(text, R),
         NEW r, r \in Offset, r.start = ByteAt(text, n), r.end = ByteAt(text, m),
         \A i \in (n + 1)..m : text.chars[i].c \notin Space,
         RunIn(text, r) => \A q \in R : RunIn(text, q) => q.end # r.start
  PROVE  Covers(text, R \cup {r}, m) /\ RunsApart(text, R \cup {r})
<1> DEFINE more == R \cup {r}
<1>1. /\ Len(text.chars) \in Nat /\ ByteAt(text, n) \in Nat /\ ByteAt(text, m) \in Nat
      /\ ByteAt(text, n) < ByteAt(text, m)
  BY TextBytes, BytesClimb
<1>2. \A q \in R : q.start \in Nat /\ q.end \in Nat /\ q.start < q.end /\ q.end <= ByteAt(text, n)
  BY DEF Behind, Offset
<1>3. ASSUME NEW i \in 1..m
      PROVE  IF text.chars[i].c \in Space THEN \A q \in more : ~HoldsIn(text, q, i)
             ELSE \E p \in more : HoldsIn(text, p, i) /\ \A q \in more : HoldsIn(text, q, i) => q = p
  <2>1. /\ i \in 1..Len(text.chars) /\ n \in Nat /\ m \in Nat
    BY <1>1
  <2>2. /\ text.chars[i].start \in Nat
        /\ text.chars[i].start < ByteAt(text, m)
        /\ i <= n => text.chars[i].start < ByteAt(text, n)
        /\ n < i => ByteAt(text, n) <= text.chars[i].start
    <3>1. i - 1 \in 0..Len(text.chars)
      BY <1>1
    <3>2. text.chars[i].start = ByteAt(text, i - 1) /\ ByteAt(text, i - 1) \in Nat
      BY <2>1, <3>1, CharAt
    <3> QED
      BY <2>1, <3>2, CharAt
  <2>3. CASE i <= n
    <3>1. ~HoldsIn(text, r, i)
      BY <1>1, <2>2, <2>3 DEF HoldsIn
    <3>2. i \in 1..n
      BY <2>1, <2>3
    <3>3. IF text.chars[i].c \in Space THEN \A q \in R : ~HoldsIn(text, q, i)
          ELSE \E p \in R : HoldsIn(text, p, i) /\ \A q \in R : HoldsIn(text, q, i) => q = p
      BY <3>2 DEF Covers
    <3> QED
      BY <3>1, <3>3
  <2>4. CASE n < i
    <3>1. i \in (n + 1)..m
      BY <2>1, <2>4
    <3>2. text.chars[i].c \notin Space
      BY <3>1
    <3>3. HoldsIn(text, r, i)
      BY <2>2, <2>4 DEF HoldsIn
    <3>4. \A q \in R : ~HoldsIn(text, q, i)
      BY <1>1, <1>2, <2>2, <2>4 DEF HoldsIn
    <3> QED
      BY <3>2, <3>3, <3>4
  <2> QED
    BY <2>1, <2>3, <2>4
<1>4. RunsApart(text, more)
  <2> SUFFICES ASSUME NEW p \in more, NEW q \in more, RunIn(text, p), RunIn(text, q)
               PROVE  p.end # q.start
    BY DEF RunsApart
  <2>1. CASE p \in R /\ q \in R
    BY <2>1 DEF RunsApart
  <2>2. CASE p \in R /\ q = r
    BY <2>2
  <2>3. CASE p = r
    BY <1>1, <1>2, <2>3
  <2> QED
    BY <2>1, <2>2, <2>3
<1> QED
  BY <1>3, <1>4 DEF Covers

(* The word being read grows by character n + 1. *)
LEMMA RangeGrown ==
  ASSUME NEW text, IsText(text), NEW n \in 0..Len(text.chars), n < Len(text.chars),
         NEW R, NEW w, w \in Offset, Behind(R, w.start), w.start < w.end, w.end = ByteAt(text, n),
         Covers(text, R \cup {w}, n), RunsApart(text, R \cup {w}),
         NEW v, v \in Offset, v.start = w.start, v.end = ByteAt(text, n + 1),
         text.chars[n + 1].c \notin Space
  PROVE  Covers(text, R \cup {v}, n + 1) /\ RunsApart(text, R \cup {v})
<1>1. /\ Len(text.chars) \in Nat /\ n \in Nat /\ n + 1 \in 0..Len(text.chars)
      /\ n + 1 \in 1..Len(text.chars)
  BY DEF IsText
<1>2. /\ w.start \in Nat /\ w.end \in Nat /\ v.end \in Nat /\ w.end < v.end
  <2>1. w.start \in Nat /\ w.end \in Nat /\ v.end \in Nat
    BY DEF Offset
  <2>2. n < n + 1
    BY <1>1
  <2>3. ByteAt(text, n) < ByteAt(text, n + 1)
    BY <1>1, <2>2, BytesClimb
  <2> QED
    BY <2>1, <2>3
<1>3. \A q \in R : q.start \in Nat /\ q.end \in Nat /\ q.start < q.end /\ q.end <= w.start
  BY DEF Behind, Offset
<1>4. ASSUME NEW i \in 1..(n + 1)
      PROVE  IF text.chars[i].c \in Space THEN \A q \in R \cup {v} : ~HoldsIn(text, q, i)
             ELSE \E p \in R \cup {v} : HoldsIn(text, p, i) /\ \A q \in R \cup {v} : HoldsIn(text, q, i) => q = p
  <2>1. /\ i \in 1..Len(text.chars) /\ i \in Nat
        /\ i - 1 \in 0..Len(text.chars)
    BY <1>1
  <2>2. /\ text.chars[i].start \in Nat
        /\ text.chars[i].start < v.end
        /\ i <= n => text.chars[i].start < w.end
        /\ n < i => w.end <= text.chars[i].start
    <3>1. text.chars[i].start = ByteAt(text, i - 1) /\ ByteAt(text, i - 1) \in Nat
      BY <2>1, CharAt
    <3>2. text.chars[i].start < ByteAt(text, n + 1)
      BY <1>1, <2>1, CharAt
    <3>3. /\ i <= n => text.chars[i].start < ByteAt(text, n)
          /\ n < i => ByteAt(text, n) <= text.chars[i].start
      BY <1>1, <2>1, CharAt
    <3> QED
      BY <3>1, <3>2, <3>3
  <2>3. CASE i <= n
    <3>1. HoldsIn(text, v, i) <=> HoldsIn(text, w, i)
      BY <1>2, <2>2, <2>3 DEF HoldsIn
    <3>2. i \in 1..n
      BY <1>1, <2>1, <2>3
    <3>3. IF text.chars[i].c \in Space THEN \A q \in R \cup {w} : ~HoldsIn(text, q, i)
          ELSE \E p \in R \cup {w} : HoldsIn(text, p, i) /\ \A q \in R \cup {w} : HoldsIn(text, q, i) => q = p
      BY <3>2 DEF Covers
    <3>4. ASSUME NEW q \in R PROVE q # w /\ q # v
      BY <1>2, <1>3
    <3> QED
      BY <3>1, <3>3, <3>4
  <2>4. CASE n < i
    <3>1. i = n + 1
      BY <1>1, <2>1, <2>4
    <3>2. HoldsIn(text, v, i)
      BY <1>2, <2>2, <2>4 DEF HoldsIn
    <3>3. \A q \in R : ~HoldsIn(text, q, i)
      BY <1>2, <1>3, <2>2, <2>4 DEF HoldsIn
    <3> QED
      BY <3>1, <3>2, <3>3
  <2> QED
    BY <1>1, <2>1, <2>3, <2>4
<1>5. RunsApart(text, R \cup {v})
  <2> SUFFICES ASSUME NEW p \in R \cup {v}, NEW q \in R \cup {v}, RunIn(text, p), RunIn(text, q)
               PROVE  p.end # q.start
    BY DEF RunsApart
  <2>1. RunIn(text, v) => RunIn(text, w)
    BY DEF RunIn
  <2>2. CASE p \in R /\ q \in R
    BY <2>2 DEF RunsApart
  <2>3. CASE p \in R /\ q = v
    BY <2>1, <2>3 DEF RunsApart
  <2>4. CASE p = v
    BY <1>2, <1>3, <2>4
  <2> QED
    BY <2>2, <2>3, <2>4
<1> QED
  BY <1>4, <1>5 DEF Covers

(* The ranges of the tokens and of the word while `lex` runs. *)
LEMMA RangesBehind ==
  ASSUME LexInv, lexStatus # "ok"
  PROVE  Behind(RangesOf(tokens, word), ByteAt(src, taken))
<1>1. /\ InOrder(src, tokens, ByteAt(src, taken)) /\ \A w \in word : Open(src, w, taken)
      /\ IsText(src) /\ taken \in 0..Len(src.chars)
  BY DEF LexInv
<1>2. DOMAIN tokens = 1..Len(tokens)
  BY <1>1 DEF InOrder
<1>3. ByteAt(src, taken) \in Nat
  BY <1>1, TextBytes
<1>4. ASSUME NEW i \in DOMAIN tokens
      PROVE  /\ tokens[i].offset \in Offset /\ tokens[i].offset.start < tokens[i].offset.end
             /\ tokens[i].offset.end <= ByteAt(src, taken)
  BY <1>1, <1>2 DEF InOrder, Finished
<1>5. ASSUME NEW w \in word
      PROVE  w \in Offset /\ w.start < w.end /\ w.end <= ByteAt(src, taken)
  BY <1>1, <1>3 DEF Open
<1> QED
  BY <1>4, <1>5 DEF Behind, RangesOf

(* One token more is one range more. *)
LEMMA RangesMore ==
  ASSUME LexInv, lexStatus # "ok", NEW token, NEW open
  PROVE  RangesOf(Append(tokens, token), open) = RangesOf(tokens, open) \cup {token.offset}
<1> DEFINE more == Append(tokens, token)
           n == Len(tokens)
<1>1. IsSequence(tokens)
  BY DEF LexInv, InOrder
<1>2. /\ n \in Nat /\ Len(more) = n + 1 /\ more[n + 1] = token
      /\ \A i \in 1..n : more[i] = tokens[i]
      /\ IsSequence(more)
  BY <1>1, OneMore
<1>3. DOMAIN tokens = 1..n /\ DOMAIN more = 1..(n + 1)
  <2>1. DOMAIN tokens = 1..n
    BY <1>1
  <2> HIDE DEF more
  <2>2. DOMAIN more = 1..(n + 1)
    BY <1>2
  <2> QED
    BY <2>1, <2>2
<1> HIDE DEF more, n
<1>4. {more[i].offset : i \in 1..(n + 1)} = {tokens[i].offset : i \in 1..n} \cup {token.offset}
  <2>1. \A i \in 1..(n + 1) : i \in 1..n \/ i = n + 1
    BY <1>2
  <2>2. n + 1 \in 1..(n + 1) /\ \A i \in 1..n : i \in 1..(n + 1)
    BY <1>2
  <2> QED
    BY <1>2, <2>1, <2>2
<1> QED
  BY <1>3, <1>4 DEF RangesOf, more

(* The character peeked at is the one behind `taken`, and nothing else     *)
(* starts where it does.                                                   *)
LEMMA RunHere ==
  ASSUME LexInv, NEW C, Peeks(C), NEW r, r.start = ByteAt(src, taken), RunIn(src, r)
  PROVE  c \in WordChar
<1>1. IsText(src) /\ taken \in 0..Len(src.chars) /\ taken < Len(src.chars)
  BY DEF LexInv, Peeks
<1>2. Len(src.chars) \in Nat /\ DOMAIN src.chars = 1..Len(src.chars) /\ taken \in Nat
      /\ taken + 1 \in 0..Len(src.chars)
  BY <1>1 DEF IsText
<1>3. PICK i \in 1..Len(src.chars) : src.chars[i].start = ByteAt(src, taken) /\ src.chars[i].c \in WordChar
  BY <1>2 DEF RunIn
<1>4. ~(i <= taken)
  <2>1. i <= taken => src.chars[i].start < ByteAt(src, taken)
    BY <1>1, CharAt
  <2>2. ByteAt(src, taken) \in Nat
    BY <1>1, TextBytes
  <2> QED
    BY <1>3, <2>1, <2>2
<1>5. ~(taken + 1 < i)
  <2>1. taken + 1 < i => ByteAt(src, taken + 1) <= src.chars[i].start
    BY <1>1, <1>2, CharAt
  <2>2. taken < taken + 1
    BY <1>2
  <2>3. ByteAt(src, taken) < ByteAt(src, taken + 1)
    BY <1>1, <1>2, <2>2, BytesClimb
  <2>4. ByteAt(src, taken) \in Nat /\ ByteAt(src, taken + 1) \in Nat
    BY <1>1, <1>2, TextBytes
  <2> QED
    BY <1>3, <2>1, <2>3, <2>4
<1>6. i = taken + 1
  BY <1>2, <1>4, <1>5
<1> QED
  BY <1>3, <1>6 DEF c

(* The classes of characters are disjoint. *)
LEMMA CharClasses ==
  /\ \A ch \in Special : ch \notin Space /\ ch \notin WordChar
  /\ \A ch \in WordChar : ch \notin Space
  BY LexerAssumption

(* A sign, from the current byte to the one behind m characters. *)
LEMMA PushCover ==
  ASSUME LexInv, CoverInv, AtToken, NEW token, NEW m \in 0..Len(src.chars), taken < m,
         token.offset = Span(ByteAt(src, taken), ByteAt(src, m)),
         \A i \in (taken + 1)..m : src.chars[i].c \in Special,
         Push(token), taken' = m, UNCHANGED <<src, word, lexStatus, lexError>>
  PROVE  CoverInv'
<1> DEFINE R == RangesOf(tokens, word)
           r == token.offset
<1>1. /\ IsText(src) /\ taken \in 0..Len(src.chars) /\ lexStatus # "ok" /\ lexStatus = "lexing" /\ word = {}
  BY DEF LexInv, AtToken
<1>2. Behind(R, ByteAt(src, taken)) /\ Covers(src, R, taken) /\ RunsApart(src, R)
  BY <1>1, RangesBehind DEF CoverInv
<1>3. /\ ByteAt(src, taken) \in Nat /\ ByteAt(src, m) \in Nat /\ Len(src.chars) \in Nat /\ taken \in Nat
      /\ ByteAt(src, taken) < ByteAt(src, m)
  BY <1>1, TextBytes, BytesClimb
<1>4. r \in Offset /\ r.start = ByteAt(src, taken) /\ r.end = ByteAt(src, m)
  BY <1>3 DEF Span, Offset
<1>5. \A i \in (taken + 1)..m : src.chars[i].c \notin Space
  BY CharClasses
<1>6. c \in Special /\ Peeks(Special)
  <2>1. taken + 1 \in (taken + 1)..m /\ taken < Len(src.chars)
    BY <1>3
  <2> QED
    BY <2>1 DEF c, Peeks
<1>7. ~RunIn(src, r)
  <2>1. c \notin WordChar
    BY <1>6, CharClasses
  <2> HIDE DEF r
  <2> QED
    BY <1>4, <1>6, <2>1, RunHere
<1> HIDE DEF R, r
<1>8. Covers(src, R \cup {r}, m) /\ RunsApart(src, R \cup {r})
  BY <1>1, <1>2, <1>4, <1>5, <1>7, RangeAdded
<1>9. RunsClosed(src, R \cup {r}, m)
  <2> SUFFICES ASSUME NEW q \in R \cup {r}, RunIn(src, q), q.end = ByteAt(src, m) PROVE FALSE
    BY DEF RunsClosed
  <2>1. q \in R
    BY <1>7
  <2>2. q.end \in Nat /\ q.end <= ByteAt(src, taken)
    BY <1>2, <2>1 DEF Behind, Offset
  <2> QED
    BY <1>3, <2>2
<1>10. RangesOf(tokens', word') = R \cup {r}
  <2>1. tokens' = Append(tokens, token) /\ word' = word
    BY DEF Push
  <2>2. RangesOf(Append(tokens, token), word) = R \cup {r}
    BY <1>1, RangesMore DEF R, r
  <2> QED
    BY <2>1, <2>2, Zenon
<1>11. src' = src /\ taken' = m
  OBVIOUS
<1>12. /\ Covers(src', RangesOf(tokens', word'), taken') /\ RunsApart(src', RangesOf(tokens', word'))
       /\ RunsClosed(src', RangesOf(tokens', word'), taken')
  BY <1>8, <1>9, <1>10, <1>11, Zenon
<1> QED
  BY <1>12 DEF CoverInv

(* Whitespace is in no range. *)
LEMMA SkipSpaceCover == ASSUME LexInv, CoverInv, SkipSpace PROVE CoverInv'
<1> DEFINE R == RangesOf(tokens, word)
<1>1. /\ IsText(src) /\ taken \in 0..Len(src.chars) /\ lexStatus # "ok" /\ Peeks(Space)
      /\ taken' = taken + 1 /\ UNCHANGED <<src, word, tokens, lexStatus, lexError>> /\ AtToken
  BY DEF LexInv, AtToken, SkipSpace
<1>2. /\ Behind(R, ByteAt(src, taken)) /\ Covers(src, R, taken) /\ RunsApart(src, R)
  BY <1>1, RangesBehind DEF CoverInv
<1>3. /\ taken + 1 \in 0..Len(src.chars) /\ c \in Space /\ start = ByteAt(src, taken)
      /\ start \in Nat /\ ByteAt(src, taken + 1) = start + Width[c] /\ Width[c] \in 1..4
  BY <1>1, Peeked
<1>4. taken \in Nat
  BY <1>1 DEF IsText
<1>5. \A q \in R : q.start \in Nat /\ q.end \in Nat /\ q.end <= start
  BY <1>2, <1>3 DEF Behind, Offset
<1> HIDE DEF R
<1>6. Covers(src, R, taken + 1)
  <2> SUFFICES ASSUME NEW i \in 1..(taken + 1)
      PROVE  IF src.chars[i].c \in Space THEN \A r \in R : ~HoldsIn(src, r, i)
             ELSE \E r \in R : HoldsIn(src, r, i) /\ \A q \in R : HoldsIn(src, q, i) => q = r
    BY DEF Covers
  <2>1. CASE i \in 1..taken
    BY <1>2, <2>1 DEF Covers
  <2>2. CASE i = taken + 1
    <3>1. src.chars[i].c \in Space /\ src.chars[i].start = start
      BY <1>3, <2>2 DEF c, start
    <3>2. \A r \in R : ~HoldsIn(src, r, i)
      BY <1>3, <1>5, <3>1 DEF HoldsIn
    <3> QED
      BY <3>1, <3>2
  <2> QED
    BY <1>4, <2>1, <2>2
<1>7. RunsClosed(src, R, taken + 1)
  BY <1>3, <1>5 DEF RunsClosed
<1>8. RangesOf(tokens', word') = R /\ src' = src /\ taken' = taken + 1
  BY <1>1 DEF R
<1>9. /\ Covers(src', RangesOf(tokens', word'), taken') /\ RunsApart(src', RangesOf(tokens', word'))
      /\ RunsClosed(src', RangesOf(tokens', word'), taken')
  BY <1>2, <1>6, <1>7, <1>8, Zenon
<1> QED
  BY <1>9 DEF CoverInv

(* The signs are each in the range of their own token. *)
LEMMA LexSignCover == ASSUME LexInv, CoverInv, LexSign PROVE CoverInv'
<1> DEFINE token == Sign(TagOf[c], Span(start, start + 1))
<1>1. /\ AtToken /\ Peeks(DOMAIN TagOf) /\ taken' = taken + 1 /\ Push(token)
      /\ UNCHANGED <<src, word, lexStatus, lexError>>
  BY DEF LexSign
<1>2. c \in Special /\ Width[c] = 1
  BY <1>1, Peeked, SpecialWidth
<1>3. token.offset = Span(start, start + 1)
  BY DEF Sign
<1> HIDE DEF token
<1>4. /\ taken + 1 \in 0..Len(src.chars) /\ taken < taken + 1 /\ taken \in Nat
      /\ start = ByteAt(src, taken) /\ ByteAt(src, taken + 1) = start + 1
  <2>1. taken \in Nat
    BY DEF LexInv, IsText
  <2> QED
    BY <1>1, <1>2, <2>1, Peeked
<1>5. token.offset = Span(ByteAt(src, taken), ByteAt(src, taken + 1))
  BY <1>3, <1>4
<1>6. \A i \in (taken + 1)..(taken + 1) : src.chars[i].c \in Special
  BY <1>2, <1>4 DEF c
<1> QED
  BY <1>1, <1>4, <1>5, <1>6, PushCover

(* And so is `!`. *)
LEMMA LexBangCover == ASSUME LexInv, CoverInv, LexBang PROVE CoverInv'
<1> DEFINE token == WordToken(<<"n", "o", "t">>, Span(start, start + 1))
<1>1. /\ AtToken /\ Peeks({"!"}) /\ taken' = taken + 1 /\ Push(token)
      /\ UNCHANGED <<src, word, lexStatus, lexError>>
  BY DEF LexBang
<1>2. c \in Special
  BY <1>1, Peeked DEF Special
<1>3. token.offset = Span(start, start + 1)
  BY DEF WordToken
<1> HIDE DEF token
<1>4. /\ taken + 1 \in 0..Len(src.chars) /\ taken < taken + 1 /\ taken \in Nat
      /\ start = ByteAt(src, taken) /\ ByteAt(src, taken + 1) = start + 1
  <2>1. taken \in Nat
    BY DEF LexInv, IsText
  <2>2. Width[c] = 1
    BY <1>2, SpecialWidth
  <2> QED
    BY <1>1, <2>1, <2>2, Peeked
<1>5. token.offset = Span(ByteAt(src, taken), ByteAt(src, taken + 1))
  BY <1>3, <1>4
<1>6. \A i \in (taken + 1)..(taken + 1) : src.chars[i].c \in Special
  BY <1>2, <1>4 DEF c
<1> QED
  BY <1>1, <1>4, <1>5, <1>6, PushCover

(* What `&&` and `||` span. *)
LEMMA DoubleSpan ==
  ASSUME LexInv, LexDouble
  PROVE  /\ c \in Special /\ src.chars[taken + 1].c = c /\ src.chars[taken + 2].c = c
         /\ taken \in Nat /\ taken + 2 \in 0..Len(src.chars)
         /\ start = ByteAt(src, taken) /\ ByteAt(src, taken + 2) = start + 2
<1>1. Peeks({"&", "|"}) /\ taken + 1 < Len(src.chars) /\ src.chars[taken + 2].c = c
  BY DEF LexDouble, Doubled
<1>2. c \in Special
  BY <1>1, Peeked DEF Special
<1>3. Width[c] = 1 /\ IsText(src) /\ taken \in 0..Len(src.chars)
  BY <1>2, SpecialWidth DEF LexInv
<1>4. Len(src.chars) \in Nat
  BY <1>3, TextBytes
<1>5. taken \in Nat /\ taken + 1 \in 0..Len(src.chars) /\ taken + 2 \in 0..Len(src.chars)
  BY <1>1, <1>3, <1>4
<1>6. start = ByteAt(src, taken) /\ start \in Nat /\ ByteAt(src, taken + 1) = start + 1
  BY <1>1, <1>3, Peeked
<1>7. ByteAt(src, (taken + 1) + 1) = ByteAt(src, taken + 1) + Width[src.chars[(taken + 1) + 1].c]
  BY <1>1, <1>3, <1>5, TextBytes
<1>8. (taken + 1) + 1 = taken + 2
  BY <1>5
<1> QED
  BY <1>1, <1>2, <1>3, <1>5, <1>6, <1>7, <1>8 DEF c

(* Both characters of `&&` and `||` are in the one token. *)
LEMMA LexDoubleCover == ASSUME LexInv, CoverInv, LexDouble PROVE CoverInv'
<1> DEFINE token == WordToken(IF c = "&" THEN <<"a", "n", "d">> ELSE <<"o", "r">>,
                              Span(start, start + 2))
<1>1. /\ AtToken /\ taken' = taken + 2 /\ Push(token)
      /\ UNCHANGED <<src, word, lexStatus, lexError>>
  BY DEF LexDouble
<1>2. /\ c \in Special /\ src.chars[taken + 1].c = c /\ src.chars[taken + 2].c = c
      /\ taken \in Nat /\ taken + 2 \in 0..Len(src.chars)
      /\ start = ByteAt(src, taken) /\ ByteAt(src, taken + 2) = start + 2
  BY DoubleSpan
<1>3. token.offset = Span(start, start + 2)
  BY DEF WordToken
<1> HIDE DEF token
<1>4. token.offset = Span(ByteAt(src, taken), ByteAt(src, taken + 2))
  BY <1>2, <1>3
<1>5. \A i \in (taken + 1)..(taken + 2) : src.chars[i].c \in Special
  <2>1. \A i \in (taken + 1)..(taken + 2) : i = taken + 1 \/ i = taken + 2
    BY <1>2
  <2> QED
    BY <1>2, <2>1
<1>6. taken < taken + 2
  BY <1>2
<1> QED
  BY <1>1, <1>2, <1>4, <1>5, <1>6, PushCover

(* A word that starts is in a range of its own, apart from the last run. *)
LEMMA WordStartCover == ASSUME LexInv, CoverInv, WordStart PROVE CoverInv'
<1> DEFINE R == RangesOf(tokens, word)
           r == Span(start, start + Width[c])
<1>1. /\ IsText(src) /\ taken \in 0..Len(src.chars) /\ lexStatus # "ok" /\ word = {}
      /\ AtToken /\ Peeks(WordChar) /\ word' = {r} /\ taken' = taken + 1
      /\ UNCHANGED <<src, tokens, lexStatus, lexError>>
  BY DEF LexInv, AtToken, WordStart
<1>2. /\ Behind(R, ByteAt(src, taken)) /\ Covers(src, R, taken) /\ RunsApart(src, R)
      /\ RunsClosed(src, R, taken)
  BY <1>1, RangesBehind DEF CoverInv
<1>3. /\ taken + 1 \in 0..Len(src.chars) /\ c \in WordChar /\ start = ByteAt(src, taken)
      /\ start \in Nat /\ ByteAt(src, taken + 1) = start + Width[c] /\ Width[c] \in 1..4
  BY <1>1, Peeked
<1>4. taken \in Nat /\ taken < taken + 1
  BY <1>1 DEF IsText
<1>5. r \in Offset /\ r.start = ByteAt(src, taken) /\ r.end = ByteAt(src, taken + 1)
  BY <1>3 DEF Span, Offset
<1>6. \A i \in (taken + 1)..(taken + 1) : src.chars[i].c \notin Space
  BY <1>3, <1>4, CharClasses DEF c
<1>7. \A q \in R : RunIn(src, q) => q.end # r.start
  BY <1>1, <1>2, <1>5 DEF RunsClosed, Peeks
<1>8. RangesOf(tokens', word') = R \cup {r}
  BY <1>1 DEF RangesOf
<1> HIDE DEF R, r
<1>9. Covers(src, R \cup {r}, taken + 1) /\ RunsApart(src, R \cup {r})
  BY <1>1, <1>2, <1>3, <1>4, <1>5, <1>6, <1>7, RangeAdded
<1>10. Covers(src', RangesOf(tokens', word'), taken') /\ RunsApart(src', RangesOf(tokens', word'))
  <2>1. src' = src /\ taken' = taken + 1
    BY <1>1
  <2> QED
    BY <1>8, <1>9, <2>1, Zenon
<1>11. ~AtToken'
  BY <1>1 DEF AtToken
<1> QED
  BY <1>10, <1>11 DEF CoverInv

(* The word being read takes the next character in. *)
LEMMA WordMoreCover == ASSUME LexInv, CoverInv, WordMore PROVE CoverInv'
<1>1. PICK w \in word : TRUE
  BY DEF WordMore
<1> DEFINE R == RangesOf(tokens, {})
           v == Span(w.start, start + Width[c])
<1>2. /\ IsText(src) /\ lexStatus # "ok" /\ taken \in 0..Len(src.chars)
      /\ word = {w} /\ Open(src, w, taken) /\ InOrder(src, tokens, w.start) /\ Peeks(WordChar)
  BY <1>1 DEF LexInv, WordMore
<1>3. /\ taken + 1 \in 0..Len(src.chars) /\ c \in WordChar /\ start = ByteAt(src, taken)
      /\ start \in Nat /\ ByteAt(src, taken + 1) = start + Width[c] /\ Width[c] \in 1..4
      /\ taken < Len(src.chars)
  BY <1>2, Peeked DEF Peeks
<1>4. w \in Offset /\ w.start < w.end /\ w.end = ByteAt(src, taken)
  BY <1>2 DEF Open
<1>5. v \in Offset /\ v.start = w.start /\ v.end = ByteAt(src, taken + 1)
  BY <1>3, <1>4 DEF Span, Offset
<1>6. Behind(R, w.start)
  <2>1. DOMAIN tokens = 1..Len(tokens)
    BY <1>2 DEF InOrder
  <2> QED
    BY <1>2, <2>1 DEF Behind, RangesOf, InOrder, Finished
<1>7. src.chars[taken + 1].c \notin Space
  BY <1>3, CharClasses DEF c
<1>8. RangesOf(tokens, word) = R \cup {w}
  BY <1>2 DEF RangesOf
<1>9. word' = {v} /\ taken' = taken + 1 /\ tokens' = tokens /\ src' = src
  BY <1>2 DEF WordMore
<1>10. RangesOf(tokens', word') = R \cup {v}
  BY <1>9 DEF RangesOf
<1> HIDE DEF R, v
<1>11. Covers(src, R \cup {w}, taken) /\ RunsApart(src, R \cup {w})
  <2>1. Covers(src, RangesOf(tokens, word), taken) /\ RunsApart(src, RangesOf(tokens, word))
    BY DEF CoverInv
  <2> QED
    BY <1>8, <2>1, Zenon
<1>12. Covers(src, R \cup {v}, taken + 1) /\ RunsApart(src, R \cup {v})
  BY <1>2, <1>3, <1>4, <1>5, <1>6, <1>7, <1>11, RangeGrown
<1>13. Covers(src', RangesOf(tokens', word'), taken') /\ RunsApart(src', RangesOf(tokens', word'))
  BY <1>9, <1>10, <1>12, Zenon
<1>14. ~AtToken'
  BY <1>9 DEF AtToken
<1> QED
  BY <1>13, <1>14 DEF CoverInv

(* A word that ends keeps its range, and is not followed by another. *)
LEMMA WordEndCover == ASSUME LexInv, CoverInv, WordEnd PROVE CoverInv'
<1>1. PICK w \in word : Push(WordToken(Slice(w), w))
  BY DEF WordEnd
<1> DEFINE token == WordToken(Slice(w), w)
           R == RangesOf(tokens, word)
<1>2. /\ lexStatus # "ok" /\ word = {w} /\ ~Peeks(WordChar)
  BY <1>1 DEF LexInv, WordEnd
<1>3. token.offset = w
  BY DEF WordToken
<1>4. tokens' = Append(tokens, token) /\ word' = {} /\ src' = src /\ taken' = taken
  BY <1>1 DEF WordEnd, Push
<1> HIDE DEF token
<1>5. RangesOf(Append(tokens, token), {}) = RangesOf(tokens, {}) \cup {token.offset}
  BY <1>2, RangesMore
<1>6. RangesOf(tokens, {}) \cup {token.offset} = R
  BY <1>2, <1>3 DEF RangesOf
<1> HIDE DEF R
<1>7. RangesOf(tokens', word') = R
  BY <1>4, <1>5, <1>6, Zenon
<1>8. Covers(src, R, taken) /\ RunsApart(src, R)
  BY DEF CoverInv, R
<1>9. RunsClosed(src, R, taken)
  BY <1>2 DEF RunsClosed, Peeks
<1>10. /\ Covers(src', RangesOf(tokens', word'), taken') /\ RunsApart(src', RangesOf(tokens', word'))
       /\ RunsClosed(src', RangesOf(tokens', word'), taken')
  BY <1>4, <1>7, <1>8, <1>9, Zenon
<1> QED
  BY <1>10 DEF CoverInv

(* The Eof is empty, and no character starts where it stands. *)
LEMMA LexEndCover == ASSUME LexInv, CoverInv, LexEnd PROVE CoverInv'
<1> DEFINE R == RangesOf(tokens, word)
           r == Span(src.len, src.len)
<1>1. /\ IsText(src) /\ taken = Len(src.chars) /\ lexStatus # "ok" /\ word = {}
      /\ tokens' = Append(tokens, Eof(src.len)) /\ lexStatus' = "ok"
      /\ src' = src /\ taken' = taken /\ word' = word
  BY DEF LexInv, LexEnd, AtToken, Push
<1>2. Eof(src.len).offset = r
  BY DEF Eof, Sign
<1>3. src.len \in Nat /\ Len(src.chars) \in Nat /\ DOMAIN src.chars = 1..Len(src.chars)
  BY <1>1 DEF IsText
<1>4. \A i \in 1..Len(src.chars) : src.chars[i].start < src.len /\ src.chars[i].start \in Nat
  <2> SUFFICES ASSUME NEW i \in 1..Len(src.chars)
               PROVE  src.chars[i].start < src.len /\ src.chars[i].start \in Nat
    OBVIOUS
  <2>1. Len(src.chars) \in 0..Len(src.chars) /\ i <= Len(src.chars) /\ i - 1 \in 0..Len(src.chars)
    BY <1>3
  <2>2. src.chars[i].start < ByteAt(src, Len(src.chars))
    BY <1>1, <2>1, CharAt
  <2>3. src.chars[i].start = ByteAt(src, i - 1) /\ ByteAt(src, i - 1) \in Nat
    BY <1>1, <2>1, CharAt
  <2> QED
    BY <2>2, <2>3 DEF ByteAt
<1>5. r.start = src.len /\ r.end = src.len
  BY DEF Span
<1>6. Covers(src, R, taken) /\ RunsApart(src, R)
  BY DEF CoverInv
<1> HIDE DEF R, r
<1>7. ~RunIn(src, r) /\ \A i \in 1..taken : ~HoldsIn(src, r, i)
  <2>1. ~RunIn(src, r)
    BY <1>3, <1>4, <1>5 DEF RunIn
  <2>2. \A i \in 1..taken : ~HoldsIn(src, r, i)
    BY <1>1, <1>3, <1>4, <1>5 DEF HoldsIn
  <2> QED
    BY <2>1, <2>2
<1>8. Covers(src, R \cup {r}, taken)
  <2> SUFFICES ASSUME NEW i \in 1..taken
      PROVE  IF src.chars[i].c \in Space THEN \A p \in R \cup {r} : ~HoldsIn(src, p, i)
             ELSE \E p \in R \cup {r} : HoldsIn(src, p, i) /\ \A q \in R \cup {r} : HoldsIn(src, q, i) => q = p
    BY DEF Covers
  <2>1. IF src.chars[i].c \in Space THEN \A p \in R : ~HoldsIn(src, p, i)
        ELSE \E p \in R : HoldsIn(src, p, i) /\ \A q \in R : HoldsIn(src, q, i) => q = p
    BY <1>6 DEF Covers
  <2>2. ~HoldsIn(src, r, i)
    BY <1>7
  <2> QED
    BY <2>1, <2>2
<1>9. RunsApart(src, R \cup {r})
  BY <1>6, <1>7 DEF RunsApart
<1>10. RangesOf(tokens', word') = R \cup {r}
  <2> DEFINE last == Eof(src.len)
  <2>1. tokens' = Append(tokens, last) /\ word' = word /\ last.offset = r
    BY <1>1, <1>2
  <2> HIDE DEF last
  <2>2. RangesOf(Append(tokens, last), word) = R \cup {last.offset}
    BY <1>1, RangesMore DEF R
  <2> QED
    BY <2>1, <2>2, Zenon
<1>11. Covers(src', RangesOf(tokens', word'), taken') /\ RunsApart(src', RangesOf(tokens', word'))
  BY <1>1, <1>8, <1>9, <1>10, Zenon
<1>12. ~AtToken'
  BY <1>1 DEF AtToken
<1> QED
  BY <1>11, <1>12 DEF CoverInv

(* A step that leaves text, position, word and tokens alone. *)
LEMMA SameCover ==
  ASSUME CoverInv, UNCHANGED <<src, taken, word, tokens>>, lexStatus' = "lexing" => lexStatus = "lexing"
  PROVE  CoverInv'
<1>1. src' = src /\ taken' = taken /\ word' = word /\ tokens' = tokens
  OBVIOUS
<1>2. RangesOf(tokens', word') = RangesOf(tokens, word) /\ (AtToken' => AtToken)
  BY <1>1 DEF AtToken
<1>3. /\ Covers(src', RangesOf(tokens', word'), taken') /\ RunsApart(src', RangesOf(tokens', word'))
      /\ AtToken' => RunsClosed(src', RangesOf(tokens', word'), taken')
  BY <1>1, <1>2, Zenon DEF CoverInv
<1> QED
  BY <1>3 DEF CoverInv

(* Every arm of the loop keeps the cover. *)
LEMMA CoverStep == LexInv /\ CoverInv /\ [LexNext]_lexVars => CoverInv'
<1> SUFFICES ASSUME LexInv, CoverInv, [LexNext]_lexVars PROVE CoverInv'
  OBVIOUS
<1>1. CASE LexStray
  BY <1>1, SameCover DEF LexStray, Unexpected
<1>2. CASE LexUnknown
  BY <1>2, SameCover DEF LexUnknown, Unexpected
<1>3. CASE UNCHANGED lexVars
  BY <1>3, SameCover DEF lexVars
<1> QED
  BY <1>1, <1>2, <1>3, SkipSpaceCover, LexSignCover, LexBangCover, LexDoubleCover, WordStartCover,
     WordMoreCover, WordEndCover, LexEndCover DEF LexNext

(* The cover says of the ranges what NothingLost counts. *)
LEMMA CoverCounts == LexInv /\ CoverInv => NothingLost
<1> SUFFICES ASSUME LexInv, CoverInv PROVE NothingLost
  OBVIOUS
<1>1. Ranges = RangesOf(tokens, word)
  BY DEF Ranges, RangesOf
<1>2. ASSUME NEW i \in 1..taken
      PROVE  Cardinality({r \in Ranges : Holds(r, i)}) = (IF src.chars[i].c \in Space THEN 0 ELSE 1)
  <2> DEFINE H == {r \in Ranges : Holds(r, i)}
  <2>1. \A r : Holds(r, i) <=> HoldsIn(src, r, i)
    BY DEF Holds, HoldsIn
  <2>2. IF src.chars[i].c \in Space THEN \A r \in Ranges : ~HoldsIn(src, r, i)
        ELSE \E r \in Ranges : HoldsIn(src, r, i) /\ \A q \in Ranges : HoldsIn(src, q, i) => q = r
    BY <1>1 DEF CoverInv, Covers
  <2>3. CASE src.chars[i].c \in Space
    <3>1. H = {}
      BY <2>1, <2>2, <2>3
    <3>2. Cardinality(H) = 0
      BY <3>1, FS_EmptySet, Zenon
    <3> QED
      BY <2>3, <3>2
  <2>4. CASE src.chars[i].c \notin Space
    <3>1. PICK r \in Ranges : HoldsIn(src, r, i) /\ \A q \in Ranges : HoldsIn(src, q, i) => q = r
      BY <2>2, <2>4
    <3>2. H = {r}
      BY <2>1, <3>1
    <3>3. Cardinality({r}) = 1
      BY FS_Singleton
    <3>4. Cardinality(H) = 1
      BY <3>2, <3>3, Zenon
    <3> QED
      BY <2>4, <3>4
  <2> QED
    BY <2>3, <2>4
<1>3. ASSUME NEW q \in Ranges, NEW r \in Ranges, IsRun(q), IsRun(r) PROVE q.end # r.start
  <2>1. RunIn(src, q) /\ RunIn(src, r)
    BY <1>3 DEF IsRun, RunIn
  <2> QED
    BY <1>1, <2>1 DEF CoverInv, RunsApart
<1> QED
  BY <1>2, <1>3 DEF NothingLost

(* For every text: each character `lex` has passed is whitespace or in     *)
(* exactly one token, and two words never touch.                           *)
THEOREM LexLosesNothing == LexSpec => []NothingLost
<1>1. LexInit => CoverInv
  <2> SUFFICES ASSUME LexInit PROVE CoverInv
    OBVIOUS
  <2>1. RangesOf(tokens, word) = {} /\ taken = 0
    BY DEF LexInit, RangesOf
  <2> QED
    BY <2>1 DEF CoverInv, Covers, RunsApart, RunsClosed
<1>2. LexSpec => []CoverInv
  BY <1>1, LexInvariant, CoverStep, PTL DEF LexSpec
<1> QED
  BY <1>2, LexInvariant, CoverCounts, PTL

-----------------------------------------------------------------------------
(* The first bad character. *)

(* The n characters up to the i-th are equal, and no more than these. *)
Streak(text, i, n) ==
  /\ n \in 1..i
  /\ \A j \in (i - n + 1)..i : text.chars[j].c = text.chars[i].c
  /\ n = i \/ text.chars[i - n].c # text.chars[i].c

(* The characters that count only in pairs. *)
Twins == {"&", "|"}

(* Odd and Bad, of any text. *)
OddIn(text, i) ==
  /\ \E n \in 1..i : n % 2 = 1 /\ Streak(text, i, n)
  /\ i = Len(text.chars) \/ text.chars[i + 1].c # text.chars[i].c

(* The i-th character is one that no token begins with, or an odd `&` or `|`. *)
BadIn(text, i) ==
  \/ text.chars[i].c \notin Space \cup WordChar \cup Special
  \/ text.chars[i].c \in Twins /\ OddIn(text, i)

(* The `&`s or `|`s up to the i-th character, if there are any, pair up. *)
Paired(text, i) ==
  i # 0 /\ text.chars[i].c \in Twins => \E n \in 1..i : n % 2 = 0 /\ Streak(text, i, n)

(* What is inductive of FirstBadChar: no bad character has been passed,    *)
(* and the lexer never stands inside a pair.                               *)
GoodInv ==
  /\ \A i \in 1..taken : ~BadIn(src, i)
  /\ lexStatus = "lexing" => Paired(src, taken)
  /\ lexStatus = "ok" => taken = Len(src.chars)
  /\ lexStatus # "error" => lexError = {}
  /\ \A e \in lexError : /\ taken + 1 \in DOMAIN src.chars
                         /\ e.start = src.chars[taken + 1].start
                         /\ BadIn(src, taken + 1)

(* A streak has one length. *)
LEMMA StreakOnce ==
  ASSUME NEW text, NEW i \in Nat, NEW m, NEW n, Streak(text, i, m), Streak(text, i, n)
  PROVE  m = n
<1>1. ASSUME NEW k, NEW l, Streak(text, i, k), Streak(text, i, l), k < l PROVE FALSE
  <2>1. k \in 1..i /\ l \in 1..i
    BY <1>1 DEF Streak
  <2>2. k # i /\ i - k \in (i - l + 1)..i
    BY <1>1, <2>1
  <2>3. text.chars[i - k].c # text.chars[i].c
    BY <1>1, <2>2 DEF Streak
  <2>4. text.chars[i - k].c = text.chars[i].c
    BY <1>1, <2>2 DEF Streak
  <2> QED
    BY <2>3, <2>4
<1>2. m \in Nat /\ n \in Nat
  BY DEF Streak
<1> QED
  BY <1>1, <1>2

(* One equal character behind a streak makes it one longer, a different    *)
(* one, or the first, begins another.                                      *)
LEMMA StreakGrows ==
  ASSUME NEW text, NEW i \in Nat, NEW n,
         \/ i # 0 /\ Streak(text, i, n) /\ text.chars[i].c = text.chars[i + 1].c
         \/ n = 0 /\ (i = 0 \/ text.chars[i].c # text.chars[i + 1].c)
  PROVE  Streak(text, i + 1, n + 1)
<1>1. CASE i # 0 /\ Streak(text, i, n) /\ text.chars[i].c = text.chars[i + 1].c
  <2>1. n \in 1..i
    BY <1>1 DEF Streak
  <2>2. /\ n + 1 \in 1..(i + 1) /\ (i + 1) - (n + 1) + 1 = i - n + 1 /\ (i + 1) - (n + 1) = i - n
        /\ n = i => n + 1 = i + 1
    BY <2>1
  <2>3. \A j \in (i - n + 1)..(i + 1) : j \in (i - n + 1)..i \/ j = i + 1
    BY <2>1
  <2>4. \A j \in (i - n + 1)..(i + 1) : text.chars[j].c = text.chars[i + 1].c
    BY <1>1, <2>3 DEF Streak
  <2>5. n = i \/ text.chars[i - n].c # text.chars[i + 1].c
    BY <1>1 DEF Streak
  <2> QED
    BY <2>2, <2>4, <2>5 DEF Streak
<1>2. CASE n = 0 /\ (i = 0 \/ text.chars[i].c # text.chars[i + 1].c)
  <2>1. n + 1 = 1 /\ 1 \in 1..(i + 1) /\ (i + 1) - 1 = i /\ (i + 1) - 1 + 1 = i + 1
    BY <1>2
  <2>2. \A j \in (i + 1)..(i + 1) : j = i + 1
    OBVIOUS
  <2> QED
    BY <1>2, <2>1, <2>2 DEF Streak
<1> QED
  BY <1>1, <1>2

(* Behind paired characters, one more of a twin is an odd streak.          *)
LEMMA OneTwin ==
  ASSUME NEW text, NEW i \in Nat, Paired(text, i), text.chars[i + 1].c \in Twins
  PROVE  \E n \in 1..(i + 1) : n % 2 = 1 /\ Streak(text, i + 1, n)
<1>1. CASE i # 0 /\ text.chars[i].c = text.chars[i + 1].c
  <2>1. PICK n \in 1..i : n % 2 = 0 /\ Streak(text, i, n)
    BY <1>1 DEF Paired
  <2>2. Streak(text, i + 1, n + 1)
    BY <1>1, <2>1, StreakGrows
  <2>3. n + 1 \in 1..(i + 1) /\ (n + 1) % 2 = 1
    BY <2>1
  <2> QED
    BY <2>2, <2>3
<1>2. CASE i = 0 \/ text.chars[i].c # text.chars[i + 1].c
  <2>1. Streak(text, i + 1, 0 + 1)
    BY <1>2, StreakGrows
  <2>2. 0 + 1 \in 1..(i + 1) /\ (0 + 1) % 2 = 1
    OBVIOUS
  <2> QED
    BY <2>1, <2>2
<1> QED
  BY <1>1, <1>2

(* And two more are paired again. *)
LEMMA TwoTwins ==
  ASSUME NEW text, NEW i \in Nat, Paired(text, i), text.chars[i + 1].c \in Twins,
         text.chars[i + 2].c = text.chars[i + 1].c
  PROVE  \E n \in 1..(i + 2) : n % 2 = 0 /\ Streak(text, i + 2, n)
<1>1. PICK n \in 1..(i + 1) : n % 2 = 1 /\ Streak(text, i + 1, n)
  BY OneTwin
<1>2. i + 1 \in Nat /\ i + 1 # 0 /\ (i + 1) + 1 = i + 2
  OBVIOUS
<1>3. Streak(text, (i + 1) + 1, n + 1)
  BY <1>1, <1>2, StreakGrows
<1>4. n + 1 \in 1..(i + 2) /\ (n + 1) % 2 = 0
  BY <1>1
<1> QED
  BY <1>2, <1>3, <1>4

(* An even streak is not an odd one. *)
LEMMA EvenNotOdd ==
  ASSUME NEW text, NEW i \in Nat, NEW n \in 1..i, n % 2 = 0, Streak(text, i, n)
  PROVE  ~OddIn(text, i)
<1>1. ASSUME NEW m \in 1..i, m % 2 = 1, Streak(text, i, m) PROVE FALSE
  BY <1>1, StreakOnce
<1> QED
  BY <1>1 DEF OddIn

(* The signs that are no twins, whitespace and word characters are good.   *)
LEMMA PlainGood ==
  /\ \A ch \in Space \cup WordChar : ch \notin Twins
  /\ DOMAIN TagOf \cup {"!"} \subseteq Special \ Twins
  /\ Twins \subseteq Special
<1>1. Twins \subseteq Special
  BY DEF Twins, Special
<1>2. DOMAIN TagOf \cup {"!"} \subseteq Special \ Twins
  BY DEF TagOf, Special, Twins
<1> QED
  BY <1>1, <1>2, CharClasses

(* A step over one character that is not a twin. *)
LEMMA PlainStep ==
  ASSUME LexInv, GoodInv, lexStatus = "lexing", NEW C, Peeks(C),
         C \subseteq (Space \cup WordChar \cup Special) \ Twins,
         taken' = taken + 1, UNCHANGED <<src, lexStatus, lexError>>
  PROVE  GoodInv'
<1>1. taken \in Nat /\ c \in C /\ src.chars[taken + 1].c = c
  BY Peeked DEF LexInv, IsText, c
<1>2. src.chars[taken + 1].c \notin Twins /\ ~BadIn(src, taken + 1)
  BY <1>1 DEF BadIn
<1>3. Paired(src, taken + 1)
  BY <1>2 DEF Paired
<1>4. \A i \in 1..(taken + 1) : ~BadIn(src, i)
  <2>1. \A i \in 1..(taken + 1) : i \in 1..taken \/ i = taken + 1
    BY <1>1
  <2> QED
    BY <1>2, <2>1 DEF GoodInv
<1>5. src' = src /\ taken' = taken + 1 /\ lexStatus' = "lexing" /\ lexError' = {}
  BY DEF GoodInv
<1>6. (\A i \in 1..taken' : ~BadIn(src', i)) /\ Paired(src', taken')
  BY <1>3, <1>4, <1>5, Zenon
<1> QED
  BY <1>5, <1>6 DEF GoodInv

(* A pair is passed as a whole. *)
LEMMA PairStep == ASSUME LexInv, GoodInv, LexDouble PROVE GoodInv'
<1>1. /\ taken \in Nat /\ src.chars[taken + 1].c = c /\ src.chars[taken + 2].c = c /\ c \in Special
      /\ taken + 2 \in 0..Len(src.chars)
  BY DoubleSpan
<1>2. lexStatus = "lexing" /\ c \in Twins /\ taken' = taken + 2 /\ UNCHANGED <<src, lexStatus, lexError>>
  BY DEF LexDouble, AtToken, Peeks, Twins, c
<1>3. Paired(src, taken)
  BY <1>2 DEF GoodInv
<1>4. PICK n \in 1..(taken + 2) : n % 2 = 0 /\ Streak(src, taken + 2, n)
  BY <1>1, <1>2, <1>3, TwoTwins
<1>5. Paired(src, taken + 2)
  BY <1>4 DEF Paired
<1>6. ~BadIn(src, taken + 2)
  <2>1. taken + 2 \in Nat
    BY <1>1
  <2>2. ~OddIn(src, taken + 2)
    BY <1>4, <2>1, EvenNotOdd
  <2> QED
    BY <1>1, <2>2 DEF BadIn
<1>7. ~BadIn(src, taken + 1)
  <2>1. (taken + 1) + 1 = taken + 2 /\ taken + 1 # Len(src.chars)
    <3>1. Len(src.chars) \in Nat
      BY DEF LexInv, IsText
    <3> QED
      BY <1>1, <3>1
  <2>2. ~OddIn(src, taken + 1)
    BY <1>1, <2>1 DEF OddIn
  <2> QED
    BY <1>1, <2>2 DEF BadIn
<1>8. \A i \in 1..(taken + 2) : ~BadIn(src, i)
  <2>1. \A i \in 1..(taken + 2) : i \in 1..taken \/ i = taken + 1 \/ i = taken + 2
    BY <1>1
  <2> QED
    BY <1>6, <1>7, <2>1 DEF GoodInv
<1>9. src' = src /\ taken' = taken + 2 /\ lexStatus' = "lexing" /\ lexError' = {}
  BY <1>2 DEF GoodInv
<1>10. (\A i \in 1..taken' : ~BadIn(src', i)) /\ Paired(src', taken')
  BY <1>5, <1>8, <1>9, Zenon
<1> QED
  BY <1>9, <1>10 DEF GoodInv

(* An error is at a bad character. *)
LEMMA UnexpectedGood ==
  ASSUME LexInv, GoodInv, Unexpected, NEW C, Peeks(C), BadIn(src, taken + 1) PROVE GoodInv'
<1>1. /\ src' = src /\ taken' = taken /\ lexStatus' = "error"
      /\ lexError' = {Span(src.chars[taken + 1].start, src.chars[taken + 1].start + 1)}
  BY DEF Unexpected, start
<1>2. taken + 1 \in DOMAIN src.chars
  BY DEF Peeks, LexInv, IsText
<1>3. \A e \in lexError' : e.start = src.chars[taken + 1].start
  BY <1>1 DEF Span
<1>4. \A i \in 1..taken : ~BadIn(src, i)
  BY DEF GoodInv
<1>5. /\ \A i \in 1..taken' : ~BadIn(src', i)
      /\ taken' + 1 \in DOMAIN src'.chars /\ BadIn(src', taken' + 1)
      /\ \A e \in lexError' : e.start = src'.chars[taken' + 1].start
  BY <1>1, <1>2, <1>3, <1>4, Zenon
<1> QED
  BY <1>1, <1>5 DEF GoodInv

(* A single `&` or `|`, also behind pairs of them, is a bad character. *)
LEMMA StrayGood == ASSUME LexInv, GoodInv, LexStray PROVE GoodInv'
<1>1. /\ lexStatus = "lexing" /\ Peeks(Twins) /\ ~Doubled /\ Unexpected
  BY DEF LexStray, AtToken, Twins
<1>2. /\ taken \in Nat /\ src.chars[taken + 1].c = c /\ c \in Twins /\ Len(src.chars) \in Nat
      /\ taken < Len(src.chars)
  BY <1>1 DEF LexInv, IsText, c, Peeks
<1>3. Paired(src, taken)
  BY <1>1 DEF GoodInv
<1>4. \E n \in 1..(taken + 1) : n % 2 = 1 /\ Streak(src, taken + 1, n)
  BY <1>2, <1>3, OneTwin
<1>5. taken + 1 = Len(src.chars) \/ src.chars[(taken + 1) + 1].c # src.chars[taken + 1].c
  <2>1. (taken + 1) + 1 = taken + 2
    BY <1>2
  <2> QED
    BY <1>1, <1>2, <2>1 DEF Doubled
<1>6. BadIn(src, taken + 1)
  BY <1>2, <1>4, <1>5 DEF BadIn, OddIn
<1> QED
  BY <1>1, <1>6, UnexpectedGood

(* A character of no class is a bad one. *)
LEMMA UnknownGood == ASSUME LexInv, GoodInv, LexUnknown PROVE GoodInv'
<1> DEFINE C == DOMAIN Width \ (Space \cup WordChar \cup Special)
<1>1. Peeks(C) /\ Unexpected
  BY DEF LexUnknown
<1>2. BadIn(src, taken + 1)
  BY <1>1 DEF BadIn, Peeks
<1> QED
  BY <1>1, <1>2, UnexpectedGood

(* The steps that take no character and find no error. *)
LEMMA StayGood ==
  ASSUME GoodInv, UNCHANGED <<src, taken, lexError>>,
         \/ lexStatus' = lexStatus
         \/ lexStatus = "lexing" /\ lexStatus' = "ok" /\ taken = Len(src.chars)
  PROVE  GoodInv'
<1>1. src' = src /\ taken' = taken /\ lexError' = lexError
  OBVIOUS
<1>2. /\ \A i \in 1..taken' : ~BadIn(src', i)
      /\ lexStatus' = "lexing" => Paired(src', taken')
      /\ \A e \in lexError' : /\ taken' + 1 \in DOMAIN src'.chars
                              /\ e.start = src'.chars[taken' + 1].start
                              /\ BadIn(src', taken' + 1)
  <2>1. /\ \A i \in 1..taken : ~BadIn(src, i)
        /\ lexStatus' = "lexing" => Paired(src, taken)
        /\ \A e \in lexError : /\ taken + 1 \in DOMAIN src.chars
                               /\ e.start = src.chars[taken + 1].start
                               /\ BadIn(src, taken + 1)
    BY DEF GoodInv
  <2> QED
    BY <1>1, <2>1, Zenon
<1>3. /\ lexStatus' = "ok" => taken' = Len(src'.chars)
      /\ lexStatus' # "error" => lexError' = {}
  BY <1>1 DEF GoodInv
<1> QED
  BY <1>2, <1>3 DEF GoodInv

(* Every arm of the loop keeps it. *)
LEMMA GoodStep == LexInv /\ GoodInv /\ [LexNext]_lexVars => GoodInv'
<1> SUFFICES ASSUME LexInv, GoodInv, [LexNext]_lexVars PROVE GoodInv'
  OBVIOUS
<1> DEFINE Plain == (Space \cup WordChar \cup Special) \ Twins
<1>1. Space \subseteq Plain /\ WordChar \subseteq Plain /\ DOMAIN TagOf \subseteq Plain /\ {"!"} \subseteq Plain
  BY PlainGood
<1>2. word # {} => lexStatus = "lexing"
  BY DEF LexInv
<1>3. CASE SkipSpace
  BY <1>1, <1>3, PlainStep DEF SkipSpace, AtToken
<1>4. CASE LexSign
  BY <1>1, <1>4, PlainStep DEF LexSign, AtToken
<1>5. CASE LexBang
  BY <1>1, <1>5, PlainStep DEF LexBang, AtToken
<1>6. CASE WordStart
  BY <1>1, <1>6, PlainStep DEF WordStart, AtToken
<1>7. CASE WordMore
  BY <1>1, <1>2, <1>7, PlainStep DEF WordMore
<1>8. CASE WordEnd
  BY <1>8, StayGood DEF WordEnd
<1>9. CASE LexEnd
  BY <1>9, StayGood DEF LexEnd, AtToken
<1>10. CASE UNCHANGED lexVars
  BY <1>10, StayGood DEF lexVars
<1> QED
  BY <1>3, <1>4, <1>5, <1>6, <1>7, <1>8, <1>9, <1>10, PairStep, StrayGood, UnknownGood DEF LexNext

(* The invariant says where the error is. *)
LEMMA GoodFirst == LexInv /\ GoodInv => FirstBadChar
<1> SUFFICES ASSUME LexInv, GoodInv PROVE FirstBadChar
  OBVIOUS
<1>1. /\ Len(src.chars) \in Nat /\ DOMAIN src.chars = 1..Len(src.chars) /\ taken \in Nat
  BY DEF LexInv, IsText
<1>2. \A i \in DOMAIN src.chars : Odd(i) <=> OddIn(src, i)
  BY <1>1 DEF Odd, OddIn, Streak
<1>3. \A i \in DOMAIN src.chars : Bad(i) <=> BadIn(src, i)
  BY <1>2 DEF Bad, BadIn, Twins
<1>4. ASSUME lexStatus = "ok", NEW i \in DOMAIN src.chars PROVE ~Bad(i)
  BY <1>1, <1>3, <1>4 DEF GoodInv
<1>5. ASSUME NEW e \in lexError
      PROVE  \E i \in DOMAIN src.chars :
               e.start = src.chars[i].start /\ Bad(i) /\ \A j \in 1..(i - 1) : ~Bad(j)
  <2>1. /\ taken + 1 \in DOMAIN src.chars /\ e.start = src.chars[taken + 1].start
        /\ BadIn(src, taken + 1) /\ \A j \in 1..taken : ~BadIn(src, j)
    BY DEF GoodInv
  <2>2. (taken + 1) - 1 = taken /\ \A j \in 1..taken : j \in DOMAIN src.chars
    BY <1>1, <2>1
  <2>3. Bad(taken + 1) /\ \A j \in 1..((taken + 1) - 1) : ~Bad(j)
    BY <1>3, <2>1, <2>2
  <2> QED
    BY <2>1, <2>3
<1> QED
  BY <1>4, <1>5 DEF FirstBadChar

(* For every text: `lex` fails exactly when a character belongs to no      *)
(* token, and its error is at the first such character.                    *)
THEOREM LexFirstBadChar == LexSpec => []FirstBadChar
<1>1. LexInit => GoodInv
  BY DEF LexInit, GoodInv, Paired
<1>2. LexSpec => []GoodInv
  BY <1>1, LexInvariant, GoodStep, PTL DEF LexSpec
<1> QED
  BY <1>2, LexInvariant, GoodFirst, PTL
=============================================================================
