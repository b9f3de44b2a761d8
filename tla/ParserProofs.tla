---------------------------- MODULE ParserProofs ----------------------------
(***************************************************************************)
(* The parser for every token sequence that the lexer can produce, of any  *)
(* length and nesting:                                                     *)
(*                                                                         *)
(*  - no index is out of range (ParseInv);                                 *)
(*  - what parse returns is a tree that the grammar gives the text         *)
(*    (SoundInv: what has been read is derived from the rules);            *)
(*  - the stack of waiting calls is as deep as the parentheses and `not`s  *)
(*    around the current token (NestInv: each waiting parse_unary belongs  *)
(*    to a `not` of its own whose operand has not ended);                  *)
(*  - the tree that the grammar gives a text is returned, and no error     *)
(*    (CompleteInv: the waiting calls can still end with that tree);       *)
(*  - every leaf of it is in the range the code generator computes with.   *)
(*                                                                         *)
(* Grammar finds the trees of a text in a chart of its pieces; the proofs  *)
(* first turn the chart into rules (UnaryRule, LevelRule).                 *)
(***************************************************************************)
EXTENDS Grammar, FiniteSetTheorems, NaturalsInduction, WellFoundedInduction, TLAPS

-----------------------------------------------------------------------------
(* Counting frames. *)

(* Frames, of any stack. *)
Among(calls, fn) == Cardinality({i \in DOMAIN calls : calls[i].fn = fn})

(* A sequence, of whatever it holds. *)
IsSeq(s) == s \in Seq({s[i] : i \in DOMAIN s})

(* A sequence over any set is one of its own elements. *)
LEMMA OwnElements == ASSUME NEW S, NEW s \in Seq(S) PROVE IsSeq(s)
  BY DEF IsSeq

(* The frames of one function are finitely many. *)
LEMMA AmongNat ==
  ASSUME NEW s, IsSeq(s), NEW fn
  PROVE  IsFiniteSet({i \in DOMAIN s : s[i].fn = fn}) /\ Among(s, fn) \in Nat
<1>1. Len(s) \in Nat /\ DOMAIN s = 1..Len(s)
  BY DEF IsSeq
<1>2. IsFiniteSet(1..Len(s))
  BY <1>1, FS_Interval
<1>3. IsFiniteSet({i \in DOMAIN s : s[i].fn = fn})
  BY <1>1, <1>2, FS_Subset
<1> QED
  BY <1>3, FS_CardinalityType DEF Among

(* A frame in front is one more of its function. *)
LEMMA OneMoreFrame ==
  ASSUME NEW s, IsSeq(s), NEW x, NEW fn
  PROVE  /\ IsSeq(<<x>> \o s)
         /\ Among(<<x>> \o s, fn) = Among(s, fn) + (IF x.fn = fn THEN 1 ELSE 0)
<1> DEFINE S == {s[i] : i \in DOMAIN s} \cup {x}
           n == Len(s)
           more == <<x>> \o s
           A == {i \in DOMAIN s : s[i].fn = fn}
           B == {i \in DOMAIN more : more[i].fn = fn}
           C == B \ {1}
<1>1. s \in Seq(S) /\ x \in S
  BY DEF IsSeq
<1> HIDE DEF S
<1>2. /\ n \in Nat /\ DOMAIN s = 1..n /\ more \in Seq(S) /\ DOMAIN more = 1..(n + 1)
      /\ more[1] = x /\ \A i \in 1..n : more[i + 1] = s[i]
  BY <1>1
<1>3. IsSeq(more)
  BY <1>2, OwnElements
<1>4. IsFiniteSet(A) /\ IsFiniteSet(B)
  BY <1>3, AmongNat
<1> HIDE DEF more
<1>5. ExistsBijection(A, C)
  <2> DEFINE f == [i \in A |-> i + 1]
  <2>1. f \in [A -> C]
    BY <1>2
  <2>2. \A i, j \in A : f[i] = f[j] => i = j
    BY <1>2
  <2>3. ASSUME NEW k \in C PROVE \E i \in A : f[i] = k
    <3>1. k \in 1..(n + 1) /\ k # 1 /\ more[k].fn = fn
      BY <1>2
    <3>2. k - 1 \in 1..n /\ (k - 1) + 1 = k
      BY <1>2, <3>1
    <3>3. more[k] = s[k - 1]
      BY <1>2, <3>2
    <3>4. k - 1 \in A
      BY <1>2, <3>1, <3>2, <3>3
    <3> QED
      BY <3>2, <3>4
  <2> HIDE DEF f, A, C
  <2>4. f \in Bijection(A, C)
    BY <2>1, <2>2, <2>3 DEF Bijection, Injection, Surjection, IsInjective
  <2> QED
    BY <2>4 DEF ExistsBijection
<1>6. IsFiniteSet(C) /\ Cardinality(C) = Cardinality(A)
  BY <1>4, <1>5, FS_Bijection
<1>7. Among(s, fn) = Cardinality(A) /\ Among(more, fn) = Cardinality(B) /\ Cardinality(A) \in Nat
  BY <1>4, FS_CardinalityType DEF Among
<1>8. CASE x.fn = fn
  <2>1. B = C \cup {1} /\ 1 \notin C
    BY <1>2, <1>8
  <2> HIDE DEF B, C
  <2>2. Cardinality(B) = Cardinality(A) + 1
    BY <1>6, <2>1, FS_AddElement
  <2> QED
    BY <1>3, <1>8, <1>7, <2>2 DEF more
<1>9. CASE x.fn # fn
  <2>1. B = C
    BY <1>2, <1>9
  <2>2. Cardinality(B) = Cardinality(A)
    BY <1>6, <2>1, Zenon
  <2> HIDE DEF A, B
  <2> QED
    BY <1>3, <1>9, <1>7, <2>2 DEF more
<1> QED
  BY <1>8, <1>9

(* The last token but one, and so every token that is not Eof, is followed *)
(* by another.                                                             *)
TokensOK(ts) == IsSeq(ts) /\ WellLexed(ts, ts[Len(ts)].offset.end)

(* Advance stays on the tokens, and passes every one but the last. *)
LEMMA NotLast ==
  ASSUME TokensOK(tokens), NEW i \in 0..(Len(tokens) - 1)
  PROVE  /\ Len(tokens) \in Nat /\ DOMAIN tokens = 1..Len(tokens)
         /\ Advance(i) \in 0..(Len(tokens) - 1)
         /\ Peek(i).tag # "Eof" => Advance(i) = i + 1 /\ i + 1 \in 0..(Len(tokens) - 1)
<1>1. Len(tokens) \in Nat /\ DOMAIN tokens = 1..Len(tokens)
  BY DEF TokensOK, IsSeq
<1>2. tokens[Len(tokens)].tag = "Eof"
  BY DEF TokensOK, WellLexed, Eof, Sign
<1>3. ASSUME Peek(i).tag # "Eof" PROVE i + 1 < Len(tokens)
  BY <1>1, <1>2, <1>3 DEF Peek
<1> QED
  BY <1>1, <1>3 DEF Advance

-----------------------------------------------------------------------------
(* Reading a primitive. *)

(* Between positions i and j stand only words and dashes. *)
Wordy(i, j) ==
  /\ i \in Nat /\ j \in 0..(Len(tokens) - 1) /\ i <= j
  /\ \A k \in (i + 1)..j : tokens[k].tag \in {"Word", "Dash"}

(* A primitive read from position i on is an error, or it ends behind      *)
(* words and dashes.                                                       *)
Outcome(r, i) ==
  \/ r.expr = {} /\ \E err : r.error = {err}
  \/ (\E e : r.expr = {e}) /\ r.error = {} /\ Wordy(i, r.pos)

(* A word or a dash more. *)
LEMMA WordyMore ==
  ASSUME TokensOK(tokens), NEW i, NEW j, Wordy(i, j), Peek(j).tag \in {"Word", "Dash"}
  PROVE  Wordy(i, Advance(j))
<1>1. i \in Nat /\ j \in 0..(Len(tokens) - 1) /\ i <= j
  BY DEF Wordy
<1>2. Advance(j) = j + 1 /\ j + 1 \in 0..(Len(tokens) - 1)
  BY <1>1, NotLast
<1>3. \A k \in (i + 1)..(j + 1) : k \in (i + 1)..j \/ k = j + 1
  BY <1>1
<1>4. tokens[j + 1].tag \in {"Word", "Dash"}
  BY DEF Peek
<1>5. \A k \in (i + 1)..(j + 1) : tokens[k].tag \in {"Word", "Dash"}
  BY <1>3, <1>4 DEF Wordy
<1> QED
  BY <1>1, <1>2, <1>5 DEF Wordy

(* The outcomes a reader is made of. *)
LEMMA FailsOutcome == ASSUME NEW i, NEW tag, NEW at PROVE Outcome(Fails(tag, at), i)
  BY DEF Outcome, Fails

(* A reader that is done has passed words and dashes only. *)
LEMMA ReadOutcome ==
  ASSUME NEW i, NEW j, NEW e, Wordy(i, j) PROVE Outcome(Read(j, e), i)
  BY DEF Outcome, Read

(* So has one that goes on behind a literal. *)
LEMMA TryOutcome ==
  ASSUME NEW i, NEW literal, NEW tag, NEW at, NEW rest, Outcome(rest, i)
  PROVE  Outcome(Try(literal, tag, at, rest), i)
  BY FailsOutcome DEF Try

(* So has one that goes on behind a word. *)
LEMMA WordOutcome ==
  ASSUME NEW i, NEW k, NEW rest, Peek(k).tag = "Word" => Outcome(rest, i)
  PROVE  Outcome(expect_word(k, rest), i)
  BY FailsOutcome DEF expect_word, Unexpected

(* So has one that goes on behind a dash. *)
LEMMA DashOutcome ==
  ASSUME NEW i, NEW k, NEW rest, Peek(k).tag = "Dash" => Outcome(rest, i)
  PROVE  Outcome(expect_dash(k, rest), i)
  BY FailsOutcome DEF expect_dash, Unexpected

(* A word at k, its literal, and the end of the primitive. *)
LEMMA LastWord ==
  ASSUME TokensOK(tokens), NEW i, NEW k, Wordy(i, k), NEW literal, NEW tag, NEW at, NEW e
  PROVE  Outcome(expect_word(k, Try(literal, tag, at, Read(Advance(k), e))), i)
<1> DEFINE rest == Try(literal, tag, at, Read(Advance(k), e))
<1>1. ASSUME Peek(k).tag = "Word" PROVE Outcome(rest, i)
  <2>1. Wordy(i, Advance(k))
    BY <1>1, WordyMore
  <2> QED
    BY <2>1, ReadOutcome, TryOutcome
<1> HIDE DEF rest
<1>2. Outcome(expect_word(k, rest), i)
  BY <1>1, WordOutcome
<1> QED
  BY <1>2 DEF rest

(* The optional words in front. *)
LEMMA PastWord ==
  ASSUME TokensOK(tokens), NEW i, NEW j, Wordy(i, j), NEW there \in BOOLEAN,
         there => Peek(j).tag = "Word"
  PROVE  Wordy(i, Past(j, there))
  BY WordyMore DEF Past

(* parse_primitive. *)
LEMMA PrimitiveOutcome ==
  ASSUME TokensOK(tokens), NEW i \in 0..(Len(tokens) - 1)
  PROVE  Outcome(parse_primitive(i), i)
<1> DEFINE proto == try_parse_proto(i)
           d == Past(i, proto # {})
           dir == try_parse_dir(d)
           t == Past(d, dir # {})
           v == Advance(t)
           h == Advance(Advance(v))
           Prim(j, type) == Read(j, Leaf([proto |-> proto, dir |-> dir, ty |-> type,
                                        offset |-> LeafOffset(i, j)]))
           ty == Peek(t).text.text
           AddrIn(allow_prefix) == The(parse_addr_literal(Peek(v).text, allow_prefix))
           AddrAt(allow_prefix, rest) ==
             expect_word(v, Try(parse_addr_literal(Peek(v).text, allow_prefix),
                                BadAddr(Peek(v).text), Peek(v).offset, rest))
           PortIn(j) == The(parse_port(Peek(j).text))
           PortAt(j, rest) ==
             expect_word(j, Try(parse_port(Peek(j).text), "InvalidPortNumber", Peek(j).offset, rest))
           Host == AddrAt(FALSE, Prim(Advance(v), [kind |-> "Host", addr |-> AddrIn(FALSE).addr]))
           Net == AddrAt(TRUE, Prim(Advance(v), [kind |-> "Net", addr |-> AddrIn(TRUE).addr,
                                                 prefix |-> AddrIn(TRUE).prefix]))
           Port == PortAt(v, Prim(Advance(v), [kind |-> "Port", lo |-> PortIn(v), hi |-> PortIn(v)]))
           High == IF PortIn(v) <= PortIn(h)
                   THEN Prim(Advance(h), [kind |-> "PortRange", lo |-> PortIn(v), hi |-> PortIn(h)])
                   ELSE Fails("InvalidPortRange", Span(StartAt(i), Peek(h).offset.end))
           PortRange == PortAt(v, expect_dash(Advance(v), PortAt(h, High)))
           Unknown == Fails("UnknownKeyword", Peek(t).offset)
           Other == Fails("UnexpectedToken", Peek(t).offset)
           type == CASE ty = "host" -> Host
                     [] ty = "net" -> Net
                     [] ty = "port" -> Port
                     [] ty = "portrange" -> PortRange
                     [] ty \in {"rarp", "sctp"} -> Unknown
                     [] OTHER -> Other
<1>1. parse_primitive(i) = expect_word(t, type)
  BY Zenon DEF parse_primitive
<1>2. Wordy(i, i)
  BY NotLast DEF Wordy
<1>3. proto # {} => Peek(i).tag = "Word"
  BY DEF try_parse_proto, IsWord
<1> HIDE DEF proto
<1>4. Wordy(i, d)
  BY <1>2, <1>3, PastWord
<1> HIDE DEF d
<1>5. dir # {} => Peek(d).tag = "Word"
  BY DEF try_parse_dir, IsWord
<1> HIDE DEF dir
<1>6. Wordy(i, t)
  BY <1>4, <1>5, PastWord
<1> HIDE DEF t
<1>7. ASSUME Peek(t).tag = "Word" PROVE Outcome(type, i)
  <2>1. Wordy(i, v)
    BY <1>6, <1>7, WordyMore
  <2> HIDE DEF v
  <2>2. Outcome(Host, i) /\ Outcome(Net, i) /\ Outcome(Port, i)
    BY <2>1, LastWord
  <2>3. Outcome(PortRange, i)
    <3>1. ASSUME Peek(v).tag = "Word", Peek(Advance(v)).tag = "Dash" PROVE Outcome(PortAt(h, High), i)
      <4>1. Wordy(i, h)
        BY <2>1, <3>1, WordyMore
      <4> HIDE DEF h
      <4>2. ASSUME Peek(h).tag = "Word" PROVE Outcome(High, i)
        <5>1. Wordy(i, Advance(h))
          BY <4>1, <4>2, WordyMore
        <5> QED
          BY <5>1, ReadOutcome, FailsOutcome
      <4> HIDE DEF High
      <4> QED
        BY <4>2, WordOutcome, TryOutcome
    <3> DEFINE rest == PortAt(h, High)
    <3> HIDE DEF h, High, rest
    <3>2. ASSUME Peek(v).tag = "Word" PROVE Outcome(expect_dash(Advance(v), rest), i)
      BY <3>1, <3>2, DashOutcome DEF rest
    <3> DEFINE dash == expect_dash(Advance(v), rest)
    <3> HIDE DEF dash
    <3>3. Outcome(PortAt(v, dash), i)
      BY <3>2, WordOutcome, TryOutcome DEF dash
    <3> QED
      BY <3>3 DEF dash, rest
  <2>4. Outcome(Unknown, i) /\ Outcome(Other, i)
    BY FailsOutcome
  <2> HIDE DEF Host, Net, Port, PortRange, Unknown, Other, ty
  <2> QED
    BY <2>2, <2>3, <2>4
<1> HIDE DEF type
<1>8. Outcome(expect_word(t, type), i)
  BY <1>7, WordOutcome
<1> QED
  BY <1>1, <1>8, Zenon

(* parse_ether_primitive, called where a word stands. *)
LEMMA EtherOutcome ==
  ASSUME TokensOK(tokens), NEW i \in 0..(Len(tokens) - 1), Peek(i).tag = "Word"
  PROVE  Outcome(parse_ether_primitive(i), i)
<1> DEFINE k == Advance(i)
           v == Advance(k)
           m == Past(v, IsWord(v, "host"))
           Ends(j) == Span(StartAt(i), EndBefore(j))
           kw == Peek(k).text.text
           HostAt(j, dir) ==
             MacAt(j, Read(Advance(j), EtherLeaf(
               [kind |-> "Host", mac |-> The(parse_mac_literal(Peek(j).text)), dir |-> dir,
                offset |-> Ends(Advance(j))])))
           Bare(word, j) == Read(j, EtherLeaf([kind |-> KindOf[word], offset |-> Ends(j)]))
           n == parse_ethertype(Peek(v).text)
           Host == HostAt(v, {})
           DirHost == HostAt(m, {DirWords[kw]})
           Proto == expect_word(v, Try(n, "InvalidEtherType", Peek(v).offset,
                      Read(Advance(v), EtherLeaf([kind |-> "Proto", ethertype |-> The(n),
                                                  offset |-> Ends(Advance(v))]))))
           Kind == Bare(kw, v)
           Other == Fails("UnexpectedToken", Peek(k).offset)
           rest == CASE kw = "host" -> Host
                     [] kw \in DOMAIN DirWords -> DirHost
                     [] kw = "proto" -> Proto
                     [] kw \in EtherKinds -> Kind
                     [] OTHER -> Other
           Alone == Bare(Peek(i).text.text, k)
<1>1. parse_ether_primitive(i)
        = IF Peek(i).text.text \in EtherKinds THEN Alone ELSE expect_word(k, rest)
  BY Zenon DEF parse_ether_primitive
<1>2. Wordy(i, i)
  BY NotLast DEF Wordy
<1>3. Wordy(i, k)
  BY <1>2, WordyMore
<1> HIDE DEF k
<1>4. Outcome(Alone, i)
  BY <1>3, ReadOutcome
<1>5. ASSUME Peek(k).tag = "Word" PROVE Outcome(rest, i)
  <2>1. Wordy(i, v)
    BY <1>3, <1>5, WordyMore
  <2> HIDE DEF v
  <2>2. Wordy(i, m)
    BY <2>1, PastWord DEF IsWord
  <2> HIDE DEF m
  <2>3. Outcome(Host, i) /\ Outcome(DirHost, i)
    BY <2>1, <2>2, LastWord DEF MacAt
  <2>4. Outcome(Proto, i)
    BY <2>1, LastWord
  <2>5. Outcome(Kind, i) /\ Outcome(Other, i)
    BY <2>1, ReadOutcome, FailsOutcome
  <2> HIDE DEF Host, DirHost, Proto, Kind, Other, kw
  <2> QED
    BY <2>3, <2>4, <2>5
<1> HIDE DEF rest, Alone
<1>6. Outcome(expect_word(k, rest), i)
  BY <1>5, WordOutcome
<1> QED
  BY <1>1, <1>4, <1>6, Zenon

(* parse_primary's choice between the two. *)
LEMMA HereOutcome ==
  ASSUME TokensOK(tokens), pos \in 0..(Len(tokens) - 1), Peek(pos).tag = "Word"
  PROVE  Outcome(ReadHere, pos)
<1>1. Outcome(parse_primitive(pos), pos) /\ Outcome(parse_ether_primitive(pos), pos)
  BY PrimitiveOutcome, EtherOutcome
<1> QED
  BY <1>1, Zenon DEF ReadHere

-----------------------------------------------------------------------------
(* Counting tokens. *)

(* The tokens with a tag among the first j. *)
Tagged(ts, j, tag) == Cardinality({i \in 1..j : ts[i].tag = tag})

(* Passing a token counts it. *)
LEMMA PassOne ==
  ASSUME NEW j \in Nat, NEW tag
  PROVE  /\ Tagged(tokens, j, tag) \in Nat
         /\ Tagged(tokens, j + 1, tag) = Tagged(tokens, j, tag) + (IF Peek(j).tag = tag THEN 1 ELSE 0)
<1> DEFINE A == {i \in 1..j : tokens[i].tag = tag}
           B == {i \in 1..(j + 1) : tokens[i].tag = tag}
<1>1. IsFiniteSet(1..j)
  BY FS_Interval
<1>2. IsFiniteSet(A) /\ Cardinality(A) \in Nat
  BY <1>1, FS_Subset, FS_CardinalityType
<1>3. CASE Peek(j).tag = tag
  <2>1. B = A \cup {j + 1} /\ j + 1 \notin A
    BY <1>3 DEF Peek
  <2> HIDE DEF A, B
  <2>2. Cardinality(B) = Cardinality(A) + 1
    BY <1>2, <2>1, FS_AddElement
  <2> QED
    BY <1>2, <1>3, <2>2 DEF Tagged, A, B
<1>4. CASE Peek(j).tag # tag
  <2>1. B = A
    BY <1>4 DEF Peek
  <2>2. Cardinality(B) = Cardinality(A)
    BY <2>1, Zenon
  <2>3. Tagged(tokens, j, tag) = Cardinality(A) /\ Tagged(tokens, j + 1, tag) = Cardinality(B)
    BY DEF Tagged
  <2> HIDE DEF A, B
  <2> QED
    BY <1>2, <1>4, <2>2, <2>3
<1> QED
  BY <1>3, <1>4

(* A primitive has no parentheses in it. *)
LEMMA PassWordy ==
  ASSUME NEW i, NEW j, Wordy(i, j), NEW tag \in {"LParen", "RParen"}
  PROVE  Tagged(tokens, j, tag) = Tagged(tokens, i, tag)
<1>1. i \in Nat /\ j \in Nat /\ i <= j /\ \A k \in (i + 1)..j : tokens[k].tag # tag
  BY DEF Wordy
<1>2. {k \in 1..j : tokens[k].tag = tag} = {k \in 1..i : tokens[k].tag = tag}
  BY <1>1
<1> QED
  BY <1>2, Zenon DEF Tagged

-----------------------------------------------------------------------------
(* The shape of the stack. *)

(* Which function calls which. *)
MayCall(caller, fn) ==
  \/ fn = "parse_or" /\ caller \in {"parse", "parse_primary"}
  \/ fn = "parse_and" /\ caller = "parse_or"
  \/ fn \in {"parse_unary", "parse_primary"} /\ caller \in {"parse_and", "parse_unary"}

(* The call that the k-th waiting one returns to; for k = 0, the one that  *)
(* is waiting for the call being made.                                     *)
Caller(calls, k) == IF k < Len(calls) THEN calls[k + 1].fn ELSE "parse"

(* Each waiting call is one that its caller makes. *)
Shape(calls) == \A k \in DOMAIN calls : MayCall(Caller(calls, k), calls[k].fn)

(* How often each level waits, by the innermost waiting call: a group adds *)
(* one of each, and the levels of the innermost group are entered in       *)
(* order.                                                                  *)
InBalance(calls) ==
  LET o == Among(calls, "parse_or")
      a == Among(calls, "parse_and")
      p == Among(calls, "parse_primary")
      inner == Caller(calls, 0)
  IN  /\ inner \in {"parse", "parse_primary"} => o = p /\ a = p
      /\ inner = "parse_or" => o = p + 1 /\ a = p
      /\ inner \in {"parse_and", "parse_unary"} => o = p + 1 /\ a = p + 1

(* The functions that call each other. *)
ParseFns == {"parse_or", "parse_and", "parse_unary", "parse_primary"}

(* The inductive invariant. *)
ParseInv ==
  /\ TokensOK(tokens)
  /\ pos \in 0..(Len(tokens) - 1)
  /\ IsSeq(stack) /\ Shape(stack) /\ InBalance(stack)
  /\ call = "return" \/ (call \in ParseFns /\ MayCall(Caller(stack, 0), call))
  /\ (value # {}) <=> (call = "return")
  /\ \A e, f \in value : e = f
  /\ parsed \in {"called", "parsing", "ok", "error"}
  /\ (parseError # {}) <=> (parsed = "error")
  /\ Among(stack, "parse_primary") + Tagged(tokens, pos, "RParen") = Tagged(tokens, pos, "LParen")

(* No waiting call. *)
LEMMA NoneWaiting ==
  /\ IsSeq(<<>>) /\ Shape(<<>>) /\ InBalance(<<>>) /\ Caller(<<>>, 0) = "parse"
  /\ \A fn : Among(<<>>, fn) = 0
<1>1. IsSeq(<<>>) /\ Shape(<<>>) /\ Caller(<<>>, 0) = "parse"
  BY DEF IsSeq, Shape, Caller
<1>2. ASSUME NEW fn PROVE Among(<<>>, fn) = 0
  <2>1. {i \in DOMAIN <<>> : <<>>[i].fn = fn} = {}
    OBVIOUS
  <2> QED
    BY <2>1, FS_EmptySet, Zenon DEF Among
<1>3. InBalance(<<>>)
  BY <1>1, <1>2 DEF InBalance
<1> QED
  BY <1>1, <1>2, <1>3

(* A call that starts to wait. *)
LEMMA Waits ==
  ASSUME NEW s, IsSeq(s), Shape(s), InBalance(s), NEW x, MayCall(Caller(s, 0), x.fn)
  PROVE  /\ IsSeq(<<x>> \o s) /\ Shape(<<x>> \o s) /\ InBalance(<<x>> \o s)
         /\ Caller(<<x>> \o s, 0) = x.fn
         /\ \A fn : Among(<<x>> \o s, fn) = Among(s, fn) + (IF x.fn = fn THEN 1 ELSE 0)
         /\ \A fn : Among(s, fn) \in Nat
<1> DEFINE more == <<x>> \o s
           n == Len(s)
           S == {s[i] : i \in DOMAIN s} \cup {x}
<1>1. s \in Seq(S) /\ x \in S
  BY DEF IsSeq
<1> HIDE DEF S
<1>2. /\ n \in Nat /\ DOMAIN s = 1..n /\ DOMAIN more = 1..(n + 1) /\ Len(more) = n + 1
      /\ more[1] = x /\ \A i \in 1..n : more[i + 1] = s[i]
  BY <1>1
<1>3. /\ IsSeq(more)
      /\ \A fn : Among(more, fn) = Among(s, fn) + (IF x.fn = fn THEN 1 ELSE 0)
      /\ \A fn : Among(s, fn) \in Nat
  BY OneMoreFrame, AmongNat
<1> HIDE DEF more
<1>4. Caller(more, 0) = x.fn
  BY <1>2 DEF Caller
<1>5. ASSUME NEW k \in 0..n PROVE Caller(more, k + 1) = Caller(s, k)
  BY <1>2 DEF Caller
<1>6. ASSUME NEW k \in DOMAIN more PROVE MayCall(Caller(more, k), more[k].fn)
  <2>1. CASE k = 1
    <3>1. 0 \in 0..n /\ 0 + 1 = 1
      BY <1>2
    <3>2. Caller(more, 1) = Caller(s, 0)
      BY <1>5, <3>1
    <3> QED
      BY <1>2, <2>1, <3>2
  <2>2. CASE k # 1
    <3>1. k - 1 \in 1..n /\ k - 1 \in 0..n /\ (k - 1) + 1 = k
      BY <1>2, <2>2
    <3>2. Caller(more, k) = Caller(s, k - 1) /\ more[k] = s[k - 1]
      BY <1>2, <1>5, <3>1
    <3> QED
      BY <1>2, <3>1, <3>2 DEF Shape
  <2> QED
    BY <2>1, <2>2
<1>7. InBalance(more)
  <2> DEFINE o == Among(s, "parse_or")
             a == Among(s, "parse_and")
             p == Among(s, "parse_primary")
             inner == Caller(s, 0)
  <2>1. /\ inner \in {"parse", "parse_primary"} => o = p /\ a = p
        /\ inner = "parse_or" => o = p + 1 /\ a = p
        /\ inner \in {"parse_and", "parse_unary"} => o = p + 1 /\ a = p + 1
        /\ o \in Nat /\ a \in Nat /\ p \in Nat
    BY <1>3 DEF InBalance
  <2>2. /\ Among(more, "parse_or") = o + (IF x.fn = "parse_or" THEN 1 ELSE 0)
        /\ Among(more, "parse_and") = a + (IF x.fn = "parse_and" THEN 1 ELSE 0)
        /\ Among(more, "parse_primary") = p + (IF x.fn = "parse_primary" THEN 1 ELSE 0)
    BY <1>3
  <2>3. MayCall(inner, x.fn)
    OBVIOUS
  <2> HIDE DEF o, a, p, inner
  <2> QED
    BY <1>4, <2>1, <2>2, <2>3 DEF InBalance, MayCall
<1> QED
  BY <1>3, <1>4, <1>6, <1>7 DEF Shape, more

(* A waiting call that goes on. *)
LEMMA GoesOn ==
  ASSUME NEW s, IsSeq(s), Shape(s), InBalance(s), s # <<>>
  PROVE  /\ IsSeq(Tail(s)) /\ Shape(Tail(s)) /\ InBalance(Tail(s))
         /\ Caller(s, 0) = Head(s).fn /\ MayCall(Caller(Tail(s), 0), Head(s).fn)
         /\ s = <<Head(s)>> \o Tail(s)
         /\ \A fn : Among(s, fn) = Among(Tail(s), fn) + (IF Head(s).fn = fn THEN 1 ELSE 0)
         /\ \A fn : Among(Tail(s), fn) \in Nat
<1> DEFINE rest == Tail(s)
           x == Head(s)
           n == Len(rest)
           S == {s[i] : i \in DOMAIN s}
<1>1. s \in Seq(S)
  BY DEF IsSeq
<1> HIDE DEF S
<1>2. /\ n \in Nat /\ rest \in Seq(S) /\ DOMAIN rest = 1..n /\ DOMAIN s = 1..(n + 1) /\ Len(s) = n + 1
      /\ s[1] = x /\ \A i \in 1..n : rest[i] = s[i + 1]
  BY <1>1
<1>3. s = <<x>> \o rest
  BY <1>1
<1>4. IsSeq(rest)
  BY <1>2, OwnElements
<1> HIDE DEF rest, x
<1>5. /\ \A fn : Among(<<x>> \o rest, fn) = Among(rest, fn) + (IF x.fn = fn THEN 1 ELSE 0)
      /\ \A fn : Among(rest, fn) \in Nat
  BY <1>4, OneMoreFrame, AmongNat
<1>6. \A fn : Among(s, fn) = Among(rest, fn) + (IF x.fn = fn THEN 1 ELSE 0)
  BY <1>3, <1>5, Zenon
<1>7. Caller(s, 0) = x.fn
  BY <1>2 DEF Caller
<1>8. ASSUME NEW k \in 0..n PROVE Caller(rest, k) = Caller(s, k + 1)
  BY <1>2 DEF Caller
<1>9. MayCall(Caller(rest, 0), x.fn)
  <2>1. Caller(rest, 0) = Caller(s, 1)
    BY <1>2, <1>8
  <2>2. MayCall(Caller(s, 1), s[1].fn)
    BY <1>2 DEF Shape
  <2> QED
    BY <1>2, <2>1, <2>2, Zenon
<1>10. ASSUME NEW k \in DOMAIN rest PROVE MayCall(Caller(rest, k), rest[k].fn)
  <2>1. k + 1 \in DOMAIN s /\ k \in 0..n
    BY <1>2
  <2>2. MayCall(Caller(s, k + 1), s[k + 1].fn)
    BY <2>1 DEF Shape
  <2>3. rest[k] = s[k + 1] /\ Caller(rest, k) = Caller(s, k + 1)
    BY <1>2, <1>8, <2>1
  <2> QED
    BY <2>2, <2>3, Zenon
<1>11. InBalance(rest)
  <2> DEFINE o == Among(rest, "parse_or")
             a == Among(rest, "parse_and")
             p == Among(rest, "parse_primary")
             inner == Caller(rest, 0)
  <2>1. /\ Among(s, "parse_or") = o + (IF x.fn = "parse_or" THEN 1 ELSE 0)
        /\ Among(s, "parse_and") = a + (IF x.fn = "parse_and" THEN 1 ELSE 0)
        /\ Among(s, "parse_primary") = p + (IF x.fn = "parse_primary" THEN 1 ELSE 0)
        /\ o \in Nat /\ a \in Nat /\ p \in Nat
    BY <1>5, <1>6
  <2>2. MayCall(inner, x.fn)
    BY <1>9
  <2>3. /\ o = Among(rest, "parse_or") /\ a = Among(rest, "parse_and")
        /\ p = Among(rest, "parse_primary") /\ inner = Caller(rest, 0)
    OBVIOUS
  <2> HIDE DEF o, a, p, inner
  <2> QED
    BY <1>7, <2>1, <2>2, <2>3 DEF InBalance, MayCall
<1> QED
  BY <1>3, <1>4, <1>5, <1>6, <1>7, <1>9, <1>10, <1>11 DEF Shape, rest, x

-----------------------------------------------------------------------------
(* The steps. *)

(* It holds at the first call. *)
LEMMA ParseInitInv == ParseInit => ParseInv
<1> SUFFICES ASSUME ParseInit PROVE ParseInv
  OBVIOUS
<1>1. /\ tokens \in Inputs /\ pos = 0 /\ stack = <<>> /\ call = "parse_or" /\ value = {}
      /\ parsed = "called" /\ parseError = {}
  BY DEF ParseInit
<1>2. TokensOK(tokens)
  BY <1>1, ParserAssumption DEF TokensOK, IsSeq
<1>3. Len(tokens) \in Nat /\ Len(tokens) # 0
  BY <1>2 DEF TokensOK, IsSeq, WellLexed
<1>4. /\ IsSeq(stack) /\ Shape(stack) /\ InBalance(stack) /\ Caller(stack, 0) = "parse"
      /\ Among(stack, "parse_primary") = 0
  BY <1>1, NoneWaiting, Zenon
<1>5. Tagged(tokens, 0, "RParen") = 0 /\ Tagged(tokens, 0, "LParen") = 0
  <2>1. \A tag : {i \in 1..0 : tokens[i].tag = tag} = {}
    OBVIOUS
  <2> QED
    BY <2>1, FS_EmptySet, Zenon DEF Tagged
<1> QED
  BY <1>1, <1>2, <1>3, <1>4, <1>5 DEF ParseInv, ParseFns, MayCall

(* A step that leaves position, stack and value alone. *)
LEMMA StaysInv ==
  ASSUME ParseInv, UNCHANGED <<tokens, pos, stack, call, value>>,
         parsed' \in {"called", "parsing", "ok", "error"},
         (parseError' # {}) <=> (parsed' = "error")
  PROVE  ParseInv'
<1>1. tokens' = tokens /\ pos' = pos /\ stack' = stack /\ call' = call /\ value' = value
  OBVIOUS
<1>2. /\ TokensOK(tokens') /\ pos' \in 0..(Len(tokens') - 1)
      /\ IsSeq(stack') /\ Shape(stack') /\ InBalance(stack')
      /\ call' = "return" \/ (call' \in ParseFns /\ MayCall(Caller(stack', 0), call'))
      /\ (value' # {}) <=> (call' = "return")
      /\ \A e, f \in value' : e = f
      /\ Among(stack', "parse_primary") + Tagged(tokens', pos', "RParen") = Tagged(tokens', pos', "LParen")
  BY <1>1, Zenon DEF ParseInv
<1> QED
  BY <1>2 DEF ParseInv

(* An error. *)
LEMMA FailInv == ASSUME ParseInv, NEW tag, NEW at, Fail(tag, at) PROVE ParseInv'
  BY StaysInv DEF Fail

(* What a step that moves on has to show. *)
LEMMA MovesInv ==
  ASSUME ParseInv, Parsing, pos' \in 0..(Len(tokens) - 1),
         IsSeq(stack'), Shape(stack'), InBalance(stack'),
         call' = "return" \/ (call' \in ParseFns /\ MayCall(Caller(stack', 0), call')),
         (value' # {}) <=> (call' = "return"), \A e, f \in value' : e = f,
         Among(stack', "parse_primary") + Tagged(tokens, pos', "RParen") = Tagged(tokens, pos', "LParen")
  PROVE  ParseInv'
<1>1. tokens' = tokens /\ parsed' = parsed /\ parseError' = parseError
  BY DEF Parsing
<1>2. TokensOK(tokens') /\ parsed' \in {"called", "parsing", "ok", "error"}
      /\ ((parseError' # {}) <=> (parsed' = "error"))
  BY <1>1, Zenon DEF ParseInv
<1> QED
  BY <1>1, <1>2 DEF ParseInv

(* The counts of a step that neither passes a parenthesis nor changes the  *)
(* number of groups waiting.                                               *)
LEMMA PassesWords ==
  ASSUME ParseInv, NEW j, Wordy(pos, j), NEW calls,
         Among(calls, "parse_primary") = Among(stack, "parse_primary")
  PROVE  Among(calls, "parse_primary") + Tagged(tokens, j, "RParen") = Tagged(tokens, j, "LParen")
<1>1. Tagged(tokens, j, "RParen") = Tagged(tokens, pos, "RParen")
      /\ Tagged(tokens, j, "LParen") = Tagged(tokens, pos, "LParen")
  BY PassWordy
<1>2. Among(stack, "parse_primary") + Tagged(tokens, pos, "RParen") = Tagged(tokens, pos, "LParen")
  BY DEF ParseInv
<1> QED
  BY <1>1, <1>2

(* Nothing passed. *)
LEMMA WordyNone == ParseInv => Wordy(pos, pos)
  BY NotLast DEF ParseInv, Wordy

(* parse_or and parse_and call for their first operand. *)
LEMMA CallLevelInv == ASSUME ParseInv, CallLevel PROVE ParseInv'
<1>1. PICK fn \in DOMAIN Levels :
        /\ Calls(fn) /\ stack' = <<Waiting(fn, {})>> \o stack
        /\ call' = Levels[fn].operand /\ pos' = pos /\ value' = value /\ Parsing
  BY DEF CallLevel
<1> DEFINE x == Waiting(fn, {})
<1>2. fn \in {"parse_or", "parse_and"} /\ x.fn = fn /\ call = fn
  BY <1>1 DEF Levels, Waiting, Calls
<1>3. /\ fn = "parse_or" => Levels[fn].operand = "parse_and"
      /\ fn = "parse_and" => Levels[fn].operand = "parse_unary"
  BY DEF Levels
<1> HIDE DEF x
<1>4. /\ IsSeq(stack) /\ Shape(stack) /\ InBalance(stack) /\ MayCall(Caller(stack, 0), x.fn)
      /\ value = {} /\ pos \in 0..(Len(tokens) - 1)
  BY <1>2 DEF ParseInv
<1>5. /\ IsSeq(<<x>> \o stack) /\ Shape(<<x>> \o stack) /\ InBalance(<<x>> \o stack)
      /\ Caller(<<x>> \o stack, 0) = fn
      /\ \A g : Among(<<x>> \o stack, g) = Among(stack, g) + (IF fn = g THEN 1 ELSE 0)
      /\ \A g : Among(stack, g) \in Nat
  BY <1>2, <1>4, Waits
<1>6. /\ Among(<<x>> \o stack, "parse_primary") = Among(stack, "parse_primary") + 0
      /\ Among(stack, "parse_primary") \in Nat
  BY <1>2, <1>5
<1> DEFINE calls == <<x>> \o stack
<1>7. calls = stack'
  BY <1>1 DEF x
<1> HIDE DEF calls
<1>8. Among(calls, "parse_primary") + Tagged(tokens, pos, "RParen") = Tagged(tokens, pos, "LParen")
  <2>1. Among(calls, "parse_primary") = Among(stack, "parse_primary")
    BY <1>6 DEF calls
  <2> QED
    BY <2>1, WordyNone, PassesWords
<1>9. call' \in ParseFns /\ MayCall(Caller(calls, 0), call') /\ call' # "return"
  BY <1>1, <1>2, <1>3, <1>5 DEF ParseFns, MayCall, calls
<1> QED
  BY <1>1, <1>4, <1>5, <1>7, <1>8, <1>9, MovesInv DEF calls

(* A `not` is passed, and parse_unary calls itself. *)
LEMMA CallNotInv == ASSUME ParseInv, CallNot PROVE ParseInv'
<1> DEFINE x == [fn |-> "parse_unary", start |-> StartAt(pos)]
           calls == <<x>> \o stack
<1>1. /\ call = "parse_unary" /\ IsWord(pos, "not") /\ stack' = calls /\ pos' = Advance(pos)
      /\ call' = call /\ value' = value /\ Parsing
  BY DEF CallNot, Calls
<1>2. x.fn = "parse_unary"
  OBVIOUS
<1> HIDE DEF x
<1>3. /\ IsSeq(stack) /\ Shape(stack) /\ InBalance(stack) /\ MayCall(Caller(stack, 0), x.fn)
      /\ value = {} /\ pos \in 0..(Len(tokens) - 1) /\ TokensOK(tokens)
      /\ Among(stack, "parse_primary") + Tagged(tokens, pos, "RParen") = Tagged(tokens, pos, "LParen")
  BY <1>1, <1>2 DEF ParseInv
<1>4. /\ IsSeq(calls) /\ Shape(calls) /\ InBalance(calls) /\ Caller(calls, 0) = "parse_unary"
      /\ \A fn : Among(calls, fn) = Among(stack, fn) + (IF "parse_unary" = fn THEN 1 ELSE 0)
      /\ \A fn : Among(stack, fn) \in Nat
  BY <1>2, <1>3, Waits
<1>5. /\ Among(calls, "parse_primary") = Among(stack, "parse_primary") + 0
      /\ Among(stack, "parse_primary") \in Nat
  BY <1>4
<1>6. Peek(pos).tag = "Word"
  BY <1>1 DEF IsWord
<1>7. Advance(pos) = pos + 1 /\ pos + 1 \in 0..(Len(tokens) - 1) /\ pos \in Nat
  BY <1>3, <1>6, NotLast
<1>8. /\ Tagged(tokens, pos + 1, "RParen") = Tagged(tokens, pos, "RParen") + 0
      /\ Tagged(tokens, pos + 1, "LParen") = Tagged(tokens, pos, "LParen") + 0
      /\ Tagged(tokens, pos, "LParen") \in Nat /\ Tagged(tokens, pos, "RParen") \in Nat
  BY <1>6, <1>7, PassOne
<1> HIDE DEF calls
<1>9. Among(calls, "parse_primary") + Tagged(tokens, pos + 1, "RParen") = Tagged(tokens, pos + 1, "LParen")
  BY <1>3, <1>5, <1>8
<1>10. call' \in ParseFns /\ MayCall(Caller(calls, 0), call') /\ call' # "return"
  BY <1>1, <1>4 DEF ParseFns, MayCall
<1> QED
  BY <1>1, <1>3, <1>4, <1>7, <1>9, <1>10, MovesInv

(* parse_unary hands on to parse_primary. *)
LEMMA CallPrimaryInv == ASSUME ParseInv, CallPrimary PROVE ParseInv'
<1>1. /\ call = "parse_unary" /\ call' = "parse_primary" /\ pos' = pos /\ stack' = stack
      /\ value' = value /\ Parsing
  BY DEF CallPrimary, Calls
<1>2. /\ IsSeq(stack) /\ Shape(stack) /\ InBalance(stack) /\ MayCall(Caller(stack, 0), "parse_unary")
      /\ value = {} /\ pos \in 0..(Len(tokens) - 1)
      /\ Among(stack, "parse_primary") + Tagged(tokens, pos, "RParen") = Tagged(tokens, pos, "LParen")
  BY <1>1 DEF ParseInv
<1>3. MayCall(Caller(stack, 0), "parse_primary") /\ "parse_primary" \in ParseFns
  BY <1>2 DEF MayCall, ParseFns
<1> QED
  BY <1>1, <1>2, <1>3, MovesInv

(* A parenthesis is passed, and parse_or begins anew. *)
LEMMA OpenGroupInv == ASSUME ParseInv, OpenGroup PROVE ParseInv'
<1> DEFINE x == [fn |-> "parse_primary"]
           calls == <<x>> \o stack
<1>1. /\ call = "parse_primary" /\ Peek(pos).tag = "LParen" /\ stack' = calls /\ pos' = Advance(pos)
      /\ call' = "parse_or" /\ value' = value /\ Parsing
  BY DEF OpenGroup, Calls
<1>2. x.fn = "parse_primary"
  OBVIOUS
<1> HIDE DEF x
<1>3. /\ IsSeq(stack) /\ Shape(stack) /\ InBalance(stack) /\ MayCall(Caller(stack, 0), x.fn)
      /\ value = {} /\ pos \in 0..(Len(tokens) - 1) /\ TokensOK(tokens)
      /\ Among(stack, "parse_primary") + Tagged(tokens, pos, "RParen") = Tagged(tokens, pos, "LParen")
  BY <1>1, <1>2 DEF ParseInv
<1>4. /\ IsSeq(calls) /\ Shape(calls) /\ InBalance(calls) /\ Caller(calls, 0) = "parse_primary"
      /\ \A fn : Among(calls, fn) = Among(stack, fn) + (IF "parse_primary" = fn THEN 1 ELSE 0)
      /\ \A fn : Among(stack, fn) \in Nat
  BY <1>2, <1>3, Waits
<1>5. /\ Among(calls, "parse_primary") = Among(stack, "parse_primary") + 1
      /\ Among(stack, "parse_primary") \in Nat
  BY <1>4
<1>6. Advance(pos) = pos + 1 /\ pos + 1 \in 0..(Len(tokens) - 1) /\ pos \in Nat /\ pos <= pos + 1
  BY <1>1, <1>3, NotLast
<1>7. /\ Tagged(tokens, pos + 1, "RParen") = Tagged(tokens, pos, "RParen") + 0
      /\ Tagged(tokens, pos + 1, "LParen") = Tagged(tokens, pos, "LParen") + 1
      /\ Tagged(tokens, pos, "LParen") \in Nat /\ Tagged(tokens, pos, "RParen") \in Nat
  BY <1>1, <1>6, PassOne
<1> HIDE DEF calls
<1>8. Among(calls, "parse_primary") + Tagged(tokens, pos + 1, "RParen") = Tagged(tokens, pos + 1, "LParen")
  BY <1>3, <1>5, <1>7
<1>9. call' \in ParseFns /\ MayCall(Caller(calls, 0), call') /\ call' # "return"
  BY <1>1, <1>4 DEF ParseFns, MayCall
<1> QED
  BY <1>1, <1>3, <1>4, <1>6, <1>8, <1>9, MovesInv

(* A step that returns has the same to show of the calls that are left. *)
LEMMA ReturnInv ==
  ASSUME ParseInv, NEW e, NEW j \in 0..(Len(tokens) - 1), NEW rest, Return(e, j, rest),
         IsSeq(rest), Shape(rest), InBalance(rest),
         Among(rest, "parse_primary") + Tagged(tokens, j, "RParen") = Tagged(tokens, j, "LParen")
  PROVE  ParseInv'
<1>1. call' = "return" /\ value' = {e} /\ pos' = j /\ stack' = rest /\ Parsing
  BY DEF Return
<1>2. value' # {} /\ \A f, g \in value' : f = g
  BY <1>1
<1>3. /\ IsSeq(stack') /\ Shape(stack') /\ InBalance(stack') /\ pos' \in 0..(Len(tokens) - 1)
      /\ Among(stack', "parse_primary") + Tagged(tokens, pos', "RParen") = Tagged(tokens, pos', "LParen")
  BY <1>1, Zenon
<1> QED
  BY <1>1, <1>2, <1>3, MovesInv

(* A primitive is read, or it is an error. *)
LEMMA ReadLeafInv == ASSUME ParseInv, ReadLeaf PROVE ParseInv'
<1> DEFINE r == ReadHere
<1>1. /\ Peek(pos).tag = "Word"
      /\ \/ \E e \in r.expr : Return(e, r.pos, stack)
         \/ \E err \in r.error : Fail(err.tag, err.offset)
  BY DEF ReadLeaf
<1>2. /\ TokensOK(tokens) /\ pos \in 0..(Len(tokens) - 1)
      /\ IsSeq(stack) /\ Shape(stack) /\ InBalance(stack)
  BY DEF ParseInv
<1>3. Outcome(r, pos)
  BY <1>1, <1>2, HereOutcome
<1> HIDE DEF r
<1>4. CASE \E err \in r.error : Fail(err.tag, err.offset)
  BY <1>4, FailInv
<1>5. CASE \E e \in r.expr : Return(e, r.pos, stack)
  <2>1. PICK e \in r.expr : Return(e, r.pos, stack)
    BY <1>5
  <2>2. Wordy(pos, r.pos)
    BY <1>3, <2>1 DEF Outcome
  <2>3. r.pos \in 0..(Len(tokens) - 1)
    BY <2>2 DEF Wordy
  <2>4. Among(stack, "parse_primary") + Tagged(tokens, r.pos, "RParen") = Tagged(tokens, r.pos, "LParen")
    BY <2>2, PassesWords
  <2> QED
    BY <1>2, <2>1, <2>3, <2>4, ReturnInv
<1> QED
  BY <1>1, <1>4, <1>5

(* A token that begins no primary is an error. *)
LEMMA NoPrimaryInv == ASSUME ParseInv, NoPrimary PROVE ParseInv'
  BY FailInv DEF NoPrimary

(* The innermost waiting call of a stack that is not empty. *)
LEMMA Innermost ==
  ASSUME ParseInv, NEW fn, Returns(fn)
  PROVE  /\ IsSeq(stack) /\ Shape(stack) /\ InBalance(stack) /\ Head(stack).fn = fn
         /\ IsSeq(Tail(stack)) /\ Shape(Tail(stack)) /\ InBalance(Tail(stack))
         /\ MayCall(Caller(Tail(stack), 0), fn)
         /\ \A g : Among(stack, g) = Among(Tail(stack), g) + (IF fn = g THEN 1 ELSE 0)
         /\ \A g : Among(Tail(stack), g) \in Nat
         /\ pos \in 0..(Len(tokens) - 1) /\ TokensOK(tokens) /\ pos \in Nat
<1>1. /\ IsSeq(stack) /\ Shape(stack) /\ InBalance(stack) /\ stack # <<>> /\ Head(stack).fn = fn
      /\ pos \in 0..(Len(tokens) - 1) /\ TokensOK(tokens)
  BY DEF ParseInv, Returns
<1>2. pos \in Nat
  BY <1>1, NotLast
<1> QED
  BY <1>1, <1>2, GoesOn

(* The loop of a level waits for another operand, behind its operator. *)
LEMMA NextOperandInv == ASSUME ParseInv, NextOperand PROVE ParseInv'
<1>1. PICK fn \in DOMAIN Levels, e \in value :
        /\ Returns(fn) /\ IsWord(pos, Levels[fn].word)
        /\ stack' = <<Waiting(fn, {Joined(Head(stack), e)})>> \o Tail(stack)
        /\ pos' = Advance(pos) /\ call' = Levels[fn].operand /\ value' = {} /\ Parsing
  BY DEF NextOperand
<1> DEFINE x == Waiting(fn, {Joined(Head(stack), e)})
           rest == Tail(stack)
           calls == <<x>> \o rest
<1>2. fn \in {"parse_or", "parse_and"} /\ x.fn = fn
  BY DEF Levels, Waiting
<1>3. /\ fn = "parse_or" => Levels[fn].operand = "parse_and"
      /\ fn = "parse_and" => Levels[fn].operand = "parse_unary"
  BY DEF Levels
<1>4. stack' = calls
  BY <1>1
<1>5. /\ IsSeq(rest) /\ Shape(rest) /\ InBalance(rest) /\ MayCall(Caller(rest, 0), fn)
      /\ \A g : Among(stack, g) = Among(rest, g) + (IF fn = g THEN 1 ELSE 0)
      /\ \A g : Among(rest, g) \in Nat
      /\ TokensOK(tokens)
  BY <1>1, Innermost
<1> HIDE DEF x, rest
<1>6. /\ IsSeq(calls) /\ Shape(calls) /\ InBalance(calls) /\ Caller(calls, 0) = fn
      /\ \A g : Among(calls, g) = Among(rest, g) + (IF fn = g THEN 1 ELSE 0)
  BY <1>2, <1>5, Waits
<1> HIDE DEF calls
<1>7. Peek(pos).tag \in {"Word", "Dash"}
  BY <1>1 DEF IsWord
<1>8. Wordy(pos, Advance(pos))
  BY <1>5, <1>7, WordyNone, WordyMore
<1>9. Advance(pos) \in 0..(Len(tokens) - 1)
  BY <1>8 DEF Wordy
<1>10. Among(calls, "parse_primary") = Among(stack, "parse_primary")
  BY <1>5, <1>6
<1>11. Among(calls, "parse_primary") + Tagged(tokens, Advance(pos), "RParen")
         = Tagged(tokens, Advance(pos), "LParen")
  BY <1>8, <1>10, PassesWords
<1>12. call' \in ParseFns /\ MayCall(Caller(calls, 0), call') /\ call' # "return"
  BY <1>1, <1>2, <1>3, <1>6 DEF ParseFns, MayCall
<1>13. /\ IsSeq(stack') /\ Shape(stack') /\ InBalance(stack') /\ pos' \in 0..(Len(tokens) - 1)
       /\ Among(stack', "parse_primary") + Tagged(tokens, pos', "RParen") = Tagged(tokens, pos', "LParen")
       /\ MayCall(Caller(stack', 0), call')
  BY <1>1, <1>4, <1>6, <1>9, <1>11, <1>12, Zenon
<1> QED
  BY <1>1, <1>12, <1>13, MovesInv

(* What is left when a call that is no group returns where it stands. *)
LEMMA DoneInv ==
  ASSUME ParseInv, NEW fn \in {"parse_or", "parse_and", "parse_unary"}, Returns(fn), NEW e,
         Return(e, pos, Tail(stack))
  PROVE  ParseInv'
<1> DEFINE rest == Tail(stack)
<1>1. /\ IsSeq(rest) /\ Shape(rest) /\ InBalance(rest) /\ pos \in 0..(Len(tokens) - 1)
      /\ \A g : Among(stack, g) = Among(rest, g) + (IF fn = g THEN 1 ELSE 0)
      /\ \A g : Among(rest, g) \in Nat
  BY Innermost
<1> HIDE DEF rest
<1>2. Among(stack, "parse_primary") = Among(rest, "parse_primary") + 0 /\ Among(rest, "parse_primary") \in Nat
  BY <1>1
<1>3. Among(rest, "parse_primary") = Among(stack, "parse_primary")
  BY <1>2
<1>4. Among(rest, "parse_primary") + Tagged(tokens, pos, "RParen") = Tagged(tokens, pos, "LParen")
  BY <1>3, WordyNone, PassesWords
<1> QED
  BY <1>1, <1>4, ReturnInv DEF rest

(* A level without another operator, and a `not` with its operand. *)
LEMMA LevelDoneInv == ASSUME ParseInv, LevelDone PROVE ParseInv'
<1>1. PICK fn \in DOMAIN Levels, e \in value :
        Returns(fn) /\ Return(Joined(Head(stack), e), pos, Tail(stack))
  BY DEF LevelDone
<1>2. fn \in {"parse_or", "parse_and", "parse_unary"}
  BY DEF Levels
<1> QED
  BY <1>1, <1>2, DoneInv

(* The operand of a `not` has been read. *)
LEMMA NotDoneInv == ASSUME ParseInv, NotDone PROVE ParseInv'
<1>1. Returns("parse_unary")
  BY DEF NotDone
<1>2. PICK e \in value :
        Return(NotAt(e, Span(Head(stack).start, offset_from_expr(e).end)), pos, Tail(stack))
  BY DEF NotDone
<1> QED
  BY <1>1, <1>2, DoneInv

(* A `)` is one more passed and one group less. *)
LEMMA CloseGroupInv == ASSUME ParseInv, CloseGroup PROVE ParseInv'
<1> DEFINE rest == Tail(stack)
<1>1. Returns("parse_primary") /\ Peek(pos).tag = "RParen"
  BY DEF CloseGroup
<1>2. PICK e \in value : Return(e, Advance(pos), rest)
  BY DEF CloseGroup
<1>3. /\ IsSeq(rest) /\ Shape(rest) /\ InBalance(rest) /\ pos \in 0..(Len(tokens) - 1)
      /\ TokensOK(tokens) /\ pos \in Nat
      /\ \A g : Among(stack, g) = Among(rest, g) + (IF "parse_primary" = g THEN 1 ELSE 0)
      /\ \A g : Among(rest, g) \in Nat
  BY <1>1, Innermost
<1> HIDE DEF rest
<1>4. Among(stack, "parse_primary") = Among(rest, "parse_primary") + 1 /\ Among(rest, "parse_primary") \in Nat
  BY <1>3
<1>5. Advance(pos) = pos + 1 /\ pos + 1 \in 0..(Len(tokens) - 1) /\ pos <= pos + 1 /\ pos + 1 \in Nat
  BY <1>1, <1>3, NotLast
<1>6. /\ Tagged(tokens, pos + 1, "RParen") = Tagged(tokens, pos, "RParen") + 1
      /\ Tagged(tokens, pos + 1, "LParen") = Tagged(tokens, pos, "LParen") + 0
      /\ Tagged(tokens, pos, "LParen") \in Nat /\ Tagged(tokens, pos, "RParen") \in Nat
  BY <1>1, <1>3, PassOne
<1>7. Among(stack, "parse_primary") + Tagged(tokens, pos, "RParen") = Tagged(tokens, pos, "LParen")
  BY DEF ParseInv
<1>8. Among(rest, "parse_primary") + Tagged(tokens, pos + 1, "RParen") = Tagged(tokens, pos + 1, "LParen")
  BY <1>4, <1>6, <1>7
<1>9. Return(e, pos + 1, rest)
  BY <1>2, <1>5, Zenon
<1> QED
  BY <1>3, <1>5, <1>8, <1>9, ReturnInv

(* The beginning and the end of `parse`, and a group that is not closed. *)
LEMMA EndsInv ==
  ASSUME ParseInv, ParseEmpty \/ ParseBegin \/ NotClosed \/ expect_eof PROVE ParseInv'
<1>1. CASE ParseEmpty
  BY <1>1, FailInv DEF ParseEmpty
<1>2. CASE ParseBegin
  BY <1>2, StaysInv DEF ParseBegin, ParseInv
<1>3. CASE NotClosed
  BY <1>3, FailInv DEF NotClosed
<1>4. CASE expect_eof
  <2>1. CASE Fail("UnexpectedToken", Peek(pos).offset)
    BY <2>1, FailInv
  <2>2. CASE parsed' = "ok" /\ UNCHANGED <<tokens, pos, stack, call, value, parseError>> /\ AtEnd
    BY <2>2, StaysInv DEF ParseInv, AtEnd
  <2> QED
    BY <1>4, <2>1, <2>2 DEF expect_eof
<1> QED
  BY <1>1, <1>2, <1>3, <1>4

(* Every step keeps the invariant. *)
LEMMA ParseNextInv == ParseInv /\ [ParseNext]_parseVars => ParseInv'
<1> SUFFICES ASSUME ParseInv, [ParseNext]_parseVars PROVE ParseInv'
  OBVIOUS
<1>1. CASE ParseEmpty \/ ParseBegin \/ NotClosed \/ expect_eof
  BY <1>1, EndsInv
<1>2. CASE CallLevel
  BY <1>2, CallLevelInv
<1>3. CASE CallNot
  BY <1>3, CallNotInv
<1>4. CASE CallPrimary
  BY <1>4, CallPrimaryInv
<1>5. CASE OpenGroup
  BY <1>5, OpenGroupInv
<1>6. CASE ReadLeaf
  BY <1>6, ReadLeafInv
<1>7. CASE NoPrimary
  BY <1>7, NoPrimaryInv
<1>8. CASE NextOperand
  BY <1>8, NextOperandInv
<1>9. CASE LevelDone
  BY <1>9, LevelDoneInv
<1>10. CASE NotDone
  BY <1>10, NotDoneInv
<1>11. CASE CloseGroup
  BY <1>11, CloseGroupInv
<1>12. CASE UNCHANGED parseVars
  BY <1>12, StaysInv DEF parseVars, ParseInv
<1> QED
  BY <1>1, <1>2, <1>3, <1>4, <1>5, <1>6, <1>7, <1>8, <1>9, <1>10, <1>11, <1>12 DEF ParseNext

-----------------------------------------------------------------------------
(* The properties. *)

(* The invariant says what the properties say. *)
LEMMA ParseInvType == ParseInv => ParseTypeOK
<1> SUFFICES ASSUME ParseInv PROVE ParseTypeOK
  OBVIOUS
<1>1. \A i \in DOMAIN stack : MayCall(Caller(stack, i), stack[i].fn)
  BY DEF ParseInv, Shape
<1>2. \A i \in DOMAIN stack :
        stack[i].fn \in {"parse_or", "parse_and", "parse_unary", "parse_primary"}
  BY <1>1 DEF MayCall
<1> QED
  BY <1>2 DEF ParseInv, ParseTypeOK, ParseFns

(* The inductive invariant of the parser holds for every token sequence:   *)
(* the waiting calls of parse_or, parse_and, parse_unary and parse_primary *)
(* stand in an order in which these functions call each other.             *)
THEOREM ParseInvariant == ParseSpec => []ParseInv
  BY ParseInitInv, ParseNextInv, PTL DEF ParseSpec

(* For every token sequence the lexer can produce, peek and advance stay   *)
(* inside it and an expression is at hand exactly when one is returned.    *)
THEOREM ParseTypeCorrect == ParseSpec => []ParseTypeOK
  BY ParseInvariant, ParseInvType, PTL

-----------------------------------------------------------------------------
(* What a literal is read as. *)

(* The element of an Option that is not empty. *)
LEMMA TheIn == ASSUME NEW S, S # {} PROVE The(S) \in S
  BY DEF The

(* The bits of an octet are those of a byte: 2^8 is more than it holds. *)
LEMMA OctetBits == ASSUME NEW n \in 0..255 PROVE Bits(n) \in Byte
<1>1. \A i \in 8..30 :
        \/ i = 8 \/ i = 9 \/ i = 10 \/ i = 11 \/ i = 12 \/ i = 13 \/ i = 14 \/ i = 15 \/ i = 16
        \/ i = 17 \/ i = 18 \/ i = 19 \/ i = 20 \/ i = 21 \/ i = 22 \/ i = 23 \/ i = 24 \/ i = 25
        \/ i = 26 \/ i = 27 \/ i = 28 \/ i = 29 \/ i = 30
  OBVIOUS
<1> DEFINE Large(p) == p \in Nat /\ p >= 256
<1>2. /\ Large(2^8) /\ Large(2^9) /\ Large(2^10) /\ Large(2^11) /\ Large(2^12) /\ Large(2^13)
      /\ Large(2^14) /\ Large(2^15) /\ Large(2^16) /\ Large(2^17) /\ Large(2^18) /\ Large(2^19)
      /\ Large(2^20) /\ Large(2^21) /\ Large(2^22) /\ Large(2^23) /\ Large(2^24) /\ Large(2^25)
      /\ Large(2^26) /\ Large(2^27) /\ Large(2^28) /\ Large(2^29) /\ Large(2^30)
  OBVIOUS
<1> HIDE DEF Large
<1>3. \A i \in 8..30 : Large(2^i)
  BY <1>1, <1>2, ZenonT(60)
<1>4. ASSUME NEW i \in Bits(n) PROVE i \in 0..7
  <2>1. i \in 0..30 /\ (n \div 2^i) % 2 = 1
    BY DEF Bits
  <2>2. ASSUME i \in 8..30 PROVE FALSE
    <3> DEFINE p == 2^i
    <3>1. Large(p) /\ (n \div p) % 2 = 1
      BY <1>3, <2>1, <2>2
    <3> HIDE DEF p
    <3>2. n \div p = 0
      BY <3>1 DEF Large
    <3> QED
      BY <3>1, <3>2
  <2> QED
    BY <2>1, <2>2
<1> QED
  BY <1>4 DEF Byte

(* A number that fits is one of the numbers up to the limit. *)
LEMMA Fitting ==
  ASSUME NEW S \in SUBSET Nat, NEW max \in Nat, NEW n \in FitsIn(max, S) PROVE n \in 0..max
<1>1. n \in S /\ n <= max
  BY DEF FitsIn
<1>2. n \in Nat
  BY <1>1
<1> QED
  BY <1>1, <1>2

(* A u16 is a number up to its limit. *)
LEMMA U16Read == ASSUME NEW S \in SUBSET Nat, NEW n \in ParseU16(S) PROVE n \in Port16 /\ n \in Nat
<1>1. U16Max \in Nat
  BY DEF U16Max
<1>2. n \in FitsIn(U16Max, S)
  BY DEF ParseU16
<1>3. n \in 0..U16Max
  BY <1>1, <1>2, Fitting
<1> QED
  BY <1>1, <1>3 DEF Port16

(* A port is a u16. *)
LEMMA PortRead ==
  ASSUME NEW w, IsText(w), NEW n \in parse_port(w) PROVE n \in Port16 /\ n \in Nat
<1>1. w.number \in SUBSET Nat /\ n \in ParseU16(w.number)
  BY DEF IsText, parse_port
<1> QED
  BY <1>1, U16Read

(* An entry of a sequence of sets of numbers is a set of numbers. *)
LEMMA Component ==
  ASSUME NEW parts \in Seq(SUBSET Nat), NEW i \in 1..Len(parts) PROVE parts[i] \in SUBSET Nat
  OBVIOUS

(* Four octets are a word of 32 bits. *)
LEMMA OctetsRead ==
  ASSUME NEW parts \in Seq(SUBSET Nat), NEW bits \in parse_ipv4_octets(parts)
  PROVE  bits \subseteq 0..31
<1> DEFINE octet(i) == {v \in ParseU16(parts[i]) : v <= 255}
           four == U32(Bits(The(octet(1))), Bits(The(octet(2))), Bits(The(octet(3))), Bits(The(octet(4))))
<1>1. parse_ipv4_octets(parts) = IF Len(parts) = 4 /\ \A i \in 1..4 : octet(i) # {} THEN {four} ELSE {}
  BY Zenon DEF parse_ipv4_octets
<1>2. Len(parts) = 4 /\ (\A i \in 1..4 : octet(i) # {}) /\ bits = four
  BY <1>1
<1>3. ASSUME NEW i \in 1..4 PROVE Bits(The(octet(i))) \in Byte
  <2>1. parts[i] \in SUBSET Nat
    BY <1>2, Component
  <2>2. The(octet(i)) \in octet(i)
    <3>1. octet(i) # {}
      BY <1>2
    <3> HIDE DEF octet
    <3> QED
      BY <3>1, TheIn
  <2>3. ASSUME NEW v \in octet(i) PROVE v \in 0..255
    <3>1. v \in ParseU16(parts[i]) /\ v <= 255
      OBVIOUS
    <3>2. v \in Nat
      BY <2>1, <3>1, U16Read
    <3> QED
      BY <3>1, <3>2
  <2>4. The(octet(i)) \in 0..255
    BY <2>2, <2>3
  <2> QED
    BY <2>4, OctetBits
<1> DEFINE b(i) == Bits(The(octet(i)))
<1>4. b(1) \in Byte /\ b(2) \in Byte /\ b(3) \in Byte /\ b(4) \in Byte
  BY <1>3
<1>5. bits = U32(b(1), b(2), b(3), b(4))
  BY <1>2
<1> HIDE DEF b
<1> QED
  <2>1. ASSUME NEW s \in Byte, NEW n \in {8, 16, 24} PROVE Up(s, n) \subseteq 0..31
    <3>1. ASSUME NEW k \in s PROVE k + n \in 0..31
      BY DEF Byte
    <3> QED
      BY <3>1 DEF Up
  <2>2. Up(b(1), 24) \subseteq 0..31 /\ Up(b(2), 16) \subseteq 0..31 /\ Up(b(3), 8) \subseteq 0..31
    BY <1>4, <2>1
  <2>3. b(4) \subseteq 0..31
    BY <1>4 DEF Byte
  <2> QED
    BY <1>5, <2>2, <2>3, Zenon DEF U32

(* A prefix is one of the lengths up to the limit. *)
LEMMA PrefixRead ==
  ASSUME NEW w, IsText(w), NEW allow_prefix, NEW max \in Nat, NEW p \in PrefixPart(w, allow_prefix, max)
  PROVE  p \in Option(0..max)
<1>1. CASE w.after = {}
  BY <1>1 DEF PrefixPart, Option
<1>2. CASE w.after # {}
  <2>1. The(w.after) \subseteq Nat
    BY <1>2, TheIn DEF IsText
  <2>2. \E n \in {n \in ParseU8(The(w.after)) : n <= max} : p = {n}
    BY <1>2 DEF PrefixPart
  <2> QED
    BY <2>1, <2>2 DEF ParseU8, FitsIn, Option
<1> QED
  BY <1>1, <1>2

(* An address has the bits of its version, and a prefix within them. *)
LEMMA AddrRead ==
  ASSUME NEW w, IsText(w), NEW allow_prefix, NEW a \in parse_addr_literal(w, allow_prefix)
  PROVE  IsAddr(a.addr) /\ a.prefix \in Option(0..(IF a.addr.version = 4 THEN 32 ELSE 128))
<1>1. CASE w.colon
  <2>1. PICK bits \in w.v6, p \in PrefixPart(w, allow_prefix, 128) : a = [addr |-> V6(bits), prefix |-> p]
    BY <1>1 DEF parse_addr_literal, parse_ipv6_literal
  <2>2. bits \subseteq 0..127
    BY DEF IsText
  <2>3. p \in Option(0..128)
    BY PrefixRead
  <2>4. a.addr.version = 6 /\ a.addr.bits = bits /\ a.prefix = p
    BY <2>1 DEF V6
  <2>5. (IF a.addr.version = 4 THEN 32 ELSE 128) = 128
    BY <2>4
  <2>6. IsAddr(a.addr)
    BY <2>2, <2>4 DEF IsAddr
  <2> QED
    BY <2>3, <2>4, <2>5, <2>6, Zenon
<1>2. CASE ~w.colon
  <2>1. PICK bits \in parse_ipv4_octets(w.before), p \in PrefixPart(w, allow_prefix, 32) :
          a = [addr |-> V4(bits), prefix |-> p]
    BY <1>2 DEF parse_addr_literal
  <2>2. bits \subseteq 0..31
    <3>1. w.before \in Seq(SUBSET Nat)
      BY DEF IsText
    <3> QED
      BY <3>1, OctetsRead
  <2>3. p \in Option(0..32)
    BY PrefixRead
  <2>4. a.addr.version = 4 /\ a.addr.bits = bits /\ a.prefix = p
    BY <2>1 DEF V4
  <2>5. (IF a.addr.version = 4 THEN 32 ELSE 128) = 32
    BY <2>4
  <2>6. IsAddr(a.addr)
    BY <2>2, <2>4 DEF IsAddr
  <2> QED
    BY <2>3, <2>4, <2>5, <2>6, Zenon
<1> QED
  BY <1>1, <1>2

(* A MAC address is six bytes. *)
LEMMA MacRead == ASSUME NEW w, IsText(w), NEW m \in parse_mac_literal(w) PROVE m \in [1..6 -> Byte]
<1>1. /\ Len(w.parts) = 6 /\ \A i \in 1..6 : w.parts[i].len = 2 /\ ParseU8(w.parts[i].hex) # {}
      /\ m = [i \in 1..6 |-> Bits(The(w.parts[i].hex))]
  BY DEF parse_mac_literal
<1>2. ASSUME NEW i \in 1..6 PROVE Bits(The(w.parts[i].hex)) \in Byte
  <2> DEFINE Part == [len : Nat, hex : SUBSET Nat]
             parts == w.parts
  <2>1. i \in DOMAIN w.parts /\ w.parts[i].hex \in SUBSET Nat
    <3>1. parts \in Seq(Part)
      BY <1>1 DEF IsText
    <3>2. Len(parts) = 6
      BY <1>1
    <3>3. i \in DOMAIN parts /\ parts[i] \in Part
      <4> HIDE DEF Part, parts
      <4>1. DOMAIN parts = 1..Len(parts) /\ \A k \in 1..Len(parts) : parts[k] \in Part
        BY <3>1
      <4>2. i \in 1..Len(parts)
        BY <3>2
      <4> QED
        BY <4>1, <4>2
    <3> QED
      BY <3>3
  <2>2. \A x, y \in w.parts[i].hex : x = y
    BY <2>1 DEF IsText, AtMostOne
  <2>3. PICK n \in w.parts[i].hex : n <= 255
    BY <1>1 DEF ParseU8, FitsIn
  <2>4. The(w.parts[i].hex) = n
    BY <2>2, TheIn
  <2> QED
    BY <2>1, <2>3, <2>4, OctetBits
<1> QED
  BY <1>1, <1>2

(* An EtherType is a u16, also one that is named. *)
LEMMA EtherTypeRead ==
  ASSUME NEW w, IsText(w), NEW n \in parse_ethertype(w) PROVE n \in Port16
<1>1. CASE w.lower \in DOMAIN EtherTypeNames
  <2>1. parse_ethertype(w) = {EtherTypeNames[w.lower]}
    BY <1>1 DEF parse_ethertype
  <2>2. \A k \in DOMAIN EtherTypeNames : EtherTypeNames[k] \in {2048, 34525, 2054, 32821}
    BY DEF EtherTypeNames
  <2>3. n \in {2048, 34525, 2054, 32821}
    BY <1>1, <2>1, <2>2
  <2>4. n \in Nat /\ n <= U16Max
    BY <2>3 DEF U16Max
  <2>5. U16Max \in Nat
    BY DEF U16Max
  <2> QED
    BY <2>4, <2>5 DEF Port16
<1>2. CASE w.lower \notin DOMAIN EtherTypeNames /\ w.hex # {}
  <2>1. The(w.hex) \in SUBSET Nat
    BY <1>2, TheIn DEF IsText
  <2>2. n \in ParseU16(The(w.hex))
    BY <1>2 DEF parse_ethertype
  <2> QED
    BY <2>1, <2>2, U16Read
<1>3. CASE w.lower \notin DOMAIN EtherTypeNames /\ w.hex = {}
  <2>1. w.number \in SUBSET Nat /\ n \in ParseU16(w.number)
    BY <1>3 DEF parse_ethertype, IsText
  <2> QED
    BY <2>1, U16Read
<1> QED
  BY <1>1, <1>2, <1>3

-----------------------------------------------------------------------------
(* What tokens write a primitive, said without a parser. *)

(* An optional keyword at i: its value, and the position behind it. *)
WritesOptional(t, words, i, v, j) ==
  \/ v = {} /\ j = i
  \/ \E w \in DOMAIN words : WordAt(t, i, w) /\ v = {words[w]} /\ j = i + 1

(* `host`, `net`, `port` or `portrange` at k and its value. *)
WritesType(t, k, j, ty) ==
  \/ /\ WordAt(t, k, "host") /\ TextAt(t, k + 1) /\ j = k + 2
     /\ \E a \in parse_addr_literal(TokenAt(t, k + 1).text, FALSE) : ty = [kind |-> "Host", addr |-> a.addr]
  \/ /\ WordAt(t, k, "net") /\ TextAt(t, k + 1) /\ j = k + 2
     /\ \E a \in parse_addr_literal(TokenAt(t, k + 1).text, TRUE) :
          ty = [kind |-> "Net", addr |-> a.addr, prefix |-> a.prefix]
  \/ /\ WordAt(t, k, "port") /\ TextAt(t, k + 1) /\ j = k + 2
     /\ \E n \in parse_port(TokenAt(t, k + 1).text) : ty = [kind |-> "Port", lo |-> n, hi |-> n]
  \/ /\ WordAt(t, k, "portrange") /\ TextAt(t, k + 1) /\ SignAt(t, k + 2, "Dash")
     /\ TextAt(t, k + 3) /\ j = k + 4
     /\ \E m \in parse_port(TokenAt(t, k + 1).text), n \in parse_port(TokenAt(t, k + 3).text) :
          m <= n /\ ty = [kind |-> "PortRange", lo |-> m, hi |-> n]

(* [proto] [dir] type value, from position i up to the one before j. *)
WritesPrimitive(t, i, j, e) ==
  \E proto, dir, d, k, ty :
    /\ WritesOptional(t, ProtoWords, i, proto, d)
    /\ WritesOptional(t, DirWords, d, dir, k)
    /\ WritesType(t, k, j, ty)
    /\ e = Leaf([proto |-> proto, dir |-> dir, ty |-> ty, offset |-> PlaceOf(t, i, j)])

(* A MAC address at m, behind `ether` at i and `host`, a direction or both. *)
WritesHost(t, i, j, m, dir, e) ==
  /\ WordAt(t, i, "ether") /\ TextAt(t, m) /\ j = m + 1
  /\ \E mac \in parse_mac_literal(TokenAt(t, m).text) :
       e = EtherLeaf([kind |-> "Host", mac |-> mac, dir |-> dir, offset |-> PlaceOf(t, i, j)])

(* `ether` with what may follow it, `broadcast` or `multicast`. *)
WritesEther(t, i, j, e) ==
  \/ WordAt(t, i + 1, "host") /\ WritesHost(t, i, j, i + 2, {}, e)
  \/ \E w \in DOMAIN DirWords :
       /\ WordAt(t, i + 1, w)
       /\ \/ WritesHost(t, i, j, i + 2, {DirWords[w]}, e)
          \/ WordAt(t, i + 2, "host") /\ WritesHost(t, i, j, i + 3, {DirWords[w]}, e)
  \/ /\ WordAt(t, i, "ether") /\ WordAt(t, i + 1, "proto") /\ TextAt(t, i + 2) /\ j = i + 3
     /\ \E n \in parse_ethertype(TokenAt(t, i + 2).text) :
          e = EtherLeaf([kind |-> "Proto", ethertype |-> n, offset |-> PlaceOf(t, i, j)])
  \/ \E w \in EtherKinds :
       /\ \/ WordAt(t, i, w) /\ j = i + 1
          \/ WordAt(t, i, "ether") /\ WordAt(t, i + 1, w) /\ j = i + 2
       /\ e = EtherLeaf([kind |-> KindOf[w], offset |-> PlaceOf(t, i, j)])

WritesLeaf(t, i, j, e) == WritesPrimitive(t, i, j, e) \/ WritesEther(t, i, j, e)

-----------------------------------------------------------------------------
(* The readers read what is written. *)

(* The tokens parse is called with, and what is known of one of them. *)
LEMMA InputTokens ==
  ASSUME tokens \in Inputs
  PROVE  /\ TokensOK(tokens)
         /\ \A i \in 0..(Len(tokens) - 1) :
              /\ Peek(i) = TokenAt(tokens, i)
              /\ Peek(i).offset.start \in Nat /\ Peek(i).offset.end \in Nat
              /\ Peek(i).tag = "Word" => IsText(Peek(i).text)
<1>1. TokensOK(tokens)
  BY ParserAssumption DEF TokensOK, IsSeq
<1>2. \A i \in DOMAIN tokens :
        tokens[i].offset \in Offset /\ (tokens[i].tag = "Word" => IsText(tokens[i].text))
  BY ParserAssumption
<1>3. Len(tokens) \in Nat /\ DOMAIN tokens = 1..Len(tokens)
  BY <1>1 DEF TokensOK, IsSeq
<1>4. ASSUME NEW i \in 0..(Len(tokens) - 1)
      PROVE  /\ Peek(i) = TokenAt(tokens, i)
             /\ Peek(i).offset.start \in Nat /\ Peek(i).offset.end \in Nat
             /\ Peek(i).tag = "Word" => IsText(Peek(i).text)
  <2>1. i + 1 \in DOMAIN tokens
    BY <1>3
  <2>2. Peek(i).offset \in Offset /\ (Peek(i).tag = "Word" => IsText(Peek(i).text))
    BY <1>2, <2>1 DEF Peek
  <2> QED
    BY <2>2 DEF Peek, TokenAt, Offset
<1> QED
  BY <1>1, <1>4

(* The tokens as the parser and as the grammar looks at them. *)
LEMMA InputWords ==
  ASSUME tokens \in Inputs, NEW i \in 0..(Len(tokens) - 1)
  PROVE  /\ \A tag : SignAt(tokens, i, tag) <=> Peek(i).tag = tag
         /\ TextAt(tokens, i) <=> Peek(i).tag = "Word"
         /\ \A w : WordAt(tokens, i, w) <=> IsWord(i, w)
<1>1. i < Len(tokens)
  BY InputTokens, NotLast
<1>2. Peek(i) = TokenAt(tokens, i)
  BY InputTokens
<1> QED
  BY <1>1, <1>2 DEF SignAt, TextAt, WordAt, IsWord

(* The place of a primitive that ends before position j. *)
LEMMA PlaceRead ==
  ASSUME tokens \in Inputs, NEW i \in 0..(Len(tokens) - 1), NEW j \in 0..(Len(tokens) - 1), j # 0
  PROVE  Span(StartAt(i), EndBefore(j)) = PlaceOf(tokens, i, j) /\ PlaceOf(tokens, i, j) \in Offset
<1>1. Len(tokens) \in Nat
  BY InputTokens, NotLast
<1>2. j - 1 \in 0..(Len(tokens) - 1)
  BY <1>1
<1>3. /\ Peek(i) = TokenAt(tokens, i) /\ Peek(i).offset.start \in Nat
      /\ Peek(j - 1) = TokenAt(tokens, j - 1) /\ Peek(j - 1).offset.end \in Nat
  BY <1>2, InputTokens
<1>4. StartAt(i) = Peek(i).offset.start /\ EndBefore(j) = Peek(j - 1).offset.end
  BY DEF StartAt, EndBefore
<1> QED
  BY <1>3, <1>4 DEF PlaceOf, Span, Offset

(* The expression of a reader is written where it was read, and fits. *)
Spelled(r, i) == \A e \in r.expr : WritesLeaf(tokens, i, r.pos, e) /\ LeafFits(e)

(* Nothing is read on an error. *)
LEMMA FailsSpelled == ASSUME NEW i, NEW tag, NEW at PROVE Spelled(Fails(tag, at), i)
  BY DEF Spelled, Fails

(* The end of a reader. *)
LEMMA ReadSpelled ==
  ASSUME NEW i, NEW j, NEW e, WritesLeaf(tokens, i, j, e), LeafFits(e) PROVE Spelled(Read(j, e), i)
  BY DEF Spelled, Read

(* A reader that goes on has found what it looked for. *)
LEMMA TrySpelled ==
  ASSUME NEW i, NEW literal, NEW tag, NEW at, NEW rest, literal # {} => Spelled(rest, i)
  PROVE  Spelled(Try(literal, tag, at, rest), i)
  BY FailsSpelled DEF Try

(* A word. *)
LEMMA WordSpelled ==
  ASSUME NEW i, NEW k, NEW rest, Peek(k).tag = "Word" => Spelled(rest, i)
  PROVE  Spelled(expect_word(k, rest), i)
  BY FailsSpelled DEF expect_word, Unexpected

(* A dash. *)
LEMMA DashSpelled ==
  ASSUME NEW i, NEW k, NEW rest, Peek(k).tag = "Dash" => Spelled(rest, i)
  PROVE  Spelled(expect_dash(k, rest), i)
  BY FailsSpelled DEF expect_dash, Unexpected

(* What try_parse_proto and try_parse_dir look up. *)
KeywordHere(words, i) == {words[w] : w \in {w \in DOMAIN words : IsWord(i, w)}}

(* A keyword of a table, or none. *)
LEMMA KeywordRead ==
  ASSUME tokens \in Inputs, NEW i \in 0..(Len(tokens) - 1), NEW words, NEW tags,
         \A w \in DOMAIN words : words[w] \in tags
  PROVE  /\ WritesOptional(tokens, words, i, KeywordHere(words, i), Past(i, KeywordHere(words, i) # {}))
         /\ KeywordHere(words, i) # {} => Peek(i).tag = "Word"
         /\ KeywordHere(words, i) \in Option(tags)
<1> DEFINE v == KeywordHere(words, i)
<1>1. Peek(i) = TokenAt(tokens, i)
  BY InputTokens
<1>2. CASE \E w \in DOMAIN words : IsWord(i, w)
  <2>1. PICK w \in DOMAIN words : IsWord(i, w)
    BY <1>2
  <2>2. Peek(i).tag = "Word" /\ \A u \in DOMAIN words : IsWord(i, u) <=> u = w
    BY <2>1 DEF IsWord
  <2>3. v = {words[w]}
    BY <2>2 DEF KeywordHere
  <2> HIDE DEF v
  <2>4. Past(i, v # {}) = i + 1
    BY <2>2, <2>3, InputTokens, NotLast DEF Past
  <2>5. WordAt(tokens, i, w)
    BY <1>1, <2>1, InputWords
  <2>6. /\ WritesOptional(tokens, words, i, v, Past(i, v # {})) /\ v \in Option(tags)
        /\ v # {} => Peek(i).tag = "Word"
    BY <2>2, <2>3, <2>4, <2>5, Zenon DEF WritesOptional, Option
  <2> QED
    BY <2>6 DEF v
<1>3. CASE ~\E w \in DOMAIN words : IsWord(i, w)
  <2>1. v = {}
    BY <1>3 DEF KeywordHere
  <2> HIDE DEF v
  <2>2. Past(i, v # {}) = i
    BY <2>1 DEF Past
  <2>3. /\ WritesOptional(tokens, words, i, v, Past(i, v # {})) /\ v \in Option(tags)
        /\ v # {} => Peek(i).tag = "Word"
    BY <2>1, <2>2, Zenon DEF WritesOptional, Option
  <2> QED
    BY <2>3 DEF v
<1> QED
  BY <1>2, <1>3

(* Behind a word or a dash stands another token. *)
LEMMA NextPosition ==
  ASSUME tokens \in Inputs, NEW k \in 0..(Len(tokens) - 1), Peek(k).tag \in {"Word", "Dash"}
  PROVE  Advance(k) = k + 1 /\ k + 1 \in 0..(Len(tokens) - 1)
  BY InputTokens, NotLast

(* parse_primitive from the type word on, behind what stands before it. *)
LEMMA TypeSpelled ==
  ASSUME tokens \in Inputs, NEW i \in 0..(Len(tokens) - 1),
         NEW proto \in Option(ProtoTag), NEW dir \in Option(DirTag), NEW d, NEW k \in 0..(Len(tokens) - 1),
         WritesOptional(tokens, ProtoWords, i, proto, d), WritesOptional(tokens, DirWords, d, dir, k),
         NEW j \in 0..(Len(tokens) - 1), j # 0, NEW ty, WritesType(tokens, k, j, ty), IsPrimType(ty)
  PROVE  Spelled(Read(j, Leaf([proto |-> proto, dir |-> dir, ty |-> ty, offset |-> LeafOffset(i, j)])), i)
<1> DEFINE p == [proto |-> proto, dir |-> dir, ty |-> ty, offset |-> LeafOffset(i, j)]
<1>1. LeafOffset(i, j) = PlaceOf(tokens, i, j) /\ LeafOffset(i, j) \in Offset
  BY PlaceRead DEF LeafOffset
<1>2. WritesPrimitive(tokens, i, j, Leaf(p))
  BY <1>1, Zenon DEF WritesPrimitive
<1>3. IsPrimitive(p)
  BY <1>1 DEF IsPrimitive
<1> HIDE DEF p
<1>4. LeafFits(Leaf(p))
  BY <1>3 DEF LeafFits, Leaf
<1>5. WritesLeaf(tokens, i, j, Leaf(p))
  BY <1>2 DEF WritesLeaf
<1>6. Spelled(Read(j, Leaf(p)), i)
  BY <1>4, <1>5, ReadSpelled
<1> QED
  BY <1>6 DEF p

(* A port at position v. *)
LEMMA PortAtRead ==
  ASSUME tokens \in Inputs, NEW v \in 0..(Len(tokens) - 1), Peek(v).tag = "Word",
         parse_port(Peek(v).text) # {}
  PROVE  LET n == The(parse_port(Peek(v).text))
         IN  /\ n \in parse_port(TokenAt(tokens, v).text)
             /\ n \in Port16 /\ n \in Nat
<1>1. Peek(v) = TokenAt(tokens, v) /\ IsText(Peek(v).text)
  BY InputTokens
<1> QED
  BY <1>1, TheIn, PortRead

(* The four types. *)
LEMMA HostWritten ==
  ASSUME tokens \in Inputs, NEW k \in 0..(Len(tokens) - 1), NEW v \in 0..(Len(tokens) - 1), v = k + 1,
         IsWord(k, "host"), Peek(v).tag = "Word", parse_addr_literal(Peek(v).text, FALSE) # {}
  PROVE  LET ty == [kind |-> "Host", addr |-> The(parse_addr_literal(Peek(v).text, FALSE)).addr]
         IN  WritesType(tokens, k, v + 1, ty) /\ IsPrimType(ty)
<1> DEFINE a == The(parse_addr_literal(Peek(v).text, FALSE))
           ty == [kind |-> "Host", addr |-> a.addr]
<1>1. Peek(v) = TokenAt(tokens, v) /\ IsText(Peek(v).text) /\ Peek(k) = TokenAt(tokens, k)
  BY InputTokens
<1>2. a \in parse_addr_literal(Peek(v).text, FALSE)
  BY TheIn
<1> HIDE DEF a
<1>3. IsAddr(a.addr)
  BY <1>1, <1>2, AddrRead
<1>4. IsPrimType(ty)
  BY <1>3 DEF IsPrimType
<1>5. WordAt(tokens, k, "host") /\ TextAt(tokens, k + 1) /\ v + 1 = k + 2
  BY <1>1, InputWords
<1>6. a \in parse_addr_literal(TokenAt(tokens, k + 1).text, FALSE)
  BY <1>1, <1>2, Zenon
<1>7. WritesType(tokens, k, v + 1, ty)
  BY <1>5, <1>6, Zenon DEF WritesType
<1> QED
  BY <1>4, <1>7 DEF a

(* `net` with its prefix. *)
LEMMA NetWritten ==
  ASSUME tokens \in Inputs, NEW k \in 0..(Len(tokens) - 1), NEW v \in 0..(Len(tokens) - 1), v = k + 1,
         IsWord(k, "net"), Peek(v).tag = "Word", parse_addr_literal(Peek(v).text, TRUE) # {}
  PROVE  LET a == The(parse_addr_literal(Peek(v).text, TRUE))
             ty == [kind |-> "Net", addr |-> a.addr, prefix |-> a.prefix]
         IN  WritesType(tokens, k, v + 1, ty) /\ IsPrimType(ty)
<1> DEFINE a == The(parse_addr_literal(Peek(v).text, TRUE))
           ty == [kind |-> "Net", addr |-> a.addr, prefix |-> a.prefix]
<1>1. Peek(v) = TokenAt(tokens, v) /\ IsText(Peek(v).text) /\ Peek(k) = TokenAt(tokens, k)
  BY InputTokens
<1>2. a \in parse_addr_literal(Peek(v).text, TRUE)
  BY TheIn
<1> HIDE DEF a
<1>3. IsAddr(a.addr) /\ a.prefix \in Option(0..(IF a.addr.version = 4 THEN 32 ELSE 128))
  <2>1. IsText(Peek(v).text)
    BY <1>1
  <2> QED
    BY <1>2, <2>1, AddrRead, ZenonT(40)
<1>4. IsPrimType(ty)
  <2>1. ty.kind = "Net" /\ ty.addr = a.addr /\ ty.prefix = a.prefix
    OBVIOUS
  <2> HIDE DEF ty
  <2> QED
    BY <1>3, <2>1, Zenon DEF IsPrimType
<1>5. WordAt(tokens, k, "net") /\ TextAt(tokens, k + 1) /\ v + 1 = k + 2
  BY <1>1, InputWords
<1>6. a \in parse_addr_literal(TokenAt(tokens, k + 1).text, TRUE)
  BY <1>1, <1>2, Zenon
<1>7. WritesType(tokens, k, v + 1, ty)
  BY <1>5, <1>6, Zenon DEF WritesType
<1> QED
  BY <1>4, <1>7 DEF a

(* `port`. *)
LEMMA PortWritten ==
  ASSUME tokens \in Inputs, NEW k \in 0..(Len(tokens) - 1), NEW v \in 0..(Len(tokens) - 1), v = k + 1,
         IsWord(k, "port"), Peek(v).tag = "Word", parse_port(Peek(v).text) # {}
  PROVE  LET n == The(parse_port(Peek(v).text))
             ty == [kind |-> "Port", lo |-> n, hi |-> n]
         IN  WritesType(tokens, k, v + 1, ty) /\ IsPrimType(ty)
<1> DEFINE n == The(parse_port(Peek(v).text))
           ty == [kind |-> "Port", lo |-> n, hi |-> n]
<1>1. Peek(v) = TokenAt(tokens, v) /\ Peek(k) = TokenAt(tokens, k)
  BY InputTokens
<1>2. n \in parse_port(TokenAt(tokens, v).text) /\ n \in Port16
  BY PortAtRead
<1> HIDE DEF n
<1>3. IsPrimType(ty)
  BY <1>2 DEF IsPrimType
<1>4. WordAt(tokens, k, "port") /\ TextAt(tokens, k + 1) /\ v + 1 = k + 2
  BY <1>1, InputWords
<1>5. n \in parse_port(TokenAt(tokens, k + 1).text)
  BY <1>2, Zenon
<1>6. WritesType(tokens, k, v + 1, ty)
  BY <1>4, <1>5, Zenon DEF WritesType
<1> QED
  BY <1>3, <1>6 DEF n

(* `portrange`, its ends in order. *)
LEMMA RangeWritten ==
  ASSUME tokens \in Inputs, NEW k \in 0..(Len(tokens) - 1), NEW v \in 0..(Len(tokens) - 1), v = k + 1,
         NEW h \in 0..(Len(tokens) - 1), h = k + 3, k + 2 \in 0..(Len(tokens) - 1),
         IsWord(k, "portrange"), Peek(v).tag = "Word", Peek(k + 2).tag = "Dash", Peek(h).tag = "Word",
         parse_port(Peek(v).text) # {}, parse_port(Peek(h).text) # {},
         The(parse_port(Peek(v).text)) <= The(parse_port(Peek(h).text))
  PROVE  LET ty == [kind |-> "PortRange", lo |-> The(parse_port(Peek(v).text)),
                    hi |-> The(parse_port(Peek(h).text))]
         IN  WritesType(tokens, k, h + 1, ty) /\ IsPrimType(ty)
<1> DEFINE m == The(parse_port(Peek(v).text))
           n == The(parse_port(Peek(h).text))
           ty == [kind |-> "PortRange", lo |-> m, hi |-> n]
<1>1. /\ Peek(v) = TokenAt(tokens, v) /\ Peek(k) = TokenAt(tokens, k) /\ Peek(h) = TokenAt(tokens, h)
      /\ Peek(k + 2) = TokenAt(tokens, k + 2)
  BY InputTokens
<1>2. /\ m \in parse_port(TokenAt(tokens, v).text) /\ m \in Port16
      /\ n \in parse_port(TokenAt(tokens, h).text) /\ n \in Port16 /\ m <= n
  BY PortAtRead
<1> HIDE DEF m, n
<1>3. IsPrimType(ty)
  BY <1>2 DEF IsPrimType
<1>4. /\ WordAt(tokens, k, "portrange") /\ TextAt(tokens, k + 1) /\ SignAt(tokens, k + 2, "Dash")
      /\ TextAt(tokens, k + 3) /\ h + 1 = k + 4
  BY <1>1, InputWords
<1>5. m \in parse_port(TokenAt(tokens, k + 1).text) /\ n \in parse_port(TokenAt(tokens, k + 3).text)
  BY <1>2, Zenon
<1>6. WritesType(tokens, k, h + 1, ty)
  BY <1>2, <1>4, <1>5, Zenon DEF WritesType
<1> QED
  BY <1>3, <1>6 DEF m, n

(* parse_primitive. *)
LEMMA PrimitiveSpelled ==
  ASSUME tokens \in Inputs, NEW i \in 0..(Len(tokens) - 1)
  PROVE  Spelled(parse_primitive(i), i)
<1> DEFINE proto == try_parse_proto(i)
           d == Past(i, proto # {})
           dir == try_parse_dir(d)
           t == Past(d, dir # {})
           v == Advance(t)
           h == Advance(Advance(v))
           Prim(j, type) == Read(j, Leaf([proto |-> proto, dir |-> dir, ty |-> type,
                                        offset |-> LeafOffset(i, j)]))
           ty == Peek(t).text.text
           AddrIn(allow_prefix) == The(parse_addr_literal(Peek(v).text, allow_prefix))
           AddrAt(allow_prefix, rest) ==
             expect_word(v, Try(parse_addr_literal(Peek(v).text, allow_prefix),
                                BadAddr(Peek(v).text), Peek(v).offset, rest))
           PortIn(j) == The(parse_port(Peek(j).text))
           PortAt(j, rest) ==
             expect_word(j, Try(parse_port(Peek(j).text), "InvalidPortNumber", Peek(j).offset, rest))
           HostType == [kind |-> "Host", addr |-> AddrIn(FALSE).addr]
           NetType == [kind |-> "Net", addr |-> AddrIn(TRUE).addr, prefix |-> AddrIn(TRUE).prefix]
           PortType == [kind |-> "Port", lo |-> PortIn(v), hi |-> PortIn(v)]
           RangeType == [kind |-> "PortRange", lo |-> PortIn(v), hi |-> PortIn(h)]
           Host == AddrAt(FALSE, Prim(Advance(v), HostType))
           Net == AddrAt(TRUE, Prim(Advance(v), NetType))
           Port == PortAt(v, Prim(Advance(v), PortType))
           High == IF PortIn(v) <= PortIn(h)
                   THEN Prim(Advance(h), RangeType)
                   ELSE Fails("InvalidPortRange", Span(StartAt(i), Peek(h).offset.end))
           PortRange == PortAt(v, expect_dash(Advance(v), PortAt(h, High)))
           Unknown == Fails("UnknownKeyword", Peek(t).offset)
           Other == Fails("UnexpectedToken", Peek(t).offset)
           type == CASE ty = "host" -> Host
                     [] ty = "net" -> Net
                     [] ty = "port" -> Port
                     [] ty = "portrange" -> PortRange
                     [] ty \in {"rarp", "sctp"} -> Unknown
                     [] OTHER -> Other
           Positions == 0..(Len(tokens) - 1)
<1>1. parse_primitive(i) = expect_word(t, type)
  BY Zenon DEF parse_primitive
<1>2. TokensOK(tokens) /\ Len(tokens) \in Nat
  BY InputTokens, NotLast
<1>3. /\ WritesOptional(tokens, ProtoWords, i, proto, d) /\ proto \in Option(ProtoTag)
      /\ proto # {} => Peek(i).tag = "Word"
  <2>1. proto = KeywordHere(ProtoWords, i)
    BY Zenon DEF try_parse_proto, KeywordHere
  <2>2. \A w \in DOMAIN ProtoWords : ProtoWords[w] \in ProtoTag
    BY DEF ProtoWords, ProtoTag
  <2>3. LET k == KeywordHere(ProtoWords, i)
        IN  /\ WritesOptional(tokens, ProtoWords, i, k, Past(i, k # {})) /\ k \in Option(ProtoTag)
            /\ k # {} => Peek(i).tag = "Word"
    BY <2>2, KeywordRead
  <2> QED
    BY <2>1, <2>3, Zenon
<1> HIDE DEF proto
<1>4. d \in Positions
  BY <1>2, <1>3, NotLast DEF Past
<1> HIDE DEF d
<1>5. /\ WritesOptional(tokens, DirWords, d, dir, t) /\ dir \in Option(DirTag)
      /\ dir # {} => Peek(d).tag = "Word"
  <2>1. dir = KeywordHere(DirWords, d)
    BY Zenon DEF try_parse_dir, KeywordHere
  <2>2. \A w \in DOMAIN DirWords : DirWords[w] \in DirTag
    BY DEF DirWords, DirTag
  <2>3. LET k == KeywordHere(DirWords, d)
        IN  /\ WritesOptional(tokens, DirWords, d, k, Past(d, k # {})) /\ k \in Option(DirTag)
            /\ k # {} => Peek(d).tag = "Word"
    BY <1>4, <2>2, KeywordRead
  <2> QED
    BY <2>1, <2>3, Zenon
<1> HIDE DEF dir
<1>6. t \in Positions
  BY <1>2, <1>4, <1>5, NotLast DEF Past
<1> HIDE DEF t
<1>7. ASSUME NEW j \in Positions, j # 0, NEW a, WritesType(tokens, t, j, a), IsPrimType(a)
      PROVE  Spelled(Prim(j, a), i)
  BY <1>3, <1>5, <1>6, <1>7, TypeSpelled
<1>8. ASSUME Peek(t).tag = "Word" PROVE Spelled(type, i)
  <2>1. v = t + 1 /\ v \in Positions
    BY <1>6, <1>8, NextPosition
  <2> HIDE DEF v
  <2>2. ASSUME Peek(v).tag = "Word" PROVE Advance(v) = v + 1 /\ v + 1 \in Positions /\ v + 1 # 0
    BY <2>1, <2>2, NextPosition
  <2>3. ASSUME ty = "host" PROVE Spelled(Host, i)
    <3> DEFINE read == Prim(Advance(v), HostType)
               literal == parse_addr_literal(Peek(v).text, FALSE)
    <3>1. ASSUME Peek(v).tag = "Word", literal # {} PROVE Spelled(read, i)
      <4>1. IsWord(t, "host")
        BY <1>8, <2>3 DEF IsWord
      <4>2. WritesType(tokens, t, v + 1, HostType) /\ IsPrimType(HostType)
        BY <1>6, <2>1, <3>1, <4>1, HostWritten
      <4> HIDE DEF HostType, Prim
      <4>3. Spelled(Prim(v + 1, HostType), i)
        BY <1>7, <2>2, <3>1, <4>2
      <4> QED
        BY <2>2, <3>1, <4>3
    <3> HIDE DEF read, literal
    <3>2. Spelled(expect_word(v, Try(literal, BadAddr(Peek(v).text), Peek(v).offset, read)), i)
      BY <3>1, WordSpelled, TrySpelled
    <3> QED
      BY <3>2 DEF read, literal
  <2>4. ASSUME ty = "net" PROVE Spelled(Net, i)
    <3> DEFINE read == Prim(Advance(v), NetType)
               literal == parse_addr_literal(Peek(v).text, TRUE)
    <3>1. ASSUME Peek(v).tag = "Word", literal # {} PROVE Spelled(read, i)
      <4>1. IsWord(t, "net")
        BY <1>8, <2>4 DEF IsWord
      <4>2. WritesType(tokens, t, v + 1, NetType) /\ IsPrimType(NetType)
        BY <1>6, <2>1, <3>1, <4>1, NetWritten
      <4> HIDE DEF NetType, Prim
      <4>3. Spelled(Prim(v + 1, NetType), i)
        BY <1>7, <2>2, <3>1, <4>2
      <4> QED
        BY <2>2, <3>1, <4>3
    <3> HIDE DEF read, literal
    <3>2. Spelled(expect_word(v, Try(literal, BadAddr(Peek(v).text), Peek(v).offset, read)), i)
      BY <3>1, WordSpelled, TrySpelled
    <3> QED
      BY <3>2 DEF read, literal
  <2>5. ASSUME ty = "port" PROVE Spelled(Port, i)
    <3> DEFINE read == Prim(Advance(v), PortType)
               literal == parse_port(Peek(v).text)
    <3>1. ASSUME Peek(v).tag = "Word", literal # {} PROVE Spelled(read, i)
      <4>1. IsWord(t, "port")
        BY <1>8, <2>5 DEF IsWord
      <4>2. WritesType(tokens, t, v + 1, PortType) /\ IsPrimType(PortType)
        BY <1>6, <2>1, <3>1, <4>1, PortWritten
      <4> HIDE DEF PortType, Prim
      <4>3. Spelled(Prim(v + 1, PortType), i)
        BY <1>7, <2>2, <3>1, <4>2
      <4> QED
        BY <2>2, <3>1, <4>3
    <3> HIDE DEF read, literal
    <3>2. Spelled(expect_word(v, Try(literal, "InvalidPortNumber", Peek(v).offset, read)), i)
      BY <3>1, WordSpelled, TrySpelled
    <3> QED
      BY <3>2 DEF read, literal
  <2>6. ASSUME ty = "portrange" PROVE Spelled(PortRange, i)
    <3> DEFINE low == parse_port(Peek(v).text)
               high == parse_port(Peek(h).text)
               last == PortAt(h, High)
               dash == expect_dash(Advance(v), last)
    <3>1. ASSUME Peek(v).tag = "Word", low # {}, Peek(Advance(v)).tag = "Dash", Peek(h).tag = "Word",
                 high # {}
          PROVE  Spelled(High, i)
      <4>1. IsWord(t, "portrange")
        BY <1>8, <2>6 DEF IsWord
      <4>2. Advance(v) = t + 2 /\ t + 2 \in Positions
        BY <1>6, <2>1, <2>2, <3>1
      <4>3. h = t + 3 /\ h \in Positions
        BY <1>6, <3>1, <4>2, NextPosition
      <4>4. Peek(t + 2).tag = "Dash"
        BY <3>1, <4>2
      <4> HIDE DEF h
      <4>5. Advance(h) = h + 1 /\ h + 1 \in Positions /\ h + 1 # 0
        BY <3>1, <4>3, NextPosition
      <4>6. CASE PortIn(v) <= PortIn(h)
        <5>1. WritesType(tokens, t, h + 1, RangeType) /\ IsPrimType(RangeType)
          BY <1>6, <2>1, <3>1, <4>1, <4>2, <4>3, <4>4, <4>6, RangeWritten
        <5>2. High = Prim(Advance(h), RangeType)
          BY <4>6
        <5> HIDE DEF RangeType, Prim, High
        <5>3. Spelled(Prim(h + 1, RangeType), i)
          BY <1>7, <4>5, <5>1
        <5> QED
          BY <4>5, <5>2, <5>3
      <4>7. CASE ~(PortIn(v) <= PortIn(h))
        BY <4>7, FailsSpelled
      <4> QED
        BY <4>6, <4>7
    <3> HIDE DEF h, High, low, high
    <3>2. ASSUME Peek(v).tag = "Word", low # {}, Peek(Advance(v)).tag = "Dash" PROVE Spelled(last, i)
      <4>1. Spelled(expect_word(h, Try(high, "InvalidPortNumber", Peek(h).offset, High)), i)
        BY <3>1, <3>2, WordSpelled, TrySpelled
      <4> QED
        BY <4>1 DEF high
    <3> HIDE DEF last
    <3>3. ASSUME Peek(v).tag = "Word", low # {} PROVE Spelled(dash, i)
      BY <3>2, <3>3, DashSpelled
    <3> HIDE DEF dash
    <3>4. Spelled(expect_word(v, Try(low, "InvalidPortNumber", Peek(v).offset, dash)), i)
      BY <3>3, WordSpelled, TrySpelled
    <3> QED
      BY <3>4 DEF dash, last, low
  <2>7. Spelled(Unknown, i) /\ Spelled(Other, i)
    BY FailsSpelled
  <2> HIDE DEF Host, Net, Port, PortRange, Unknown, Other, ty
  <2> QED
    BY <2>3, <2>4, <2>5, <2>6, <2>7
<1> HIDE DEF type
<1>9. Spelled(expect_word(t, type), i)
  BY <1>8, WordSpelled
<1> QED
  BY <1>1, <1>9, Zenon

(* The leaf of an `ether` form is in range. *)
LEMMA EtherFits ==
  ASSUME NEW e, IsEtherPrimitive(e) PROVE LeafFits(EtherLeaf(e))
  BY DEF LeafFits, EtherLeaf

(* A MAC address at m ends the primitive. *)
LEMMA MacSpelled ==
  ASSUME tokens \in Inputs, NEW i \in 0..(Len(tokens) - 1), NEW m \in 0..(Len(tokens) - 1),
         NEW dir \in Option(DirTag),
         \A j, e : WritesHost(tokens, i, j, m, dir, e) => WritesEther(tokens, i, j, e),
         WordAt(tokens, i, "ether")
  PROVE  Spelled(MacAt(m, Read(Advance(m), EtherLeaf(
           [kind |-> "Host", mac |-> The(parse_mac_literal(Peek(m).text)), dir |-> dir,
            offset |-> Span(StartAt(i), EndBefore(Advance(m)))]))), i)
<1> DEFINE literal == parse_mac_literal(Peek(m).text)
           host == [kind |-> "Host", mac |-> The(literal), dir |-> dir,
                    offset |-> Span(StartAt(i), EndBefore(Advance(m)))]
           read == Read(Advance(m), EtherLeaf(host))
<1>1. ASSUME Peek(m).tag = "Word", literal # {} PROVE Spelled(read, i)
  <2>1. Advance(m) = m + 1 /\ m + 1 \in 0..(Len(tokens) - 1) /\ m + 1 # 0
    BY <1>1, NextPosition
  <2>2. Peek(m) = TokenAt(tokens, m) /\ IsText(Peek(m).text)
    BY <1>1, InputTokens
  <2> DEFINE mac == The(literal)
             place == Span(StartAt(i), EndBefore(Advance(m)))
  <2>3. mac \in literal
    BY <1>1, TheIn
  <2>4. place = PlaceOf(tokens, i, m + 1) /\ place \in Offset
    BY <2>1, PlaceRead
  <2>5. mac \in [1..6 -> Byte]
    BY <2>2, <2>3, MacRead
  <2>6. mac \in parse_mac_literal(TokenAt(tokens, m).text)
    BY <2>2, <2>3
  <2>7. host = [kind |-> "Host", mac |-> mac, dir |-> dir, offset |-> place]
    BY Zenon
  <2> HIDE DEF mac, place, literal, host
  <2>8. IsEtherPrimitive(host)
    <3>1. host.kind = "Host" /\ host.mac = mac /\ host.dir = dir /\ host.offset = place
      BY <2>7
    <3> QED
      BY <2>4, <2>5, <3>1, Zenon DEF IsEtherPrimitive
  <2>9. WritesHost(tokens, i, m + 1, m, dir, EtherLeaf(host))
    <3>1. TextAt(tokens, m)
      BY <1>1, <2>2, InputWords DEF TextAt
    <3> QED
      BY <2>4, <2>6, <2>7, <3>1, Zenon DEF WritesHost
  <2>10. WritesLeaf(tokens, i, m + 1, EtherLeaf(host)) /\ LeafFits(EtherLeaf(host))
    BY <2>8, <2>9, EtherFits DEF WritesLeaf
  <2>11. Spelled(Read(m + 1, EtherLeaf(host)), i)
    BY <2>10, ReadSpelled
  <2> QED
    BY <2>1, <2>11
<1> HIDE DEF read, literal
<1>2. Spelled(expect_word(m, Try(literal, "InvalidMacLiteral", Peek(m).offset, read)), i)
  BY <1>1, WordSpelled, TrySpelled
<1> QED
  BY <1>2, Zenon DEF MacAt, read, literal

(* `broadcast` or `multicast`, with or without `ether`. *)
LEMMA KindSpelled ==
  ASSUME tokens \in Inputs, NEW i \in 0..(Len(tokens) - 1), NEW j \in 0..(Len(tokens) - 1), j # 0,
         NEW w \in EtherKinds,
         (WordAt(tokens, i, w) /\ j = i + 1)
           \/ (WordAt(tokens, i, "ether") /\ WordAt(tokens, i + 1, w) /\ j = i + 2)
  PROVE  Spelled(Read(j, EtherLeaf([kind |-> KindOf[w], offset |-> Span(StartAt(i), EndBefore(j))])), i)
<1> DEFINE place == Span(StartAt(i), EndBefore(j))
           e == [kind |-> KindOf[w], offset |-> place]
<1>1. place = PlaceOf(tokens, i, j) /\ place \in Offset
  BY PlaceRead
<1> HIDE DEF place
<1>2. KindOf[w] \in {"Broadcast", "Multicast"}
  BY DEF EtherKinds, KindOf
<1>3. IsEtherPrimitive(e)
  BY <1>1, <1>2 DEF IsEtherPrimitive
<1>4. WritesEther(tokens, i, j, EtherLeaf(e))
  BY <1>1, Zenon DEF WritesEther
<1>5. Spelled(Read(j, EtherLeaf(e)), i)
  BY <1>3, <1>4, EtherFits, ReadSpelled DEF WritesLeaf
<1> QED
  BY <1>5 DEF place

(* An EtherType at v, behind `ether proto`. *)
LEMMA ProtoSpelled ==
  ASSUME tokens \in Inputs, NEW i \in 0..(Len(tokens) - 1), NEW v \in 0..(Len(tokens) - 1), v = i + 2,
         WordAt(tokens, i, "ether"), WordAt(tokens, i + 1, "proto")
  PROVE  LET n == parse_ethertype(Peek(v).text)
         IN  Spelled(expect_word(v, Try(n, "InvalidEtherType", Peek(v).offset,
               Read(Advance(v), EtherLeaf([kind |-> "Proto", ethertype |-> The(n),
                                           offset |-> Span(StartAt(i), EndBefore(Advance(v)))])))), i)
<1> DEFINE n == parse_ethertype(Peek(v).text)
           place == Span(StartAt(i), EndBefore(Advance(v)))
           e == [kind |-> "Proto", ethertype |-> The(n), offset |-> place]
           read == Read(Advance(v), EtherLeaf(e))
<1>1. ASSUME Peek(v).tag = "Word", n # {} PROVE Spelled(read, i)
  <2>1. Advance(v) = v + 1 /\ v + 1 \in 0..(Len(tokens) - 1) /\ v + 1 # 0 /\ v + 1 = i + 3
    BY <1>1, NextPosition
  <2>2. Peek(v) = TokenAt(tokens, v) /\ IsText(Peek(v).text)
    BY <1>1, InputTokens
  <2>3. The(n) \in n
    BY <1>1, TheIn
  <2>4. place = PlaceOf(tokens, i, i + 3) /\ place \in Offset
    BY <2>1, PlaceRead
  <2>5. The(n) \in Port16
    BY <2>2, <2>3, EtherTypeRead
  <2>6. The(n) \in parse_ethertype(TokenAt(tokens, i + 2).text)
    BY <2>2, <2>3, Zenon
  <2>7. TextAt(tokens, i + 2)
    BY <1>1, <2>2, InputWords DEF TextAt
  <2> HIDE DEF n, place
  <2>8. IsEtherPrimitive(e)
    BY <2>4, <2>5 DEF IsEtherPrimitive
  <2>9. WritesEther(tokens, i, i + 3, EtherLeaf(e))
    BY <2>4, <2>6, <2>7, Zenon DEF WritesEther
  <2> HIDE DEF e
  <2>10. Spelled(Read(i + 3, EtherLeaf(e)), i)
    BY <2>8, <2>9, EtherFits, ReadSpelled DEF WritesLeaf
  <2> QED
    BY <2>1, <2>10
<1> HIDE DEF read, n
<1>2. Spelled(expect_word(v, Try(n, "InvalidEtherType", Peek(v).offset, read)), i)
  BY <1>1, WordSpelled, TrySpelled
<1> QED
  BY <1>2, Zenon DEF read, n

(* parse_ether_primitive, called with `ether`, `broadcast` or `multicast`. *)
LEMMA EtherSpelled ==
  ASSUME tokens \in Inputs, NEW i \in 0..(Len(tokens) - 1), Peek(i).tag = "Word",
         Peek(i).text.text \in EtherKinds \cup {"ether"}
  PROVE  Spelled(parse_ether_primitive(i), i)
<1> DEFINE k == Advance(i)
           v == Advance(k)
           m == Past(v, IsWord(v, "host"))
           Ends(j) == Span(StartAt(i), EndBefore(j))
           kw == Peek(k).text.text
           HostAt(j, dir) ==
             MacAt(j, Read(Advance(j), EtherLeaf(
               [kind |-> "Host", mac |-> The(parse_mac_literal(Peek(j).text)), dir |-> dir,
                offset |-> Ends(Advance(j))])))
           Bare(word, j) == Read(j, EtherLeaf([kind |-> KindOf[word], offset |-> Ends(j)]))
           n == parse_ethertype(Peek(v).text)
           Host == HostAt(v, {})
           DirHost == HostAt(m, {DirWords[kw]})
           Proto == expect_word(v, Try(n, "InvalidEtherType", Peek(v).offset,
                      Read(Advance(v), EtherLeaf([kind |-> "Proto", ethertype |-> The(n),
                                                  offset |-> Ends(Advance(v))]))))
           Kind == Bare(kw, v)
           Other == Fails("UnexpectedToken", Peek(k).offset)
           rest == CASE kw = "host" -> Host
                     [] kw \in DOMAIN DirWords -> DirHost
                     [] kw = "proto" -> Proto
                     [] kw \in EtherKinds -> Kind
                     [] OTHER -> Other
           Alone == Bare(Peek(i).text.text, k)
           Positions == 0..(Len(tokens) - 1)
<1>1. parse_ether_primitive(i)
        = IF Peek(i).text.text \in EtherKinds THEN Alone ELSE expect_word(k, rest)
  BY Zenon DEF parse_ether_primitive
<1>2. k = i + 1 /\ k \in Positions /\ k # 0
  BY NextPosition
<1> HIDE DEF k
<1>3. /\ Peek(i) = TokenAt(tokens, i) /\ Peek(k) = TokenAt(tokens, k)
      /\ TextAt(tokens, i) /\ TokenAt(tokens, i).text.text = Peek(i).text.text
  BY <1>2, InputTokens, InputWords DEF TextAt
<1>4. CASE Peek(i).text.text \in EtherKinds
  <2> DEFINE w == Peek(i).text.text
  <2>1. w \in EtherKinds /\ WordAt(tokens, i, w)
    BY <1>3, <1>4, InputWords DEF WordAt
  <2>2. Spelled(Read(k, EtherLeaf([kind |-> KindOf[w], offset |-> Span(StartAt(i), EndBefore(k))])), i)
    <3> HIDE DEF w
    <3> QED
      BY <1>2, <2>1, KindSpelled
  <2>3. parse_ether_primitive(i) = Alone
    BY <1>1, <1>4
  <2> QED
    BY <2>2, <2>3
<1>5. CASE Peek(i).text.text \notin EtherKinds
  <2>1. WordAt(tokens, i, "ether")
    BY <1>3, <1>5, InputWords DEF WordAt
  <2>2. ASSUME Peek(k).tag = "Word" PROVE Spelled(rest, i)
    <3>1. v = i + 2 /\ v \in Positions /\ v # 0
      BY <1>2, <2>2, NextPosition
    <3> HIDE DEF v
    <3>2. Peek(v) = TokenAt(tokens, v)
      BY <3>1, InputTokens
    <3>3. \A w : kw = w => WordAt(tokens, i + 1, w)
      BY <1>2, <1>3, <2>2, InputWords DEF WordAt, TextAt
    <3> HIDE DEF kw
    <3>4. ASSUME kw = "host" PROVE Spelled(Host, i)
      <4>1. \A j, e : WritesHost(tokens, i, j, v, {}, e) => WritesEther(tokens, i, j, e)
        BY <3>1, <3>3, <3>4, Zenon DEF WritesEther
      <4>2. {} \in Option(DirTag)
        BY DEF Option
      <4> QED
        BY <2>1, <3>1, <4>1, <4>2, MacSpelled
    <3>5. ASSUME kw \in DOMAIN DirWords PROVE Spelled(DirHost, i)
      <4> DEFINE dir == {DirWords[kw]}
      <4>1. dir \in Option(DirTag)
        <5>1. DirWords[kw] \in DirTag
          BY <3>5 DEF DirWords, DirTag
        <5> QED
          BY <5>1 DEF Option
      <4>2. CASE IsWord(v, "host")
        <5>1. m = i + 3 /\ m \in Positions
          BY <3>1, <4>2, NextPosition DEF Past, IsWord
        <5>2. WordAt(tokens, i + 2, "host")
          BY <3>1, <3>2, <4>2, InputWords
        <5> HIDE DEF m
        <5>3. \A j, e : WritesHost(tokens, i, j, m, dir, e) => WritesEther(tokens, i, j, e)
          BY <3>3, <3>5, <5>1, <5>2, Zenon DEF WritesEther
        <5> HIDE DEF dir
        <5>4. Spelled(HostAt(m, dir), i)
          BY <2>1, <4>1, <5>1, <5>3, MacSpelled
        <5> QED
          BY <5>4 DEF dir
      <4>3. CASE ~IsWord(v, "host")
        <5>1. m = i + 2 /\ m \in Positions
          BY <3>1, <4>3 DEF Past
        <5> HIDE DEF m
        <5>2. \A j, e : WritesHost(tokens, i, j, m, dir, e) => WritesEther(tokens, i, j, e)
          BY <3>3, <3>5, <5>1, Zenon DEF WritesEther
        <5> HIDE DEF dir
        <5>3. Spelled(HostAt(m, dir), i)
          BY <2>1, <4>1, <5>1, <5>2, MacSpelled
        <5> QED
          BY <5>3 DEF dir
      <4> QED
        BY <4>2, <4>3
    <3>6. ASSUME kw = "proto" PROVE Spelled(Proto, i)
      <4>1. WordAt(tokens, i + 1, "proto")
        BY <3>3, <3>6
      <4> QED
        BY <2>1, <3>1, <4>1, ProtoSpelled
    <3>7. ASSUME kw \in EtherKinds PROVE Spelled(Kind, i)
      <4>1. WordAt(tokens, i + 1, kw)
        BY <3>3
      <4> QED
        BY <2>1, <3>1, <3>7, <4>1, KindSpelled
    <3>8. Spelled(Other, i)
      BY FailsSpelled
    <3> HIDE DEF Host, DirHost, Proto, Kind, Other
    <3> QED
      BY <3>4, <3>5, <3>6, <3>7, <3>8
  <2> HIDE DEF rest
  <2>3. Spelled(expect_word(k, rest), i)
    BY <2>2, WordSpelled
  <2>4. parse_ether_primitive(i) = expect_word(k, rest)
    BY <1>1, <1>5, Zenon
  <2> QED
    BY <2>3, <2>4, Zenon
<1> QED
  BY <1>4, <1>5

(* parse_primary's choice between the two. *)
LEMMA HereSpelled ==
  ASSUME tokens \in Inputs, pos \in 0..(Len(tokens) - 1), Peek(pos).tag = "Word"
  PROVE  Spelled(ReadHere, pos)
<1>1. CASE Peek(pos).text.text \in EtherKinds \cup {"ether"}
  <2>1. Spelled(parse_ether_primitive(pos), pos)
    BY <1>1, EtherSpelled
  <2> QED
    BY <1>1, <2>1, Zenon DEF ReadHere
<1>2. CASE Peek(pos).text.text \notin EtherKinds \cup {"ether"}
  <2>1. Spelled(parse_primitive(pos), pos)
    BY PrimitiveSpelled
  <2> QED
    BY <1>2, <2>1, Zenon DEF ReadHere
<1> QED
  BY <1>1, <1>2

-----------------------------------------------------------------------------
(* The chart of a text, layer by layer. *)

(* A set of natural numbers that is not empty has a least element; this is *)
(* the form in which the proofs below use induction.                       *)
LEMMA LeastNumber ==
  ASSUME NEW T, T \subseteq Nat, T # {}
  PROVE  \E m \in T : \A k \in T : m <= k
<1> DEFINE R == OpToRel(<, Nat)
<1>1. IsWellFoundedOn(R, Nat)
  BY NatLessThanWellFounded
<1>2. \A x, y \in Nat : y < x => <<y, x>> \in R
  BY DEF OpToRel
<1> HIDE DEF R
<1>3. PICK m \in T : \A k \in T : ~(<<k, m>> \in R)
  BY <1>1, WFMin
<1>4. ASSUME NEW k \in T PROVE m <= k
  <2>1. k \in Nat /\ m \in Nat /\ ~(k < m)
    BY <1>2, <1>3
  <2> QED
    BY <2>1
<1> QED
  BY <1>4

(* A layer is the one before it and the pieces of the next length. *)
LEMMA ChartLayers ==
  ASSUME NEW t
  PROVE  /\ Chart(t)[0] = {}
         /\ \A n \in Nat : Chart(t)[n + 1] = Chart(t)[n] \cup Pieces(t, Leaves(t), Chart(t)[n], n + 1)
<1> DEFINE Step(S, n) == S \cup Pieces(t, Leaves(t), S, n)
           Rec(c, n) == IF n = 0 THEN {} ELSE Step(c[n - 1], n)
           UpTo(c, m) == c = [n \in 0..m |-> Rec(c, n)]
<1>1. Chart(t) = CHOOSE c : c = [n \in Nat |-> Rec(c, n)]
  BY Zenon DEF Chart
<1> HIDE DEF Step
<1>2. ASSUME NEW m \in Nat PROVE \E c : UpTo(c, m)
  <2> DEFINE T == {k \in Nat : ~ \E c : UpTo(c, k)}
  <2>1. ASSUME T # {} PROVE FALSE
    <3>1. PICK k \in T : \A l \in T : k <= l
      BY <2>1, LeastNumber
    <3>2. CASE k = 0
      <4> DEFINE c == [n \in 0..0 |-> {}]
      <4>1. \A n \in 0..0 : Rec(c, n) = {}
        OBVIOUS
      <4>2. UpTo(c, 0)
        BY <4>1
      <4> QED
        BY <3>1, <3>2, <4>2
    <3>3. CASE k # 0
      <4>1. k \in Nat /\ k - 1 \in Nat /\ ~(k <= k - 1)
        BY <3>3
      <4>2. PICK c : UpTo(c, k - 1)
        <5> HIDE DEF UpTo
        <5>1. k - 1 \notin T
          BY <3>1, <4>1, Zenon
        <5> QED
          BY <4>1, <5>1
      <4> DEFINE d == [n \in 0..k |-> IF n = k THEN Step(c[k - 1], k) ELSE c[n]]
      <4>3. ASSUME NEW n \in 0..k PROVE d[n] = Rec(d, n)
        <5>1. CASE n = k
          <6>1. d[k] = Step(c[k - 1], k) /\ d[k - 1] = c[k - 1]
            BY <3>1, <3>3
          <6> QED
            BY <3>3, <5>1, <6>1
        <5>2. CASE n # k
          <6>1. n \in 0..(k - 1) /\ d[n] = c[n] /\ (n # 0 => d[n - 1] = c[n - 1])
            BY <3>1, <5>2
          <6>2. c[n] = Rec(c, n)
            BY <4>2, <6>1
          <6> QED
            BY <6>1, <6>2
        <5> QED
          BY <5>1, <5>2
      <4>4. UpTo(d, k)
        BY <4>3
      <4> QED
        BY <3>1, <4>4
    <3> QED
      BY <3>2, <3>3
  <2> QED
    BY <2>1
<1>3. ASSUME NEW m \in Nat, NEW c, UpTo(c, m), NEW p \in Nat, NEW d, UpTo(d, p), NEW n \in 0..m, n \in 0..p
      PROVE  c[n] = d[n]
  <2> DEFINE T == {k \in 0..m : k \in 0..p /\ c[k] # d[k]}
  <2>0. /\ T \subseteq Nat
        /\ \A k : k \in T <=> k \in 0..m /\ k \in 0..p /\ c[k] # d[k]
    OBVIOUS
  <2> HIDE DEF T
  <2>1. ASSUME T # {} PROVE FALSE
    <3>2. PICK k \in T : \A l \in T : k <= l
      BY <2>0, <2>1, LeastNumber
    <3>3. c[k] = Rec(c, k) /\ d[k] = Rec(d, k) /\ k \in 0..m /\ k \in 0..p /\ c[k] # d[k]
      BY <1>3, <2>0
    <3>4. k # 0
      BY <3>3
    <3>5. k - 1 \in 0..m /\ k - 1 \in 0..p /\ ~(k <= k - 1)
      BY <3>3, <3>4
    <3>6. c[k - 1] = d[k - 1]
      BY <2>0, <3>2, <3>5
    <3> QED
      BY <3>3, <3>4, <3>6
  <2> QED
    BY <1>3, <2>0, <2>1
<1> DEFINE F(m) == CHOOSE c : UpTo(c, m)
           g == [n \in Nat |-> F(n)[n]]
<1>4. \A m \in Nat : UpTo(F(m), m)
  BY <1>2
<1> HIDE DEF F
<1>5. ASSUME NEW n \in Nat PROVE g[n] = Rec(g, n)
  <2>1. F(n)[n] = Rec(F(n), n)
    BY <1>4
  <2>2. CASE n = 0
    BY <2>1, <2>2
  <2>3. CASE n # 0
    <3>1. n - 1 \in Nat /\ n - 1 \in 0..n /\ n - 1 \in 0..(n - 1)
      BY <2>3
    <3>2. UpTo(F(n), n) /\ UpTo(F(n - 1), n - 1)
      BY <1>4, <3>1
    <3>3. F(n)[n - 1] = F(n - 1)[n - 1]
      <4> HIDE DEF UpTo
      <4> QED
        BY <1>3, <3>1, <3>2
    <3> QED
      BY <2>1, <2>3, <3>1, <3>3
  <2> QED
    BY <2>2, <2>3
<1>6. g = [n \in Nat |-> Rec(g, n)]
  BY <1>5
<1>7. Chart(t) = [n \in Nat |-> Rec(Chart(t), n)]
  BY <1>1, <1>6
<1>8. ASSUME NEW n \in Nat PROVE Chart(t)[n + 1] = Step(Chart(t)[n], n + 1)
  <2>1. n + 1 \in Nat /\ n + 1 # 0 /\ (n + 1) - 1 = n
    OBVIOUS
  <2> QED
    BY <1>7, <2>1
<1>9. Chart(t)[0] = {}
  BY <1>7
<1> QED
  BY <1>8, <1>9, Zenon DEF Step

-----------------------------------------------------------------------------
(* The leaves of the chart are what is written. *)

(* An optional keyword. *)
LEMMA OptionalForm ==
  ASSUME NEW t, NEW words, NEW i, NEW p
  PROVE  p \in Optional(t, words, i) <=>
           \E v, j : p = [value |-> v, next |-> j] /\ WritesOptional(t, words, i, v, j)
  BY DEF Optional, WritesOptional

(* A type word and its value. *)
LEMMA TypesForm ==
  ASSUME NEW t, NEW k, NEW v
  PROVE  v \in Types(t, k) <=> \E ty, j : v = [ty |-> ty, next |-> j] /\ WritesType(t, k, j, ty)
<1> DEFINE H == {[ty |-> [kind |-> "Host", addr |-> a.addr], next |-> k + 2] :
                   a \in {a \in AddrsAt(t, k + 1, FALSE) : WordAt(t, k, "host")}}
           N == {[ty |-> [kind |-> "Net", addr |-> a.addr, prefix |-> a.prefix], next |-> k + 2] :
                   a \in {a \in AddrsAt(t, k + 1, TRUE) : WordAt(t, k, "net")}}
           P == {[ty |-> [kind |-> "Port", lo |-> n, hi |-> n], next |-> k + 2] :
                   n \in {n \in PortsAt(t, k + 1) : WordAt(t, k, "port")}}
           R == {[ty |-> [kind |-> "PortRange", lo |-> m[1], hi |-> m[2]], next |-> k + 4] :
                   m \in {m \in PortsAt(t, k + 1) \X PortsAt(t, k + 3) :
                            WordAt(t, k, "portrange") /\ SignAt(t, k + 2, "Dash") /\ m[1] <= m[2]}}
           Is(ty, j) == v = [ty |-> ty, next |-> j]
<1>1. v \in Types(t, k) <=> v \in H \/ v \in N \/ v \in P \/ v \in R
  BY Zenon DEF Types
<1>2. v \in H <=> /\ WordAt(t, k, "host") /\ TextAt(t, k + 1)
                  /\ \E a \in parse_addr_literal(TokenAt(t, k + 1).text, FALSE) :
                       Is([kind |-> "Host", addr |-> a.addr], k + 2)
  BY Zenon DEF AddrsAt
<1>3. v \in N <=> /\ WordAt(t, k, "net") /\ TextAt(t, k + 1)
                  /\ \E a \in parse_addr_literal(TokenAt(t, k + 1).text, TRUE) :
                       Is([kind |-> "Net", addr |-> a.addr, prefix |-> a.prefix], k + 2)
  BY Zenon DEF AddrsAt
<1>4. v \in P <=> /\ WordAt(t, k, "port") /\ TextAt(t, k + 1)
                  /\ \E n \in parse_port(TokenAt(t, k + 1).text) :
                       Is([kind |-> "Port", lo |-> n, hi |-> n], k + 2)
  BY Zenon DEF PortsAt
<1>5. v \in R <=> /\ WordAt(t, k, "portrange") /\ TextAt(t, k + 1) /\ SignAt(t, k + 2, "Dash")
                  /\ TextAt(t, k + 3)
                  /\ \E m \in parse_port(TokenAt(t, k + 1).text), n \in parse_port(TokenAt(t, k + 3).text) :
                       m <= n /\ Is([kind |-> "PortRange", lo |-> m, hi |-> n], k + 4)
  <2> DEFINE A == PortsAt(t, k + 1)
             B == PortsAt(t, k + 3)
             W == WordAt(t, k, "portrange") /\ SignAt(t, k + 2, "Dash")
             Ty(m, n) == [kind |-> "PortRange", lo |-> m, hi |-> n]
  <2>1. v \in R <=> \E m \in A \X B : W /\ m[1] <= m[2] /\ Is(Ty(m[1], m[2]), k + 4)
    BY Zenon
  <2>2. (\E m \in A \X B : W /\ m[1] <= m[2] /\ Is(Ty(m[1], m[2]), k + 4))
          <=> \E m \in A, n \in B : W /\ m <= n /\ Is(Ty(m, n), k + 4)
    <3> HIDE DEF A, B, W, Ty, Is
    <3>1. ASSUME NEW m \in A \X B, W /\ m[1] <= m[2] /\ Is(Ty(m[1], m[2]), k + 4)
          PROVE  \E a \in A, b \in B : W /\ a <= b /\ Is(Ty(a, b), k + 4)
      <4>1. m[1] \in A /\ m[2] \in B
        OBVIOUS
      <4> QED
        BY <3>1, <4>1, Zenon
    <3>2. ASSUME NEW a \in A, NEW b \in B, W /\ a <= b /\ Is(Ty(a, b), k + 4)
          PROVE  \E m \in A \X B : W /\ m[1] <= m[2] /\ Is(Ty(m[1], m[2]), k + 4)
      <4>1. <<a, b>> \in A \X B /\ <<a, b>>[1] = a /\ <<a, b>>[2] = b
        OBVIOUS
      <4> QED
        BY <3>2, <4>1, Zenon
    <3> QED
      BY <3>1, <3>2, Zenon
  <2>3. /\ \A m : m \in A <=> TextAt(t, k + 1) /\ m \in parse_port(TokenAt(t, k + 1).text)
        /\ \A n : n \in B <=> TextAt(t, k + 3) /\ n \in parse_port(TokenAt(t, k + 3).text)
    BY Zenon DEF PortsAt
  <2> HIDE DEF A, B, R, Is
  <2> QED
    BY <2>1, <2>2, <2>3, Zenon
<1> HIDE DEF H, N, P, R
<1> QED
  BY <1>1, <1>2, <1>3, <1>4, <1>5, Zenon DEF WritesType

(* A primitive. *)
LEMMA PrimitiveForm ==
  ASSUME NEW t, NEW i, NEW x
  PROVE  x \in Primitives(t, i) <=>
           \E j, e : x = Item("parse_unary", i, j, e) /\ WritesPrimitive(t, i, j, e)
<1> DEFINE Tree(p, d, v) == Leaf([proto |-> p.value, dir |-> d.value, ty |-> v.ty,
                                  offset |-> PlaceOf(t, i, v.next)])
<1>1. x \in Primitives(t, i) <=>
        \E p \in Optional(t, ProtoWords, i) : \E d \in Optional(t, DirWords, p.next) :
          \E v \in Types(t, d.next) : x = Item("parse_unary", i, v.next, Tree(p, d, v))
  <2> DEFINE Of(p, d) == {Item("parse_unary", i, v.next, Tree(p, d, v)) : v \in Types(t, d.next)}
             With(p) == UNION {Of(p, d) : d \in Optional(t, DirWords, p.next)}
  <2>1. Primitives(t, i) = UNION {With(p) : p \in Optional(t, ProtoWords, i)}
    BY Zenon DEF Primitives
  <2>2. \A p, d : x \in Of(p, d) <=> \E v \in Types(t, d.next) : x = Item("parse_unary", i, v.next, Tree(p, d, v))
    BY Zenon
  <2> HIDE DEF Of
  <2>3. \A p : x \in With(p) <=> \E d \in Optional(t, DirWords, p.next) : x \in Of(p, d)
    BY Zenon
  <2> HIDE DEF With
  <2>4. x \in Primitives(t, i) <=> \E p \in Optional(t, ProtoWords, i) : x \in With(p)
    BY <2>1, Zenon
  <2> HIDE DEF Tree
  <2> QED
    BY <2>2, <2>3, <2>4, Zenon
<1>2. ASSUME x \in Primitives(t, i)
      PROVE  \E j, e : x = Item("parse_unary", i, j, e) /\ WritesPrimitive(t, i, j, e)
  <2>1. PICK p \in Optional(t, ProtoWords, i) : \E d \in Optional(t, DirWords, p.next) :
          \E v \in Types(t, d.next) : x = Item("parse_unary", i, v.next, Tree(p, d, v))
    BY <1>1, <1>2
  <2>2. PICK d \in Optional(t, DirWords, p.next) :
          \E v \in Types(t, d.next) : x = Item("parse_unary", i, v.next, Tree(p, d, v))
    BY <2>1
  <2>3. PICK v \in Types(t, d.next) : x = Item("parse_unary", i, v.next, Tree(p, d, v))
    BY <2>2
  <2>4. WritesOptional(t, ProtoWords, i, p.value, p.next)
    BY OptionalForm
  <2>5. WritesOptional(t, DirWords, p.next, d.value, d.next)
    BY OptionalForm
  <2>6. WritesType(t, d.next, v.next, v.ty)
    BY TypesForm
  <2>7. WritesPrimitive(t, i, v.next, Tree(p, d, v))
    BY <2>4, <2>5, <2>6, Zenon DEF WritesPrimitive
  <2> QED
    BY <2>3, <2>7, Zenon
<1>3. ASSUME NEW j, NEW e, x = Item("parse_unary", i, j, e), WritesPrimitive(t, i, j, e)
      PROVE  x \in Primitives(t, i)
  <2>1. PICK proto, dir, d, k, ty :
          /\ WritesOptional(t, ProtoWords, i, proto, d)
          /\ WritesOptional(t, DirWords, d, dir, k)
          /\ WritesType(t, k, j, ty)
          /\ e = Leaf([proto |-> proto, dir |-> dir, ty |-> ty, offset |-> PlaceOf(t, i, j)])
    BY <1>3, Zenon DEF WritesPrimitive
  <2> DEFINE a == [value |-> proto, next |-> d]
             b == [value |-> dir, next |-> k]
             c == [ty |-> ty, next |-> j]
  <2>2. a \in Optional(t, ProtoWords, i) /\ a.next = d /\ a.value = proto
    BY <2>1, OptionalForm
  <2>3. b \in Optional(t, DirWords, a.next) /\ b.next = k /\ b.value = dir
    BY <2>1, OptionalForm
  <2>4. c \in Types(t, b.next) /\ c.next = j /\ c.ty = ty
    BY <2>1, TypesForm
  <2> HIDE DEF a, b, c
  <2>5. e = Tree(a, b, c)
    BY <2>1, <2>2, <2>3, <2>4, Zenon
  <2> QED
    BY <1>1, <1>3, <2>2, <2>3, <2>4, <2>5, Zenon
<1> QED
  BY <1>2, <1>3, Zenon

(* The primitives of the link layer. *)
LEMMA EtherForm ==
  ASSUME NEW t, NEW i \in Nat, NEW x
  PROVE  x \in EtherCasts(t, i, i) \/ (x \in BehindEther(t, i) /\ WordAt(t, i, "ether")) <=>
           \E j, e : x = Item("parse_unary", i, j, e) /\ WritesEther(t, i, j, e)
<1> DEFINE Is(j, r) == x = Item("parse_unary", i, j, EtherLeaf(r))
           Host(m, mac, dir) == [kind |-> "Host", mac |-> mac, dir |-> dir, offset |-> PlaceOf(t, i, m + 1)]
           Cast(j, w) == [kind |-> KindOf[w], offset |-> PlaceOf(t, i, j)]
           HostAt(m, dir) == /\ TextAt(t, m)
                             /\ \E mac \in parse_mac_literal(TokenAt(t, m).text) : Is(m + 1, Host(m, mac, dir))
           Written == \E j, e : x = Item("parse_unary", i, j, e) /\ WritesEther(t, i, j, e)
           W == WordAt(t, i, "ether")
<1>1. \A m, dir : x \in EtherHosts(t, i, m, dir) <=> HostAt(m, dir)
  BY Zenon DEF EtherHosts, MacsAt, EtherItem
<1>2. \A k : x \in EtherCasts(t, i, k) <=> \E w \in EtherKinds : WordAt(t, k, w) /\ Is(k + 1, Cast(k + 1, w))
  BY Zenon DEF EtherCasts, EtherItem
<1>3. x \in EtherProtos(t, i, i + 2) <=>
        /\ TextAt(t, i + 2)
        /\ \E n \in parse_ethertype(TokenAt(t, i + 2).text) :
             Is((i + 2) + 1, [kind |-> "Proto", ethertype |-> n, offset |-> PlaceOf(t, i, (i + 2) + 1)])
  BY Zenon DEF EtherProtos, EtherTypesAt, EtherItem
<1>4. x \in BehindEther(t, i) <=>
        \/ x \in EtherCasts(t, i, i + 1)
        \/ x \in EtherProtos(t, i, i + 2) /\ WordAt(t, i + 1, "proto")
        \/ x \in EtherHosts(t, i, i + 2, {}) /\ WordAt(t, i + 1, "host")
        \/ \E w \in DOMAIN DirWords :
             /\ WordAt(t, i + 1, w)
             /\ \/ x \in EtherHosts(t, i, i + 2, {DirWords[w]})
                \/ x \in EtherHosts(t, i, i + 3, {DirWords[w]}) /\ WordAt(t, i + 2, "host")
  <2> DEFINE Dir(w) == EtherHosts(t, i, i + 2, {DirWords[w]})
                         \cup {y \in EtherHosts(t, i, i + 3, {DirWords[w]}) : WordAt(t, i + 2, "host")}
             Dirs == UNION {Dir(w) : w \in {w \in DOMAIN DirWords : WordAt(t, i + 1, w)}}
             Protos == {y \in EtherProtos(t, i, i + 2) : WordAt(t, i + 1, "proto")}
             Plain == {y \in EtherHosts(t, i, i + 2, {}) : WordAt(t, i + 1, "host")}
  <2>1. BehindEther(t, i) = EtherCasts(t, i, i + 1) \cup Protos \cup Plain \cup Dirs
    BY Zenon DEF BehindEther
  <2>2. \A w : x \in Dir(w) <=>
          \/ x \in EtherHosts(t, i, i + 2, {DirWords[w]})
          \/ x \in EtherHosts(t, i, i + 3, {DirWords[w]}) /\ WordAt(t, i + 2, "host")
    BY Zenon
  <2>3. x \in Protos <=> x \in EtherProtos(t, i, i + 2) /\ WordAt(t, i + 1, "proto")
    BY Zenon
  <2>4. x \in Plain <=> x \in EtherHosts(t, i, i + 2, {}) /\ WordAt(t, i + 1, "host")
    BY Zenon
  <2> HIDE DEF Dir, Protos, Plain
  <2>5. x \in Dirs <=> \E w \in DOMAIN DirWords : WordAt(t, i + 1, w) /\ x \in Dir(w)
    BY Zenon
  <2> HIDE DEF Dirs
  <2>6. x \in BehindEther(t, i) <=> x \in EtherCasts(t, i, i + 1) \/ x \in Protos \/ x \in Plain \/ x \in Dirs
    BY <2>1, Zenon
  <2> QED
    BY <2>2, <2>3, <2>4, <2>5, <2>6, Zenon
<1>5. (i + 1) + 1 = i + 2 /\ (i + 2) + 1 = i + 3
  OBVIOUS
<1>6. Written <=>
        \/ W /\ WordAt(t, i + 1, "host") /\ HostAt(i + 2, {})
        \/ \E w \in DOMAIN DirWords :
             /\ W /\ WordAt(t, i + 1, w)
             /\ \/ HostAt(i + 2, {DirWords[w]})
                \/ WordAt(t, i + 2, "host") /\ HostAt(i + 3, {DirWords[w]})
        \/ /\ W /\ WordAt(t, i + 1, "proto") /\ TextAt(t, i + 2)
           /\ \E n \in parse_ethertype(TokenAt(t, i + 2).text) :
                Is(i + 3, [kind |-> "Proto", ethertype |-> n, offset |-> PlaceOf(t, i, i + 3)])
        \/ \E w \in EtherKinds : WordAt(t, i, w) /\ Is(i + 1, Cast(i + 1, w))
        \/ \E w \in EtherKinds : W /\ WordAt(t, i + 1, w) /\ Is(i + 2, Cast(i + 2, w))
  <2> DEFINE At(j, e) == x = Item("parse_unary", i, j, e)
  <2>1. \A m, dir : (\E j, e : At(j, e) /\ WritesHost(t, i, j, m, dir, e)) <=> W /\ HostAt(m, dir)
    BY Zenon DEF WritesHost
  <2> DEFINE ProtoOf(n) == [kind |-> "Proto", ethertype |-> n, offset |-> PlaceOf(t, i, i + 3)]
             Proto(j, e) ==
               /\ W /\ WordAt(t, i + 1, "proto") /\ TextAt(t, i + 2) /\ j = i + 3
               /\ \E n \in parse_ethertype(TokenAt(t, i + 2).text) :
                    e = EtherLeaf([kind |-> "Proto", ethertype |-> n, offset |-> PlaceOf(t, i, j)])
             Casts(j, e) ==
               \E w \in EtherKinds :
                 /\ \/ WordAt(t, i, w) /\ j = i + 1
                    \/ W /\ WordAt(t, i + 1, w) /\ j = i + 2
                 /\ e = EtherLeaf(Cast(j, w))
  <2>2. (\E j, e : At(j, e) /\ Proto(j, e)) <=>
          /\ W /\ WordAt(t, i + 1, "proto") /\ TextAt(t, i + 2)
          /\ \E n \in parse_ethertype(TokenAt(t, i + 2).text) : Is(i + 3, ProtoOf(n))
    BY Zenon
  <2>3. (\E j, e : At(j, e) /\ Casts(j, e)) <=>
          \/ \E w \in EtherKinds : WordAt(t, i, w) /\ Is(i + 1, Cast(i + 1, w))
          \/ \E w \in EtherKinds : W /\ WordAt(t, i + 1, w) /\ Is(i + 2, Cast(i + 2, w))
    <3>1. ASSUME NEW j, NEW e, At(j, e) /\ Casts(j, e)
          PROVE  \/ \E w \in EtherKinds : WordAt(t, i, w) /\ Is(i + 1, Cast(i + 1, w))
                 \/ \E w \in EtherKinds : W /\ WordAt(t, i + 1, w) /\ Is(i + 2, Cast(i + 2, w))
      BY <3>1, Zenon
    <3>2. ASSUME NEW w \in EtherKinds, WordAt(t, i, w) /\ Is(i + 1, Cast(i + 1, w))
          PROVE  \E j, e : At(j, e) /\ Casts(j, e)
      BY <3>2, Zenon
    <3>3. ASSUME NEW w \in EtherKinds, W /\ WordAt(t, i + 1, w) /\ Is(i + 2, Cast(i + 2, w))
          PROVE  \E j, e : At(j, e) /\ Casts(j, e)
      BY <3>3, Zenon
    <3> QED
      BY <3>1, <3>2, <3>3, Zenon
  <2>4. \A j, e : WritesEther(t, i, j, e) <=>
          \/ WordAt(t, i + 1, "host") /\ WritesHost(t, i, j, i + 2, {}, e)
          \/ \E w \in DOMAIN DirWords :
               /\ WordAt(t, i + 1, w)
               /\ \/ WritesHost(t, i, j, i + 2, {DirWords[w]}, e)
                  \/ WordAt(t, i + 2, "host") /\ WritesHost(t, i, j, i + 3, {DirWords[w]}, e)
          \/ Proto(j, e)
          \/ Casts(j, e)
    BY Zenon DEF WritesEther
  <2> DEFINE Plain(j, e) == WordAt(t, i + 1, "host") /\ WritesHost(t, i, j, i + 2, {}, e)
             Dir(j, e) == \E w \in DOMAIN DirWords :
               /\ WordAt(t, i + 1, w)
               /\ \/ WritesHost(t, i, j, i + 2, {DirWords[w]}, e)
                  \/ WordAt(t, i + 2, "host") /\ WritesHost(t, i, j, i + 3, {DirWords[w]}, e)
  <2> HIDE DEF At, Proto, Casts, HostAt, Is, Cast, W
  <2>5. (\E j, e : At(j, e) /\ Plain(j, e)) <=> W /\ WordAt(t, i + 1, "host") /\ HostAt(i + 2, {})
    BY <2>1, Zenon
  <2>6. (\E j, e : At(j, e) /\ Dir(j, e)) <=>
          \E w \in DOMAIN DirWords :
             /\ W /\ WordAt(t, i + 1, w)
             /\ \/ HostAt(i + 2, {DirWords[w]})
                \/ WordAt(t, i + 2, "host") /\ HostAt(i + 3, {DirWords[w]})
    <3>1. ASSUME NEW j, NEW e, At(j, e) /\ Dir(j, e)
          PROVE  \E w \in DOMAIN DirWords :
                   /\ W /\ WordAt(t, i + 1, w)
                   /\ \/ HostAt(i + 2, {DirWords[w]})
                      \/ WordAt(t, i + 2, "host") /\ HostAt(i + 3, {DirWords[w]})
      BY <2>1, <3>1, Zenon
    <3>2. ASSUME NEW w \in DOMAIN DirWords, W /\ WordAt(t, i + 1, w),
                 \/ HostAt(i + 2, {DirWords[w]})
                 \/ WordAt(t, i + 2, "host") /\ HostAt(i + 3, {DirWords[w]})
          PROVE  \E j, e : At(j, e) /\ Dir(j, e)
      BY <2>1, <3>2, Zenon
    <3> QED
      BY <3>1, <3>2, Zenon
  <2>7. \A j, e : WritesEther(t, i, j, e) <=> Plain(j, e) \/ Dir(j, e) \/ Proto(j, e) \/ Casts(j, e)
    BY <2>4, Zenon
  <2> HIDE DEF Plain, Dir
  <2>8. Written <=> \/ \E j, e : At(j, e) /\ Plain(j, e)
                    \/ \E j, e : At(j, e) /\ Dir(j, e)
                    \/ \E j, e : At(j, e) /\ Proto(j, e)
                    \/ \E j, e : At(j, e) /\ Casts(j, e)
    BY <2>7, Zenon DEF At
  <2> HIDE DEF Written
  <2> QED
    BY <2>2, <2>3, <2>5, <2>6, <2>8, Zenon
<1> QED
  BY <1>1, <1>2, <1>3, <1>4, <1>5, <1>6, ZenonT(40)

(* A leaf of the text. *)
LEMMA LeafForm ==
  ASSUME NEW t, NEW x
  PROVE  x \in Leaves(t) <=>
           \E i \in 0..(Len(t) - 1) : \E j, e : x = Item("parse_unary", i, j, e) /\ WritesLeaf(t, i, j, e)
<1>1. ASSUME NEW i \in 0..(Len(t) - 1)
      PROVE  x \in LeavesAt(t, i) <=>
               \E j, e : x = Item("parse_unary", i, j, e) /\ WritesLeaf(t, i, j, e)
  <2> DEFINE At(j, e) == x = Item("parse_unary", i, j, e)
  <2>1. i \in Nat
    OBVIOUS
  <2>2. x \in LeavesAt(t, i) <=>
          \/ x \in Primitives(t, i)
          \/ x \in EtherCasts(t, i, i) \/ (x \in BehindEther(t, i) /\ WordAt(t, i, "ether"))
    BY Zenon DEF LeavesAt
  <2>3. x \in Primitives(t, i) <=> \E j, e : At(j, e) /\ WritesPrimitive(t, i, j, e)
    BY PrimitiveForm, Zenon
  <2>4. x \in EtherCasts(t, i, i) \/ (x \in BehindEther(t, i) /\ WordAt(t, i, "ether")) <=>
          \E j, e : At(j, e) /\ WritesEther(t, i, j, e)
    BY <2>1, EtherForm, Zenon
  <2> HIDE DEF At
  <2>5. (\E j, e : At(j, e) /\ WritesLeaf(t, i, j, e)) <=>
          \/ \E j, e : At(j, e) /\ WritesPrimitive(t, i, j, e)
          \/ \E j, e : At(j, e) /\ WritesEther(t, i, j, e)
    BY Zenon DEF WritesLeaf
  <2>6. x \in LeavesAt(t, i) <=> \E j, e : At(j, e) /\ WritesLeaf(t, i, j, e)
    BY <2>2, <2>3, <2>4, <2>5, Zenon
  <2> QED
    BY <2>6, Zenon DEF At
<1>2. x \in Leaves(t) <=> \E i \in 0..(Len(t) - 1) : x \in LeavesAt(t, i)
  BY Zenon DEF Leaves
<1> QED
  BY <1>1, <1>2, Zenon

(* A leaf begins and ends with a word. *)
LEMMA LeafSpan ==
  ASSUME NEW t, NEW i \in Nat, NEW j, NEW e, WritesLeaf(t, i, j, e)
  PROVE  j \in Nat /\ i < j /\ TextAt(t, i) /\ TextAt(t, j - 1)
<1>1. ASSUME NEW a \in Nat, NEW b PROVE (b = a + 1 => b \in Nat /\ b - 1 = a /\ a < b)
                                       /\ (b = a + 2 => b \in Nat /\ b - 1 = a + 1 /\ a < b)
                                       /\ (b = a + 3 => b \in Nat /\ b - 1 = a + 2 /\ a < b)
                                       /\ (b = a + 4 => b \in Nat /\ b - 1 = a + 3 /\ a < b)
  OBVIOUS
<1>2. CASE WritesPrimitive(t, i, j, e)
  <2>1. PICK proto, dir, d, k, ty :
          /\ WritesOptional(t, ProtoWords, i, proto, d)
          /\ WritesOptional(t, DirWords, d, dir, k)
          /\ WritesType(t, k, j, ty)
    BY <1>2, Zenon DEF WritesPrimitive
  <2>2. d = i \/ (TextAt(t, i) /\ d = i + 1)
    BY <2>1, Zenon DEF WritesOptional, WordAt
  <2>3. k = d \/ (TextAt(t, d) /\ k = d + 1)
    BY <2>1, Zenon DEF WritesOptional, WordAt
  <2>4. /\ TextAt(t, k)
        /\ \/ TextAt(t, k + 1) /\ j = k + 2
           \/ TextAt(t, k + 3) /\ j = k + 4
    BY <2>1, Zenon DEF WritesType, WordAt
  <2>5. k \in Nat /\ i <= k
    BY <2>2, <2>3
  <2>6. j \in Nat /\ k < j /\ TextAt(t, j - 1)
    <3>1. CASE TextAt(t, k + 1) /\ j = k + 2
      BY <1>1, <2>5, <3>1
    <3>2. CASE TextAt(t, k + 3) /\ j = k + 4
      BY <1>1, <2>5, <3>2
    <3> QED
      BY <2>4, <3>1, <3>2
  <2>7. i < j
    BY <2>5, <2>6
  <2> QED
    BY <2>2, <2>3, <2>4, <2>6, <2>7, Zenon
<1>3. CASE WritesEther(t, i, j, e)
  <2>1. /\ TextAt(t, i)
        /\ \/ TextAt(t, i) /\ j = i + 1
           \/ TextAt(t, i + 1) /\ j = i + 2
           \/ TextAt(t, i + 2) /\ (j = i + 3 \/ j = (i + 2) + 1)
           \/ TextAt(t, i + 3) /\ j = (i + 3) + 1
    BY <1>3, Zenon DEF WritesEther, WritesHost, WordAt
  <2>2. (i + 2) + 1 = i + 3 /\ (i + 3) + 1 = i + 4
    OBVIOUS
  <2>3. CASE TextAt(t, i) /\ j = i + 1
    BY <1>1, <2>3
  <2>4. CASE TextAt(t, i + 1) /\ j = i + 2
    BY <1>1, <2>1, <2>4
  <2>5. CASE TextAt(t, i + 2) /\ j = i + 3
    BY <1>1, <2>1, <2>5
  <2>6. CASE TextAt(t, i + 3) /\ j = i + 4
    BY <1>1, <2>1, <2>6
  <2> QED
    BY <2>1, <2>2, <2>3, <2>4, <2>5, <2>6, Zenon
<1> QED
  BY <1>2, <1>3 DEF WritesLeaf

-----------------------------------------------------------------------------
(* The pieces of the chart. *)

(* A piece is not empty, and ends with a word or a `)`. *)
IsPiece(t, x) ==
  \E fn \in {"parse_or", "parse_and", "parse_unary"} : \E i, j \in Nat : \E e :
    /\ x = Item(fn, i, j, e) /\ i < j
    /\ TextAt(t, j - 1) \/ SignAt(t, j - 1, "RParen")

(* The parts of a piece. *)
LEMMA ItemParts ==
  ASSUME NEW fn, NEW i, NEW j, NEW e
  PROVE  /\ Item(fn, i, j, e).fn = fn /\ Item(fn, i, j, e).from = i
         /\ Item(fn, i, j, e).upto = j /\ Item(fn, i, j, e).tree = e
  BY DEF Item

(* What is known of a piece. *)
LEMMA PieceParts ==
  ASSUME NEW t, NEW x, IsPiece(t, x)
  PROVE  /\ x.fn \in {"parse_or", "parse_and", "parse_unary"}
         /\ x.from \in Nat /\ x.upto \in Nat /\ x.from < x.upto
         /\ TextAt(t, x.upto - 1) \/ SignAt(t, x.upto - 1, "RParen")
         /\ x = Item(x.fn, x.from, x.upto, x.tree)
<1>1. PICK fn \in {"parse_or", "parse_and", "parse_unary"}, i \in Nat, j \in Nat :
        \E e : /\ x = Item(fn, i, j, e) /\ i < j
               /\ TextAt(t, j - 1) \/ SignAt(t, j - 1, "RParen")
  BY Zenon DEF IsPiece
<1>2. PICK e : x = Item(fn, i, j, e)
  BY <1>1
<1>3. x.fn = fn /\ x.from = i /\ x.upto = j /\ x.tree = e
  BY <1>2, ItemParts
<1>4. x = Item(x.fn, x.from, x.upto, x.tree)
  BY <1>2, <1>3, Zenon
<1> QED
  BY <1>1, <1>3, <1>4, Zenon

(* What an operator can be applied to. *)
LEMMA UnitsForm ==
  ASSUME NEW t, NEW leaves, NEW S, NEW n, NEW x
  PROVE  x \in Units(t, leaves, S, n) <=>
           \/ x \in leaves /\ x.upto - x.from = n
           \/ \E y \in S : /\ y.fn = "parse_unary" /\ y.upto - y.from = n - 1
                           /\ y.from > 0 /\ WordAt(t, y.from - 1, "not")
                           /\ x = Item("parse_unary", y.from - 1, y.upto, NotTree(t, y.from - 1, y.tree))
           \/ \E y \in S : /\ y.fn = "parse_or" /\ y.upto - y.from = n - 2
                           /\ y.from > 0 /\ SignAt(t, y.from - 1, "LParen") /\ SignAt(t, y.upto, "RParen")
                           /\ x = Item("parse_unary", y.from - 1, y.upto + 1, y.tree)
<1>1. x \in Units(t, leaves, S, n) <=>
        (x \in leaves /\ x.upto - x.from = n) \/ x \in Negated(t, S, n) \/ x \in Grouped(t, S, n)
  BY Zenon DEF Units
<1>2. x \in Negated(t, S, n) <=>
        \E y \in S : /\ y.fn = "parse_unary" /\ y.upto - y.from = n - 1
                     /\ y.from > 0 /\ WordAt(t, y.from - 1, "not")
                     /\ x = Item("parse_unary", y.from - 1, y.upto, NotTree(t, y.from - 1, y.tree))
  BY Zenon DEF Negated
<1>3. x \in Grouped(t, S, n) <=>
        \E y \in S : /\ y.fn = "parse_or" /\ y.upto - y.from = n - 2
                     /\ y.from > 0 /\ SignAt(t, y.from - 1, "LParen") /\ SignAt(t, y.upto, "RParen")
                     /\ x = Item("parse_unary", y.from - 1, y.upto + 1, y.tree)
  BY Zenon DEF Grouped
<1> QED
  BY <1>1, <1>2, <1>3, Zenon

(* What a level consists of. *)
LEMMA LevelForm ==
  ASSUME NEW t, NEW S, NEW n, NEW fn, NEW operands, NEW x
  PROVE  x \in Level(t, S, n, fn, operands) <=>
           \/ \E y \in operands : x = Item(fn, y.from, y.upto, y.tree)
           \/ \E l, r \in S : /\ l.fn = fn /\ WordAt(t, l.upto, Levels[fn].word)
                              /\ r.fn = Levels[fn].operand /\ r.from = l.upto + 1 /\ r.upto - l.from = n
                              /\ x = Item(fn, l.from, r.upto, BinaryTree(fn, l.tree, r.tree))
<1> DEFINE Of(l) == {Item(fn, l.from, y.upto, BinaryTree(fn, l.tree, y.tree)) :
                       y \in {y \in S : /\ y.fn = Levels[fn].operand /\ y.from = l.upto + 1
                                        /\ y.upto - l.from = n}}
<1>1. Operated(t, S, n, fn) = UNION {Of(l) : l \in {l \in S : l.fn = fn /\ WordAt(t, l.upto, Levels[fn].word)}}
  BY Zenon DEF Operated
<1>2. \A l : x \in Of(l) <=>
        \E r \in S : /\ r.fn = Levels[fn].operand /\ r.from = l.upto + 1 /\ r.upto - l.from = n
                     /\ x = Item(fn, l.from, r.upto, BinaryTree(fn, l.tree, r.tree))
  BY Zenon
<1> HIDE DEF Of
<1>3. x \in Operated(t, S, n, fn) <=> \E l \in S : l.fn = fn /\ WordAt(t, l.upto, Levels[fn].word) /\ x \in Of(l)
  BY <1>1, Zenon
<1>4. x \in Level(t, S, n, fn, operands) <=>
        (\E y \in operands : x = Item(fn, y.from, y.upto, y.tree)) \/ x \in Operated(t, S, n, fn)
  BY Zenon DEF Level
<1> QED
  BY <1>2, <1>3, <1>4, Zenon

(* The pieces of one length. *)
LEMMA PiecesForm ==
  ASSUME NEW t, NEW leaves, NEW S, NEW n
  PROVE  LET units == Units(t, leaves, S, n)
             ands == Level(t, S, n, "parse_and", units)
             ors == Level(t, S, n, "parse_or", ands)
         IN  Pieces(t, leaves, S, n) = units \cup ands \cup ors
  BY Zenon DEF Pieces

(* They have that length. *)
LEMMA PieceSpan ==
  ASSUME NEW t, Len(t) \in Nat, NEW S, \A y \in S : IsPiece(t, y), NEW n \in Nat,
         NEW x \in Pieces(t, Leaves(t), S, n)
  PROVE  IsPiece(t, x) /\ x.upto - x.from = n
<1> DEFINE leaves == Leaves(t)
           units == Units(t, leaves, S, n)
           ands == Level(t, S, n, "parse_and", units)
           ors == Level(t, S, n, "parse_or", ands)
           Fits(y) == IsPiece(t, y) /\ y.upto - y.from = n
<1>1. x \in units \/ x \in ands \/ x \in ors
  BY PiecesForm, Zenon
<1>a. ASSUME NEW fn \in {"parse_or", "parse_and", "parse_unary"}, NEW i \in Nat, NEW j \in Nat,
             i < j, j - i = n, TextAt(t, j - 1) \/ SignAt(t, j - 1, "RParen"), NEW e, NEW y,
             y = Item(fn, i, j, e)
      PROVE  Fits(y)
  <2>1. IsPiece(t, y)
    BY <1>a, Zenon DEF IsPiece
  <2>2. y.from = i /\ y.upto = j
    BY <1>a, ItemParts
  <2> QED
    BY <1>a, <2>1, <2>2, Zenon
<1>2. ASSUME NEW y \in units PROVE Fits(y)
  <2> DEFINE Neg(z) == /\ z.fn = "parse_unary" /\ z.upto - z.from = n - 1
                       /\ z.from > 0 /\ WordAt(t, z.from - 1, "not")
                       /\ y = Item("parse_unary", z.from - 1, z.upto, NotTree(t, z.from - 1, z.tree))
             Grp(z) == /\ z.fn = "parse_or" /\ z.upto - z.from = n - 2
                       /\ z.from > 0 /\ SignAt(t, z.from - 1, "LParen") /\ SignAt(t, z.upto, "RParen")
                       /\ y = Item("parse_unary", z.from - 1, z.upto + 1, z.tree)
  <2>0. (y \in leaves /\ y.upto - y.from = n) \/ (\E z \in S : Neg(z)) \/ (\E z \in S : Grp(z))
    <3> HIDE DEF leaves
    <3> QED
      BY UnitsForm
  <2>1. CASE y \in leaves /\ y.upto - y.from = n
    <3>1. PICK i \in 0..(Len(t) - 1) : \E j, e : y = Item("parse_unary", i, j, e) /\ WritesLeaf(t, i, j, e)
      BY <2>1, LeafForm
    <3>2. PICK j, e : y = Item("parse_unary", i, j, e) /\ WritesLeaf(t, i, j, e)
      BY <3>1
    <3>3. i \in Nat
      OBVIOUS
    <3>4. j \in Nat /\ i < j /\ TextAt(t, j - 1)
      BY <3>2, <3>3, LeafSpan, Zenon
    <3>5. IsPiece(t, y)
      BY <3>2, <3>3, <3>4, Zenon DEF IsPiece
    <3> QED
      BY <2>1, <3>5
  <2>2. CASE \E z \in S : Neg(z)
    <3>1. PICK z \in S : Neg(z)
      BY <2>2
    <3>2. /\ z.from \in Nat /\ z.upto \in Nat /\ z.from < z.upto
          /\ TextAt(t, z.upto - 1) \/ SignAt(t, z.upto - 1, "RParen")
      BY PieceParts
    <3> HIDE DEF Fits
    <3>3. z.from - 1 \in Nat /\ z.from - 1 < z.upto /\ z.upto - (z.from - 1) = n
      BY <3>1, <3>2
    <3> QED
      BY <1>a, <3>1, <3>2, <3>3, Zenon
  <2>3. CASE \E z \in S : Grp(z)
    <3>1. PICK z \in S : Grp(z)
      BY <2>3
    <3>2. z.from \in Nat /\ z.upto \in Nat /\ z.from < z.upto
      BY PieceParts
    <3>3. /\ z.from - 1 \in Nat /\ z.upto + 1 \in Nat /\ z.from - 1 < z.upto + 1
          /\ (z.upto + 1) - (z.from - 1) = n /\ (z.upto + 1) - 1 = z.upto
      <4>1. z.upto - z.from = n - 2 /\ z.from > 0
        BY <3>1, Zenon
      <4> QED
        BY <3>2, <4>1
    <3> HIDE DEF Fits
    <3>4. SignAt(t, (z.upto + 1) - 1, "RParen")
      BY <3>1, <3>3, Zenon
    <3> QED
      BY <1>a, <3>1, <3>3, <3>4, Zenon
  <2> QED
    BY <2>0, <2>1, <2>2, <2>3
<1>3. ASSUME NEW fn \in DOMAIN Levels, NEW operands, \A y \in operands : Fits(y),
             NEW y \in Level(t, S, n, fn, operands)
      PROVE  Fits(y)
  <2> DEFINE Op(l, r) == /\ l.fn = fn /\ WordAt(t, l.upto, Levels[fn].word)
                         /\ r.fn = Levels[fn].operand /\ r.from = l.upto + 1 /\ r.upto - l.from = n
                         /\ y = Item(fn, l.from, r.upto, BinaryTree(fn, l.tree, r.tree))
  <2>0. (\E z \in operands : y = Item(fn, z.from, z.upto, z.tree)) \/ (\E l, r \in S : Op(l, r))
    BY LevelForm
  <2>1. fn \in {"parse_or", "parse_and", "parse_unary"}
    BY DEF Levels
  <2>2. CASE \E z \in operands : y = Item(fn, z.from, z.upto, z.tree)
    <3>1. PICK z \in operands : y = Item(fn, z.from, z.upto, z.tree)
      BY <2>2
    <3>2. IsPiece(t, z) /\ z.upto - z.from = n
      BY <1>3
    <3>3. /\ z.from \in Nat /\ z.upto \in Nat /\ z.from < z.upto
          /\ TextAt(t, z.upto - 1) \/ SignAt(t, z.upto - 1, "RParen")
      BY <3>2, PieceParts
    <3> QED
      BY <1>a, <2>1, <3>1, <3>2, <3>3, ZenonT(80)
  <2>3. CASE \E l, r \in S : Op(l, r)
    <3>1. PICK l \in S, r \in S : Op(l, r)
      BY <2>3
    <3>2. l.from \in Nat /\ l.upto \in Nat /\ l.from < l.upto
      BY PieceParts
    <3>3. /\ r.from \in Nat /\ r.upto \in Nat /\ r.from < r.upto
          /\ TextAt(t, r.upto - 1) \/ SignAt(t, r.upto - 1, "RParen")
      BY PieceParts
    <3>4. l.from < r.upto
      <4>1. r.from = l.upto + 1
        BY <3>1, Zenon
      <4>2. l.from \in Nat /\ l.upto \in Nat /\ r.from \in Nat /\ r.upto \in Nat /\ l.from < l.upto /\ r.from < r.upto
        BY <3>2, <3>3
      <4> QED
        BY <4>1, <4>2
    <3> QED
      <4> DEFINE e == BinaryTree(fn, l.tree, r.tree)
      <4>1. y = Item(fn, l.from, r.upto, e) /\ r.upto - l.from = n
        BY <3>1, Zenon
      <4> HIDE DEF e, Fits
      <4> QED
        BY <1>a, <2>1, <3>2, <3>3, <3>4, <4>1, Zenon
  <2> QED
    BY <2>0, <2>2, <2>3
<1>4. {"parse_or", "parse_and"} \subseteq DOMAIN Levels
  BY DEF Levels
<1> HIDE DEF units, Fits
<1>5. \A y \in ands : Fits(y)
  BY <1>2, <1>3, <1>4, Zenon
<1> HIDE DEF ands
<1>6. \A y \in ors : Fits(y)
  BY <1>3, <1>4, <1>5, Zenon
<1>7. Fits(x)
  BY <1>1, <1>2, <1>5, <1>6, Zenon
<1> QED
  BY <1>7 DEF Fits

(* A piece is found once the chart has its length, and not before. *)
LEMMA ChartSpan ==
  ASSUME NEW t, Len(t) \in Nat, NEW n \in Nat, NEW x \in Chart(t)[n]
  PROVE  IsPiece(t, x) /\ x.upto - x.from <= n /\ x \in Chart(t)[x.upto - x.from]
<1> DEFINE C(k) == Chart(t)[k]
           Q(k) == \A y \in C(k) : IsPiece(t, y) /\ y.upto - y.from <= k /\ y \in C(y.upto - y.from)
           T == {k \in Nat : ~Q(k)}
<1>1. ASSUME T # {} PROVE FALSE
  <2>1. T \subseteq Nat
    OBVIOUS
  <2>2. PICK k \in T : \A l \in T : k <= l
    BY <1>1, <2>1, LeastNumber
  <2>3. k \in Nat /\ ~Q(k)
    BY <2>2
  <2>4. CASE k = 0
    BY <2>3, <2>4, ChartLayers
  <2>5. CASE k # 0
    <3> DEFINE m == k - 1
    <3>1. m \in Nat /\ m + 1 = k /\ ~(k <= m)
      BY <2>3, <2>5
    <3>2. m \notin T
      BY <2>2, <3>1, Zenon
    <3>3. Q(m)
      BY <3>1, <3>2
    <3> HIDE DEF m
    <3>4. C(m + 1) = C(m) \cup Pieces(t, Leaves(t), C(m), m + 1)
      BY <3>1, ChartLayers, Zenon
    <3>5. C(k) = C(m) \cup Pieces(t, Leaves(t), C(m), k)
      BY <3>1, <3>4, Zenon
    <3> HIDE DEF C
    <3>6. ASSUME NEW y \in C(m)
          PROVE  IsPiece(t, y) /\ y.upto - y.from <= k /\ y \in C(y.upto - y.from)
      <4>1. IsPiece(t, y) /\ y.upto - y.from <= m /\ y \in C(y.upto - y.from)
        BY <3>3
      <4>2. y.upto \in Nat /\ y.from \in Nat
        BY <4>1, PieceParts
      <4> QED
        BY <3>1, <4>1, <4>2
    <3>7. ASSUME NEW y \in Pieces(t, Leaves(t), C(m), k)
          PROVE  IsPiece(t, y) /\ y.upto - y.from <= k /\ y \in C(y.upto - y.from)
      <4>1. IsPiece(t, y) /\ y.upto - y.from = k
        <5>1. \A z \in C(m) : IsPiece(t, z)
          BY <3>3
        <5> QED
          BY <2>3, <5>1, PieceSpan
      <4>2. y \in C(k)
        BY <3>5, Zenon
      <4>3. k <= k
        BY <2>3
      <4> QED
        BY <4>1, <4>2, <4>3, Zenon
    <3> QED
      BY <2>3, <3>5, <3>6, <3>7, Zenon
  <2> QED
    BY <2>4, <2>5
<1> HIDE DEF Q
<1>2. Q(n)
  BY <1>1
<1> QED
  BY <1>2, Zenon DEF Q

(* A chart only grows. *)
LEMMA ChartGrows ==
  ASSUME NEW t, NEW n \in Nat, NEW m \in Nat, n <= m
  PROVE  Chart(t)[n] \subseteq Chart(t)[m]
<1> DEFINE C(k) == Chart(t)[k]
           T == {k \in Nat : n <= k /\ ~(C(n) \subseteq C(k))}
<1>1. ASSUME T # {} PROVE FALSE
  <2>1. T \subseteq Nat
    OBVIOUS
  <2>2. PICK k \in T : \A l \in T : k <= l
    BY <1>1, <2>1, LeastNumber
  <2>3. k \in Nat /\ n <= k /\ ~(C(n) \subseteq C(k))
    BY <2>2
  <2>4. k # n
    BY <2>3
  <2>5. k - 1 \in Nat /\ n <= k - 1 /\ (k - 1) + 1 = k /\ ~(k <= k - 1)
    BY <2>3, <2>4
  <2>6. C(n) \subseteq C(k - 1)
    <3> HIDE DEF C
    <3> QED
      BY <2>2, <2>5
  <2>7. C((k - 1) + 1) = C(k - 1) \cup Pieces(t, Leaves(t), C(k - 1), (k - 1) + 1)
    BY <2>5, ChartLayers, Zenon
  <2>8. C(k - 1) \subseteq C(k)
    BY <2>5, <2>7, Zenon
  <2> QED
    BY <2>3, <2>6, <2>8, Zenon
<1> HIDE DEF C
<1>2. m \notin T
  BY <1>1
<1> QED
  BY <1>2 DEF C

(* A piece made of shorter ones. *)
LEMMA ChartAdds ==
  ASSUME NEW t, Len(t) \in Nat, NEW n \in Nat, n # 0, n <= Len(t), NEW x,
         x \in Pieces(t, Leaves(t), Chart(t)[n - 1], n)
  PROVE  x \in Chart(t)[Len(t)]
<1>1. n - 1 \in Nat /\ (n - 1) + 1 = n
  OBVIOUS
<1>2. Chart(t)[(n - 1) + 1] = Chart(t)[n - 1] \cup Pieces(t, Leaves(t), Chart(t)[n - 1], (n - 1) + 1)
  BY <1>1, ChartLayers, Zenon
<1>3. x \in Chart(t)[n]
  BY <1>1, <1>2, Zenon
<1> QED
  BY <1>3, ChartGrows

(* A piece of a text is found among the pieces of its length. *)
LEMMA ChartHas ==
  ASSUME NEW t, Len(t) \in Nat, NEW x \in Chart(t)[Len(t)], NEW m \in Nat, x.upto - x.from <= m
  PROVE  x \in Chart(t)[m]
<1>1. x \in Chart(t)[x.upto - x.from] /\ IsPiece(t, x)
  BY ChartSpan
<1>2. x.upto \in Nat /\ x.from \in Nat /\ x.from < x.upto
  BY <1>1, PieceParts
<1> DEFINE n == x.upto - x.from
<1>3. n \in Nat
  BY <1>2
<1>4. x \in Chart(t)[n] /\ n <= m
  BY <1>1
<1> HIDE DEF n
<1> QED
  BY <1>3, <1>4, ChartGrows

-----------------------------------------------------------------------------
(* What is derived follows the rules, and nothing else is derived. *)

(* The tokens of t from position i up to the one before j write the tree   *)
(* e, at the level of the grammar that fn reads.                           *)
Derives(t, fn, i, j, e) == Item(fn, i, j, e) \in Chart(t)[Len(t)]

(* A token sequence that parse is called with. *)
LEMMA InputShape ==
  ASSUME NEW t \in Inputs
  PROVE  /\ Len(t) \in Nat /\ Len(t) # 0 /\ SignAt(t, Len(t) - 1, "Eof")
         /\ \A k \in Nat : \A tag : SignAt(t, k, tag) /\ tag # "Eof" => k + 1 < Len(t)
         /\ \A k \in Nat : TextAt(t, k) => IsText(TokenAt(t, k).text)
<1>1. IsSeq(t) /\ WellLexed(t, t[Len(t)].offset.end)
  BY ParserAssumption DEF IsSeq
<1>2. Len(t) \in Nat /\ DOMAIN t = 1..Len(t) /\ t # <<>>
  BY <1>1 DEF IsSeq, WellLexed
<1>3. Len(t) # 0
  BY <1>1, <1>2 DEF IsSeq
<1>4. t[Len(t)].tag = "Eof"
  BY <1>1 DEF WellLexed, Eof, Sign
<1>5. ASSUME NEW k \in Nat, NEW tag, SignAt(t, k, tag), tag # "Eof" PROVE k + 1 < Len(t)
  <2>1. k < Len(t) /\ t[k + 1].tag = tag
    BY <1>5 DEF SignAt, TokenAt
  <2>2. k + 1 # Len(t)
    BY <1>4, <1>5, <2>1
  <2>3. ASSUME NEW n \in Nat, k < n, k + 1 # n PROVE k + 1 < n
    BY <2>3
  <2> QED
    BY <1>2, <2>1, <2>2, <2>3, Zenon
<1>6. ASSUME NEW k \in Nat, TextAt(t, k) PROVE IsText(TokenAt(t, k).text)
  <2>1. k + 1 \in DOMAIN t /\ t[k + 1].tag = "Word"
    BY <1>2, <1>6 DEF TextAt, SignAt, TokenAt
  <2> QED
    BY <2>1, ParserAssumption DEF TokenAt
<1>7. SignAt(t, Len(t) - 1, "Eof")
  <2>1. (Len(t) - 1) + 1 = Len(t) /\ Len(t) - 1 < Len(t)
    BY <1>2
  <2> QED
    BY <1>4, <2>1, Zenon DEF SignAt, TokenAt
<1> QED
  BY <1>2, <1>3, <1>5, <1>6, <1>7

(* The pieces of n tokens, level by level. *)
LevelFns == {"parse_or", "parse_and", "parse_unary"}
UnitsAt(t, n) == Units(t, Leaves(t), Chart(t)[n - 1], n)
AndsAt(t, n) == Level(t, Chart(t)[n - 1], n, "parse_and", UnitsAt(t, n))
OrsAt(t, n) == Level(t, Chart(t)[n - 1], n, "parse_or", AndsAt(t, n))
PiecesAt(t, fn, n) ==
  IF fn = "parse_unary" THEN UnitsAt(t, n) ELSE IF fn = "parse_and" THEN AndsAt(t, n) ELSE OrsAt(t, n)

(* A level is made of its operands. *)
LEMMA LevelAt ==
  ASSUME NEW fn \in DOMAIN Levels
  PROVE  /\ fn \in LevelFns /\ Levels[fn].operand \in LevelFns
         /\ \A t, n : PiecesAt(t, fn, n)
                        = Level(t, Chart(t)[n - 1], n, fn, PiecesAt(t, Levels[fn].operand, n))
<1>1. CASE fn = "parse_or"
  <2>1. Levels[fn].operand = "parse_and"
    BY <1>1 DEF Levels
  <2> QED
    BY <1>1, <2>1, Zenon DEF LevelFns, PiecesAt, OrsAt
<1>2. CASE fn = "parse_and"
  <2>1. Levels[fn].operand = "parse_unary"
    BY <1>2 DEF Levels
  <2> QED
    BY <1>2, <2>1, Zenon DEF LevelFns, PiecesAt, AndsAt
<1> QED
  BY <1>1, <1>2 DEF Levels

(* The level of a piece. *)
LEMMA PieceFn ==
  ASSUME NEW t, NEW n, NEW fn \in LevelFns, NEW x \in PiecesAt(t, fn, n)
  PROVE  x.fn = fn
<1> DEFINE S == Chart(t)[n - 1]
<1>0. \A gn, i, j, e : x = Item(gn, i, j, e) => x.fn = gn
  BY ItemParts
<1>2. ASSUME x \in UnitsAt(t, n) PROVE x.fn = "parse_unary"
  <2> DEFINE Neg(y) == /\ y.fn = "parse_unary" /\ y.upto - y.from = n - 1
                       /\ y.from > 0 /\ WordAt(t, y.from - 1, "not")
                       /\ x = Item("parse_unary", y.from - 1, y.upto, NotTree(t, y.from - 1, y.tree))
             Grp(y) == /\ y.fn = "parse_or" /\ y.upto - y.from = n - 2
                       /\ y.from > 0 /\ SignAt(t, y.from - 1, "LParen") /\ SignAt(t, y.upto, "RParen")
                       /\ x = Item("parse_unary", y.from - 1, y.upto + 1, y.tree)
             leaves == Leaves(t)
  <2>0. x \in Units(t, leaves, S, n)
    BY <1>2, Zenon DEF UnitsAt
  <2>1. (x \in leaves /\ x.upto - x.from = n) \/ (\E y \in S : Neg(y)) \/ (\E y \in S : Grp(y))
    <3> HIDE DEF leaves, S
    <3> QED
      BY <2>0, UnitsForm
  <2>2. CASE x \in Leaves(t)
    BY <1>0, <2>2, LeafForm
  <2>3. ASSUME NEW y \in S, Neg(y) PROVE x.fn = "parse_unary"
    <3>1. x = Item("parse_unary", y.from - 1, y.upto, NotTree(t, y.from - 1, y.tree))
      BY <2>3, Zenon
    <3> QED
      BY <1>0, <3>1, Zenon
  <2>4. ASSUME NEW y \in S, Grp(y) PROVE x.fn = "parse_unary"
    <3>1. x = Item("parse_unary", y.from - 1, y.upto + 1, y.tree)
      BY <2>4, Zenon
    <3> QED
      BY <1>0, <3>1, Zenon
  <2> HIDE DEF Neg, Grp
  <2> QED
    BY <2>1, <2>2, <2>3, <2>4, Zenon
<1>3. ASSUME NEW gn, NEW operands, x \in Level(t, S, n, gn, operands) PROVE x.fn = gn
  <2> DEFINE Op(l, r) == /\ l.fn = gn /\ WordAt(t, l.upto, Levels[gn].word)
                         /\ r.fn = Levels[gn].operand /\ r.from = l.upto + 1 /\ r.upto - l.from = n
                         /\ x = Item(gn, l.from, r.upto, BinaryTree(gn, l.tree, r.tree))
  <2>1. (\E y \in operands : x = Item(gn, y.from, y.upto, y.tree)) \/ (\E l, r \in S : Op(l, r))
    <3> HIDE DEF S
    <3> QED
      BY <1>3, LevelForm
  <2>2. ASSUME NEW l \in S, NEW r \in S, Op(l, r) PROVE x.fn = gn
    <3>1. x = Item(gn, l.from, r.upto, BinaryTree(gn, l.tree, r.tree))
      BY <2>2, Zenon
    <3> QED
      BY <1>0, <3>1, Zenon
  <2> HIDE DEF Op
  <2> QED
    BY <1>0, <2>1, <2>2, Zenon
<1>4. x \in AndsAt(t, n) => x.fn = "parse_and"
  BY <1>3, Zenon DEF AndsAt
<1>5. x \in OrsAt(t, n) => x.fn = "parse_or"
  BY <1>3, Zenon DEF OrsAt
<1> QED
  BY <1>2, <1>4, <1>5 DEF PiecesAt, LevelFns

(* A piece is among those of its level. *)
LEMMA PieceLevel ==
  ASSUME NEW t, NEW n, NEW x
  PROVE  /\ x \in Pieces(t, Leaves(t), Chart(t)[n - 1], n) => x.fn \in LevelFns /\ x \in PiecesAt(t, x.fn, n)
         /\ \A fn \in LevelFns : x \in PiecesAt(t, fn, n) => x \in Pieces(t, Leaves(t), Chart(t)[n - 1], n)
<1> DEFINE S == Chart(t)[n - 1]
<1>1. Pieces(t, Leaves(t), S, n) = UnitsAt(t, n) \cup AndsAt(t, n) \cup OrsAt(t, n)
  BY PiecesForm, Zenon DEF UnitsAt, AndsAt, OrsAt
<1>2. x \in Pieces(t, Leaves(t), S, n) => \E fn \in LevelFns : x \in PiecesAt(t, fn, n)
  BY <1>1 DEF PiecesAt, LevelFns
<1>3. \A fn \in LevelFns : x \in PiecesAt(t, fn, n) => x \in Pieces(t, Leaves(t), S, n)
  BY <1>1, Zenon DEF PiecesAt, LevelFns
<1> QED
  BY <1>2, <1>3, PieceFn

(* What is derived has a place in the text. *)
LEMMA DerivedSpan ==
  ASSUME NEW t \in Inputs, NEW fn, NEW i, NEW j, NEW e, Derives(t, fn, i, j, e)
  PROVE  fn \in LevelFns /\ i \in Nat /\ j \in Nat /\ i < j /\ j < Len(t) /\ j - i \in Nat
<1> DEFINE x == Item(fn, i, j, e)
<1>1. Len(t) \in Nat /\ x \in Chart(t)[Len(t)]
  BY InputShape DEF Derives
<1>2. x.fn = fn /\ x.from = i /\ x.upto = j
  BY ItemParts
<1> HIDE DEF x
<1>3. IsPiece(t, x)
  BY <1>1, ChartSpan
<1>4. /\ x.fn \in LevelFns /\ x.from \in Nat /\ x.upto \in Nat /\ x.from < x.upto
      /\ TextAt(t, x.upto - 1) \/ SignAt(t, x.upto - 1, "RParen")
  BY <1>3, PieceParts, Zenon DEF LevelFns
<1>5. /\ fn \in LevelFns /\ i \in Nat /\ j \in Nat /\ i < j
      /\ SignAt(t, j - 1, "Word") \/ SignAt(t, j - 1, "RParen")
  BY <1>2, <1>4, Zenon DEF TextAt
<1>6. j - 1 \in Nat /\ (j - 1) + 1 = j /\ j - i \in Nat
  BY <1>5
<1>7. (j - 1) + 1 < Len(t)
  BY <1>5, <1>6, InputShape
<1> QED
  BY <1>5, <1>6, <1>7

(* What is derived is a piece of its length and level. *)
LEMMA DerivedPiece ==
  ASSUME NEW t \in Inputs, NEW fn \in LevelFns, NEW i \in Nat, NEW j \in Nat, i < j, j < Len(t), NEW e
  PROVE  Derives(t, fn, i, j, e) <=> Item(fn, i, j, e) \in PiecesAt(t, fn, j - i)
<1> DEFINE x == Item(fn, i, j, e)
           n == j - i
<1>1. Len(t) \in Nat /\ n \in Nat /\ n # 0 /\ n <= Len(t) /\ n - 1 \in Nat /\ (n - 1) + 1 = n /\ ~(n <= n - 1)
  BY InputShape
<1>2. x.fn = fn /\ x.from = i /\ x.upto = j /\ x.upto - x.from = n
  BY ItemParts
<1> HIDE DEF x, n
<1>3. ASSUME x \in Chart(t)[Len(t)] PROVE x \in PiecesAt(t, fn, n)
  <2>1. x \in Chart(t)[n]
    <3>1. x.upto - x.from <= n
      BY <1>1, <1>2
    <3> QED
      BY <1>1, <1>3, <3>1, ChartHas
  <2>2. x \notin Chart(t)[n - 1]
    BY <1>1, <1>2, ChartSpan
  <2>3. Chart(t)[(n - 1) + 1] = Chart(t)[n - 1] \cup Pieces(t, Leaves(t), Chart(t)[n - 1], (n - 1) + 1)
    BY <1>1, ChartLayers, Zenon
  <2>4. x \in Pieces(t, Leaves(t), Chart(t)[n - 1], n)
    BY <1>1, <2>1, <2>2, <2>3, Zenon
  <2> QED
    BY <1>2, <2>4, PieceLevel, Zenon
<1>4. ASSUME x \in PiecesAt(t, fn, n) PROVE x \in Chart(t)[Len(t)]
  <2>1. x \in Pieces(t, Leaves(t), Chart(t)[n - 1], n)
    BY <1>4, PieceLevel, Zenon
  <2> QED
    BY <1>1, <2>1, ChartAdds
<1> QED
  BY <1>3, <1>4, Zenon DEF Derives, x, n

(* A shorter piece is derived, and what is derived is a shorter piece. *)
LEMMA PieceDerived ==
  ASSUME NEW t \in Inputs, NEW n \in Nat, n <= Len(t), NEW y \in Chart(t)[n]
  PROVE  /\ y.from \in Nat /\ y.upto \in Nat /\ y.from < y.upto
         /\ Derives(t, y.fn, y.from, y.upto, y.tree)
<1>1. Len(t) \in Nat
  BY InputShape
<1>2. IsPiece(t, y)
  BY <1>1, ChartSpan
<1>3. y.from \in Nat /\ y.upto \in Nat /\ y.from < y.upto /\ y = Item(y.fn, y.from, y.upto, y.tree)
  BY <1>2, PieceParts
<1>4. y \in Chart(t)[Len(t)]
  BY <1>1, ChartGrows
<1> QED
  BY <1>3, <1>4, Zenon DEF Derives

(* What is derived is in every chart of at least its length. *)
LEMMA DerivedShorter ==
  ASSUME NEW t \in Inputs, NEW fn, NEW i, NEW j, NEW e, Derives(t, fn, i, j, e),
         NEW n \in Nat, j - i <= n
  PROVE  Item(fn, i, j, e) \in Chart(t)[n]
<1> DEFINE x == Item(fn, i, j, e)
<1>1. Len(t) \in Nat /\ x \in Chart(t)[Len(t)]
  BY InputShape DEF Derives
<1>2. x.upto - x.from <= n
  BY ItemParts
<1> HIDE DEF x
<1>3. x \in Chart(t)[n]
  BY <1>1, <1>2, ChartHas
<1> QED
  BY <1>3 DEF x

(* Pieces with the same parts. *)
LEMMA ItemSame ==
  ASSUME NEW fn, NEW i, NEW j, NEW e, NEW gn, NEW k, NEW l, NEW f, Item(fn, i, j, e) = Item(gn, k, l, f)
  PROVE  fn = gn /\ i = k /\ j = l /\ e = f
  BY ItemParts

(* What an operator can be applied to: a primitive, a `not` or a group. *)
LEMMA UnaryRule ==
  ASSUME NEW t \in Inputs, NEW i \in Nat, NEW j \in Nat, NEW e
  PROVE  Derives(t, "parse_unary", i, j, e) <=>
           \/ WritesLeaf(t, i, j, e)
           \/ /\ WordAt(t, i, "not")
              /\ \E f : Derives(t, "parse_unary", i + 1, j, f) /\ e = NotTree(t, i, f)
           \/ /\ SignAt(t, i, "LParen")
              /\ \E k \in Nat : j = k + 1 /\ SignAt(t, k, "RParen") /\ Derives(t, "parse_or", i + 1, k, e)
<1> DEFINE x == Item("parse_unary", i, j, e)
           n == j - i
           S == Chart(t)[n - 1]
           leaves == Leaves(t)
           Neg(y) == /\ y.fn = "parse_unary" /\ y.upto - y.from = n - 1
                     /\ y.from > 0 /\ WordAt(t, y.from - 1, "not")
                     /\ x = Item("parse_unary", y.from - 1, y.upto, NotTree(t, y.from - 1, y.tree))
           Grp(y) == /\ y.fn = "parse_or" /\ y.upto - y.from = n - 2
                     /\ y.from > 0 /\ SignAt(t, y.from - 1, "LParen") /\ SignAt(t, y.upto, "RParen")
                     /\ x = Item("parse_unary", y.from - 1, y.upto + 1, y.tree)
           A == WritesLeaf(t, i, j, e)
           B == /\ WordAt(t, i, "not")
                /\ \E f : Derives(t, "parse_unary", i + 1, j, f) /\ e = NotTree(t, i, f)
           C == /\ SignAt(t, i, "LParen")
                /\ \E k \in Nat : j = k + 1 /\ SignAt(t, k, "RParen") /\ Derives(t, "parse_or", i + 1, k, e)
<1>1. Len(t) \in Nat
  BY InputShape
<1>2. "parse_unary" \in LevelFns
  BY DEF LevelFns
<1>3. ASSUME i < j, j < Len(t)
      PROVE  /\ n \in Nat /\ n - 1 \in Nat /\ n - 1 <= Len(t)
             /\ Derives(t, "parse_unary", i, j, e)
                  <=> (x \in leaves /\ x.upto - x.from = n) \/ (\E y \in S : Neg(y)) \/ (\E y \in S : Grp(y))
  <2>1. n \in Nat /\ n - 1 \in Nat /\ n - 1 <= Len(t)
    BY <1>1, <1>3
  <2>2. Derives(t, "parse_unary", i, j, e) <=> x \in Units(t, leaves, S, n)
    <3>1. Derives(t, "parse_unary", i, j, e) <=> x \in PiecesAt(t, "parse_unary", n)
      BY <1>2, <1>3, DerivedPiece
    <3> QED
      BY <3>1, Zenon DEF PiecesAt, UnitsAt
  <2> HIDE DEF x, n, S, leaves
  <2>3. x \in Units(t, leaves, S, n)
          <=> (x \in leaves /\ x.upto - x.from = n) \/ (\E y \in S : Neg(y)) \/ (\E y \in S : Grp(y))
    BY UnitsForm
  <2> HIDE DEF Neg, Grp
  <2> QED
    BY <2>1, <2>2, <2>3, Zenon
<1>4. ASSUME Derives(t, "parse_unary", i, j, e) PROVE A \/ B \/ C
  <2>1. i < j /\ j < Len(t)
    BY <1>4, DerivedSpan
  <2>2. CASE x \in leaves
    <3>1. PICK k \in 0..(Len(t) - 1) : \E l, f : x = Item("parse_unary", k, l, f) /\ WritesLeaf(t, k, l, f)
      BY <2>2, LeafForm
    <3>2. PICK l, f : x = Item("parse_unary", k, l, f) /\ WritesLeaf(t, k, l, f)
      BY <3>1
    <3>3. i = k /\ j = l /\ e = f
      BY <3>2, ItemSame
    <3> QED
      BY <3>2, <3>3, Zenon
  <2>3. ASSUME NEW y \in S, Neg(y) PROVE B
    <3>1. /\ y.fn = "parse_unary" /\ WordAt(t, y.from - 1, "not")
          /\ x = Item("parse_unary", y.from - 1, y.upto, NotTree(t, y.from - 1, y.tree))
      BY <2>3, Zenon
    <3>2. y.from \in Nat /\ Derives(t, y.fn, y.from, y.upto, y.tree)
      BY <1>3, <2>1, PieceDerived
    <3>3. i = y.from - 1 /\ j = y.upto /\ e = NotTree(t, y.from - 1, y.tree)
      BY <3>1, ItemSame
    <3>4. y.from = i + 1
      BY <3>2, <3>3
    <3>5. Derives(t, "parse_unary", i + 1, j, y.tree) /\ e = NotTree(t, i, y.tree)
      BY <3>1, <3>2, <3>3, <3>4, Zenon
    <3> QED
      BY <3>1, <3>3, <3>5, Zenon
  <2>4. ASSUME NEW y \in S, Grp(y) PROVE C
    <3>1. /\ y.fn = "parse_or" /\ SignAt(t, y.from - 1, "LParen") /\ SignAt(t, y.upto, "RParen")
          /\ x = Item("parse_unary", y.from - 1, y.upto + 1, y.tree)
      BY <2>4, Zenon
    <3>2. y.from \in Nat /\ y.upto \in Nat /\ Derives(t, y.fn, y.from, y.upto, y.tree)
      BY <1>3, <2>1, PieceDerived
    <3>3. i = y.from - 1 /\ j = y.upto + 1 /\ e = y.tree
      BY <3>1, ItemSame
    <3>4. y.from = i + 1
      BY <3>2, <3>3
    <3>5. Derives(t, "parse_or", i + 1, y.upto, e)
      BY <3>1, <3>2, <3>3, <3>4, Zenon
    <3> QED
      BY <3>1, <3>2, <3>3, <3>5, Zenon
  <2> HIDE DEF A, B, C, Neg, Grp, x, S, leaves
  <2>5. A \/ B \/ C \/ x \notin leaves
    BY <2>2, Zenon DEF A
  <2> QED
    BY <1>3, <1>4, <2>1, <2>3, <2>4, <2>5, Zenon
<1>5. ASSUME A PROVE Derives(t, "parse_unary", i, j, e)
  <2>1. i < j /\ TextAt(t, i) /\ TextAt(t, j - 1)
    BY <1>5, LeafSpan
  <2>2. j - 1 \in Nat /\ (j - 1) + 1 = j
    BY <2>1
  <2>3. (j - 1) + 1 < Len(t)
    BY <2>1, <2>2, InputShape DEF TextAt
  <2>4. j < Len(t) /\ i \in 0..(Len(t) - 1)
    BY <1>1, <2>1, <2>2, <2>3
  <2>5. x \in leaves /\ x.upto - x.from = n
    <3>1. x \in leaves
      BY <1>5, <2>4, LeafForm, Zenon
    <3> QED
      BY <3>1, ItemParts
  <2> HIDE DEF x, leaves, Neg, Grp, n
  <2> QED
    BY <1>3, <2>1, <2>4, <2>5, Zenon
<1>6. ASSUME B PROVE Derives(t, "parse_unary", i, j, e)
  <2>1. PICK f : Derives(t, "parse_unary", i + 1, j, f) /\ e = NotTree(t, i, f)
    BY <1>6
  <2>2. i + 1 < j /\ j < Len(t)
    BY <2>1, DerivedSpan
  <2>3. /\ i < j /\ n - 1 \in Nat /\ j - (i + 1) = n - 1 /\ j - (i + 1) <= n - 1
        /\ (i + 1) - 1 = i /\ i + 1 > 0
    BY <2>2
  <2> DEFINE y == Item("parse_unary", i + 1, j, f)
  <2>4. y \in S
    BY <2>1, <2>3, DerivedShorter
  <2>5. y.fn = "parse_unary" /\ y.from = i + 1 /\ y.upto = j /\ y.tree = f
    BY ItemParts
  <2> HIDE DEF y, S, n
  <2>6. Neg(y)
    BY <1>6, <2>1, <2>3, <2>5, Zenon
  <2> HIDE DEF x, leaves, Neg, Grp
  <2> QED
    BY <1>3, <2>2, <2>3, <2>4, <2>6, Zenon
<1>7. ASSUME C PROVE Derives(t, "parse_unary", i, j, e)
  <2>1. PICK k \in Nat : j = k + 1 /\ SignAt(t, k, "RParen") /\ Derives(t, "parse_or", i + 1, k, e)
    BY <1>7
  <2>2. i + 1 < k
    BY <2>1, DerivedSpan
  <2>3. k + 1 < Len(t)
    BY <2>1, InputShape
  <2>4. /\ i < j /\ j < Len(t) /\ n - 1 \in Nat /\ k - (i + 1) = n - 2 /\ k - (i + 1) <= n - 1
        /\ (i + 1) - 1 = i /\ i + 1 > 0
    <3>1. j = k + 1
      BY <2>1
    <3> QED
      BY <2>2, <2>3, <3>1
  <2> DEFINE y == Item("parse_or", i + 1, k, e)
  <2>5. y \in S
    BY <2>1, <2>4, DerivedShorter
  <2>6. y.fn = "parse_or" /\ y.from = i + 1 /\ y.upto = k /\ y.tree = e
    BY ItemParts
  <2> HIDE DEF y, S, n
  <2>7. Grp(y)
    BY <1>7, <2>1, <2>4, <2>6, Zenon
  <2> HIDE DEF x, leaves, Neg, Grp
  <2> QED
    BY <1>3, <2>4, <2>5, <2>7, Zenon
<1> HIDE DEF A, B, C
<1>8. Derives(t, "parse_unary", i, j, e) <=> A \/ B \/ C
  BY <1>4, <1>5, <1>6, <1>7, Zenon
<1> QED
  BY <1>8, Zenon DEF A, B, C

(* A level: one operand, or an operator behind a filter of the level. *)
LEMMA LevelRule ==
  ASSUME NEW t \in Inputs, NEW fn \in DOMAIN Levels, NEW i \in Nat, NEW j \in Nat, NEW e
  PROVE  Derives(t, fn, i, j, e) <=>
           \/ Derives(t, Levels[fn].operand, i, j, e)
           \/ \E k \in Nat : \E l, r :
                /\ Derives(t, fn, i, k, l) /\ WordAt(t, k, Levels[fn].word)
                /\ Derives(t, Levels[fn].operand, k + 1, j, r) /\ e = BinaryTree(fn, l, r)
<1> DEFINE x == Item(fn, i, j, e)
           n == j - i
           S == Chart(t)[n - 1]
           operand == Levels[fn].operand
           operands == PiecesAt(t, operand, n)
           Same(y) == x = Item(fn, y.from, y.upto, y.tree)
           Op(l, r) == /\ l.fn = fn /\ WordAt(t, l.upto, Levels[fn].word)
                       /\ r.fn = operand /\ r.from = l.upto + 1 /\ r.upto - l.from = n
                       /\ x = Item(fn, l.from, r.upto, BinaryTree(fn, l.tree, r.tree))
           A == Derives(t, operand, i, j, e)
           B(k, l, r) == /\ Derives(t, fn, i, k, l) /\ WordAt(t, k, Levels[fn].word)
                         /\ Derives(t, operand, k + 1, j, r) /\ e = BinaryTree(fn, l, r)
<1>1. Len(t) \in Nat
  BY InputShape
<1>2. fn \in LevelFns /\ operand \in LevelFns
  BY LevelAt
<1>3. ASSUME i < j, j < Len(t)
      PROVE  /\ n \in Nat /\ n - 1 \in Nat /\ n - 1 <= Len(t)
             /\ Derives(t, fn, i, j, e) <=> (\E y \in operands : Same(y)) \/ (\E l, r \in S : Op(l, r))
             /\ A <=> Item(operand, i, j, e) \in operands
  <2>1. n \in Nat /\ n - 1 \in Nat /\ n - 1 <= Len(t)
    BY <1>1, <1>3
  <2>2. Derives(t, fn, i, j, e) <=> x \in Level(t, S, n, fn, operands)
    <3>1. Derives(t, fn, i, j, e) <=> x \in PiecesAt(t, fn, n)
      BY <1>2, <1>3, DerivedPiece
    <3>2. PiecesAt(t, fn, n) = Level(t, S, n, fn, operands)
      BY LevelAt, Zenon
    <3> QED
      BY <3>1, <3>2, Zenon
  <2>3. A <=> Item(operand, i, j, e) \in operands
    BY <1>2, <1>3, DerivedPiece
  <2> HIDE DEF x, n, S, operands
  <2>4. x \in Level(t, S, n, fn, operands) <=> (\E y \in operands : Same(y)) \/ (\E l, r \in S : Op(l, r))
    BY LevelForm
  <2> HIDE DEF Same, Op, A, operand
  <2> QED
    BY <2>1, <2>2, <2>3, <2>4, Zenon
<1>4. ASSUME Derives(t, fn, i, j, e) PROVE A \/ \E k \in Nat : \E l, r : B(k, l, r)
  <2>1. i < j /\ j < Len(t)
    BY <1>4, DerivedSpan
  <2>2. ASSUME NEW y \in operands, Same(y) PROVE A
    <3>1. i = y.from /\ j = y.upto /\ e = y.tree
      BY <2>2, ItemSame
    <3>2. y = Item(operand, y.from, y.upto, y.tree)
      <4> HIDE DEF operand, n
      <4>1. y \in Pieces(t, Leaves(t), Chart(t)[n - 1], n)
        BY <1>2, PieceLevel
      <4>2. \A z \in Chart(t)[n - 1] : IsPiece(t, z)
        BY <1>1, <1>3, <2>1, ChartSpan
      <4>3. IsPiece(t, y)
        BY <1>1, <1>3, <2>1, <4>1, <4>2, PieceSpan
      <4>4. y = Item(y.fn, y.from, y.upto, y.tree)
        BY <4>3, PieceParts
      <4>5. y.fn = operand
        BY <1>2, PieceFn
      <4> QED
        BY <4>4, <4>5, Zenon
    <3> HIDE DEF operand, operands, A
    <3>3. Item(operand, i, j, e) \in operands
      BY <3>1, <3>2, Zenon
    <3> QED
      BY <1>3, <2>1, <3>3
  <2>3. ASSUME NEW l \in S, NEW r \in S, Op(l, r) PROVE \E k \in Nat : \E f, g : B(k, f, g)
    <3>1. /\ l.fn = fn /\ WordAt(t, l.upto, Levels[fn].word) /\ r.fn = operand /\ r.from = l.upto + 1
          /\ x = Item(fn, l.from, r.upto, BinaryTree(fn, l.tree, r.tree))
      BY <2>3, Zenon
    <3>2. l.upto \in Nat /\ Derives(t, l.fn, l.from, l.upto, l.tree) /\ Derives(t, r.fn, r.from, r.upto, r.tree)
      BY <1>3, <2>1, PieceDerived
    <3>3. i = l.from /\ j = r.upto /\ e = BinaryTree(fn, l.tree, r.tree)
      BY <3>1, ItemSame
    <3>4. B(l.upto, l.tree, r.tree)
      BY <3>1, <3>2, <3>3, Zenon
    <3> HIDE DEF B
    <3> QED
      BY <3>2, <3>4, Zenon
  <2> HIDE DEF A, B, Same, Op, x, S, operands
  <2> QED
    BY <1>3, <1>4, <2>1, <2>2, <2>3, Zenon
<1>5. ASSUME A PROVE Derives(t, fn, i, j, e)
  <2>1. i < j /\ j < Len(t)
    BY <1>5, DerivedSpan
  <2> DEFINE y == Item(operand, i, j, e)
  <2>2. y \in operands
    <3> HIDE DEF A, operands, operand
    <3> QED
      BY <1>3, <1>5, <2>1, Zenon
  <2>3. Same(y)
    BY ItemParts
  <2> HIDE DEF y, Same, Op, A, x, S, operands
  <2> QED
    BY <1>3, <2>1, <2>2, <2>3, Zenon
<1>6. ASSUME NEW k \in Nat, NEW l, NEW r, B(k, l, r) PROVE Derives(t, fn, i, j, e)
  <2>1. i < k
    BY <1>6, DerivedSpan
  <2>2. k + 1 < j /\ j < Len(t)
    BY <1>6, DerivedSpan
  <2>3. i < j /\ n - 1 \in Nat /\ k - i <= n - 1 /\ j - (k + 1) <= n - 1
    BY <2>1, <2>2
  <2> DEFINE y == Item(fn, i, k, l)
             z == Item(operand, k + 1, j, r)
  <2>4. y \in S
    BY <1>6, <2>3, DerivedShorter
  <2>5. z \in S
    BY <1>6, <2>3, DerivedShorter
  <2>6. y.fn = fn /\ y.from = i /\ y.upto = k /\ y.tree = l
    BY ItemParts
  <2>7. z.fn = operand /\ z.from = k + 1 /\ z.upto = j /\ z.tree = r
    BY ItemParts
  <2>8. WordAt(t, k, Levels[fn].word) /\ e = BinaryTree(fn, l, r)
    BY <1>6, Zenon
  <2>9. z.upto - y.from = n
    BY <2>6, <2>7, Zenon
  <2> HIDE DEF y, z, S, n
  <2>10. Op(y, z)
    BY <2>6, <2>7, <2>8, <2>9, Zenon
  <2> HIDE DEF Same, Op, A, x, operands
  <2> QED
    BY <1>3, <2>2, <2>3, <2>4, <2>5, <2>10, Zenon
<1> HIDE DEF A, B
<1>7. Derives(t, fn, i, j, e) <=> A \/ \E k \in Nat : \E l, r : B(k, l, r)
  BY <1>4, <1>5, <1>6, Zenon
<1> QED
  BY <1>7, Zenon DEF A, B

-----------------------------------------------------------------------------
(* What the waiting calls have read. *)

(* A call that began at i waits for what begins at o. *)
FrameAt(t, frame, i, o) ==
  \/ frame.fn \in DOMAIN Levels /\ frame.lhs = {} /\ o = i
  \/ /\ frame.fn \in DOMAIN Levels
     /\ \E l : \E k \in Nat :
          /\ frame.lhs = {l} /\ Derives(t, frame.fn, i, k, l)
          /\ WordAt(t, k, Levels[frame.fn].word) /\ o = k + 1
  \/ /\ frame.fn = "parse_unary" /\ WordAt(t, i, "not") /\ o = i + 1
     /\ frame.start = TokenAt(t, i).offset.start
  \/ frame.fn = "parse_primary" /\ SignAt(t, i, "LParen") /\ o = i + 1

(* s[k] is where the call began that the k-th waiting one waits for; the   *)
(* outermost, s[Len(calls) + 1], is that of parse_or by parse.             *)
Chain(t, calls, s) ==
  /\ IsSeq(calls) /\ s \in Seq(Nat) /\ Len(s) = Len(calls) + 1 /\ s[Len(s)] = 0
  /\ \A k \in DOMAIN calls : FrameAt(t, calls[k], s[k + 1], s[k])

(* The call being made began at position i. *)
Began(t, calls, i) == \E s : Chain(t, calls, s) /\ s[1] = i

(* The call by parse begins at the first token. *)
LEMMA BeganFirst == ASSUME NEW t PROVE Began(t, <<>>, 0) /\ \A i : Began(t, <<>>, i) => i = 0
<1>1. Chain(t, <<>>, <<0>>) /\ <<0>>[1] = 0
  BY DEF Chain, IsSeq
<1>2. ASSUME NEW s, Chain(t, <<>>, s) PROVE s[1] = 0
  <2>1. s \in Seq(Nat) /\ Len(s) = 0 + 1 /\ s[Len(s)] = 0
    BY <1>2 DEF Chain
  <2> QED
    BY <2>1
<1> QED
  BY <1>1, <1>2 DEF Began

(* A call begins at a position. *)
LEMMA BeganNat == ASSUME NEW t, NEW calls, NEW i, Began(t, calls, i) PROVE i \in Nat
<1>1. PICK s : Chain(t, calls, s) /\ s[1] = i
  BY DEF Began
<1>2. s \in Seq(Nat) /\ Len(calls) \in Nat /\ Len(s) = Len(calls) + 1
  BY <1>1 DEF Chain, IsSeq
<1> QED
  BY <1>1, <1>2

(* A call that begins to wait. *)
LEMMA BeganPush ==
  ASSUME NEW t, NEW calls, NEW i, Began(t, calls, i), NEW frame, NEW o \in Nat, FrameAt(t, frame, i, o)
  PROVE  Began(t, <<frame>> \o calls, o)
<1>1. PICK s : Chain(t, calls, s) /\ s[1] = i
  BY DEF Began
<1> DEFINE more == <<frame>> \o calls
           longer == <<o>> \o s
           n == Len(calls)
           S == {calls[k] : k \in DOMAIN calls} \cup {frame}
<1>2. calls \in Seq(S) /\ frame \in S
  BY <1>1 DEF Chain, IsSeq
<1> HIDE DEF S
<1>3. /\ n \in Nat /\ DOMAIN calls = 1..n /\ more \in Seq(S) /\ Len(more) = n + 1
      /\ DOMAIN more = 1..(n + 1) /\ more[1] = frame /\ \A k \in 1..n : more[k + 1] = calls[k]
  BY <1>2
<1>4. s \in Seq(Nat) /\ Len(s) = n + 1 /\ s[n + 1] = 0
  BY <1>1 DEF Chain
<1>5. /\ longer \in Seq(Nat) /\ Len(longer) = n + 2 /\ longer[1] = o
      /\ \A k \in 1..(n + 1) : longer[k + 1] = s[k]
  BY <1>3, <1>4
<1>6. IsSeq(more)
  BY <1>3, OwnElements
<1> HIDE DEF more, longer
<1>7. longer[Len(longer)] = 0
  <2>1. n + 1 \in 1..(n + 1) /\ (n + 1) + 1 = n + 2
    BY <1>3
  <2> QED
    BY <1>4, <1>5, <2>1
<1>8. ASSUME NEW k \in DOMAIN more PROVE FrameAt(t, more[k], longer[k + 1], longer[k])
  <2>1. CASE k = 1
    <3>1. longer[1 + 1] = s[1]
      BY <1>3, <1>5
    <3> QED
      BY <1>1, <1>3, <1>5, <2>1, <3>1
  <2>2. CASE k # 1
    <3>1. k - 1 \in 1..n /\ k - 1 \in 1..(n + 1) /\ k \in 1..(n + 1) /\ (k - 1) + 1 = k
      BY <1>3, <2>2
    <3>2. more[k] = calls[k - 1] /\ longer[k] = s[k - 1] /\ longer[k + 1] = s[k]
      BY <1>3, <1>5, <3>1
    <3>3. FrameAt(t, calls[k - 1], s[(k - 1) + 1], s[k - 1])
      BY <1>1, <1>3, <3>1 DEF Chain
    <3> QED
      BY <3>1, <3>2, <3>3, Zenon
  <2> QED
    BY <2>1, <2>2
<1>9. Len(longer) = Len(more) + 1
  BY <1>3, <1>5
<1>10. Chain(t, more, longer)
  BY <1>5, <1>6, <1>7, <1>8, <1>9 DEF Chain
<1> QED
  BY <1>5, <1>10 DEF Began, more

(* The innermost waiting call began where its caller waits for it. *)
LEMMA BeganPop ==
  ASSUME NEW t, NEW calls, NEW o, Began(t, calls, o), calls # <<>>
  PROVE  \E i \in Nat : Began(t, Tail(calls), i) /\ FrameAt(t, Head(calls), i, o)
<1>1. PICK s : Chain(t, calls, s) /\ s[1] = o
  BY DEF Began
<1> DEFINE rest == Tail(calls)
           shorter == Tail(s)
           n == Len(rest)
           S == {calls[k] : k \in DOMAIN calls}
<1>2. calls \in Seq(S)
  BY <1>1 DEF Chain, IsSeq
<1> HIDE DEF S
<1>3. /\ n \in Nat /\ rest \in Seq(S) /\ DOMAIN rest = 1..n /\ DOMAIN calls = 1..(n + 1) /\ Len(calls) = n + 1
      /\ calls[1] = Head(calls) /\ \A k \in 1..n : rest[k] = calls[k + 1]
  BY <1>2
<1>4. s \in Seq(Nat) /\ Len(s) = n + 2 /\ s[n + 2] = 0
  BY <1>1, <1>3 DEF Chain
<1>5. /\ shorter \in Seq(Nat) /\ Len(shorter) = n + 1
      /\ \A k \in 1..(n + 1) : shorter[k] = s[k + 1]
  BY <1>3, <1>4
<1>6. IsSeq(rest)
  BY <1>3, OwnElements
<1> HIDE DEF rest, shorter
<1>7. shorter[Len(shorter)] = 0
  <2>1. n + 1 \in 1..(n + 1) /\ (n + 1) + 1 = n + 2
    BY <1>3
  <2> QED
    BY <1>4, <1>5, <2>1
<1>8. ASSUME NEW k \in DOMAIN rest PROVE FrameAt(t, rest[k], shorter[k + 1], shorter[k])
  <2>1. k \in 1..n /\ k \in 1..(n + 1) /\ k + 1 \in 1..(n + 1)
    BY <1>3
  <2>2. rest[k] = calls[k + 1] /\ shorter[k] = s[k + 1] /\ shorter[k + 1] = s[(k + 1) + 1]
    BY <1>3, <1>5, <2>1
  <2>3. FrameAt(t, calls[k + 1], s[(k + 1) + 1], s[k + 1])
    BY <1>1, <1>3, <2>1 DEF Chain
  <2> QED
    BY <2>2, <2>3, Zenon
<1>9. Chain(t, rest, shorter)
  BY <1>5, <1>6, <1>7, <1>8 DEF Chain
<1>10. 1 \in 1..(n + 1) /\ shorter[1] = s[1 + 1] /\ shorter[1] \in Nat
  BY <1>3, <1>5
<1>11. FrameAt(t, calls[1], s[1 + 1], s[1])
  BY <1>1, <1>3, <1>10 DEF Chain
<1>12. FrameAt(t, Head(calls), shorter[1], o)
  BY <1>1, <1>3, <1>10, <1>11, Zenon
<1> QED
  BY <1>9, <1>10, <1>12 DEF Began, rest

-----------------------------------------------------------------------------
(* What has been read is derived. *)

(* The level that a caller asks for. *)
Wanted(caller) ==
  CASE caller = "parse_or" -> "parse_and"
    [] caller \in {"parse_and", "parse_unary"} -> "parse_unary"
    [] OTHER -> "parse_or"

(* The tokens behind the beginning of the innermost call are still to be   *)
(* read, or write the expression it returns.                               *)
ReadUpTo(t, calls, fn, v, p) ==
  \E i : /\ Began(t, calls, i)
         /\ fn # "return" => p = i
         /\ fn = "return" => \A e \in v : Derives(t, Wanted(Caller(calls, 0)), i, p, e)

(* The inductive invariant. *)
SoundInv ==
  /\ tokens \in Inputs
  /\ ReadUpTo(tokens, stack, call, value, pos)
  /\ parsed = "ok" => stack = <<>> /\ call = "return" /\ Peek(pos).tag = "Eof"

(* It holds at the first call. *)
LEMMA SoundInit == ParseInit => SoundInv
<1> SUFFICES ASSUME ParseInit PROVE SoundInv
  OBVIOUS
<1>1. tokens \in Inputs /\ pos = 0 /\ stack = <<>> /\ call = "parse_or" /\ parsed = "called"
  BY DEF ParseInit
<1>2. Began(tokens, stack, pos)
  BY <1>1, BeganFirst
<1>3. ReadUpTo(tokens, stack, call, value, pos)
  BY <1>1, <1>2 DEF ReadUpTo
<1> QED
  BY <1>1, <1>3 DEF SoundInv

(* A step that leaves position, stack and value alone. *)
LEMMA StaysSound ==
  ASSUME SoundInv, UNCHANGED <<tokens, pos, stack, call, value>>,
         parsed' = "ok" => stack = <<>> /\ call = "return" /\ Peek(pos).tag = "Eof"
  PROVE  SoundInv'
<1>1. tokens' = tokens /\ pos' = pos /\ stack' = stack /\ call' = call /\ value' = value
  OBVIOUS
<1>2. tokens' \in Inputs /\ ReadUpTo(tokens', stack', call', value', pos')
  BY <1>1, Zenon DEF SoundInv
<1>3. parsed' = "ok" => stack' = <<>> /\ call' = "return" /\ tokens'[pos' + 1].tag = "Eof"
  BY <1>1 DEF Peek
<1> QED
  BY <1>2, <1>3 DEF SoundInv, Peek

(* An error. *)
LEMMA FailSound == ASSUME SoundInv, NEW tag, NEW at, Fail(tag, at) PROVE SoundInv'
  BY StaysSound DEF Fail

(* What a step that moves on has to show. *)
LEMMA MovesSound ==
  ASSUME SoundInv, Parsing, parsed = "parsing", ReadUpTo(tokens, stack', call', value', pos')
  PROVE  SoundInv'
<1>1. tokens' = tokens /\ parsed' = "parsing"
  BY DEF Parsing
<1>2. tokens' \in Inputs /\ ReadUpTo(tokens', stack', call', value', pos')
  BY <1>1, Zenon DEF SoundInv
<1> QED
  BY <1>1, <1>2 DEF SoundInv

(* What a call is made from: it begins at the position. *)
LEMMA CallBegins ==
  ASSUME ParseInv, SoundInv, call # "return"
  PROVE  /\ tokens \in Inputs /\ Began(tokens, stack, pos) /\ pos \in 0..(Len(tokens) - 1) /\ pos \in Nat
         /\ Peek(pos) = TokenAt(tokens, pos)
<1>1. tokens \in Inputs /\ Began(tokens, stack, pos) /\ pos \in 0..(Len(tokens) - 1)
  BY DEF ParseInv, SoundInv, ReadUpTo
<1> QED
  BY <1>1, BeganNat, InputTokens

(* A call that waits for the one that begins at o. *)
LEMMA CallSound ==
  ASSUME SoundInv, Parsing, parsed = "parsing", NEW i, Began(tokens, stack, i), NEW frame,
         NEW o \in Nat, FrameAt(tokens, frame, i, o), stack' = <<frame>> \o stack, pos' = o, call' # "return"
  PROVE  SoundInv'
<1>1. Began(tokens, <<frame>> \o stack, o)
  BY BeganPush
<1>2. Began(tokens, stack', pos')
  BY <1>1, Zenon
<1>3. ReadUpTo(tokens, stack', call', value', pos')
  BY <1>2 DEF ReadUpTo
<1> QED
  BY <1>3, MovesSound

(* The first operand of a level begins where the level begins. *)
LEMMA CallLevelSound == ASSUME ParseInv, SoundInv, CallLevel PROVE SoundInv'
<1>1. PICK fn \in DOMAIN Levels :
        /\ Calls(fn) /\ stack' = <<Waiting(fn, {})>> \o stack /\ call' = Levels[fn].operand
        /\ UNCHANGED <<pos, value>> /\ Parsing
  BY DEF CallLevel
<1>2. fn \in {"parse_or", "parse_and"} /\ Levels[fn].operand \in {"parse_and", "parse_unary"}
  BY DEF Levels
<1>3. parsed = "parsing" /\ call # "return" /\ call' # "return" /\ pos' = pos
  BY <1>1, <1>2 DEF Calls
<1>4. Began(tokens, stack, pos) /\ pos \in Nat
  BY <1>3, CallBegins
<1>5. FrameAt(tokens, Waiting(fn, {}), pos, pos)
  BY DEF FrameAt, Waiting
<1> QED
  BY <1>1, <1>3, <1>4, <1>5, CallSound

(* The operand of a `not` begins behind it. *)
LEMMA CallNotSound == ASSUME ParseInv, SoundInv, CallNot PROVE SoundInv'
<1> DEFINE frame == [fn |-> "parse_unary", start |-> StartAt(pos)]
<1>1. /\ parsed = "parsing" /\ call = "parse_unary" /\ call' = call /\ IsWord(pos, "not") /\ Parsing
      /\ stack' = <<frame>> \o stack /\ pos' = Advance(pos)
  BY DEF CallNot, Calls
<1>2. tokens \in Inputs /\ Began(tokens, stack, pos) /\ pos \in 0..(Len(tokens) - 1) /\ pos \in Nat
      /\ Peek(pos) = TokenAt(tokens, pos)
  BY <1>1, CallBegins
<1>3. Peek(pos).tag = "Word"
  BY <1>1 DEF IsWord
<1>4. pos' = pos + 1
  BY <1>1, <1>2, <1>3, NextPosition
<1>5. FrameAt(tokens, frame, pos, pos + 1)
  <2>1. WordAt(tokens, pos, "not") /\ frame.fn = "parse_unary" /\ frame.start = TokenAt(tokens, pos).offset.start
    BY <1>1, <1>2, InputWords DEF StartAt
  <2> QED
    BY <2>1, Zenon DEF FrameAt
<1> HIDE DEF frame
<1>6. call' # "return" /\ pos + 1 \in Nat
  BY <1>1, <1>2
<1> QED
  BY <1>1, <1>2, <1>4, <1>5, <1>6, CallSound

(* parse_unary hands its call on. *)
LEMMA CallPrimarySound == ASSUME ParseInv, SoundInv, CallPrimary PROVE SoundInv'
<1>1. /\ parsed = "parsing" /\ call = "parse_unary" /\ call' = "parse_primary" /\ Parsing
      /\ pos' = pos /\ stack' = stack /\ value' = value
  BY DEF CallPrimary, Calls
<1>2. Began(tokens, stack, pos)
  BY <1>1, CallBegins
<1>3. ReadUpTo(tokens, stack', call', value', pos')
  BY <1>1, <1>2 DEF ReadUpTo
<1> QED
  BY <1>1, <1>3, MovesSound

(* A group begins behind its `(`. *)
LEMMA OpenGroupSound == ASSUME ParseInv, SoundInv, OpenGroup PROVE SoundInv'
<1> DEFINE frame == [fn |-> "parse_primary"]
<1>1. /\ parsed = "parsing" /\ call = "parse_primary" /\ call' = "parse_or" /\ Peek(pos).tag = "LParen"
      /\ stack' = <<frame>> \o stack /\ pos' = Advance(pos) /\ Parsing
  BY DEF OpenGroup, Calls
<1>2. tokens \in Inputs /\ Began(tokens, stack, pos) /\ pos \in 0..(Len(tokens) - 1) /\ pos \in Nat
      /\ Peek(pos) = TokenAt(tokens, pos)
  BY <1>1, CallBegins
<1>3. pos' = pos + 1
  BY <1>1, <1>2, InputTokens, NotLast
<1>4. FrameAt(tokens, frame, pos, pos + 1)
  <2>1. SignAt(tokens, pos, "LParen")
    BY <1>1, <1>2, InputWords
  <2> QED
    BY <2>1 DEF FrameAt
<1> HIDE DEF frame
<1>5. call' # "return" /\ pos + 1 \in Nat
  BY <1>1, <1>2
<1> QED
  BY <1>1, <1>2, <1>3, <1>4, <1>5, CallSound

(* A step that returns. *)
LEMMA ReturnSound ==
  ASSUME SoundInv, parsed = "parsing", NEW e, NEW j, NEW rest, Return(e, j, rest),
         NEW i, Began(tokens, rest, i), Derives(tokens, Wanted(Caller(rest, 0)), i, j, e)
  PROVE  SoundInv'
<1>1. call' = "return" /\ value' = {e} /\ pos' = j /\ stack' = rest /\ Parsing
  BY DEF Return
<1>2. ReadUpTo(tokens, rest, "return", {e}, j)
  BY DEF ReadUpTo
<1>3. ReadUpTo(tokens, stack', call', value', pos')
  BY <1>1, <1>2, Zenon
<1> QED
  BY <1>1, <1>3, MovesSound

(* A primitive is derived from its tokens. *)
LEMMA ReadLeafSound == ASSUME ParseInv, SoundInv, ReadLeaf PROVE SoundInv'
<1> DEFINE r == ReadHere
<1>1. /\ Peek(pos).tag = "Word" /\ parsed = "parsing" /\ call = "parse_primary"
      /\ \/ \E e \in r.expr : Return(e, r.pos, stack)
         \/ \E err \in r.error : Fail(err.tag, err.offset)
  BY DEF ReadLeaf, Calls
<1>2. tokens \in Inputs /\ Began(tokens, stack, pos) /\ pos \in 0..(Len(tokens) - 1) /\ pos \in Nat
  BY <1>1, CallBegins
<1>3. Spelled(r, pos)
  BY <1>1, <1>2, HereSpelled
<1>4. Outcome(r, pos)
  BY <1>1, <1>2, HereOutcome DEF ParseInv
<1>5. Wanted(Caller(stack, 0)) = "parse_unary"
  <2>1. MayCall(Caller(stack, 0), "parse_primary")
    BY <1>1 DEF ParseInv
  <2> QED
    BY <2>1 DEF MayCall, Wanted
<1> HIDE DEF r
<1>6. CASE \E err \in r.error : Fail(err.tag, err.offset)
  BY <1>6, FailSound
<1>7. CASE \E e \in r.expr : Return(e, r.pos, stack)
  <2>1. PICK e \in r.expr : Return(e, r.pos, stack)
    BY <1>7
  <2>2. WritesLeaf(tokens, pos, r.pos, e) /\ LeafFits(e)
    BY <1>3, <2>1 DEF Spelled
  <2>3. r.pos \in Nat /\ r.pos < Len(tokens)
    <3>1. r.pos \in 0..(Len(tokens) - 1)
      BY <1>4, <2>1 DEF Outcome, Wordy
    <3> QED
      BY <1>2, <3>1, InputTokens, NotLast
  <2>4. Derives(tokens, "parse_unary", pos, r.pos, e)
    BY <1>2, <2>2, <2>3, UnaryRule
  <2>5. Derives(tokens, Wanted(Caller(stack, 0)), pos, r.pos, e)
    BY <1>5, <2>4
  <2> QED
    BY <1>1, <1>2, <2>1, <2>5, ReturnSound
<1> QED
  BY <1>1, <1>6, <1>7

(* What a return is made from. *)
LEMMA ReturnBegins ==
  ASSUME ParseInv, SoundInv, NEW fn, Returns(fn), NEW e \in value
  PROVE  /\ tokens \in Inputs /\ parsed = "parsing" /\ pos \in 0..(Len(tokens) - 1) /\ pos \in Nat
         /\ Peek(pos) = TokenAt(tokens, pos)
         /\ Head(stack).fn = fn /\ MayCall(Caller(Tail(stack), 0), fn)
         /\ \E i \in Nat : \E o \in Nat :
              /\ Began(tokens, Tail(stack), i) /\ FrameAt(tokens, Head(stack), i, o)
              /\ Derives(tokens, Wanted(fn), o, pos, e)
<1>1. parsed = "parsing" /\ call = "return" /\ stack # <<>> /\ Head(stack).fn = fn
  BY DEF Returns
<1>2. tokens \in Inputs /\ pos \in 0..(Len(tokens) - 1)
  BY DEF SoundInv, ParseInv
<1>3. Peek(pos) = TokenAt(tokens, pos) /\ pos \in Nat
  BY <1>2, InputTokens, NotLast
<1>4. Caller(stack, 0) = fn /\ MayCall(Caller(Tail(stack), 0), fn)
  BY <1>1, GoesOn DEF ParseInv
<1>5. PICK o : Began(tokens, stack, o) /\ Derives(tokens, Wanted(Caller(stack, 0)), o, pos, e)
  BY <1>1 DEF SoundInv, ReadUpTo
<1>6. o \in Nat /\ Derives(tokens, Wanted(fn), o, pos, e)
  BY <1>4, <1>5, BeganNat
<1>7. PICK i \in Nat : Began(tokens, Tail(stack), i) /\ FrameAt(tokens, Head(stack), i, o)
  BY <1>1, <1>5, BeganPop
<1> QED
  BY <1>1, <1>2, <1>3, <1>4, <1>6, <1>7

(* The operand joined with what stands to its left is of the level. *)
LEMMA JoinedDerives ==
  ASSUME tokens \in Inputs, NEW fn \in DOMAIN Levels, NEW frame, frame.fn = fn,
         NEW i \in Nat, NEW o \in Nat, FrameAt(tokens, frame, i, o), NEW j \in Nat, NEW e,
         Derives(tokens, Levels[fn].operand, o, j, e)
  PROVE  Derives(tokens, fn, i, j, Joined(frame, e))
<1>1. fn # "parse_unary" /\ fn # "parse_primary"
  BY DEF Levels
<1>2. CASE frame.lhs = {} /\ o = i
  <2>1. Joined(frame, e) = e
    BY <1>2 DEF Joined
  <2>2. Derives(tokens, fn, i, j, e)
    BY <1>2, LevelRule
  <2> QED
    BY <2>1, <2>2
<1>3. CASE \E l : \E k \in Nat :
             /\ frame.lhs = {l} /\ Derives(tokens, frame.fn, i, k, l)
             /\ WordAt(tokens, k, Levels[frame.fn].word) /\ o = k + 1
  <2> PICK l : \E k \in Nat :
             /\ frame.lhs = {l} /\ Derives(tokens, frame.fn, i, k, l)
             /\ WordAt(tokens, k, Levels[frame.fn].word) /\ o = k + 1
    BY <1>3
  <2>1. PICK k \in Nat :
             /\ frame.lhs = {l} /\ Derives(tokens, frame.fn, i, k, l)
             /\ WordAt(tokens, k, Levels[frame.fn].word) /\ o = k + 1
    OBVIOUS
  <2>2. frame.lhs # {} /\ The(frame.lhs) = l
    BY <2>1, TheIn
  <2>3. Joined(frame, e) = BinaryTree(fn, l, e)
    BY <2>2, Zenon DEF Joined, BinaryTree
  <2>4. Derives(tokens, fn, i, k, l) /\ WordAt(tokens, k, Levels[fn].word)
          /\ Derives(tokens, Levels[fn].operand, k + 1, j, e)
    BY <2>1, Zenon
  <2>5. Derives(tokens, fn, i, j, BinaryTree(fn, l, e))
    BY <2>4, LevelRule
  <2> QED
    BY <2>3, <2>5, Zenon
<1> QED
  BY <1>1, <1>2, <1>3, Zenon DEF FrameAt

(* The levels ask for their operands. *)
LEMMA WantedOperand ==
  ASSUME NEW fn \in DOMAIN Levels
  PROVE  /\ fn \in {"parse_or", "parse_and"} /\ Wanted(fn) = Levels[fn].operand
         /\ \A caller : MayCall(caller, fn) => Wanted(caller) = fn
<1>1. CASE fn = "parse_or"
  BY <1>1 DEF Levels, Wanted, MayCall
<1>2. CASE fn = "parse_and"
  BY <1>2 DEF Levels, Wanted, MayCall
<1> QED
  BY <1>1, <1>2 DEF Levels

(* The next operand begins behind the operator. *)
LEMMA NextOperandSound == ASSUME ParseInv, SoundInv, NextOperand PROVE SoundInv'
<1>1. PICK fn \in DOMAIN Levels, e \in value :
        /\ Returns(fn) /\ IsWord(pos, Levels[fn].word)
        /\ stack' = <<Waiting(fn, {Joined(Head(stack), e)})>> \o Tail(stack)
        /\ pos' = Advance(pos) /\ call' = Levels[fn].operand /\ value' = {} /\ Parsing
  BY DEF NextOperand
<1> DEFINE l == Joined(Head(stack), e)
           frame == Waiting(fn, {l})
<1>2. /\ tokens \in Inputs /\ parsed = "parsing" /\ pos \in 0..(Len(tokens) - 1) /\ pos \in Nat
      /\ Peek(pos) = TokenAt(tokens, pos) /\ Head(stack).fn = fn
  BY <1>1, ReturnBegins
<1>3. PICK i \in Nat, o \in Nat :
        /\ Began(tokens, Tail(stack), i) /\ FrameAt(tokens, Head(stack), i, o)
        /\ Derives(tokens, Wanted(fn), o, pos, e)
  BY <1>1, ReturnBegins
<1>4. Derives(tokens, fn, i, pos, l)
  BY <1>2, <1>3, WantedOperand, JoinedDerives
<1> HIDE DEF l
<1>5. FrameAt(tokens, frame, i, pos + 1)
  <2>1. frame.fn = fn /\ frame.lhs = {l}
    BY DEF Waiting
  <2>2. WordAt(tokens, pos, Levels[fn].word)
    BY <1>1, <1>2, InputWords
  <2> HIDE DEF frame
  <2> QED
    BY <1>2, <1>4, <2>1, <2>2, Zenon DEF FrameAt
<1>6. pos' = pos + 1 /\ pos + 1 \in Nat
  BY <1>1, <1>2, NextPosition DEF IsWord
<1>7. stack' = <<frame>> \o Tail(stack)
  BY <1>1 DEF l
<1> HIDE DEF frame
<1>8. Began(tokens, <<frame>> \o Tail(stack), pos + 1)
  BY <1>3, <1>5, <1>6, BeganPush
<1>9. Began(tokens, stack', pos')
  BY <1>6, <1>7, <1>8, Zenon
<1>10. call' # "return"
  BY <1>1 DEF Levels
<1>11. ReadUpTo(tokens, stack', call', value', pos')
  BY <1>9, <1>10 DEF ReadUpTo
<1> QED
  BY <1>1, <1>2, <1>11, MovesSound

(* A level returns all its operands. *)
LEMMA LevelDoneSound == ASSUME ParseInv, SoundInv, LevelDone PROVE SoundInv'
<1>1. PICK fn \in DOMAIN Levels, e \in value :
        Returns(fn) /\ Return(Joined(Head(stack), e), pos, Tail(stack))
  BY DEF LevelDone
<1>2. /\ tokens \in Inputs /\ parsed = "parsing" /\ pos \in Nat
      /\ Head(stack).fn = fn /\ MayCall(Caller(Tail(stack), 0), fn)
  BY <1>1, ReturnBegins
<1>3. PICK i \in Nat, o \in Nat :
        /\ Began(tokens, Tail(stack), i) /\ FrameAt(tokens, Head(stack), i, o)
        /\ Derives(tokens, Wanted(fn), o, pos, e)
  BY <1>1, ReturnBegins
<1>4. Derives(tokens, fn, i, pos, Joined(Head(stack), e)) /\ Wanted(Caller(Tail(stack), 0)) = fn
  BY <1>2, <1>3, WantedOperand, JoinedDerives
<1>5. Derives(tokens, Wanted(Caller(Tail(stack), 0)), i, pos, Joined(Head(stack), e))
  BY <1>4, Zenon
<1> QED
  BY <1>1, <1>2, <1>3, <1>5, ReturnSound

(* A `not` returns with its operand. *)
LEMMA NotDoneSound == ASSUME ParseInv, SoundInv, NotDone PROVE SoundInv'
<1>1. Returns("parse_unary")
  BY DEF NotDone
<1>2. PICK e \in value :
        Return(NotAt(e, Span(Head(stack).start, offset_from_expr(e).end)), pos, Tail(stack))
  BY DEF NotDone
<1>3. /\ tokens \in Inputs /\ parsed = "parsing" /\ pos \in Nat
      /\ Head(stack).fn = "parse_unary" /\ MayCall(Caller(Tail(stack), 0), "parse_unary")
  BY <1>1, <1>2, ReturnBegins
<1>4. PICK i \in Nat, o \in Nat :
        /\ Began(tokens, Tail(stack), i) /\ FrameAt(tokens, Head(stack), i, o)
        /\ Derives(tokens, Wanted("parse_unary"), o, pos, e)
  BY <1>1, <1>2, ReturnBegins
<1>5. "parse_unary" \notin DOMAIN Levels
  BY DEF Levels
<1>6. WordAt(tokens, i, "not") /\ o = i + 1 /\ Head(stack).start = TokenAt(tokens, i).offset.start
  BY <1>3, <1>4, <1>5 DEF FrameAt
<1>7. Wanted("parse_unary") = "parse_unary" /\ Wanted(Caller(Tail(stack), 0)) = "parse_unary"
  BY <1>3 DEF Wanted, MayCall
<1>8. Derives(tokens, "parse_unary", i + 1, pos, e)
  BY <1>4, <1>6, <1>7, Zenon
<1> DEFINE f == NotTree(tokens, i, e)
<1>9. Derives(tokens, "parse_unary", i, pos, f)
  BY <1>3, <1>6, <1>8, UnaryRule
<1>10. Return(f, pos, Tail(stack))
  BY <1>2, <1>6, Zenon DEF NotTree
<1> HIDE DEF f
<1>11. Derives(tokens, Wanted(Caller(Tail(stack), 0)), i, pos, f)
  BY <1>7, <1>9, Zenon
<1> QED
  BY <1>3, <1>4, <1>10, <1>11, ReturnSound

(* A group returns behind its `)`. *)
LEMMA CloseGroupSound == ASSUME ParseInv, SoundInv, CloseGroup PROVE SoundInv'
<1>1. Returns("parse_primary") /\ Peek(pos).tag = "RParen"
  BY DEF CloseGroup
<1>2. PICK e \in value : Return(e, Advance(pos), Tail(stack))
  BY DEF CloseGroup
<1>3. /\ tokens \in Inputs /\ parsed = "parsing" /\ pos \in 0..(Len(tokens) - 1) /\ pos \in Nat
      /\ Peek(pos) = TokenAt(tokens, pos)
      /\ Head(stack).fn = "parse_primary" /\ MayCall(Caller(Tail(stack), 0), "parse_primary")
  BY <1>1, <1>2, ReturnBegins
<1>4. PICK i \in Nat, o \in Nat :
        /\ Began(tokens, Tail(stack), i) /\ FrameAt(tokens, Head(stack), i, o)
        /\ Derives(tokens, Wanted("parse_primary"), o, pos, e)
  BY <1>1, <1>2, ReturnBegins
<1>5. "parse_primary" \notin DOMAIN Levels
  BY DEF Levels
<1>6. SignAt(tokens, i, "LParen") /\ o = i + 1
  BY <1>3, <1>4, <1>5 DEF FrameAt
<1>7. Wanted("parse_primary") = "parse_or" /\ Wanted(Caller(Tail(stack), 0)) = "parse_unary"
  BY <1>3 DEF Wanted, MayCall
<1>8. Derives(tokens, "parse_or", i + 1, pos, e)
  BY <1>4, <1>6, <1>7, Zenon
<1>9. Derives(tokens, "parse_unary", i, pos + 1, e)
  <2>1. SignAt(tokens, pos, "RParen")
    BY <1>1, <1>3, InputWords
  <2>2. pos + 1 \in Nat
    BY <1>3
  <2> QED
    BY <1>3, <1>6, <1>8, <2>1, <2>2, UnaryRule
<1>10. Advance(pos) = pos + 1
  BY <1>1, <1>3, InputTokens, NotLast
<1>11. Return(e, pos + 1, Tail(stack)) /\ Derives(tokens, Wanted(Caller(Tail(stack), 0)), i, pos + 1, e)
  BY <1>2, <1>7, <1>9, <1>10, Zenon
<1> QED
  BY <1>3, <1>4, <1>11, ReturnSound

(* The beginning and the end of `parse`, and the errors. *)
LEMMA EndsSound ==
  ASSUME SoundInv, ParseEmpty \/ ParseBegin \/ NoPrimary \/ NotClosed \/ expect_eof PROVE SoundInv'
<1>1. CASE ParseEmpty \/ NoPrimary \/ NotClosed
  BY <1>1, FailSound DEF ParseEmpty, NoPrimary, NotClosed
<1>2. CASE ParseBegin
  BY <1>2, StaysSound DEF ParseBegin
<1>3. CASE expect_eof
  <2>1. CASE Fail("UnexpectedToken", Peek(pos).offset)
    BY <2>1, FailSound
  <2>2. CASE AtEnd /\ Peek(pos).tag = "Eof" /\ UNCHANGED <<tokens, pos, stack, call, value, parseError>>
    BY <2>2, StaysSound DEF AtEnd
  <2> QED
    BY <1>3, <2>1, <2>2 DEF expect_eof
<1> QED
  BY <1>1, <1>2, <1>3

(* Every step keeps it. *)
LEMMA SoundNext == ParseInv /\ SoundInv /\ [ParseNext]_parseVars => SoundInv'
<1> SUFFICES ASSUME ParseInv, SoundInv, [ParseNext]_parseVars PROVE SoundInv'
  OBVIOUS
<1>1. CASE ParseEmpty \/ ParseBegin \/ NoPrimary \/ NotClosed \/ expect_eof
  BY <1>1, EndsSound
<1>2. CASE CallLevel
  BY <1>2, CallLevelSound
<1>3. CASE CallNot
  BY <1>3, CallNotSound
<1>4. CASE CallPrimary
  BY <1>4, CallPrimarySound
<1>5. CASE OpenGroup
  BY <1>5, OpenGroupSound
<1>6. CASE ReadLeaf
  BY <1>6, ReadLeafSound
<1>7. CASE NextOperand
  BY <1>7, NextOperandSound
<1>8. CASE LevelDone
  BY <1>8, LevelDoneSound
<1>9. CASE NotDone
  BY <1>9, NotDoneSound
<1>10. CASE CloseGroup
  BY <1>10, CloseGroupSound
<1>11. CASE UNCHANGED parseVars
  BY <1>11, StaysSound DEF parseVars, SoundInv
<1> QED
  BY <1>1, <1>2, <1>3, <1>4, <1>5, <1>6, <1>7, <1>8, <1>9, <1>10, <1>11 DEF ParseNext

(* The result is a filter whose derivation takes up the whole text. *)
ReturnsFilter ==
  parsed = "ok" => \A e \in value : Derives(tokens, "parse_or", 0, Len(tokens) - 1, e)

(* At the end of the text everything has been read. *)
LEMMA SoundResult == ParseInv /\ SoundInv => ReturnsFilter
<1> SUFFICES ASSUME ParseInv, SoundInv, parsed = "ok", NEW e \in value
             PROVE  Derives(tokens, "parse_or", 0, Len(tokens) - 1, e)
  BY DEF ReturnsFilter
<1>1. stack = <<>> /\ call = "return" /\ Peek(pos).tag = "Eof" /\ pos \in 0..(Len(tokens) - 1)
      /\ TokensOK(tokens)
  BY DEF SoundInv, ParseInv
<1>2. PICK i : Began(tokens, stack, i) /\ Derives(tokens, Wanted(Caller(stack, 0)), i, pos, e)
  BY <1>1 DEF SoundInv, ReadUpTo
<1>3. i = 0
  BY <1>1, <1>2, BeganFirst
<1>4. Wanted(Caller(stack, 0)) = "parse_or"
  <2>1. Caller(stack, 0) = "parse"
    BY <1>1, NoneWaiting
  <2> QED
    BY <2>1 DEF Wanted
<1>5. pos = Len(tokens) - 1
  <2>1. Len(tokens) \in Nat
    BY <1>1, NotLast
  <2>2. \A k \in 1..(Len(tokens) - 1) : tokens[k].tag # "Eof"
    BY <1>1 DEF TokensOK, WellLexed
  <2> QED
    BY <1>1, <2>1, <2>2 DEF Peek
<1> QED
  BY <1>2, <1>3, <1>4, <1>5, Zenon

-----------------------------------------------------------------------------
(* No operator stands in a primitive. *)

(* The token at i is none of `not`, `and` and `or`. *)
Plain(t, i) == \A w \in Operators : ~WordAt(t, i, w)

(* An operator is no literal of any kind. *)
LEMMA OperatorNoLiteral ==
  ASSUME NEW w, IsText(w), w.text \in Operators
  PROVE  /\ parse_port(w) = {} /\ parse_mac_literal(w) = {} /\ parse_ethertype(w) = {}
         /\ \A allow_prefix : parse_addr_literal(w, allow_prefix) = {}
<1>1. ~w.colon /\ w.lower = w.text /\ w.number = {} /\ w.hex = {} /\ Len(w.before) = 1 /\ Len(w.parts) = 1
  BY DEF IsText
<1>2. parse_port(w) = {}
  BY <1>1 DEF parse_port, ParseU16, FitsIn
<1>3. parse_mac_literal(w) = {}
  BY <1>1 DEF parse_mac_literal
<1>4. parse_ethertype(w) = {}
  <2>1. w.lower \notin DOMAIN EtherTypeNames
    BY <1>1 DEF EtherTypeNames, Operators
  <2> QED
    BY <1>1, <2>1 DEF parse_ethertype, ParseU16, FitsIn
<1>5. parse_ipv4_octets(w.before) = {}
  BY <1>1 DEF parse_ipv4_octets
<1>6. ASSUME NEW allow_prefix PROVE parse_addr_literal(w, allow_prefix) = {}
  BY <1>1, <1>5 DEF parse_addr_literal
<1> QED
  BY <1>2, <1>3, <1>4, <1>6

(* A keyword, a dash and a literal are no operators. *)
LEMMA PlainTokens ==
  ASSUME NEW t, NEW k, TextAt(t, k) => IsText(TokenAt(t, k).text)
  PROVE  /\ \A w : w \notin Operators /\ WordAt(t, k, w) => Plain(t, k)
         /\ SignAt(t, k, "Dash") => Plain(t, k)
         /\ parse_port(TokenAt(t, k).text) # {} => Plain(t, k)
         /\ parse_mac_literal(TokenAt(t, k).text) # {} => Plain(t, k)
         /\ parse_ethertype(TokenAt(t, k).text) # {} => Plain(t, k)
         /\ \A allow_prefix : parse_addr_literal(TokenAt(t, k).text, allow_prefix) # {} => Plain(t, k)
<1>1. ASSUME NEW w, w \notin Operators, WordAt(t, k, w) PROVE Plain(t, k)
  BY <1>1 DEF Plain, WordAt
<1>2. ASSUME SignAt(t, k, "Dash") PROVE Plain(t, k)
  BY <1>2 DEF Plain, WordAt, TextAt, SignAt
<1>3. ASSUME ~Plain(t, k) PROVE IsText(TokenAt(t, k).text) /\ TokenAt(t, k).text.text \in Operators
  BY <1>3 DEF Plain, WordAt
<1> QED
  BY <1>1, <1>2, <1>3, OperatorNoLiteral, Zenon

(* The tokens of a primitive are keywords, dashes and literals. *)
LEMMA LeafPlain ==
  ASSUME NEW t, \A k \in Nat : TextAt(t, k) => IsText(TokenAt(t, k).text),
         NEW i \in Nat, NEW j, NEW e, WritesLeaf(t, i, j, e), NEW m \in Nat, i <= m, m < j
  PROVE  Plain(t, m)
<1> DEFINE Is(k) == Plain(t, k)
<1>1. \A k \in Nat :
         /\ \A w : w \notin Operators /\ WordAt(t, k, w) => Is(k)
         /\ SignAt(t, k, "Dash") => Is(k)
         /\ parse_port(TokenAt(t, k).text) # {} => Is(k)
         /\ parse_mac_literal(TokenAt(t, k).text) # {} => Is(k)
         /\ parse_ethertype(TokenAt(t, k).text) # {} => Is(k)
         /\ \A allow_prefix : parse_addr_literal(TokenAt(t, k).text, allow_prefix) # {} => Is(k)
  BY PlainTokens, Zenon
<1>2. /\ \A w \in DOMAIN ProtoWords : w \notin Operators
      /\ \A w \in DOMAIN DirWords : w \notin Operators
      /\ \A w \in EtherKinds : w \notin Operators
      /\ \A w \in {"host", "net", "port", "portrange", "ether", "proto"} : w \notin Operators
  BY DEF ProtoWords, DirWords, EtherKinds, Operators
<1> HIDE DEF Is
<1>3. CASE WritesPrimitive(t, i, j, e)
  <2>1. PICK proto, dir, d, k, ty :
          /\ WritesOptional(t, ProtoWords, i, proto, d)
          /\ WritesOptional(t, DirWords, d, dir, k)
          /\ WritesType(t, k, j, ty)
    BY <1>3, Zenon DEF WritesPrimitive
  <2>2. d = i \/ (d = i + 1 /\ Is(i))
    BY <1>1, <1>2, <2>1, Zenon DEF WritesOptional
  <2>3. d \in Nat
    BY <2>2
  <2>4. k = d \/ (k = d + 1 /\ Is(d))
    BY <1>1, <1>2, <2>1, <2>3, Zenon DEF WritesOptional
  <2>5. k \in Nat /\ k + 1 \in Nat /\ k + 2 \in Nat /\ k + 3 \in Nat
    BY <2>3, <2>4
  <2>6. /\ Is(k) /\ Is(k + 1)
        /\ j = k + 2 \/ (j = k + 4 /\ Is(k + 2) /\ Is(k + 3))
    <3>1. /\ \E w \in {"host", "net", "port", "portrange"} : WordAt(t, k, w)
          /\ \/ /\ j = k + 2
                /\ \/ parse_addr_literal(TokenAt(t, k + 1).text, FALSE) # {}
                   \/ parse_addr_literal(TokenAt(t, k + 1).text, TRUE) # {}
                   \/ parse_port(TokenAt(t, k + 1).text) # {}
             \/ /\ j = k + 4 /\ parse_port(TokenAt(t, k + 1).text) # {}
                /\ SignAt(t, k + 2, "Dash") /\ parse_port(TokenAt(t, k + 3).text) # {}
      BY <2>1, Zenon DEF WritesType
    <3>2. Is(k)
      BY <1>1, <1>2, <2>5, <3>1, Zenon
    <3>3. Is(k + 1)
      BY <1>1, <2>5, <3>1, Zenon
    <3>4. j = k + 2 \/ (j = k + 4 /\ Is(k + 2) /\ Is(k + 3))
      BY <1>1, <2>5, <3>1, Zenon
    <3> QED
      BY <3>2, <3>3, <3>4
  <2>7. Is(m)
    BY <2>2, <2>3, <2>4, <2>5, <2>6
  <2> QED
    BY <2>7 DEF Is
<1>4. CASE WritesEther(t, i, j, e)
  <2>1. i \in Nat /\ i + 1 \in Nat /\ i + 2 \in Nat /\ i + 3 \in Nat
    OBVIOUS
  <2>2. \A k \in Nat : /\ \A w \in DOMAIN DirWords : WordAt(t, k, w) => Is(k)
                       /\ \A w \in EtherKinds : WordAt(t, k, w) => Is(k)
                       /\ \A w \in {"host", "ether", "proto"} : WordAt(t, k, w) => Is(k)
    BY <1>1, <1>2, Zenon
  <2>3. \/ /\ WordAt(t, i + 1, "host") \/ \E w \in DOMAIN DirWords : WordAt(t, i + 1, w)
           /\ WordAt(t, i, "ether") /\ j = (i + 2) + 1 /\ parse_mac_literal(TokenAt(t, i + 2).text) # {}
        \/ /\ \E w \in DOMAIN DirWords : WordAt(t, i + 1, w)
           /\ WordAt(t, i + 2, "host")
           /\ WordAt(t, i, "ether") /\ j = (i + 3) + 1 /\ parse_mac_literal(TokenAt(t, i + 3).text) # {}
        \/ /\ WordAt(t, i, "ether") /\ WordAt(t, i + 1, "proto") /\ j = i + 3
           /\ parse_ethertype(TokenAt(t, i + 2).text) # {}
        \/ /\ \E w \in EtherKinds : WordAt(t, i, w)
           /\ j = i + 1
        \/ /\ \E w \in EtherKinds : WordAt(t, i + 1, w)
           /\ WordAt(t, i, "ether") /\ j = i + 2
    BY <1>4, Zenon DEF WritesEther, WritesHost
  <2>4. /\ Is(i)
        /\ \/ j = i + 1
           \/ j = i + 2 /\ Is(i + 1)
           \/ (j = i + 3 \/ j = (i + 2) + 1) /\ Is(i + 1) /\ Is(i + 2)
           \/ j = (i + 3) + 1 /\ Is(i + 1) /\ Is(i + 2) /\ Is(i + 3)
    BY <1>1, <2>1, <2>2, <2>3, Zenon
  <2>5. Is(m)
    BY <2>4
  <2> QED
    BY <2>5 DEF Is
<1> QED
  BY <1>3, <1>4 DEF WritesLeaf

(* What parse_primary reads. *)
LEMMA HerePlain ==
  ASSUME tokens \in Inputs, pos \in 0..(Len(tokens) - 1), Peek(pos).tag = "Word", NEW e \in ReadHere.expr
  PROVE  /\ Wordy(pos, ReadHere.pos)
         /\ \A k \in (pos + 1)..ReadHere.pos : \A w \in Operators : ~IsWord(k - 1, w)
<1>1. TokensOK(tokens)
  BY InputTokens
<1>2. Wordy(pos, ReadHere.pos)
  BY <1>1, HereOutcome DEF Outcome
<1>3. WritesLeaf(tokens, pos, ReadHere.pos, e)
  BY HereSpelled DEF Spelled
<1> DEFINE j == ReadHere.pos
<1>4. Len(tokens) \in Nat /\ pos \in Nat /\ j \in 0..(Len(tokens) - 1) /\ pos <= j
  BY <1>1, <1>2, NotLast DEF Wordy
<1> HIDE DEF j
<1>5. ASSUME NEW k \in Nat, TextAt(tokens, k) PROVE IsText(TokenAt(tokens, k).text)
  <2>1. k \in 0..(Len(tokens) - 1)
    BY <1>4, <1>5 DEF TextAt, SignAt
  <2> QED
    BY <1>5, <2>1, InputTokens, InputWords
<1>6. ASSUME NEW k \in (pos + 1)..j, NEW w \in Operators PROVE ~IsWord(k - 1, w)
  <2>1. k - 1 \in Nat /\ pos <= k - 1 /\ k - 1 < j /\ k - 1 \in 0..(Len(tokens) - 1)
    BY <1>4
  <2>2. Plain(tokens, k - 1)
    BY <1>3, <1>4, <1>5, <2>1, LeafPlain DEF j
  <2> QED
    BY <2>1, <2>2, InputWords DEF Plain
<1> QED
  BY <1>2, <1>6 DEF j

-----------------------------------------------------------------------------
(* How deep the recursion is. *)

(* How many `(` are open behind the first n tokens. *)
Depth(t, n) == Tagged(t, n, "LParen") - Tagged(t, n, "RParen")

(* The i-th token is the word w. *)
Says(t, i, w) == t[i].tag = "Word" /\ t[i].text.text = w

(* It ends the operand of a `not`, unless it stands in parentheses there.  *)
EndsAt(t, i) == t[i].tag = "RParen" \/ Says(t, i, "and") \/ Says(t, i, "or")

(* The i-th token is a `not` whose operand is not ended by the first p.    *)
Open(t, i, p) ==
  Says(t, i, "not") /\ \A j \in (i + 1)..p : EndsAt(t, j) => Depth(t, j - 1) > Depth(t, i)

(* Only a group is deeper in parentheses than the call it returns to. *)
Deeper(frame) == IF frame.fn = "parse_primary" THEN 1 ELSE 0

(* The depth at which the k-th waiting call goes on, the first at[k]       *)
(* tokens having been passed when it began to wait; that of parse is 0.    *)
Base(t, at, k) == IF k \in DOMAIN at THEN Depth(t, at[k]) ELSE 0

(* An inner call is no less deep than an outer one, and deeper than an     *)
(* outer `not` unless it is a `not` too: between a `not` and a level       *)
(* inside of it there is a group.                                          *)
Nested(t, calls, at) ==
  /\ IsSeq(calls) /\ at \in Seq(Nat) /\ Len(at) = Len(calls)
  /\ \A k \in DOMAIN calls : Depth(t, at[k]) = Base(t, at, k + 1) + Deeper(calls[k])
  /\ \A k, m \in DOMAIN calls : m < k =>
       /\ Depth(t, at[k]) <= Depth(t, at[m])
       /\ calls[k].fn = "parse_unary" /\ calls[m].fn # "parse_unary" => Depth(t, at[k]) < Depth(t, at[m])
       /\ calls[k].fn = "parse_unary" /\ calls[m].fn = "parse_unary" => at[k] < at[m]

(* Behind p tokens the innermost of them goes on at the depth at which it  *)
(* began to wait, and a waiting parse_unary waits for an open operand.     *)
Reached(t, calls, at, p) ==
  /\ Depth(t, p) = Base(t, at, 1)
  /\ \A k \in DOMAIN calls : calls[k].fn = "parse_unary" => at[k] \in 1..p /\ Open(t, at[k], p)

(* Every open operand is waited for, or it has just been read.             *)
Covered(t, calls, at, fn, p) ==
  \A i \in 1..p : Open(t, i, p) =>
    \/ \E k \in DOMAIN calls : calls[k].fn = "parse_unary" /\ at[k] = i
    \/ fn = "return" /\ Depth(t, i) = Depth(t, p)

(* The waiting calls of a parser that makes the call fn behind p tokens. *)
NestedAt(t, calls, fn, p) ==
  \E at : Nested(t, calls, at) /\ Reached(t, calls, at, p) /\ Covered(t, calls, at, fn, p)

(* The inductive invariant. *)
NestInv == NestedAt(tokens, stack, call, pos)

(* What passing a token changes. *)
LEMMA DepthOne ==
  ASSUME NEW n \in Nat
  PROVE  /\ Depth(tokens, n) \in Int
         /\ Peek(n).tag = "LParen" => Depth(tokens, n + 1) = Depth(tokens, n) + 1
         /\ Peek(n).tag = "RParen" => Depth(tokens, n + 1) = Depth(tokens, n) - 1
         /\ Peek(n).tag \notin {"LParen", "RParen"} => Depth(tokens, n + 1) = Depth(tokens, n)
<1> DEFINE l(m) == Tagged(tokens, m, "LParen")
           r(m) == Tagged(tokens, m, "RParen")
<1>1. l(n) \in Nat /\ l(n + 1) = l(n) + (IF Peek(n).tag = "LParen" THEN 1 ELSE 0)
  BY PassOne
<1>2. r(n) \in Nat /\ r(n + 1) = r(n) + (IF Peek(n).tag = "RParen" THEN 1 ELSE 0)
  BY PassOne
<1>3. Depth(tokens, n) = l(n) - r(n) /\ Depth(tokens, n + 1) = l(n + 1) - r(n + 1)
  BY DEF Depth
<1> HIDE DEF l, r
<1> QED
  BY <1>1, <1>2, <1>3

(* An operand that is open stays so behind tokens that do not end it, and  *)
(* was so before.                                                          *)
LEMMA OpenOn ==
  ASSUME NEW t, NEW i \in Nat, NEW p \in Nat, NEW q \in Nat, i <= p, p <= q
  PROVE  Open(t, i, q) <=>
           Open(t, i, p) /\ \A j \in (p + 1)..q : EndsAt(t, j) => Depth(t, j - 1) > Depth(t, i)
<1>1. \A j \in (i + 1)..q : j \in (i + 1)..p \/ j \in (p + 1)..q
  OBVIOUS
<1>2. (\A j \in (i + 1)..p : j \in (i + 1)..q) /\ (\A j \in (p + 1)..q : j \in (i + 1)..q)
  OBVIOUS
<1> QED
  BY <1>1, <1>2, Zenon DEF Open

(* The sequence more is rest with x in front. *)
InFront(more, x, rest) ==
  /\ Len(rest) \in Nat /\ DOMAIN rest = 1..Len(rest)
  /\ DOMAIN more = 1..(Len(rest) + 1) /\ Len(more) = Len(rest) + 1
  /\ more[1] = x /\ \A k \in 1..Len(rest) : more[k + 1] = rest[k]

(* A frame in front, with the tokens passed when it began to wait.         *)
LEMMA Longer ==
  ASSUME NEW t, NEW calls, NEW at, Nested(t, calls, at), NEW x, NEW q \in Nat
  PROVE  /\ InFront(<<x>> \o calls, x, calls) /\ IsSeq(<<x>> \o calls)
         /\ InFront(<<q>> \o at, q, at) /\ <<q>> \o at \in Seq(Nat)
         /\ Len(at) = Len(calls) /\ \A k \in 1..Len(at) : at[k] \in Nat
<1> DEFINE more == <<x>> \o calls
           longer == <<q>> \o at
           n == Len(calls)
           S == {calls[k] : k \in DOMAIN calls} \cup {x}
<1>1. calls \in Seq(S) /\ x \in S /\ at \in Seq(Nat) /\ Len(at) = n
  BY DEF Nested, IsSeq
<1> HIDE DEF S
<1>2. /\ n \in Nat /\ DOMAIN calls = 1..n /\ more \in Seq(S) /\ DOMAIN more = 1..(n + 1) /\ Len(more) = n + 1
      /\ more[1] = x /\ \A k \in 1..n : more[k + 1] = calls[k]
  BY <1>1
<1>3. /\ longer \in Seq(Nat) /\ Len(longer) = n + 1 /\ DOMAIN longer = 1..(n + 1) /\ DOMAIN at = 1..n
      /\ longer[1] = q /\ (\A k \in 1..n : longer[k + 1] = at[k]) /\ \A k \in 1..n : at[k] \in Nat
  BY <1>1
<1>4. IsSeq(more)
  BY <1>2, OwnElements
<1> HIDE DEF more, longer
<1>5. InFront(more, x, calls)
  BY <1>2 DEF InFront
<1>6. InFront(longer, q, at) /\ \A k \in 1..Len(at) : at[k] \in Nat
  BY <1>1, <1>2, <1>3 DEF InFront
<1> HIDE DEF n
<1> QED
  BY <1>1, <1>3, <1>4, <1>5, <1>6, Zenon DEF more, longer, n

(* A call begins to wait behind q tokens. *)
LEMMA NestedPush ==
  ASSUME NEW t, \A n \in Nat : Depth(t, n) \in Int, NEW calls, NEW at, NEW p \in Nat, NEW x, NEW q \in Nat,
         Nested(t, calls, at), Reached(t, calls, at, p), p <= q, x.fn = "parse_unary" => p < q,
         Depth(t, q) = Depth(t, p) + Deeper(x),
         x.fn \in {"parse_unary", "parse_primary"} \/ Caller(calls, 0) # "parse_unary"
  PROVE  Nested(t, <<x>> \o calls, <<q>> \o at)
<1> DEFINE more == <<x>> \o calls
           longer == <<q>> \o at
           n == Len(calls)
           D(k) == Depth(t, at[k])
           E(k) == Depth(t, longer[k])
<1>0. /\ InFront(more, x, calls) /\ IsSeq(more) /\ InFront(longer, q, at) /\ longer \in Seq(Nat)
      /\ Len(at) = n /\ \A k \in 1..Len(at) : at[k] \in Nat
  BY Longer, Zenon
<1> HIDE DEF more, longer
<1>1. /\ n \in Nat /\ DOMAIN calls = 1..n /\ IsSeq(more) /\ DOMAIN more = 1..(n + 1)
      /\ more[1] = x /\ \A k \in 1..n : more[k + 1] = calls[k]
  BY <1>0 DEF InFront
<1>2. /\ longer \in Seq(Nat) /\ Len(longer) = Len(more) /\ DOMAIN longer = 1..(n + 1) /\ DOMAIN at = 1..n
      /\ longer[1] = q /\ (\A k \in 1..n : longer[k + 1] = at[k]) /\ \A k \in 1..n : at[k] \in Nat
  BY <1>0 DEF InFront
<1> HIDE DEF n
<1>3. Depth(t, p) = Base(t, at, 1)
      /\ \A k \in 1..n : calls[k].fn = "parse_unary" => at[k] \in 1..p
  BY <1>1 DEF Reached
<1>4. /\ E(1) = Depth(t, q) /\ E(1) \in Int
      /\ \A k \in 1..n : E(k + 1) = D(k) /\ D(k) \in Int
  BY <1>2
<1>5. /\ \A k \in 1..n : D(k) = Base(t, at, k + 1) + Deeper(calls[k])
      /\ \A k, m \in 1..n : m < k =>
           /\ D(k) <= D(m)
           /\ calls[k].fn = "parse_unary" /\ calls[m].fn # "parse_unary" => D(k) < D(m)
           /\ calls[k].fn = "parse_unary" /\ calls[m].fn = "parse_unary" => at[k] < at[m]
  BY <1>1 DEF Nested
<1>6. \A k \in 1..(n + 1) : Base(t, longer, k + 1) = Base(t, at, k)
  <2>1. ASSUME NEW k \in 1..(n + 1) PROVE Base(t, longer, k + 1) = Base(t, at, k)
    <3>1. CASE k \in 1..n
      BY <1>1, <1>2, <3>1 DEF Base
    <3>2. CASE k \notin 1..n
      BY <1>1, <1>2, <3>2 DEF Base
    <3> QED
      BY <3>1, <3>2
  <2> QED
    BY <2>1
<1>7. n # 0 => Depth(t, p) = D(1)
  BY <1>1, <1>2, <1>3 DEF Base
<1>8. n # 0 => Caller(calls, 0) = calls[1].fn
  BY <1>1 DEF Caller
<1> HIDE DEF D, E
<1>9. ASSUME NEW k \in 1..n PROVE D(k) <= Depth(t, p)
  <2>1. 1 \in 1..n /\ n # 0
    BY <1>1
  <2>2. D(k) \in Int /\ D(1) = Depth(t, p)
    BY <1>4, <1>7, <2>1
  <2>3. k # 1 => D(k) <= D(1)
    BY <1>5, <2>1
  <2> QED
    BY <2>2, <2>3
<1>10. \A k \in 1..n : calls[k].fn = "parse_unary" /\ x.fn # "parse_unary" => D(k) < Depth(t, q)
  <2>1. CASE x.fn = "parse_primary"
    BY <1>4, <1>9, <2>1 DEF Deeper
  <2>2. ASSUME x.fn \notin {"parse_unary", "parse_primary"}, NEW k \in 1..n, calls[k].fn = "parse_unary"
        PROVE  D(k) < Depth(t, q)
    <3>1. n # 0 /\ calls[1].fn # "parse_unary" /\ 1 \in 1..n
      BY <1>1, <1>8, <2>2
    <3>2. k # 1
      BY <2>2, <3>1
    <3>3. D(k) < D(1)
      BY <1>1, <1>5, <2>2, <3>1, <3>2
    <3> QED
      BY <1>4, <1>7, <2>2, <3>1, <3>3 DEF Deeper
  <2> QED
    BY <2>1, <2>2
<1>11. ASSUME NEW k \in 1..(n + 1)
       PROVE  E(k) = Base(t, longer, k + 1) + Deeper(more[k])
  <2>1. CASE k = 1
    BY <1>1, <1>3, <1>4, <1>6, <2>1
  <2>2. CASE k # 1
    <3>1. k - 1 \in 1..n /\ (k - 1) + 1 = k
      BY <1>1, <2>2
    <3> QED
      BY <1>1, <1>4, <1>5, <1>6, <3>1
  <2> QED
    BY <2>1, <2>2
<1>12. ASSUME NEW k \in 1..(n + 1), NEW m \in 1..(n + 1), m < k
       PROVE  /\ E(k) <= E(m)
              /\ more[k].fn = "parse_unary" /\ more[m].fn # "parse_unary" => E(k) < E(m)
              /\ more[k].fn = "parse_unary" /\ more[m].fn = "parse_unary" => longer[k] < longer[m]
  <2>1. k - 1 \in 1..n /\ (k - 1) + 1 = k
    BY <1>1, <1>12
  <2>2. E(k) = D(k - 1) /\ more[k] = calls[k - 1] /\ longer[k] = at[k - 1]
    BY <1>1, <1>2, <1>4, <2>1
  <2>3. CASE m = 1
    <3>1. E(k) <= E(m)
      BY <1>4, <1>9, <2>1, <2>2, <2>3 DEF Deeper
    <3>2. more[k].fn = "parse_unary" /\ more[m].fn # "parse_unary" => E(k) < E(m)
      BY <1>1, <1>4, <1>10, <2>1, <2>2, <2>3
    <3>3. more[k].fn = "parse_unary" /\ more[m].fn = "parse_unary" => longer[k] < longer[m]
      <4>1. ASSUME more[k].fn = "parse_unary", more[m].fn = "parse_unary" PROVE longer[k] < longer[m]
        <5>1. at[k - 1] \in 1..p /\ p < q /\ longer[m] = q
          BY <1>1, <1>2, <1>3, <2>1, <2>2, <2>3, <4>1
        <5> QED
          BY <2>2, <5>1
      <4> QED
        BY <4>1
    <3> QED
      BY <3>1, <3>2, <3>3
  <2>4. CASE m # 1
    <3>1. m - 1 \in 1..n /\ (m - 1) + 1 = m /\ m - 1 < k - 1
      <4>1. n \in Nat
        BY <1>1
      <4> QED
        BY <1>12, <2>4, <4>1
    <3>2. E(m) = D(m - 1) /\ more[m] = calls[m - 1] /\ longer[m] = at[m - 1]
      BY <1>1, <1>2, <1>4, <3>1
    <3> QED
      BY <1>5, <2>1, <2>2, <3>1, <3>2
  <2> QED
    BY <2>3, <2>4
<1> QED
  BY <1>1, <1>2, <1>11, <1>12 DEF Nested, E, more, longer

(* Without the innermost frame. *)
LEMMA Shorter ==
  ASSUME NEW t, NEW calls, NEW at, Nested(t, calls, at), calls # <<>>
  PROVE  /\ Len(Tail(calls)) \in Nat /\ DOMAIN Tail(calls) = 1..Len(Tail(calls))
         /\ IsSeq(Tail(calls)) /\ Tail(at) \in Seq(Nat) /\ Len(Tail(at)) = Len(Tail(calls))
         /\ DOMAIN calls = 1..(Len(Tail(calls)) + 1) /\ calls[1] = Head(calls)
         /\ DOMAIN at = 1..(Len(Tail(calls)) + 1) /\ DOMAIN Tail(at) = 1..Len(Tail(calls))
         /\ \A k \in 1..Len(Tail(calls)) : Tail(calls)[k] = calls[k + 1]
         /\ \A k \in 1..Len(Tail(calls)) : Tail(at)[k] = at[k + 1]
<1> DEFINE rest == Tail(calls)
           less == Tail(at)
           n == Len(rest)
           S == {calls[k] : k \in DOMAIN calls}
<1>1. calls \in Seq(S) /\ at \in Seq(Nat) /\ Len(at) = Len(calls)
  BY DEF Nested, IsSeq
<1> HIDE DEF S
<1>2. /\ n \in Nat /\ rest \in Seq(S) /\ DOMAIN rest = 1..n /\ DOMAIN calls = 1..(n + 1) /\ Len(calls) = n + 1
      /\ calls[1] = Head(calls) /\ \A k \in 1..n : rest[k] = calls[k + 1]
  BY <1>1
<1>3. /\ less \in Seq(Nat) /\ Len(less) = n /\ DOMAIN less = 1..n /\ DOMAIN at = 1..(n + 1)
      /\ \A k \in 1..n : less[k] = at[k + 1]
  BY <1>1, <1>2
<1>4. IsSeq(rest)
  BY <1>2, OwnElements
<1> HIDE DEF rest, less, n
<1> QED
  BY <1>2, <1>3, <1>4, Zenon DEF rest, less, n

(* The innermost waiting call goes on. *)
LEMMA NestedPop ==
  ASSUME NEW t, NEW calls, NEW at, Nested(t, calls, at), calls # <<>>
  PROVE  /\ Nested(t, Tail(calls), Tail(at))
         /\ Base(t, at, 1) = Base(t, Tail(at), 1) + Deeper(Head(calls))
         /\ Base(t, at, 1) = Depth(t, at[1])
<1> DEFINE rest == Tail(calls)
           less == Tail(at)
           n == Len(rest)
<1>1. IsSeq(rest) /\ less \in Seq(Nat) /\ Len(less) = Len(rest) /\ n \in Nat
  BY Shorter
<1>2. DOMAIN rest = 1..n /\ DOMAIN calls = 1..(n + 1) /\ DOMAIN less = 1..n /\ DOMAIN at = 1..(n + 1)
  BY Shorter
<1>3. calls[1] = Head(calls) /\ \A k \in 1..n : rest[k] = calls[k + 1]
  BY Shorter
<1>4. \A k \in 1..n : less[k] = at[k + 1]
  BY Shorter
<1>5. /\ \A k \in 1..(n + 1) :
           Depth(t, at[k]) = Base(t, at, k + 1) + Deeper(calls[k])
      /\ \A k, m \in 1..(n + 1) : m < k =>
           /\ Depth(t, at[k]) <= Depth(t, at[m])
           /\ calls[k].fn = "parse_unary" /\ calls[m].fn # "parse_unary" => Depth(t, at[k]) < Depth(t, at[m])
           /\ calls[k].fn = "parse_unary" /\ calls[m].fn = "parse_unary" => at[k] < at[m]
  BY <1>2 DEF Nested
<1> HIDE DEF rest, less, n
<1>6. \A k \in 1..(n + 1) : Base(t, less, k) = Base(t, at, k + 1)
  <2>1. ASSUME NEW k \in 1..(n + 1) PROVE Base(t, less, k) = Base(t, at, k + 1)
    <3>1. CASE k \in 1..n
      BY <1>1, <1>2, <1>4, <3>1 DEF Base
    <3>2. CASE k \notin 1..n
      BY <1>1, <1>2, <3>2 DEF Base
    <3> QED
      BY <3>1, <3>2
  <2> QED
    BY <2>1
<1>7. \A k \in 1..n : k + 1 \in 1..(n + 1) /\ rest[k] = calls[k + 1] /\ less[k] = at[k + 1]
  BY <1>1, <1>3, <1>4
<1>8. ASSUME NEW k \in 1..n
      PROVE  Depth(t, less[k]) = Base(t, less, k + 1) + Deeper(rest[k])
  BY <1>1, <1>5, <1>6, <1>7
<1>9. ASSUME NEW k \in 1..n, NEW m \in 1..n, m < k
      PROVE  /\ Depth(t, less[k]) <= Depth(t, less[m])
             /\ rest[k].fn = "parse_unary" /\ rest[m].fn # "parse_unary" => Depth(t, less[k]) < Depth(t, less[m])
             /\ rest[k].fn = "parse_unary" /\ rest[m].fn = "parse_unary" => less[k] < less[m]
  <2>1. m + 1 < k + 1 /\ k + 1 \in 1..(n + 1) /\ m + 1 \in 1..(n + 1)
    BY <1>1, <1>9
  <2> QED
    BY <1>5, <1>7, <2>1
<1>10. Nested(t, rest, less)
  BY <1>1, <1>2, <1>8, <1>9 DEF Nested
<1>11. 1 \in 1..(n + 1)
  BY <1>1
<1>12. Base(t, at, 1) = Depth(t, at[1])
  BY <1>2, <1>11 DEF Base
<1> QED
  BY <1>3, <1>5, <1>6, <1>10, <1>11, <1>12 DEF rest, less

(* A call is made by one that begins to wait: at a level, behind a `not`   *)
(* or behind a `(`.                                                        *)
LEMMA CallNested ==
  ASSUME NEW t, \A n \in Nat : Depth(t, n) \in Int, NEW calls, NEW fn, NEW p \in Nat, fn # "return",
         NestedAt(t, calls, fn, p), NEW x, NEW q \in {p, p + 1}, NEW next,
         Depth(t, q) = Depth(t, p) + Deeper(x),
         x.fn \in {"parse_unary", "parse_primary"} \/ Caller(calls, 0) # "parse_unary",
         x.fn = "parse_unary" => q = p + 1 /\ Says(t, q, "not"),
         q = p + 1 => ~EndsAt(t, q) /\ (Says(t, q, "not") => x.fn = "parse_unary")
  PROVE  NestedAt(t, <<x>> \o calls, next, q)
<1>1. PICK at : Nested(t, calls, at) /\ Reached(t, calls, at, p) /\ Covered(t, calls, at, fn, p)
  BY DEF NestedAt
<1> DEFINE more == <<x>> \o calls
           longer == <<q>> \o at
           n == Len(calls)
<1>2. q \in Nat /\ p <= q /\ (x.fn = "parse_unary" => p < q)
  OBVIOUS
<1>3. /\ n \in Nat /\ DOMAIN calls = 1..n /\ DOMAIN more = 1..(n + 1) /\ DOMAIN longer = 1..(n + 1)
      /\ more[1] = x /\ \A k \in 1..n : more[k + 1] = calls[k]
      /\ longer[1] = q /\ \A k \in 1..n : longer[k + 1] = at[k]
  <2>1. InFront(more, x, calls) /\ InFront(longer, q, at) /\ Len(at) = n
    BY <1>1, <1>2, Longer, Zenon
  <2> HIDE DEF more, longer
  <2> QED
    BY <2>1 DEF InFront
<1>4. Nested(t, more, longer)
  BY <1>1, <1>2, NestedPush
<1> HIDE DEF more, longer, n
<1>5. ASSUME NEW i \in 1..p PROVE Open(t, i, q) <=> Open(t, i, p)
  <2>1. \A j \in (p + 1)..q : ~EndsAt(t, j)
    BY <1>2
  <2>2. i \in Nat /\ i <= p
    OBVIOUS
  <2> QED
    BY <1>2, <2>1, <2>2, OpenOn
<1>6. ASSUME NEW k \in 1..(n + 1), more[k].fn = "parse_unary" PROVE longer[k] \in 1..q /\ Open(t, longer[k], q)
  <2>1. CASE k = 1
    BY <1>2, <1>3, <1>6, <2>1 DEF Open
  <2>2. CASE k # 1
    <3>1. k - 1 \in 1..n /\ (k - 1) + 1 = k
      BY <1>3, <2>2
    <3>2. more[k] = calls[k - 1] /\ longer[k] = at[k - 1]
      BY <1>3, <3>1
    <3>3. at[k - 1] \in 1..p /\ Open(t, at[k - 1], p)
      BY <1>1, <1>3, <1>6, <3>1, <3>2 DEF Reached
    <3> QED
      BY <1>2, <1>5, <3>2, <3>3
  <2> QED
    BY <2>1, <2>2
<1>7. Base(t, longer, 1) = Depth(t, q)
  BY <1>3 DEF Base
<1>8. Reached(t, more, longer, q)
  BY <1>3, <1>6, <1>7 DEF Reached
<1>9. ASSUME NEW i \in 1..q, Open(t, i, q)
      PROVE  \E k \in 1..(n + 1) : more[k].fn = "parse_unary" /\ longer[k] = i
  <2>1. CASE i \in 1..p
    <3>1. PICK k \in 1..n : calls[k].fn = "parse_unary" /\ at[k] = i
      BY <1>1, <1>3, <1>5, <1>9, <2>1 DEF Covered
    <3>2. more[k + 1] = calls[k] /\ longer[k + 1] = at[k]
      BY <1>3, Zenon
    <3>3. k + 1 \in 1..(n + 1)
      <4>1. n \in Nat
        BY <1>3
      <4> QED
        BY <4>1
    <3> QED
      BY <3>1, <3>2, <3>3, Zenon
  <2>2. CASE i \notin 1..p
    <3>1. i = q /\ q = p + 1
      BY <1>2, <2>2
    <3>2. Says(t, q, "not")
      BY <1>9, <3>1 DEF Open
    <3>3. 1 \in 1..(n + 1) /\ more[1].fn = "parse_unary" /\ longer[1] = i
      BY <1>3, <3>1, <3>2
    <3> QED
      BY <3>3
  <2> QED
    BY <2>1, <2>2
<1>10. Covered(t, more, longer, next, q)
  BY <1>3, <1>9 DEF Covered
<1> QED
  BY <1>4, <1>8, <1>10 DEF NestedAt, more

(* A primitive is read. *)
LEMMA ReadNested ==
  ASSUME NEW t, NEW calls, NEW fn, NEW p \in Nat, fn # "return", NestedAt(t, calls, fn, p), NEW q \in Nat, p <= q,
         Depth(t, q) = Depth(t, p), \A j \in (p + 1)..q : ~EndsAt(t, j) /\ ~Says(t, j, "not"), NEW next
  PROVE  NestedAt(t, calls, next, q)
<1>1. PICK at : Nested(t, calls, at) /\ Reached(t, calls, at, p) /\ Covered(t, calls, at, fn, p)
  BY DEF NestedAt
<1>2. ASSUME NEW i \in 1..p PROVE Open(t, i, q) <=> Open(t, i, p)
  <2>1. i \in Nat /\ i <= p
    OBVIOUS
  <2> QED
    BY <2>1, OpenOn
<1>3. \A i \in 1..q : Open(t, i, q) => i \in 1..p
  BY DEF Open
<1>4. Reached(t, calls, at, q)
  BY <1>1, <1>2 DEF Reached
<1>5. Covered(t, calls, at, next, q)
  BY <1>1, <1>2, <1>3 DEF Covered
<1> QED
  BY <1>1, <1>4, <1>5 DEF NestedAt

(* The innermost waiting call is deeper than every `not` that waits for    *)
(* it, unless it is a `not` itself.                                        *)
LEMMA HeadDeeper ==
  ASSUME NEW t, NEW calls, NEW at, NEW p, Nested(t, calls, at), Reached(t, calls, at, p), calls # <<>>,
         Head(calls).fn # "parse_unary", NEW k \in DOMAIN calls, calls[k].fn = "parse_unary"
  PROVE  k # 1 /\ Depth(t, at[k]) < Depth(t, p)
<1>1. /\ Base(t, at, 1) = Depth(t, at[1]) /\ calls[1] = Head(calls)
      /\ DOMAIN calls = 1..(Len(Tail(calls)) + 1) /\ Len(Tail(calls)) \in Nat
  <2>1. Base(t, at, 1) = Depth(t, at[1])
    BY NestedPop, Zenon
  <2>2. calls[1] = Head(calls) /\ DOMAIN calls = 1..(Len(Tail(calls)) + 1) /\ Len(Tail(calls)) \in Nat
    BY Shorter, Zenon
  <2> QED
    BY <2>1, <2>2, Zenon
<1>2. k # 1 /\ 1 \in DOMAIN calls /\ 1 < k
  BY <1>1
<1>3. Depth(t, at[k]) < Depth(t, at[1])
  BY <1>1, <1>2 DEF Nested
<1> QED
  BY <1>1, <1>2, <1>3 DEF Reached

(* An expression is handed on: by a level or a `not` where it stands, by a *)
(* group behind its `)`.                                                   *)
LEMMA ReturnNested ==
  ASSUME NEW t, \A n \in Nat : Depth(t, n) \in Int, NEW calls, NEW p \in Nat, calls # <<>>,
         NestedAt(t, calls, "return", p), NEW q \in {p, p + 1}, Depth(t, q) = Depth(t, p) - Deeper(Head(calls)),
         q = p + 1 => Head(calls).fn = "parse_primary" /\ t[q].tag = "RParen"
  PROVE  NestedAt(t, Tail(calls), "return", q)
<1>1. PICK at : Nested(t, calls, at) /\ Reached(t, calls, at, p) /\ Covered(t, calls, at, "return", p)
  BY DEF NestedAt
<1> DEFINE rest == Tail(calls)
           less == Tail(at)
           n == Len(rest)
<1>2. Nested(t, rest, less)
  BY <1>1, NestedPop
<1>3. /\ n \in Nat /\ DOMAIN rest = 1..n /\ DOMAIN calls = 1..(n + 1) /\ calls[1] = Head(calls)
      /\ (\A k \in 1..n : rest[k] = calls[k + 1]) /\ \A k \in 1..n : less[k] = at[k + 1]
  BY <1>1, Shorter
<1>4. /\ Base(t, at, 1) = Base(t, less, 1) + Deeper(Head(calls)) /\ Base(t, at, 1) = Depth(t, at[1])
      /\ Depth(t, p) = Base(t, at, 1) /\ Base(t, less, 1) \in Int
  <2>1. at \in Seq(Nat) /\ less \in Seq(Nat)
    BY <1>1, <1>2 DEF Nested
  <2>2. Base(t, less, 1) \in Int
    BY <2>1 DEF Base
  <2> QED
    BY <1>1, <2>2, NestedPop DEF Reached
<1> HIDE DEF rest, less, n
<1>5. q \in Nat /\ p <= q
  OBVIOUS
<1>6. Depth(t, q) = Base(t, less, 1)
  BY <1>4 DEF Deeper
<1>7. ASSUME NEW k \in 1..n, rest[k].fn = "parse_unary" PROVE less[k] \in 1..q /\ Open(t, less[k], q)
  <2>1. k + 1 \in DOMAIN calls /\ k + 1 # 1
    BY <1>3
  <2>2. rest[k] = calls[k + 1] /\ less[k] = at[k + 1]
    BY <1>3, Zenon
  <2>3. less[k] \in 1..p /\ Open(t, less[k], p)
    BY <1>1, <1>7, <2>1, <2>2 DEF Reached
  <2>4. q = p + 1 => Depth(t, less[k]) < Depth(t, p)
    <3>1. q = p + 1 => Head(calls).fn # "parse_unary"
      OBVIOUS
    <3> QED
      BY <1>1, <1>7, <2>1, <2>2, <3>1, HeadDeeper
  <2>5. \A j \in (p + 1)..q : j - 1 = p /\ q = p + 1
    BY <1>5
  <2>6. less[k] \in Nat /\ less[k] <= p /\ Depth(t, less[k]) \in Int /\ Depth(t, p) \in Int
    BY <2>3
  <2>7. \A j \in (p + 1)..q : Depth(t, j - 1) > Depth(t, less[k])
    BY <2>4, <2>5, <2>6
  <2>8. Open(t, less[k], q)
    BY <1>5, <2>3, <2>6, <2>7, OpenOn
  <2> QED
    BY <1>5, <2>3, <2>8
<1>8. Reached(t, rest, less, q)
  BY <1>3, <1>6, <1>7 DEF Reached
<1>9. ASSUME NEW i \in 1..q, Open(t, i, q)
      PROVE  \/ \E k \in 1..n : rest[k].fn = "parse_unary" /\ less[k] = i
             \/ Depth(t, i) = Depth(t, q)
  <2>1. i \in 1..p
    <3>1. ASSUME i \notin 1..p PROVE FALSE
      <4>1. i = q /\ q = p + 1
        BY <3>1
      <4> QED
        BY <1>9, <4>1 DEF Open, Says
    <3> QED
      BY <3>1
  <2>2. i \in Nat /\ i <= p
    BY <2>1
  <2>3. Open(t, i, p) /\ \A j \in (p + 1)..q : EndsAt(t, j) => Depth(t, j - 1) > Depth(t, i)
    BY <1>5, <1>9, <2>2, OpenOn
  <2>4. q = p + 1 => Depth(t, i) < Depth(t, p)
    <3>1. ASSUME q = p + 1 PROVE Depth(t, i) < Depth(t, p)
      <4>1. q \in (p + 1)..q /\ q - 1 = p /\ EndsAt(t, q)
        BY <1>5, <3>1 DEF EndsAt
      <4>2. Depth(t, q - 1) > Depth(t, i)
        BY <2>3, <4>1
      <4>3. Depth(t, i) \in Int /\ Depth(t, p) \in Int
        BY <2>2
      <4> QED
        BY <4>1, <4>2, <4>3
    <3> QED
      BY <3>1
  <2>5. CASE Depth(t, i) = Depth(t, p)
    <3>1. q = p
      BY <2>2, <2>4, <2>5
    <3> QED
      BY <2>5, <3>1
  <2>6. CASE \E k \in DOMAIN calls : calls[k].fn = "parse_unary" /\ at[k] = i
    <3>1. PICK k \in DOMAIN calls : calls[k].fn = "parse_unary" /\ at[k] = i
      BY <2>6
    <3>2. CASE k = 1
      <4>1. q = p
        BY <1>3, <3>1, <3>2
      <4>2. Depth(t, i) = Depth(t, p)
        BY <1>4, <3>1, <3>2
      <4> QED
        BY <4>1, <4>2
    <3>3. CASE k # 1
      <4>1. n \in Nat /\ k \in 1..(n + 1)
        BY <1>3
      <4>2. k - 1 \in 1..n /\ (k - 1) + 1 = k
        BY <3>3, <4>1
      <4>3. rest[k - 1] = calls[k] /\ less[k - 1] = at[k]
        BY <1>3, <4>2
      <4> QED
        BY <3>1, <4>2, <4>3, Zenon
    <3> QED
      BY <3>2, <3>3
  <2> QED
    BY <1>1, <2>1, <2>3, <2>5, <2>6 DEF Covered
<1>10. Covered(t, rest, less, "return", q)
  BY <1>3, <1>9 DEF Covered
<1> QED
  BY <1>2, <1>8, <1>10 DEF NestedAt, rest

(* A level goes round behind its operator.  No `not` around it is at the   *)
(* same depth, and the operand of one that stands to its left has ended.   *)
LEMMA TurnNested ==
  ASSUME NEW t, \A n \in Nat : Depth(t, n) \in Int, NEW calls, NEW p \in Nat, calls # <<>>,
         NestedAt(t, calls, "return", p), Head(calls).fn # "parse_unary", NEW x, x.fn = Head(calls).fn,
         Depth(t, p + 1) = Depth(t, p), EndsAt(t, p + 1), ~Says(t, p + 1, "not"), NEW next
  PROVE  NestedAt(t, <<x>> \o Tail(calls), next, p + 1)
<1>1. PICK at : Nested(t, calls, at) /\ Reached(t, calls, at, p) /\ Covered(t, calls, at, "return", p)
  BY DEF NestedAt
<1> DEFINE more == <<x>> \o Tail(calls)
           q == p + 1
           S == {calls[k] : k \in DOMAIN calls} \cup {x}
<1>2. calls \in Seq(S) /\ x \in S /\ at \in Seq(Nat) /\ Len(at) = Len(calls)
  BY <1>1 DEF Nested, IsSeq
<1> HIDE DEF S
<1>3. /\ more \in Seq(S) /\ Len(more) = Len(calls) /\ DOMAIN more = DOMAIN calls
      /\ \A k \in DOMAIN calls : k # 1 => more[k] = calls[k]
      /\ more[1] = x /\ calls[1] = Head(calls)
  <2> DEFINE rest == Tail(calls)
  <2>1. /\ rest \in Seq(S) /\ Len(calls) = Len(rest) + 1 /\ DOMAIN calls = 1..(Len(rest) + 1)
        /\ calls[1] = Head(calls) /\ Len(rest) \in Nat
        /\ \A k \in 1..Len(rest) : rest[k] = calls[k + 1]
    BY <1>2
  <2> HIDE DEF rest
  <2>2. /\ <<x>> \o rest \in Seq(S) /\ Len(<<x>> \o rest) = Len(rest) + 1
        /\ DOMAIN (<<x>> \o rest) = 1..(Len(rest) + 1) /\ (<<x>> \o rest)[1] = x
        /\ \A k \in 2..(Len(rest) + 1) : (<<x>> \o rest)[k] = rest[k - 1]
    BY <1>2, <2>1
  <2>3. more = <<x>> \o rest
    BY DEF rest
  <2> HIDE DEF more
  <2>4. ASSUME NEW k \in DOMAIN calls, k # 1 PROVE more[k] = calls[k]
    <3>1. k \in 2..(Len(rest) + 1) /\ k - 1 \in 1..Len(rest) /\ (k - 1) + 1 = k
      BY <2>1, <2>4
    <3> QED
      BY <2>1, <2>2, <2>3, <3>1
  <2> QED
    BY <2>1, <2>2, <2>3, <2>4
<1>4. IsSeq(more)
  BY <1>3, OwnElements
<1>5. \A k \in DOMAIN calls : more[k].fn = calls[k].fn
  BY <1>3
<1>6. q \in Nat /\ p <= q /\ \A j \in (p + 1)..q : j = q /\ j - 1 = p
  OBVIOUS
<1> HIDE DEF more, q
<1>7. Nested(t, more, at)
  BY <1>1, <1>3, <1>4, <1>5 DEF Nested, Deeper
<1>8. ASSUME NEW k \in DOMAIN calls, calls[k].fn = "parse_unary" PROVE at[k] \in 1..q /\ Open(t, at[k], q)
  <2>1. at[k] \in 1..p /\ Open(t, at[k], p)
    BY <1>1, <1>8 DEF Reached
  <2>2. Depth(t, at[k]) < Depth(t, p)
    BY <1>1, <1>8, HeadDeeper
  <2>3. at[k] \in Nat /\ at[k] <= p /\ Depth(t, at[k]) \in Int /\ Depth(t, p) \in Int
    BY <2>1
  <2>4. \A j \in (p + 1)..q : Depth(t, j - 1) > Depth(t, at[k])
    BY <1>6, <2>2, <2>3
  <2>5. Open(t, at[k], q)
    BY <1>6, <2>1, <2>3, <2>4, OpenOn
  <2> QED
    BY <1>6, <2>1, <2>5
<1>9. Depth(t, q) = Base(t, at, 1)
  BY <1>1 DEF Reached, q
<1>10. Reached(t, more, at, q)
  BY <1>3, <1>5, <1>8, <1>9 DEF Reached
<1>11. ASSUME NEW i \in 1..q, Open(t, i, q)
       PROVE  \E k \in DOMAIN calls : calls[k].fn = "parse_unary" /\ at[k] = i
  <2>1. i # q
    BY <1>11 DEF Open, q
  <2>2. i \in 1..p /\ i \in Nat /\ i <= p
    BY <2>1 DEF q
  <2>3. Open(t, i, p) /\ \A j \in (p + 1)..q : EndsAt(t, j) => Depth(t, j - 1) > Depth(t, i)
    BY <1>6, <1>11, <2>2, OpenOn
  <2>4. q \in (p + 1)..q /\ EndsAt(t, q) /\ q - 1 = p
    BY DEF q
  <2>5. Depth(t, p) > Depth(t, i) /\ Depth(t, p) \in Int /\ Depth(t, i) \in Int
    BY <2>2, <2>3, <2>4
  <2>6. Depth(t, p) # Depth(t, i)
    BY <2>5
  <2> QED
    BY <1>1, <2>2, <2>3, <2>6 DEF Covered
<1>12. Covered(t, more, at, next, q)
  BY <1>3, <1>5, <1>11 DEF Covered
<1> QED
  BY <1>7, <1>10, <1>12 DEF NestedAt, more, q

(* It holds at the first call. *)
LEMMA NestInit == ParseInit => NestInv
<1> SUFFICES ASSUME ParseInit PROVE NestInv
  OBVIOUS
<1>1. pos = 0 /\ stack = <<>>
  BY DEF ParseInit
<1>2. Nested(tokens, <<>>, <<>>) /\ Covered(tokens, <<>>, <<>>, call, 0)
  BY DEF Nested, IsSeq, Covered
<1>3. Depth(tokens, 0) = 0
  <2>1. \A tag : {i \in 1..0 : tokens[i].tag = tag} = {}
    OBVIOUS
  <2>2. \A tag : Tagged(tokens, 0, tag) = 0
    BY <2>1, FS_EmptySet, Zenon DEF Tagged
  <2> QED
    BY <2>2 DEF Depth
<1>4. Reached(tokens, <<>>, <<>>, 0)
  BY <1>3 DEF Reached, Base
<1> QED
  BY <1>1, <1>2, <1>4, Zenon DEF NestInv, NestedAt

(* A step that leaves position and stack alone. *)
LEMMA StaysNested == ASSUME NestInv, UNCHANGED <<tokens, pos, stack, call>> PROVE NestInv'
<1>1. tokens' = tokens /\ pos' = pos /\ stack' = stack /\ call' = call
  OBVIOUS
<1>2. NestedAt(tokens', stack', call', pos')
  BY <1>1, Zenon DEF NestInv
<1> QED
  BY <1>2 DEF NestInv

(* What a step that moves on has to show. *)
LEMMA MovesNested == ASSUME Parsing, NestedAt(tokens, stack', call', pos') PROVE NestInv'
<1>1. tokens' = tokens
  BY DEF Parsing
<1>2. NestedAt(tokens', stack', call', pos')
  BY <1>1, Zenon
<1> QED
  BY <1>2 DEF NestInv

(* The token at the current position is the next to be counted. *)
LEMMA NextToken ==
  ASSUME ParseInv
  PROVE  /\ pos \in Nat /\ \A n \in Nat : Depth(tokens, n) \in Int
         /\ Peek(pos) = tokens[pos + 1] /\ \A w : IsWord(pos, w) <=> Says(tokens, pos + 1, w)
         /\ Peek(pos).tag # "Eof" => Advance(pos) = pos + 1
<1>1. TokensOK(tokens) /\ pos \in 0..(Len(tokens) - 1)
  BY DEF ParseInv
<1>2. pos \in Nat /\ (Peek(pos).tag # "Eof" => Advance(pos) = pos + 1)
  BY <1>1, NotLast
<1>3. \A n \in Nat : Depth(tokens, n) \in Int
  BY DepthOne
<1> QED
  BY <1>2, <1>3 DEF Peek, IsWord, Says

(* parse_or and parse_and call for their first operand: they are not       *)
(* called by parse_unary.                                                  *)
LEMMA CallLevelNested == ASSUME ParseInv, NestInv, CallLevel PROVE NestInv'
<1>1. PICK fn \in DOMAIN Levels :
        /\ Calls(fn) /\ stack' = <<Waiting(fn, {})>> \o stack /\ pos' = pos /\ Parsing
  BY DEF CallLevel
<1> DEFINE x == Waiting(fn, {})
<1>2. fn \in {"parse_or", "parse_and"} /\ x.fn = fn /\ call = fn
  BY <1>1 DEF Levels, Waiting, Calls
<1>3. MayCall(Caller(stack, 0), fn)
  BY <1>2 DEF ParseInv
<1>4. Caller(stack, 0) # "parse_unary"
  BY <1>2, <1>3 DEF MayCall
<1>5. stack' = <<x>> \o stack
  BY <1>1
<1> HIDE DEF x
<1>6. Deeper(x) = 0 /\ x.fn # "parse_unary" /\ call # "return"
  BY <1>2 DEF Deeper
<1>7. pos \in Nat /\ (\A n \in Nat : Depth(tokens, n) \in Int) /\ pos # pos + 1
  BY NextToken
<1>8. Depth(tokens, pos) = Depth(tokens, pos) + Deeper(x)
  BY <1>6, <1>7
<1>9. NestedAt(tokens, <<x>> \o stack, call', pos)
  BY <1>4, <1>6, <1>7, <1>8, CallNested DEF NestInv
<1> QED
  BY <1>1, <1>5, <1>9, MovesNested

(* A `not` is passed, and its operand is open. *)
LEMMA CallNotNested == ASSUME ParseInv, NestInv, CallNot PROVE NestInv'
<1> DEFINE x == [fn |-> "parse_unary", start |-> StartAt(pos)]
           q == pos + 1
<1>1. /\ call = "parse_unary" /\ IsWord(pos, "not") /\ stack' = <<x>> \o stack /\ pos' = Advance(pos) /\ Parsing
  BY DEF CallNot, Calls
<1>2. x.fn = "parse_unary"
  OBVIOUS
<1> HIDE DEF x
<1>3. Peek(pos).tag = "Word" /\ Peek(pos).text.text = "not"
  BY <1>1 DEF IsWord
<1>4. /\ pos \in Nat /\ (\A n \in Nat : Depth(tokens, n) \in Int) /\ Advance(pos) = q
      /\ Says(tokens, q, "not") /\ Peek(pos) = tokens[q]
  BY <1>1, <1>3, NextToken
<1>5. ~EndsAt(tokens, q)
  BY <1>3, <1>4 DEF EndsAt, Says
<1>6. Depth(tokens, q) = Depth(tokens, pos) /\ Depth(tokens, pos) \in Int
  BY <1>3, <1>4, DepthOne
<1>7. Depth(tokens, q) = Depth(tokens, pos) + Deeper(x)
  BY <1>2, <1>6 DEF Deeper
<1>8. call # "return" /\ q \in {pos, pos + 1}
  BY <1>1
<1>9. NestedAt(tokens, <<x>> \o stack, call', q)
  BY <1>2, <1>4, <1>5, <1>7, <1>8, CallNested DEF NestInv
<1> QED
  BY <1>1, <1>4, <1>9, MovesNested

(* parse_unary hands on to parse_primary. *)
LEMMA CallPrimaryNested == ASSUME ParseInv, NestInv, CallPrimary PROVE NestInv'
<1>1. call = "parse_unary" /\ pos' = pos /\ stack' = stack /\ Parsing
  BY DEF CallPrimary, Calls
<1>2. pos \in Nat /\ \A j \in (pos + 1)..pos : FALSE
  BY NextToken
<1>3. NestedAt(tokens, stack, call', pos)
  BY <1>1, <1>2, ReadNested DEF NestInv
<1> QED
  BY <1>1, <1>3, MovesNested

(* A parenthesis is passed. *)
LEMMA OpenGroupNested == ASSUME ParseInv, NestInv, OpenGroup PROVE NestInv'
<1> DEFINE x == [fn |-> "parse_primary"]
           q == pos + 1
<1>1. /\ call = "parse_primary" /\ Peek(pos).tag = "LParen" /\ stack' = <<x>> \o stack /\ pos' = Advance(pos)
      /\ Parsing
  BY DEF OpenGroup, Calls
<1>2. x.fn = "parse_primary"
  OBVIOUS
<1> HIDE DEF x
<1>3. /\ pos \in Nat /\ (\A n \in Nat : Depth(tokens, n) \in Int) /\ Advance(pos) = q /\ Peek(pos) = tokens[q]
  BY <1>1, NextToken
<1>4. ~EndsAt(tokens, q) /\ ~Says(tokens, q, "not")
  BY <1>1, <1>3 DEF EndsAt, Says
<1>5. Depth(tokens, q) = Depth(tokens, pos) + Deeper(x)
  BY <1>1, <1>2, <1>3, DepthOne DEF Deeper
<1>6. call # "return" /\ q \in {pos, pos + 1}
  BY <1>1
<1>7. NestedAt(tokens, <<x>> \o stack, call', q)
  BY <1>2, <1>3, <1>4, <1>5, <1>6, CallNested DEF NestInv
<1> QED
  BY <1>1, <1>3, <1>7, MovesNested

(* A primitive is read, in which no operand ends and none begins. *)
LEMMA ReadLeafNested == ASSUME ParseInv, SoundInv, NestInv, ReadLeaf PROVE NestInv'
<1> DEFINE r == ReadHere
<1>1. /\ call = "parse_primary" /\ Peek(pos).tag = "Word"
      /\ \/ \E e \in r.expr : Return(e, r.pos, stack)
         \/ \E err \in r.error : Fail(err.tag, err.offset)
  BY DEF ReadLeaf, Calls
<1>2. CASE \E err \in r.error : Fail(err.tag, err.offset)
  BY <1>2, StaysNested DEF Fail
<1>3. CASE \E e \in r.expr : Return(e, r.pos, stack)
  <2>1. PICK e \in r.expr : Return(e, r.pos, stack)
    BY <1>3
  <2>2. tokens \in Inputs /\ pos \in 0..(Len(tokens) - 1)
    BY DEF SoundInv, ParseInv
  <2>3. /\ Wordy(pos, r.pos)
        /\ \A k \in (pos + 1)..r.pos : \A w \in Operators : ~IsWord(k - 1, w)
    BY <1>1, <2>1, <2>2, HerePlain
  <2> HIDE DEF r
  <2>4. /\ pos \in Nat /\ r.pos \in Nat /\ pos <= r.pos
        /\ \A k \in (pos + 1)..r.pos : tokens[k].tag \in {"Word", "Dash"}
    BY <2>3, NextToken DEF Wordy
  <2>5. ASSUME NEW k \in (pos + 1)..r.pos PROVE ~EndsAt(tokens, k) /\ ~Says(tokens, k, "not")
    <3>1. (k - 1) + 1 = k
      BY <2>4
    <3>2. \A w \in Operators : ~Says(tokens, k, w)
      BY <2>3, <3>1 DEF IsWord, Peek, Says
    <3>3. tokens[k].tag # "RParen"
      BY <2>4
    <3> QED
      BY <3>2, <3>3 DEF EndsAt, Operators
  <2>6. Depth(tokens, r.pos) = Depth(tokens, pos)
    BY <2>3, PassWordy DEF Depth
  <2>7. NestedAt(tokens, stack, "return", r.pos)
    BY <1>1, <2>4, <2>5, <2>6, ReadNested DEF NestInv
  <2> QED
    BY <2>1, <2>7, MovesNested DEF Return
<1> QED
  BY <1>1, <1>2, <1>3

(* The loop of a level goes round. *)
LEMMA NextOperandNested == ASSUME ParseInv, NestInv, NextOperand PROVE NestInv'
<1>1. PICK fn \in DOMAIN Levels, e \in value :
        /\ Returns(fn) /\ IsWord(pos, Levels[fn].word)
        /\ stack' = <<Waiting(fn, {Joined(Head(stack), e)})>> \o Tail(stack)
        /\ pos' = Advance(pos) /\ Parsing
  BY DEF NextOperand
<1> DEFINE x == Waiting(fn, {Joined(Head(stack), e)})
           q == pos + 1
<1>2. /\ fn # "parse_unary" /\ x.fn = fn /\ Levels[fn].word \in {"or", "and"}
      /\ call = "return" /\ stack # <<>> /\ Head(stack).fn = fn /\ stack' = <<x>> \o Tail(stack)
  BY <1>1 DEF Levels, Waiting, Returns
<1> HIDE DEF x
<1>3. Peek(pos).tag = "Word" /\ Peek(pos).text.text \in {"or", "and"}
  BY <1>1, <1>2 DEF IsWord
<1>4. pos \in Nat /\ (\A n \in Nat : Depth(tokens, n) \in Int) /\ Advance(pos) = q /\ Peek(pos) = tokens[q]
  BY <1>3, NextToken
<1>5. EndsAt(tokens, q) /\ ~Says(tokens, q, "not")
  BY <1>3, <1>4 DEF EndsAt, Says
<1>6. Depth(tokens, q) = Depth(tokens, pos)
  BY <1>3, <1>4, DepthOne
<1>7. NestedAt(tokens, stack, "return", pos) /\ Head(stack).fn # "parse_unary" /\ x.fn = Head(stack).fn
  BY <1>2 DEF NestInv
<1>8. NestedAt(tokens, <<x>> \o Tail(stack), call', q)
  BY <1>2, <1>4, <1>5, <1>6, <1>7, TurnNested
<1> QED
  BY <1>1, <1>2, <1>4, <1>8, MovesNested

(* A call that is no group returns where it stands. *)
LEMMA DoneNested ==
  ASSUME ParseInv, NestInv, NEW fn \in {"parse_or", "parse_and", "parse_unary"}, Returns(fn), NEW e,
         Return(e, pos, Tail(stack))
  PROVE  NestInv'
<1>1. call = "return" /\ stack # <<>> /\ Deeper(Head(stack)) = 0
  BY DEF Returns, Deeper
<1>2. pos \in Nat /\ (\A n \in Nat : Depth(tokens, n) \in Int) /\ pos # pos + 1
  BY NextToken
<1>3. Depth(tokens, pos) = Depth(tokens, pos) - Deeper(Head(stack))
  BY <1>1, <1>2
<1>4. NestedAt(tokens, stack, "return", pos)
  BY <1>1 DEF NestInv
<1>5. NestedAt(tokens, Tail(stack), "return", pos)
  BY <1>1, <1>2, <1>3, <1>4, ReturnNested
<1> QED
  BY <1>5, MovesNested DEF Return

(* A `)` ends the operands that are open inside of its group. *)
LEMMA CloseGroupNested == ASSUME ParseInv, NestInv, CloseGroup PROVE NestInv'
<1> DEFINE q == pos + 1
<1>1. Returns("parse_primary") /\ Peek(pos).tag = "RParen"
  BY DEF CloseGroup
<1>2. PICK e \in value : Return(e, Advance(pos), Tail(stack))
  BY DEF CloseGroup
<1>3. call = "return" /\ stack # <<>> /\ Head(stack).fn = "parse_primary" /\ Deeper(Head(stack)) = 1
  BY <1>1 DEF Returns, Deeper
<1>4. /\ pos \in Nat /\ (\A n \in Nat : Depth(tokens, n) \in Int) /\ Advance(pos) = q
      /\ tokens[q].tag = "RParen"
  BY <1>1, NextToken
<1>5. Depth(tokens, q) = Depth(tokens, pos) - Deeper(Head(stack))
  BY <1>1, <1>3, <1>4, DepthOne
<1>6. NestedAt(tokens, stack, "return", pos) /\ q \in {pos, pos + 1}
  BY <1>3 DEF NestInv
<1>7. NestedAt(tokens, Tail(stack), "return", q)
  BY <1>3, <1>4, <1>5, <1>6, ReturnNested
<1> QED
  BY <1>2, <1>4, <1>7, MovesNested DEF Return

(* Every step keeps the invariant. *)
LEMMA NestNext == ParseInv /\ SoundInv /\ NestInv /\ [ParseNext]_parseVars => NestInv'
<1> SUFFICES ASSUME ParseInv, SoundInv, NestInv, [ParseNext]_parseVars PROVE NestInv'
  OBVIOUS
<1>1. CASE ParseEmpty \/ ParseBegin \/ NoPrimary \/ NotClosed \/ expect_eof
  <2>1. UNCHANGED <<tokens, pos, stack, call>>
    BY <1>1 DEF ParseEmpty, ParseBegin, NoPrimary, NotClosed, expect_eof, Fail
  <2> QED
    BY <2>1, StaysNested
<1>2. CASE CallLevel
  BY <1>2, CallLevelNested
<1>3. CASE CallNot
  BY <1>3, CallNotNested
<1>4. CASE CallPrimary
  BY <1>4, CallPrimaryNested
<1>5. CASE OpenGroup
  BY <1>5, OpenGroupNested
<1>6. CASE ReadLeaf
  BY <1>6, ReadLeafNested
<1>7. CASE NextOperand
  BY <1>7, NextOperandNested
<1>8. CASE LevelDone
  <2>1. PICK fn \in DOMAIN Levels, e \in value :
          Returns(fn) /\ Return(Joined(Head(stack), e), pos, Tail(stack))
    BY <1>8 DEF LevelDone
  <2>2. fn \in {"parse_or", "parse_and", "parse_unary"}
    BY DEF Levels
  <2> QED
    BY <2>1, <2>2, DoneNested
<1>9. CASE NotDone
  <2>1. PICK e \in value :
          Return(NotAt(e, Span(Head(stack).start, offset_from_expr(e).end)), pos, Tail(stack))
    BY <1>9 DEF NotDone
  <2>2. Returns("parse_unary") /\ "parse_unary" \in {"parse_or", "parse_and", "parse_unary"}
    BY <1>9 DEF NotDone
  <2> QED
    BY <2>1, <2>2, DoneNested
<1>10. CASE CloseGroup
  BY <1>10, CloseGroupNested
<1>11. CASE UNCHANGED parseVars
  BY <1>11, StaysNested DEF parseVars
<1> QED
  BY <1>1, <1>2, <1>3, <1>4, <1>5, <1>6, <1>7, <1>8, <1>9, <1>10, <1>11 DEF ParseNext

(* The waiting calls of parse_unary are some of the `not`s around the      *)
(* current token, and all of them while an operand is to be read.          *)
LEMMA NotsWait ==
  ASSUME ParseInv, NestInv
  PROVE  /\ Frames("parse_unary") <= Cardinality(NotsAround)
         /\ call # "return" => Frames("parse_unary") = Cardinality(NotsAround)
<1>1. PICK at : /\ Nested(tokens, stack, at) /\ Reached(tokens, stack, at, pos)
                /\ Covered(tokens, stack, at, call, pos)
  BY DEF NestInv, NestedAt
<1> DEFINE U == {k \in DOMAIN stack : stack[k].fn = "parse_unary"}
           N == {i \in 1..pos : Open(tokens, i, pos)}
           f == [k \in U |-> at[k]]
<1>2. pos \in Nat /\ IsFiniteSet(1..pos)
  BY NextToken, FS_Interval
<1>3. IsFiniteSet(N)
  BY <1>2, FS_Subset
<1>4. \A i \in 1..pos : \A w : IsWord(i - 1, w) <=> Says(tokens, i, w)
  <2>1. \A i \in 1..pos : (i - 1) + 1 = i
    BY <1>2
  <2> QED
    BY <2>1, Zenon DEF IsWord, Peek, Says
<1>5. \A j : OpenAt(j) = Depth(tokens, j)
  BY DEF OpenAt, Passed, Depth, Tagged
<1>6. \A j \in 1..pos : EndsOperand(j) <=> EndsAt(tokens, j)
  BY <1>4, Zenon DEF EndsOperand, EndsAt
<1>7. ASSUME NEW i \in 1..pos
      PROVE  Open(tokens, i, pos) <=>
               /\ IsWord(i - 1, "not")
               /\ \A j \in (i + 1)..pos : EndsOperand(j) => OpenAt(j - 1) > OpenAt(i)
  <2>1. \A j \in (i + 1)..pos : j \in 1..pos
    BY <1>2
  <2>2. \A j \in (i + 1)..pos :
          (EndsOperand(j) => OpenAt(j - 1) > OpenAt(i))
            <=> (EndsAt(tokens, j) => Depth(tokens, j - 1) > Depth(tokens, i))
    BY <1>5, <1>6, <2>1, Zenon
  <2> QED
    BY <1>4, <2>2, Zenon DEF Open
<1>8. N = NotsAround
  BY <1>7, Zenon DEF NotsAround
<1>9. \A k \in U : at[k] \in N
  BY <1>1 DEF Reached
<1>10. ASSUME NEW k \in U, NEW m \in U, at[k] = at[m] PROVE k = m
  <2>1. DOMAIN stack = 1..Len(stack) /\ Len(stack) \in Nat
    BY <1>1 DEF Nested, IsSeq
  <2>2. at[k] \in Nat /\ at[m] \in Nat /\ k \in Nat /\ m \in Nat
    BY <1>2, <1>9, <2>1
  <2>3. (m < k => at[k] < at[m]) /\ (k < m => at[m] < at[k])
    BY <1>1 DEF Nested
  <2> QED
    BY <1>10, <2>2, <2>3
<1>11. call # "return" => \A i \in N : \E k \in U : at[k] = i
  BY <1>1 DEF Covered
<1>12. Frames("parse_unary") = Cardinality(U)
  BY Zenon DEF Frames
<1> HIDE DEF U, N
<1>13. f \in Injection(U, N)
  BY <1>9, <1>10 DEF Injection, IsInjective
<1>14. call # "return" => f \in Surjection(U, N)
  BY <1>9, <1>11 DEF Surjection
<1> HIDE DEF f
<1>15. Cardinality(U) <= Cardinality(N) /\ (Cardinality(U) = Cardinality(N) <=> f \in Surjection(U, N))
  BY <1>3, <1>13, FS_Injection
<1> QED
  BY <1>8, <1>12, <1>14, <1>15

(* The three levels wait in balance. *)
LEMMA NestDepth == ParseInv /\ NestInv => DepthIsNesting
<1> SUFFICES ASSUME ParseInv, NestInv PROVE DepthIsNesting
  OBVIOUS
<1>1. \A fn : Frames(fn) = Among(stack, fn)
  BY DEF Frames, Among
<1> DEFINE o == Among(stack, "parse_or")
           a == Among(stack, "parse_and")
           p == Among(stack, "parse_primary")
           inner == Caller(stack, 0)
<1>2. o \in Nat /\ a \in Nat /\ p \in Nat
  BY AmongNat DEF ParseInv
<1>3. /\ inner \in {"parse", "parse_primary"} => o = p /\ a = p
      /\ inner = "parse_or" => o = p + 1 /\ a = p
      /\ inner \in {"parse_and", "parse_unary"} => o = p + 1 /\ a = p + 1
  BY DEF ParseInv, InBalance
<1>4. inner \in {"parse", "parse_or", "parse_and", "parse_unary", "parse_primary"}
  <2>1. Len(stack) \in Nat /\ DOMAIN stack = 1..Len(stack)
    BY DEF ParseInv, IsSeq
  <2>2. ParseTypeOK
    BY ParseInvType
  <2>3. CASE 0 < Len(stack)
    BY <2>1, <2>2, <2>3 DEF Caller, ParseTypeOK
  <2>4. CASE ~(0 < Len(stack))
    BY <2>4 DEF Caller
  <2> QED
    BY <2>3, <2>4
<1>5. p = OpenAt(pos)
  <2> DEFINE l == Tagged(tokens, pos, "LParen")
             r == Tagged(tokens, pos, "RParen")
  <2>1. p + r = l
    BY DEF ParseInv
  <2>2. l \in Nat /\ r \in Nat
    BY NextToken, PassOne
  <2>3. OpenAt(pos) = l - r
    BY DEF OpenAt, Passed, Tagged
  <2> HIDE DEF l, r, p
  <2> QED
    BY <1>2, <2>1, <2>2, <2>3
<1> HIDE DEF o, a, p, inner
<1>6. o <= p + 1 /\ a <= o
  BY <1>2, <1>3, <1>4
<1>7. Frames("parse_primary") = p /\ Frames("parse_or") = o /\ Frames("parse_and") = a
  BY <1>1 DEF o, a, p
<1> QED
  BY <1>5, <1>6, <1>7, NotsWait DEF DepthIsNesting

(* For every token sequence, however long, the recursion of the parser is  *)
(* as deep as the parentheses and `not`s around the current token: groups  *)
(* that are closed and `not`s whose operand has been read, however many,   *)
(* leave no call waiting.                                                  *)
THEOREM DepthFollowsNesting == ParseSpec => []DepthIsNesting
  BY ParseInvariant, SoundInit, SoundNext, NestInit, NestNext, NestDepth, PTL DEF ParseSpec

-----------------------------------------------------------------------------
(* What is written is read. *)

(* The only element of an Option. *)
LEMMA TheOne == ASSUME NEW S, AtMostOne(S), NEW a \in S PROVE The(S) = a
  BY TheIn DEF AtMostOne

(* A part of what is at most one. *)
LEMMA OneOf == ASSUME NEW S, AtMostOne(S), NEW T, T \subseteq S PROVE AtMostOne(T)
  BY DEF AtMostOne

(* A word is at most one port. *)
LEMMA PortOne == ASSUME NEW w, IsText(w) PROVE AtMostOne(parse_port(w))
  BY DEF IsText, AtMostOne, parse_port, ParseU16, FitsIn

(* It is at most one MAC address. *)
LEMMA MacOne == ASSUME NEW w PROVE AtMostOne(parse_mac_literal(w))
<1>1. parse_mac_literal(w) \subseteq {[i \in 1..6 |-> Bits(The(w.parts[i].hex))]}
  BY DEF parse_mac_literal
<1> QED
  BY <1>1 DEF AtMostOne

(* It is at most one EtherType. *)
LEMMA EtherTypeOne == ASSUME NEW w, IsText(w) PROVE AtMostOne(parse_ethertype(w))
<1>1. CASE w.lower \in DOMAIN EtherTypeNames
  <2>1. parse_ethertype(w) = {EtherTypeNames[w.lower]}
    BY <1>1 DEF parse_ethertype
  <2> QED
    BY <2>1 DEF AtMostOne
<1>2. CASE w.lower \notin DOMAIN EtherTypeNames /\ w.hex # {}
  <2>1. The(w.hex) \subseteq UNION w.hex /\ AtMostOne(UNION w.hex)
    BY <1>2, TheIn DEF IsText
  <2>2. parse_ethertype(w) \subseteq The(w.hex)
    BY <1>2 DEF parse_ethertype, ParseU16, FitsIn
  <2> QED
    BY <2>1, <2>2, OneOf
<1>3. CASE w.lower \notin DOMAIN EtherTypeNames /\ w.hex = {}
  <2>1. parse_ethertype(w) \subseteq w.number /\ AtMostOne(w.number)
    BY <1>3 DEF parse_ethertype, ParseU16, FitsIn, IsText
  <2> QED
    BY <2>1, OneOf
<1> QED
  BY <1>1, <1>2, <1>3

(* It has at most one length of a prefix. *)
LEMMA PrefixOne ==
  ASSUME NEW w, IsText(w), NEW allow_prefix, NEW max PROVE AtMostOne(PrefixPart(w, allow_prefix, max))
<1>1. CASE w.after = {}
  BY <1>1 DEF PrefixPart, AtMostOne
<1>2. CASE w.after # {}
  <2>1. The(w.after) \subseteq UNION w.after /\ AtMostOne(UNION w.after)
    BY <1>2, TheIn DEF IsText
  <2>2. AtMostOne(The(w.after))
    BY <2>1, OneOf
  <2>3. \A p \in PrefixPart(w, allow_prefix, max) : \E n \in The(w.after) : p = {n}
    BY <1>2 DEF PrefixPart, ParseU8, FitsIn
  <2> QED
    BY <2>2, <2>3, Zenon DEF AtMostOne
<1> QED
  BY <1>1, <1>2

(* It is at most one address or network. *)
LEMMA AddrOne ==
  ASSUME NEW w, IsText(w), NEW allow_prefix PROVE AtMostOne(parse_addr_literal(w, allow_prefix))
<1>1. CASE w.colon
  <2> DEFINE P == PrefixPart(w, allow_prefix, 128)
  <2>1. AtMostOne(P) /\ AtMostOne(w.v6)
    BY PrefixOne DEF IsText
  <2>2. \A a \in parse_addr_literal(w, allow_prefix) :
          \E bits \in w.v6, prefix \in P : a = [addr |-> V6(bits), prefix |-> prefix]
    BY <1>1 DEF parse_addr_literal, parse_ipv6_literal
  <2> HIDE DEF P
  <2> QED
    BY <2>1, <2>2, Zenon DEF AtMostOne
<1>2. CASE ~w.colon
  <2> DEFINE P == PrefixPart(w, allow_prefix, 32)
             Q == parse_ipv4_octets(w.before)
  <2>1. AtMostOne(P)
    BY PrefixOne
  <2>2. AtMostOne(Q)
    <3> DEFINE octet(i) == {v \in ParseU16(w.before[i]) : v <= 255}
               four == U32(Bits(The(octet(1))), Bits(The(octet(2))), Bits(The(octet(3))), Bits(The(octet(4))))
    <3>1. Q = IF Len(w.before) = 4 /\ \A i \in 1..4 : octet(i) # {} THEN {four} ELSE {}
      BY Zenon DEF parse_ipv4_octets
    <3> HIDE DEF Q, four
    <3> QED
      BY <3>1 DEF AtMostOne
  <2>3. \A a \in parse_addr_literal(w, allow_prefix) :
          \E bits \in Q, prefix \in P : a = [addr |-> V4(bits), prefix |-> prefix]
    BY <1>2 DEF parse_addr_literal
  <2> HIDE DEF P, Q
  <2> QED
    BY <2>1, <2>2, <2>3, Zenon DEF AtMostOne
<1> QED
  BY <1>1, <1>2

(* `host` is no MAC address. *)
LEMMA HostNoMac == ASSUME NEW w, IsText(w), w.text = "host" PROVE parse_mac_literal(w) = {}
<1>1. Len(w.parts) = 1
  BY DEF IsText
<1> QED
  BY <1>1 DEF parse_mac_literal

(* What is at hand where it is looked for. *)
LEMMA TryReads == ASSUME NEW S, NEW a \in S, NEW tag, NEW at, NEW rest PROVE Try(S, tag, at, rest) = rest
  BY DEF Try

(* A word where one is expected. *)
LEMMA WordReads == ASSUME NEW k, Peek(k).tag = "Word", NEW rest PROVE expect_word(k, rest) = rest
  BY DEF expect_word

(* A dash where one is expected. *)
LEMMA DashReads == ASSUME NEW k, Peek(k).tag = "Dash", NEW rest PROVE expect_dash(k, rest) = rest
  BY DEF expect_dash

(* The position of a sign is that of a token. *)
LEMMA SignHere ==
  ASSUME tokens \in Inputs, NEW k \in Nat, NEW tag, SignAt(tokens, k, tag)
  PROVE  k \in 0..(Len(tokens) - 1) /\ Peek(k) = TokenAt(tokens, k) /\ Peek(k).tag = tag
<1>1. k < Len(tokens) /\ Len(tokens) \in Nat
  BY InputShape DEF SignAt
<1>2. k \in 0..(Len(tokens) - 1)
  BY <1>1
<1> QED
  BY <1>2, InputTokens, InputWords

(* A keyword of a table, and a word of no table. *)
LEMMA KeywordIs ==
  ASSUME NEW i, NEW words, NEW w \in DOMAIN words, IsWord(i, w)
  PROVE  KeywordHere(words, i) = {words[w]} /\ KeywordHere(words, i) # {}
<1>1. \A u \in DOMAIN words : IsWord(i, u) <=> u = w
  BY DEF IsWord
<1> QED
  BY <1>1 DEF KeywordHere

(* A word that is no keyword of the table. *)
LEMMA KeywordNone ==
  ASSUME NEW i, NEW words, NEW w, w \notin DOMAIN words, IsWord(i, w)
  PROVE  KeywordHere(words, i) = {}
<1>1. \A u \in DOMAIN words : ~IsWord(i, u)
  BY DEF IsWord
<1> QED
  BY <1>1 DEF KeywordHere

(* The type words, and the keywords that may stand before them. *)
TypeWords == {"host", "net", "port", "portrange"}
Aside == EtherKinds \cup {"ether", "not"}

(* No word is in two of the tables. *)
LEMMA KeywordTables ==
  /\ \A w \in DOMAIN ProtoWords : w \notin DOMAIN DirWords /\ w \notin TypeWords /\ w \notin Aside
  /\ \A w \in DOMAIN DirWords : w \notin DOMAIN ProtoWords /\ w \notin TypeWords /\ w \notin Aside
  /\ \A w \in TypeWords : w \notin DOMAIN ProtoWords /\ w \notin DOMAIN DirWords /\ w \notin Aside
  BY DEF ProtoWords, DirWords, TypeWords, Aside, EtherKinds

(* An optional keyword in front of a word that is none is the one found. *)
LEMMA OptionalReads ==
  ASSUME tokens \in Inputs, NEW i \in 0..(Len(tokens) - 1), NEW words, NEW v, NEW d,
         WritesOptional(tokens, words, i, v, d),
         d = i => \E w : w \notin DOMAIN words /\ WordAt(tokens, d, w)
  PROVE  KeywordHere(words, i) = v /\ Past(i, KeywordHere(words, i) # {}) = d /\ d \in 0..(Len(tokens) - 1)
<1>1. CASE v = {} /\ d = i
  <2>1. PICK w : w \notin DOMAIN words /\ WordAt(tokens, i, w)
    BY <1>1
  <2>2. IsWord(i, w)
    BY <2>1, InputWords
  <2>3. KeywordHere(words, i) = {}
    BY <2>1, <2>2, KeywordNone
  <2> QED
    BY <1>1, <2>3 DEF Past
<1>2. CASE \E w \in DOMAIN words : WordAt(tokens, i, w) /\ v = {words[w]} /\ d = i + 1
  <2>1. PICK w \in DOMAIN words : WordAt(tokens, i, w) /\ v = {words[w]} /\ d = i + 1
    BY <1>2
  <2>2. IsWord(i, w)
    BY <2>1, InputWords
  <2>3. KeywordHere(words, i) = {words[w]} /\ KeywordHere(words, i) # {}
    BY <2>2, KeywordIs
  <2>4. Advance(i) = i + 1 /\ i + 1 \in 0..(Len(tokens) - 1)
    BY <2>2, NextPosition DEF IsWord
  <2> QED
    BY <2>1, <2>3, <2>4 DEF Past
<1> QED
  BY <1>1, <1>2 DEF WritesOptional

(* The words of a primitive that stand before its type word. *)
LEMMA PrefixReads ==
  ASSUME tokens \in Inputs, NEW i \in 0..(Len(tokens) - 1), NEW proto, NEW d, NEW dir, NEW k,
         WritesOptional(tokens, ProtoWords, i, proto, d), WritesOptional(tokens, DirWords, d, dir, k),
         NEW ty \in TypeWords, WordAt(tokens, k, ty)
  PROVE  /\ try_parse_proto(i) = proto /\ Past(i, try_parse_proto(i) # {}) = d
         /\ try_parse_dir(d) = dir /\ Past(d, try_parse_dir(d) # {}) = k
         /\ d \in 0..(Len(tokens) - 1) /\ k \in 0..(Len(tokens) - 1)
         /\ \E w : WordAt(tokens, i, w) /\ w \notin Aside
<1>1. ASSUME k = d PROVE \E w : w \notin DOMAIN DirWords /\ WordAt(tokens, k, w)
  BY KeywordTables
<1>2. \E w : w \notin DOMAIN ProtoWords /\ w \notin Aside /\ WordAt(tokens, d, w)
  <2>1. CASE k = d
    BY <2>1, KeywordTables
  <2>2. CASE k # d
    <3>1. \E w \in DOMAIN DirWords : WordAt(tokens, d, w)
      BY <2>2, Zenon DEF WritesOptional
    <3> QED
      BY <3>1, KeywordTables
  <2> QED
    BY <2>1, <2>2
<1>3. \E w : WordAt(tokens, i, w) /\ w \notin Aside
  <2>1. CASE d = i
    BY <1>2, <2>1
  <2>2. CASE d # i
    <3>1. \E w \in DOMAIN ProtoWords : WordAt(tokens, i, w)
      BY <2>2, Zenon DEF WritesOptional
    <3> QED
      BY <3>1, KeywordTables
  <2> QED
    BY <2>1, <2>2
<1>4. /\ KeywordHere(ProtoWords, i) = proto /\ Past(i, KeywordHere(ProtoWords, i) # {}) = d
      /\ d \in 0..(Len(tokens) - 1)
  <2> DEFINE words == ProtoWords
  <2>1. WritesOptional(tokens, words, i, proto, d) /\ \E w : w \notin DOMAIN words /\ WordAt(tokens, d, w)
    BY <1>2, Zenon
  <2> HIDE DEF words
  <2>2. /\ KeywordHere(words, i) = proto /\ Past(i, KeywordHere(words, i) # {}) = d
        /\ d \in 0..(Len(tokens) - 1)
    BY <2>1, OptionalReads
  <2> QED
    BY <2>2, Zenon DEF words
<1>5. /\ KeywordHere(DirWords, d) = dir /\ Past(d, KeywordHere(DirWords, d) # {}) = k
      /\ k \in 0..(Len(tokens) - 1)
  <2> DEFINE words == DirWords
  <2>1. /\ WritesOptional(tokens, words, d, dir, k)
        /\ k = d => \E w : w \notin DOMAIN words /\ WordAt(tokens, k, w)
    BY <1>1, Zenon
  <2> HIDE DEF words
  <2>2. /\ KeywordHere(words, d) = dir /\ Past(d, KeywordHere(words, d) # {}) = k
        /\ k \in 0..(Len(tokens) - 1)
    BY <1>4, <2>1, OptionalReads
  <2> QED
    BY <2>2, Zenon DEF words
<1>6. try_parse_proto(i) = KeywordHere(ProtoWords, i) /\ try_parse_dir(d) = KeywordHere(DirWords, d)
  BY Zenon DEF try_parse_proto, try_parse_dir, KeywordHere
<1> QED
  BY <1>3, <1>4, <1>5, <1>6, Zenon

(* A primitive is read as it is written. *)
LEMMA PrimitiveReads ==
  ASSUME tokens \in Inputs, NEW i \in 0..(Len(tokens) - 1), NEW j, NEW e, WritesPrimitive(tokens, i, j, e)
  PROVE  parse_primitive(i) = Read(j, e) /\ \E w : WordAt(tokens, i, w) /\ w \notin Aside
<1>1. PICK proto, dir, d, k, ty :
        /\ WritesOptional(tokens, ProtoWords, i, proto, d)
        /\ WritesOptional(tokens, DirWords, d, dir, k)
        /\ WritesType(tokens, k, j, ty)
        /\ e = Leaf([proto |-> proto, dir |-> dir, ty |-> ty, offset |-> PlaceOf(tokens, i, j)])
  BY Zenon DEF WritesPrimitive
<1>2. \E w \in TypeWords : WordAt(tokens, k, w)
  BY <1>1, Zenon DEF WritesType, TypeWords
<1>3. /\ try_parse_proto(i) = proto /\ Past(i, try_parse_proto(i) # {}) = d
      /\ try_parse_dir(d) = dir /\ Past(d, try_parse_dir(d) # {}) = k
      /\ d \in 0..(Len(tokens) - 1) /\ k \in 0..(Len(tokens) - 1)
      /\ \E w : WordAt(tokens, i, w) /\ w \notin Aside
  BY <1>1, <1>2, PrefixReads
<1> DEFINE v == Advance(k)
           h == Advance(Advance(v))
           Prim(b, type) == Read(b, Leaf([proto |-> proto, dir |-> dir, ty |-> type,
                                        offset |-> LeafOffset(i, b)]))
           kw == Peek(k).text.text
           AddrIn(allow_prefix) == The(parse_addr_literal(Peek(v).text, allow_prefix))
           AddrAt(allow_prefix, rest) ==
             expect_word(v, Try(parse_addr_literal(Peek(v).text, allow_prefix),
                                BadAddr(Peek(v).text), Peek(v).offset, rest))
           PortIn(b) == The(parse_port(Peek(b).text))
           PortAt(b, rest) ==
             expect_word(b, Try(parse_port(Peek(b).text), "InvalidPortNumber", Peek(b).offset, rest))
           HostType == [kind |-> "Host", addr |-> AddrIn(FALSE).addr]
           NetType == [kind |-> "Net", addr |-> AddrIn(TRUE).addr, prefix |-> AddrIn(TRUE).prefix]
           PortType == [kind |-> "Port", lo |-> PortIn(v), hi |-> PortIn(v)]
           RangeType == [kind |-> "PortRange", lo |-> PortIn(v), hi |-> PortIn(h)]
           Host == AddrAt(FALSE, Prim(Advance(v), HostType))
           Net == AddrAt(TRUE, Prim(Advance(v), NetType))
           Port == PortAt(v, Prim(Advance(v), PortType))
           High == IF PortIn(v) <= PortIn(h)
                   THEN Prim(Advance(h), RangeType)
                   ELSE Fails("InvalidPortRange", Span(StartAt(i), Peek(h).offset.end))
           PortRange == PortAt(v, expect_dash(Advance(v), PortAt(h, High)))
           Unknown == Fails("UnknownKeyword", Peek(k).offset)
           Other == Fails("UnexpectedToken", Peek(k).offset)
           type == CASE kw = "host" -> Host
                     [] kw = "net" -> Net
                     [] kw = "port" -> Port
                     [] kw = "portrange" -> PortRange
                     [] kw \in {"rarp", "sctp"} -> Unknown
                     [] OTHER -> Other
           Positions == 0..(Len(tokens) - 1)
<1>4. parse_primitive(i) = expect_word(k, type)
  BY <1>3, ZenonT(40) DEF parse_primitive
<1>5. /\ Len(tokens) \in Nat /\ Peek(k).tag = "Word"
      /\ \A w : WordAt(tokens, k, w) => kw = w
  <2>1. Len(tokens) \in Nat
    BY InputShape
  <2>2. \A w : WordAt(tokens, k, w) => Peek(k).tag = "Word" /\ kw = w
    BY <1>3, InputWords DEF IsWord
  <2> QED
    BY <1>2, <2>1, <2>2
<1>6. v = k + 1 /\ v \in Positions /\ v + 1 = k + 2
  BY <1>3, <1>5, NextPosition
<1>7. ASSUME TextAt(tokens, k + 1)
      PROVE  /\ Peek(v).tag = "Word" /\ Peek(v) = TokenAt(tokens, k + 1) /\ IsText(Peek(v).text)
             /\ Advance(v) = k + 2 /\ k + 2 \in Positions /\ k + 2 # 0
  <2>1. Peek(v).tag = "Word" /\ Peek(v) = TokenAt(tokens, k + 1) /\ IsText(Peek(v).text)
    BY <1>6, <1>7, InputWords, InputTokens
  <2>2. Advance(v) = v + 1 /\ v + 1 \in Positions
    BY <1>6, <2>1, NextPosition
  <2> QED
    BY <1>6, <2>1, <2>2
<1>8. ASSUME NEW b \in Positions, b # 0, b = j PROVE Prim(b, ty) = Read(j, e)
  <2>1. LeafOffset(i, b) = PlaceOf(tokens, i, j)
    BY <1>8, PlaceRead DEF LeafOffset
  <2> QED
    BY <1>1, <1>8, <2>1, Zenon
<1>9. parse_primitive(i) = type
  BY <1>4, <1>5, WordReads, Zenon
<1>10. ASSUME NEW a, a \in parse_addr_literal(TokenAt(tokens, k + 1).text, FALSE),
              WordAt(tokens, k, "host"), TextAt(tokens, k + 1), j = k + 2, ty = [kind |-> "Host", addr |-> a.addr]
       PROVE  type = Read(j, e)
  <2> DEFINE literal == parse_addr_literal(Peek(v).text, FALSE)
  <2>1. a \in literal
    BY <1>7, <1>10, Zenon
  <2>2. AddrIn(FALSE) = a
    BY <1>7, <1>10, <2>1, AddrOne, TheOne
  <2>3. HostType = ty
    BY <1>10, <2>2, Zenon
  <2>4. Prim(Advance(v), HostType) = Read(j, e)
    BY <1>7, <1>8, <1>10, <2>3
  <2>5. Host = Read(j, e)
    <3> DEFINE read == Prim(Advance(v), HostType)
    <3>1. Peek(v).tag = "Word" /\ read = Read(j, e)
      BY <1>7, <1>10, <2>4, Zenon
    <3> HIDE DEF literal, read
    <3>2. expect_word(v, Try(literal, BadAddr(Peek(v).text), Peek(v).offset, read)) = Read(j, e)
      BY <2>1, <3>1, WordReads, TryReads
    <3> QED
      BY <3>2, Zenon DEF literal, read
  <2>6. kw = "host"
    BY <1>5, <1>10
  <2> HIDE DEF Host, Net, Port, PortRange, Unknown, Other, kw
  <2> QED
    BY <2>5, <2>6
<1>11. ASSUME NEW a, a \in parse_addr_literal(TokenAt(tokens, k + 1).text, TRUE),
              WordAt(tokens, k, "net"), TextAt(tokens, k + 1), j = k + 2,
              ty = [kind |-> "Net", addr |-> a.addr, prefix |-> a.prefix]
       PROVE  type = Read(j, e)
  <2> DEFINE literal == parse_addr_literal(Peek(v).text, TRUE)
  <2>1. a \in literal
    BY <1>7, <1>11, Zenon
  <2>2. AddrIn(TRUE) = a
    BY <1>7, <1>11, <2>1, AddrOne, TheOne
  <2>3. NetType = ty
    BY <1>11, <2>2, Zenon
  <2>4. Prim(Advance(v), NetType) = Read(j, e)
    BY <1>7, <1>8, <1>11, <2>3
  <2>5. Net = Read(j, e)
    <3> DEFINE read == Prim(Advance(v), NetType)
    <3>1. Peek(v).tag = "Word" /\ read = Read(j, e)
      BY <1>7, <1>11, <2>4, Zenon
    <3> HIDE DEF literal, read
    <3>2. expect_word(v, Try(literal, BadAddr(Peek(v).text), Peek(v).offset, read)) = Read(j, e)
      BY <2>1, <3>1, WordReads, TryReads
    <3> QED
      BY <3>2, Zenon DEF literal, read
  <2>6. kw = "net"
    BY <1>5, <1>11
  <2> HIDE DEF Host, Net, Port, PortRange, Unknown, Other, kw
  <2> QED
    BY <2>5, <2>6
<1>12. ASSUME NEW n, n \in parse_port(TokenAt(tokens, k + 1).text),
              WordAt(tokens, k, "port"), TextAt(tokens, k + 1), j = k + 2, ty = [kind |-> "Port", lo |-> n, hi |-> n]
       PROVE  type = Read(j, e)
  <2> DEFINE literal == parse_port(Peek(v).text)
  <2>1. n \in literal
    BY <1>7, <1>12, Zenon
  <2>2. PortIn(v) = n
    BY <1>7, <1>12, <2>1, PortOne, TheOne
  <2>3. PortType = ty
    BY <1>12, <2>2, Zenon
  <2>4. Prim(Advance(v), PortType) = Read(j, e)
    BY <1>7, <1>8, <1>12, <2>3
  <2>5. Port = Read(j, e)
    BY <1>7, <1>12, <2>1, <2>4, WordReads, TryReads
  <2>6. kw = "port"
    BY <1>5, <1>12
  <2> HIDE DEF Host, Net, Port, PortRange, Unknown, Other, kw
  <2> QED
    BY <2>5, <2>6
<1>13. ASSUME NEW m, m \in parse_port(TokenAt(tokens, k + 1).text),
              NEW n, n \in parse_port(TokenAt(tokens, k + 3).text), m <= n,
              WordAt(tokens, k, "portrange"), TextAt(tokens, k + 1), SignAt(tokens, k + 2, "Dash"),
              TextAt(tokens, k + 3), j = k + 4, ty = [kind |-> "PortRange", lo |-> m, hi |-> n]
       PROVE  type = Read(j, e)
  <2>1. Peek(Advance(v)).tag = "Dash"
    BY <1>7, <1>13, InputWords
  <2>2. h = k + 3 /\ h \in Positions
    <3>1. Advance(k + 2) = (k + 2) + 1 /\ (k + 2) + 1 \in Positions
      BY <1>7, <1>13, <2>1, NextPosition
    <3> QED
      BY <1>3, <1>7, <1>13, <3>1
  <2> HIDE DEF h
  <2>3. Peek(h).tag = "Word" /\ Peek(h) = TokenAt(tokens, k + 3) /\ IsText(Peek(h).text)
    BY <1>13, <2>2, InputWords, InputTokens
  <2>4. Advance(h) = j /\ j \in Positions /\ j # 0
    <3>1. Advance(h) = h + 1 /\ h + 1 \in Positions
      BY <2>2, <2>3, NextPosition
    <3> QED
      BY <1>3, <1>13, <2>2, <3>1
  <2> DEFINE low == parse_port(Peek(v).text)
             high == parse_port(Peek(h).text)
             last == PortAt(h, High)
             dash == expect_dash(Advance(v), last)
  <2>5. m \in low /\ n \in high
    BY <1>7, <1>13, <2>3, Zenon
  <2>6. PortIn(v) = m
    BY <1>7, <1>13, <2>5, PortOne, TheOne
  <2>7. PortIn(h) = n
    BY <2>3, <2>5, PortOne, TheOne
  <2>8. RangeType = ty
    BY <1>13, <2>6, <2>7, Zenon
  <2>9. Prim(Advance(h), RangeType) = Read(j, e)
    BY <1>8, <2>4, <2>8
  <2>10. High = Read(j, e)
    BY <1>13, <2>6, <2>7, <2>9, Zenon
  <2> HIDE DEF High
  <2>11. last = Read(j, e)
    BY <2>3, <2>5, <2>10, WordReads, TryReads
  <2> HIDE DEF last
  <2>12. dash = Read(j, e)
    BY <2>1, <2>11, DashReads
  <2> HIDE DEF dash
  <2>13. PortAt(v, dash) = Read(j, e)
    BY <1>7, <1>13, <2>5, <2>12, WordReads, TryReads
  <2>14. PortRange = Read(j, e)
    BY <2>13, Zenon DEF dash, last
  <2>15. kw = "portrange"
    BY <1>5, <1>13
  <2> HIDE DEF Host, Net, Port, PortRange, Unknown, Other, kw
  <2> QED
    BY <2>14, <2>15
<1> HIDE DEF type
<1>14. type = Read(j, e)
  BY <1>1, <1>10, <1>11, <1>12, <1>13, Zenon DEF WritesType
<1> QED
  BY <1>3, <1>9, <1>14, Zenon

(* The words behind `ether`. *)
LEMMA EtherTables ==
  /\ "ether" \notin EtherKinds /\ "host" \notin DOMAIN DirWords /\ "proto" \notin DOMAIN DirWords
  /\ \A w \in EtherKinds : w # "host" /\ w # "proto" /\ w # "ether" /\ w # "not" /\ w \notin DOMAIN DirWords
  BY DEF EtherKinds, DirWords

(* A MAC address at m is read. *)
LEMMA MacReads ==
  ASSUME tokens \in Inputs, NEW i \in 0..(Len(tokens) - 1), NEW m \in 0..(Len(tokens) - 1), NEW dir,
         NEW j, NEW e, WritesHost(tokens, i, j, m, dir, e)
  PROVE  MacAt(m, Read(Advance(m), EtherLeaf(
           [kind |-> "Host", mac |-> The(parse_mac_literal(Peek(m).text)), dir |-> dir,
            offset |-> Span(StartAt(i), EndBefore(Advance(m)))]))) = Read(j, e)
<1> DEFINE literal == parse_mac_literal(Peek(m).text)
           place == Span(StartAt(i), EndBefore(Advance(m)))
           read == Read(Advance(m), EtherLeaf([kind |-> "Host", mac |-> The(literal), dir |-> dir,
                                               offset |-> place]))
<1>1. PICK mac \in parse_mac_literal(TokenAt(tokens, m).text) :
        e = EtherLeaf([kind |-> "Host", mac |-> mac, dir |-> dir, offset |-> PlaceOf(tokens, i, j)])
  BY DEF WritesHost
<1>2. TextAt(tokens, m) /\ j = m + 1
  BY DEF WritesHost
<1>3. Peek(m).tag = "Word" /\ Peek(m) = TokenAt(tokens, m)
  BY <1>2, InputWords, InputTokens
<1>4. Advance(m) = j /\ j \in 0..(Len(tokens) - 1) /\ j # 0
  BY <1>2, <1>3, NextPosition
<1>5. place = PlaceOf(tokens, i, j)
  BY <1>4, PlaceRead
<1>6. mac \in literal
  BY <1>1, <1>3, Zenon
<1>7. The(literal) = mac
  <2>1. AtMostOne(literal)
    BY MacOne
  <2> HIDE DEF literal
  <2> QED
    BY <1>6, <2>1, TheOne
<1> HIDE DEF place, literal
<1>8. read = Read(j, e)
  BY <1>1, <1>4, <1>5, <1>7, Zenon
<1> HIDE DEF read
<1>9. expect_word(m, Try(literal, "InvalidMacLiteral", Peek(m).offset, read)) = Read(j, e)
  BY <1>3, <1>6, <1>8, WordReads, TryReads
<1> QED
  BY <1>9, Zenon DEF MacAt, read, literal, place

(* A primitive of the link layer is read as it is written. *)
LEMMA EtherReads ==
  ASSUME tokens \in Inputs, NEW i \in 0..(Len(tokens) - 1), NEW j, NEW e, WritesEther(tokens, i, j, e)
  PROVE  parse_ether_primitive(i) = Read(j, e) /\ \E w \in EtherKinds \cup {"ether"} : WordAt(tokens, i, w)
<1> DEFINE k == Advance(i)
           v == Advance(k)
           m == Past(v, IsWord(v, "host"))
           Ends(b) == Span(StartAt(i), EndBefore(b))
           kw == Peek(k).text.text
           HostAt(b, dir) ==
             MacAt(b, Read(Advance(b), EtherLeaf(
               [kind |-> "Host", mac |-> The(parse_mac_literal(Peek(b).text)), dir |-> dir,
                offset |-> Ends(Advance(b))])))
           Bare(word, b) == Read(b, EtherLeaf([kind |-> KindOf[word], offset |-> Ends(b)]))
           literal == parse_ethertype(Peek(v).text)
           Host == HostAt(v, {})
           DirHost == HostAt(m, {DirWords[kw]})
           Type == Read(Advance(v), EtherLeaf([kind |-> "Proto", ethertype |-> The(literal),
                                               offset |-> Ends(Advance(v))]))
           Proto == expect_word(v, Try(literal, "InvalidEtherType", Peek(v).offset, Type))
           Kind == Bare(kw, v)
           Other == Fails("UnexpectedToken", Peek(k).offset)
           rest == CASE kw = "host" -> Host
                     [] kw \in DOMAIN DirWords -> DirHost
                     [] kw = "proto" -> Proto
                     [] kw \in EtherKinds -> Kind
                     [] OTHER -> Other
           first == Peek(i).text.text
           Alone == Bare(first, k)
           Positions == 0..(Len(tokens) - 1)
<1>1. parse_ether_primitive(i) = IF first \in EtherKinds THEN Alone ELSE expect_word(k, rest)
  BY Zenon DEF parse_ether_primitive
<1>2. \E w \in EtherKinds \cup {"ether"} : WordAt(tokens, i, w)
  BY Zenon DEF WritesEther, WritesHost
<1>3. Peek(i).tag = "Word" /\ \A w : WordAt(tokens, i, w) => first = w
  BY <1>2, InputWords DEF IsWord
<1>4. k = i + 1 /\ k \in Positions /\ k # 0
  BY <1>3, NextPosition
<1>5. ASSUME NEW b \in Positions, b # 0, NEW w, b = j,
             e = EtherLeaf([kind |-> KindOf[w], offset |-> PlaceOf(tokens, i, j)])
      PROVE  Bare(w, b) = Read(j, e)
  <2>1. Ends(b) = PlaceOf(tokens, i, j)
    BY <1>5, PlaceRead
  <2> QED
    BY <1>5, <2>1, Zenon
<1>6. ASSUME NEW w \in EtherKinds, WordAt(tokens, i, w), j = i + 1,
             e = EtherLeaf([kind |-> KindOf[w], offset |-> PlaceOf(tokens, i, j)])
      PROVE  parse_ether_primitive(i) = Read(j, e)
  <2>1. first = w
    BY <1>3, <1>6
  <2>2. Bare(w, k) = Read(j, e)
    BY <1>4, <1>5, <1>6
  <2> HIDE DEF first
  <2> QED
    BY <1>1, <1>6, <2>1, <2>2, Zenon
<1>7. ASSUME WordAt(tokens, i, "ether"), NEW w, WordAt(tokens, i + 1, w)
      PROVE  /\ kw = w /\ parse_ether_primitive(i) = rest
             /\ v = i + 2 /\ v \in Positions /\ v # 0
  <2>1. first = "ether"
    BY <1>3, <1>7
  <2>2. Peek(k).tag = "Word" /\ kw = w
    BY <1>4, <1>7, InputWords DEF IsWord
  <2>3. v = k + 1 /\ v \in Positions
    BY <1>4, <2>2, NextPosition
  <2>4. expect_word(k, rest) = rest
    BY <2>2, WordReads
  <2>5. v = i + 2 /\ v # 0
    BY <1>4, <2>3
  <2> HIDE DEF first, rest, kw
  <2> QED
    BY <1>1, <2>1, <2>2, <2>3, <2>4, <2>5, EtherTables, Zenon
<1>8. ASSUME WordAt(tokens, i + 1, "host"), WritesHost(tokens, i, j, i + 2, {}, e)
      PROVE  parse_ether_primitive(i) = Read(j, e)
  <2>1. WordAt(tokens, i, "ether")
    BY <1>8 DEF WritesHost
  <2>2. kw = "host" /\ parse_ether_primitive(i) = rest /\ v = i + 2 /\ v \in Positions
    BY <1>7, <1>8, <2>1
  <2>3. Host = Read(j, e)
    <3> DEFINE dir == {}
    <3>1. v \in Positions /\ WritesHost(tokens, i, j, v, dir, e)
      BY <1>8, <2>2, Zenon
    <3> HIDE DEF v, dir
    <3>2. HostAt(v, dir) = Read(j, e)
      BY <3>1, MacReads
    <3> QED
      BY <3>2, Zenon DEF dir
  <2>4. rest = Host
    <3>1. kw = "host" /\ kw # "proto" /\ kw \notin DOMAIN DirWords /\ kw \notin EtherKinds
      BY <2>2, EtherTables
    <3> HIDE DEF Host, DirHost, Proto, Kind, Other, kw
    <3> QED
      BY <3>1
  <2> HIDE DEF Host, rest
  <2> QED
    BY <2>2, <2>3, <2>4, Zenon
<1>9. ASSUME NEW w \in DOMAIN DirWords, WordAt(tokens, i + 1, w),
             NEW a, a \in Positions,
             WritesHost(tokens, i, j, a, {DirWords[w]}, e),
             a = i + 2 \/ (WordAt(tokens, i + 2, "host") /\ a = i + 3)
      PROVE  parse_ether_primitive(i) = Read(j, e)
  <2>1. WordAt(tokens, i, "ether")
    BY <1>9 DEF WritesHost
  <2>2. kw = w /\ parse_ether_primitive(i) = rest /\ v = i + 2 /\ v \in Positions
    BY <1>7, <1>9, <2>1
  <2>3. m = a
    <3> HIDE DEF v
    <3>1. CASE WordAt(tokens, i + 2, "host") /\ a = i + 3
      <4>1. IsWord(v, "host") /\ Peek(v).tag = "Word"
        BY <2>2, <3>1, InputWords DEF IsWord
      <4>2. Advance(v) = v + 1
        BY <2>2, <4>1, NextPosition
      <4> QED
        BY <2>2, <3>1, <4>1, <4>2 DEF Past
    <3>2. CASE a = i + 2
      <4>1. ASSUME IsWord(v, "host") PROVE FALSE
        <5>1. TokenAt(tokens, a).text.text = "host" /\ IsText(TokenAt(tokens, a).text)
          BY <2>2, <3>2, <4>1, InputTokens DEF IsWord
        <5>2. parse_mac_literal(TokenAt(tokens, a).text) = {}
          BY <5>1, HostNoMac
        <5> QED
          BY <1>9, <5>2 DEF WritesHost
      <4> QED
        BY <2>2, <3>2, <4>1 DEF Past
    <3> QED
      BY <1>9, <3>1, <3>2
  <2>4. DirHost = Read(j, e)
    <3> DEFINE dir == {DirWords[w]}
    <3>1. WritesHost(tokens, i, j, m, dir, e) /\ m \in Positions
      BY <1>9, <2>3, Zenon
    <3> HIDE DEF dir, m
    <3>2. HostAt(m, dir) = Read(j, e)
      BY <3>1, MacReads
    <3> QED
      BY <2>2, <3>2, Zenon DEF dir
  <2>5. kw \in DOMAIN DirWords /\ kw # "host" /\ kw # "proto" /\ kw \notin EtherKinds
    BY <1>9, <2>2, EtherTables
  <2> HIDE DEF Host, DirHost, Proto, Kind, Other, kw
  <2>6. rest = DirHost
    BY <2>5
  <2> QED
    BY <2>2, <2>4, <2>6, Zenon
<1>10. ASSUME WordAt(tokens, i, "ether"), WordAt(tokens, i + 1, "proto"), TextAt(tokens, i + 2), j = i + 3,
              NEW n, n \in parse_ethertype(TokenAt(tokens, i + 2).text),
              e = EtherLeaf([kind |-> "Proto", ethertype |-> n, offset |-> PlaceOf(tokens, i, j)])
       PROVE  parse_ether_primitive(i) = Read(j, e)
  <2>1. kw = "proto" /\ parse_ether_primitive(i) = rest /\ v = i + 2 /\ v \in Positions
    BY <1>7, <1>10
  <2>2. Peek(v).tag = "Word" /\ Peek(v) = TokenAt(tokens, i + 2) /\ IsText(Peek(v).text)
    <3> HIDE DEF v
    <3> QED
      BY <1>10, <2>1, InputWords, InputTokens
  <2>3. Advance(v) = j /\ j \in Positions /\ j # 0
    <3>1. Advance(v) = v + 1 /\ v + 1 \in Positions
      BY <2>1, <2>2, NextPosition
    <3> QED
      BY <1>10, <2>1, <3>1
  <2>4. Ends(Advance(v)) = PlaceOf(tokens, i, j)
    BY <2>3, PlaceRead
  <2>5. n \in literal
    BY <1>10, <2>2, Zenon
  <2>6. The(literal) = n
    <3>1. AtMostOne(literal)
      BY <2>2, EtherTypeOne
    <3> HIDE DEF literal
    <3> QED
      BY <2>5, <3>1, TheOne
  <2>7. Type = Read(j, e)
    BY <1>10, <2>3, <2>4, <2>6, Zenon
  <2> HIDE DEF Type, literal
  <2>8. Proto = Read(j, e)
    BY <2>2, <2>5, <2>7, WordReads, TryReads
  <2> HIDE DEF Host, DirHost, Proto, Kind, Other, kw
  <2>9. rest = Proto
    <3>1. kw = "proto" /\ kw # "host" /\ kw \notin DOMAIN DirWords /\ kw \notin EtherKinds
      BY <2>1, EtherTables
    <3> QED
      BY <3>1
  <2> QED
    BY <2>1, <2>8, <2>9, Zenon
<1>11. ASSUME NEW w \in EtherKinds, WordAt(tokens, i, "ether"), WordAt(tokens, i + 1, w), j = i + 2,
              e = EtherLeaf([kind |-> KindOf[w], offset |-> PlaceOf(tokens, i, j)])
       PROVE  parse_ether_primitive(i) = Read(j, e)
  <2>1. kw = w /\ parse_ether_primitive(i) = rest /\ v = i + 2 /\ v \in Positions /\ v # 0
    BY <1>7, <1>11
  <2>2. Bare(w, v) = Read(j, e)
    BY <1>5, <1>11, <2>1
  <2>3. Kind = Read(j, e)
    BY <2>1, <2>2, Zenon
  <2>4. kw # "host" /\ kw \notin DOMAIN DirWords /\ kw # "proto" /\ kw \in EtherKinds
    BY <2>1, EtherTables
  <2> HIDE DEF Host, DirHost, Proto, Kind, Other, kw
  <2>5. rest = Kind
    BY <2>4
  <2> QED
    BY <2>1, <2>3, <2>5, Zenon
<1>12. ASSUME NEW a \in Nat, NEW dir, WritesHost(tokens, i, j, a, dir, e) PROVE a \in Positions
  <2>1. SignAt(tokens, a, "Word")
    BY <1>12 DEF WritesHost, TextAt
  <2> QED
    BY <2>1, SignHere
<1>13. i + 2 \in Nat /\ i + 3 \in Nat
  OBVIOUS
<1> HIDE DEF Positions
<1>14. parse_ether_primitive(i) = Read(j, e)
  <2>1. CASE WordAt(tokens, i + 1, "host") /\ WritesHost(tokens, i, j, i + 2, {}, e)
    BY <1>8, <2>1
  <2>2. ASSUME NEW w \in DOMAIN DirWords, WordAt(tokens, i + 1, w),
               \/ WritesHost(tokens, i, j, i + 2, {DirWords[w]}, e)
               \/ WordAt(tokens, i + 2, "host") /\ WritesHost(tokens, i, j, i + 3, {DirWords[w]}, e)
        PROVE  parse_ether_primitive(i) = Read(j, e)
    BY <1>9, <1>12, <1>13, <2>2, Zenon
  <2> QED
    BY <1>6, <1>10, <1>11, <2>1, <2>2, Zenon DEF WritesEther
<1> QED
  BY <1>2, <1>14

(* parse_primary reads what is written where it is called. *)
LEMMA HereReads ==
  ASSUME tokens \in Inputs, pos \in 0..(Len(tokens) - 1), NEW j, NEW e, WritesLeaf(tokens, pos, j, e)
  PROVE  /\ ReadHere = Read(j, e) /\ Peek(pos).tag = "Word" /\ ~IsWord(pos, "not")
<1>1. CASE WritesPrimitive(tokens, pos, j, e)
  <2>1. parse_primitive(pos) = Read(j, e) /\ \E w : WordAt(tokens, pos, w) /\ w \notin Aside
    BY <1>1, PrimitiveReads
  <2>2. PICK w : WordAt(tokens, pos, w) /\ w \notin Aside
    BY <2>1
  <2>3. IsWord(pos, w)
    BY <2>2, InputWords
  <2>4. /\ Peek(pos).tag = "Word" /\ Peek(pos).text.text \notin EtherKinds \cup {"ether"}
        /\ ~IsWord(pos, "not")
    BY <2>2, <2>3 DEF IsWord, Aside
  <2> QED
    BY <2>1, <2>4, Zenon DEF ReadHere
<1>2. CASE WritesEther(tokens, pos, j, e)
  <2>1. parse_ether_primitive(pos) = Read(j, e) /\ \E w \in EtherKinds \cup {"ether"} : WordAt(tokens, pos, w)
    BY <1>2, EtherReads
  <2>2. PICK w \in EtherKinds \cup {"ether"} : WordAt(tokens, pos, w)
    BY <2>1
  <2>3. IsWord(pos, w)
    BY <2>2, InputWords
  <2>4. /\ Peek(pos).tag = "Word" /\ Peek(pos).text.text \in EtherKinds \cup {"ether"}
        /\ ~IsWord(pos, "not")
    BY <2>2, <2>3 DEF IsWord, EtherKinds
  <2> QED
    BY <2>1, <2>4, Zenon DEF ReadHere
<1> QED
  BY <1>1, <1>2 DEF WritesLeaf

-----------------------------------------------------------------------------
(* The operands behind the first one, from left to right. *)

(* One more operator of the level, and its right operand. *)
OperandStep(t, fn, k, l, j, e) ==
  /\ WordAt(t, k, Levels[fn].word)
  /\ \E r : Derives(t, Levels[fn].operand, k + 1, j, r) /\ e = BinaryTree(fn, l, r)

(* The operators from position k up to j make e of what stands before k. *)
OperandPath(t, fn, n, at, tree) ==
  \A m \in 1..n : OperandStep(t, fn, at[m], tree[m], at[m - 1], tree[m - 1])
Operands(t, fn, k, l, j, e) ==
  \E n \in Nat : \E at, tree :
    /\ at[n] = k /\ tree[n] = l /\ at[0] = j /\ tree[0] = e
    /\ OperandPath(t, fn, n, at, tree)

(* No operator. *)
LEMMA OperandsNone == ASSUME NEW t, NEW fn, NEW k, NEW l PROVE Operands(t, fn, k, l, k, l)
<1> DEFINE at == [m \in {0} |-> k]
           tree == [m \in {0} |-> l]
<1>1. at[0] = k /\ tree[0] = l /\ 0 \in Nat
  OBVIOUS
<1>2. OperandPath(t, fn, 0, at, tree)
  BY DEF OperandPath
<1> HIDE DEF at, tree
<1> QED
  BY <1>1, <1>2, Zenon DEF Operands

(* An operator more at the end. *)
LEMMA OperandsLast ==
  ASSUME NEW t, NEW fn, NEW k, NEW l, NEW i, NEW d, Operands(t, fn, k, l, i, d),
         NEW j, NEW e, OperandStep(t, fn, i, d, j, e)
  PROVE  Operands(t, fn, k, l, j, e)
<1>1. PICK n \in Nat : \E at, tree :
        /\ at[n] = k /\ tree[n] = l /\ at[0] = i /\ tree[0] = d
        /\ OperandPath(t, fn, n, at, tree)
  BY DEF Operands
<1>2. PICK at, tree : /\ at[n] = k /\ tree[n] = l /\ at[0] = i /\ tree[0] = d
                      /\ OperandPath(t, fn, n, at, tree)
  BY <1>1
<1> DEFINE at2 == [m \in 0..(n + 1) |-> IF m = 0 THEN j ELSE at[m - 1]]
           tree2 == [m \in 0..(n + 1) |-> IF m = 0 THEN e ELSE tree[m - 1]]
<1>3. /\ n + 1 \in Nat /\ at2[0] = j /\ tree2[0] = e
      /\ \A m \in 1..(n + 1) : at2[m] = at[m - 1] /\ tree2[m] = tree[m - 1]
  OBVIOUS
<1> HIDE DEF at2, tree2
<1>4. at2[n + 1] = k /\ tree2[n + 1] = l
  <2>1. n + 1 \in 1..(n + 1) /\ (n + 1) - 1 = n
    OBVIOUS
  <2> QED
    BY <1>2, <1>3, <2>1
<1>5. ASSUME NEW m \in 1..(n + 1)
      PROVE  OperandStep(t, fn, at2[m], tree2[m], at2[m - 1], tree2[m - 1])
  <2>1. CASE m = 1
    <3>1. 1 \in 1..(n + 1) /\ 1 - 1 = 0
      OBVIOUS
    <3>2. at2[1] = at[0] /\ tree2[1] = tree[0]
      BY <1>3, <3>1
    <3> QED
      BY <1>2, <1>3, <2>1, <3>1, <3>2
  <2>2. CASE m # 1
    <3>1. m - 1 \in 1..n /\ m - 1 \in 1..(n + 1)
      BY <2>2
    <3>2. /\ at2[m] = at[m - 1] /\ tree2[m] = tree[m - 1]
          /\ at2[m - 1] = at[(m - 1) - 1] /\ tree2[m - 1] = tree[(m - 1) - 1]
      BY <1>3, <3>1
    <3>3. OperandStep(t, fn, at[m - 1], tree[m - 1], at[(m - 1) - 1], tree[(m - 1) - 1])
      BY <1>2, <3>1, Zenon DEF OperandPath
    <3> QED
      BY <3>2, <3>3, Zenon
  <2> QED
    BY <2>1, <2>2
<1>6. OperandPath(t, fn, n + 1, at2, tree2)
  BY <1>5 DEF OperandPath
<1> QED
  BY <1>3, <1>4, <1>6, Zenon DEF Operands

(* The first operator, or none. *)
LEMMA OperandsFirst ==
  ASSUME NEW t \in Inputs, NEW fn, NEW k, NEW l, NEW j, NEW e, Operands(t, fn, k, l, j, e)
  PROVE  \/ k = j /\ l = e
         \/ \E i \in Nat : \E d : OperandStep(t, fn, k, l, i, d) /\ Operands(t, fn, i, d, j, e)
<1>1. PICK n \in Nat : \E at, tree :
        /\ at[n] = k /\ tree[n] = l /\ at[0] = j /\ tree[0] = e
        /\ OperandPath(t, fn, n, at, tree)
  BY DEF Operands
<1>2. PICK at, tree : /\ at[n] = k /\ tree[n] = l /\ at[0] = j /\ tree[0] = e
                      /\ OperandPath(t, fn, n, at, tree)
  BY <1>1
<1>3. CASE n = 0
  BY <1>2, <1>3
<1>4. CASE n # 0
  <2>1. n \in 1..n /\ n - 1 \in Nat /\ \A m \in 1..(n - 1) : m \in 1..n
    BY <1>4
  <2>2. OperandStep(t, fn, k, l, at[n - 1], tree[n - 1])
    BY <1>2, <2>1, Zenon DEF OperandPath
  <2>3. OperandPath(t, fn, n - 1, at, tree)
    BY <1>2, <2>1, Zenon DEF OperandPath
  <2>4. Operands(t, fn, at[n - 1], tree[n - 1], j, e)
    BY <1>2, <2>1, <2>3, Zenon DEF Operands
  <2>5. at[n - 1] \in Nat
    <3>1. PICK r : Derives(t, Levels[fn].operand, k + 1, at[n - 1], r)
      BY <2>2 DEF OperandStep
    <3> QED
      BY <3>1, DerivedSpan
  <2> QED
    BY <2>2, <2>4, <2>5, Zenon
<1> QED
  BY <1>3, <1>4

(* A filter of a level is its first operand and what follows. *)
LEMMA LevelOperands ==
  ASSUME NEW t \in Inputs, NEW fn \in DOMAIN Levels, NEW i \in Nat, NEW j, NEW e, Derives(t, fn, i, j, e)
  PROVE  \E k \in Nat : \E l : Derives(t, Levels[fn].operand, i, k, l) /\ Operands(t, fn, k, l, j, e)
<1> DEFINE Split(b, f) == \E k \in Nat : \E l : Derives(t, Levels[fn].operand, i, k, l) /\ Operands(t, fn, k, l, b, f)
           T == {b \in Nat : \E f : Derives(t, fn, i, b, f) /\ ~Split(b, f)}
<1>1. ASSUME T # {} PROVE FALSE
  <2> HIDE DEF Split
  <2>1. T \subseteq Nat
    OBVIOUS
  <2>2. PICK b \in T : \A c \in T : b <= c
    BY <1>1, <2>1, LeastNumber
  <2>3. b \in Nat
    BY <2>1, <2>2
  <2>4. PICK f : Derives(t, fn, i, b, f) /\ ~Split(b, f)
    BY <2>2
  <2>5. CASE Derives(t, Levels[fn].operand, i, b, f)
    <3>1. Operands(t, fn, b, f, b, f)
      BY OperandsNone
    <3> QED
      BY <2>3, <2>4, <2>5, <3>1, Zenon DEF Split
  <2>6. ASSUME NEW c \in Nat, NEW l, NEW r,
               /\ Derives(t, fn, i, c, l) /\ WordAt(t, c, Levels[fn].word)
               /\ Derives(t, Levels[fn].operand, c + 1, b, r) /\ f = BinaryTree(fn, l, r)
        PROVE  FALSE
    <3>1. c + 1 < b
      BY <2>6, DerivedSpan
    <3>2. ~(b <= c)
      BY <2>3, <3>1
    <3>3. Split(c, l)
      <4>1. c \notin T
        BY <2>2, <3>2, Zenon
      <4> QED
        BY <2>6, <4>1
    <3>4. PICK k \in Nat : \E g : Derives(t, Levels[fn].operand, i, k, g) /\ Operands(t, fn, k, g, c, l)
      BY <3>3 DEF Split
    <3>5. PICK g : Derives(t, Levels[fn].operand, i, k, g) /\ Operands(t, fn, k, g, c, l)
      BY <3>4
    <3>6. OperandStep(t, fn, c, l, b, f)
      BY <2>6, Zenon DEF OperandStep
    <3>7. Operands(t, fn, k, g, b, f)
      BY <3>5, <3>6, OperandsLast
    <3> QED
      BY <2>4, <3>5, <3>7, Zenon DEF Split
  <2> QED
    BY <2>3, <2>4, <2>5, <2>6, LevelRule
<1>2. j \in Nat
  BY DerivedSpan
<1>3. Split(j, e)
  <2> HIDE DEF Split
  <2> QED
    BY <1>1, <1>2
<1> QED
  BY <1>3 DEF Split

-----------------------------------------------------------------------------
(* How the waiting calls go on. *)

(* No operator of the level, nor of a tighter one, stands behind it. *)
Follows(t, fn, q) ==
  /\ fn = "parse_or" => ~WordAt(t, q, "or") /\ ~WordAt(t, q, "and")
  /\ fn = "parse_and" => ~WordAt(t, q, "and")

(* A waiting call that is handed f, with q next to read, returns g, with p *)
(* next.                                                                   *)
FrameEnds(t, frame, q, f, p, g) ==
  \/ /\ frame.fn \in DOMAIN Levels /\ Follows(t, frame.fn, p)
     /\ Operands(t, frame.fn, q, Joined(frame, f), p, g)
  \/ /\ frame.fn = "parse_unary" /\ p = q
     /\ g = NotAt(f, Span(frame.start, offset_from_expr(f).end))
  \/ frame.fn = "parse_primary" /\ SignAt(t, q, "RParen") /\ p = q + 1 /\ g = f

(* The waiting calls, handed f with q next, return e with the end next. *)
EndPath(t, calls, at, tree) ==
  \A d \in 1..Len(calls) :
    FrameEnds(t, calls[(Len(calls) + 1) - d], at[d], tree[d], at[d - 1], tree[d - 1])
Completes(t, e, calls, q, f) ==
  \E at, tree : /\ at[Len(calls)] = q /\ tree[Len(calls)] = f
                /\ at[0] = Len(t) - 1 /\ tree[0] = e
                /\ EndPath(t, calls, at, tree)

(* No call waits. *)
LEMMA CompletesFirst ==
  ASSUME NEW t, NEW e
  PROVE  /\ Completes(t, e, <<>>, Len(t) - 1, e)
         /\ \A q, f : Completes(t, e, <<>>, q, f) => q = Len(t) - 1 /\ f = e
<1> DEFINE at == [m \in {0} |-> Len(t) - 1]
           tree == [m \in {0} |-> e]
<1>1. at[0] = Len(t) - 1 /\ tree[0] = e /\ Len(<<>>) = 0
  OBVIOUS
<1>2. EndPath(t, <<>>, at, tree)
  BY DEF EndPath
<1> HIDE DEF at, tree
<1>3. Completes(t, e, <<>>, Len(t) - 1, e)
  BY <1>1, <1>2, Zenon DEF Completes
<1>4. \A q, f : Completes(t, e, <<>>, q, f) => q = Len(t) - 1 /\ f = e
  BY <1>1, Zenon DEF Completes
<1> QED
  BY <1>3, <1>4

(* A call that begins to wait. *)
LEMMA CompletesPush ==
  ASSUME NEW t, NEW e, NEW calls, IsSeq(calls), NEW p, NEW g, Completes(t, e, calls, p, g),
         NEW frame, NEW q, NEW f, FrameEnds(t, frame, q, f, p, g)
  PROVE  Completes(t, e, <<frame>> \o calls, q, f)
<1>1. PICK at, tree : /\ at[Len(calls)] = p /\ tree[Len(calls)] = g
                      /\ at[0] = Len(t) - 1 /\ tree[0] = e
                      /\ EndPath(t, calls, at, tree)
  BY DEF Completes
<1> DEFINE n == Len(calls)
           more == <<frame>> \o calls
           at2 == [m \in 0..(n + 1) |-> IF m = n + 1 THEN q ELSE at[m]]
           tree2 == [m \in 0..(n + 1) |-> IF m = n + 1 THEN f ELSE tree[m]]
           S == {calls[k] : k \in DOMAIN calls} \cup {frame}
<1>2. calls \in Seq(S) /\ frame \in S
  BY DEF IsSeq
<1> HIDE DEF S
<1>3. /\ n \in Nat /\ Len(more) = n + 1 /\ more[1] = frame
      /\ \A k \in 1..n : more[k + 1] = calls[k]
  BY <1>2
<1>4. /\ at2[n + 1] = q /\ tree2[n + 1] = f
      /\ \A m \in 0..n : at2[m] = at[m] /\ tree2[m] = tree[m]
  BY <1>3
<1> HIDE DEF n, more, at2, tree2
<1>5. at2[0] = Len(t) - 1 /\ tree2[0] = e /\ at2[n] = p /\ tree2[n] = g
  <2>1. 0 \in 0..n /\ n \in 0..n
    BY <1>3
  <2>2. at[n] = p /\ tree[n] = g
    BY <1>1 DEF n
  <2> QED
    BY <1>1, <1>4, <2>1, <2>2, Zenon
<1>6. ASSUME NEW d \in 1..(n + 1)
      PROVE  FrameEnds(t, more[((n + 1) + 1) - d], at2[d], tree2[d], at2[d - 1], tree2[d - 1])
  <2>1. CASE d = n + 1
    <3>1. ((n + 1) + 1) - d = 1 /\ d - 1 = n
      BY <1>3, <2>1
    <3> QED
      BY <1>3, <1>4, <1>5, <2>1, <3>1, Zenon
  <2>2. CASE d # n + 1
    <3>1. /\ d \in 1..n /\ d \in 0..n /\ d - 1 \in 0..n /\ (n + 1) - d \in 1..n
          /\ ((n + 1) + 1) - d = ((n + 1) - d) + 1
      BY <1>3, <2>2
    <3>2. more[((n + 1) + 1) - d] = calls[(n + 1) - d]
      BY <1>3, <3>1
    <3>3. FrameEnds(t, calls[(n + 1) - d], at[d], tree[d], at[d - 1], tree[d - 1])
      BY <1>1, <3>1, Zenon DEF EndPath, n
    <3>4. at2[d] = at[d] /\ tree2[d] = tree[d] /\ at2[d - 1] = at[d - 1] /\ tree2[d - 1] = tree[d - 1]
      BY <1>4, <3>1
    <3> QED
      BY <3>2, <3>3, <3>4, Zenon
  <2> QED
    BY <2>1, <2>2
<1>7. EndPath(t, more, at2, tree2)
  BY <1>3, <1>6, Zenon DEF EndPath
<1> QED
  BY <1>3, <1>4, <1>5, <1>7, Zenon DEF Completes, more

(* The innermost waiting call ends first. *)
LEMMA CompletesPop ==
  ASSUME NEW t, NEW e, NEW calls, IsSeq(calls), calls # <<>>, NEW q, NEW f, Completes(t, e, calls, q, f)
  PROVE  \E p, g : FrameEnds(t, Head(calls), q, f, p, g) /\ Completes(t, e, Tail(calls), p, g)
<1>1. PICK at, tree : /\ at[Len(calls)] = q /\ tree[Len(calls)] = f
                      /\ at[0] = Len(t) - 1 /\ tree[0] = e
                      /\ EndPath(t, calls, at, tree)
  BY DEF Completes
<1> DEFINE rest == Tail(calls)
           n == Len(rest)
           S == {calls[k] : k \in DOMAIN calls}
<1>2. calls \in Seq(S)
  BY DEF IsSeq
<1> HIDE DEF S
<1>3. /\ n \in Nat /\ Len(calls) = n + 1 /\ calls[1] = Head(calls)
      /\ \A k \in 1..n : rest[k] = calls[k + 1]
  BY <1>2
<1> HIDE DEF n, rest
<1>4. \A d \in 1..(n + 1) :
        FrameEnds(t, calls[((n + 1) + 1) - d], at[d], tree[d], at[d - 1], tree[d - 1])
  BY <1>1, <1>3, Zenon DEF EndPath
<1>5. FrameEnds(t, Head(calls), q, f, at[n], tree[n])
  <2>1. n + 1 \in 1..(n + 1) /\ ((n + 1) + 1) - (n + 1) = 1 /\ (n + 1) - 1 = n
    BY <1>3
  <2>2. at[n + 1] = q /\ tree[n + 1] = f
    BY <1>1, <1>3
  <2>3. FrameEnds(t, calls[((n + 1) + 1) - (n + 1)], at[n + 1], tree[n + 1], at[(n + 1) - 1], tree[(n + 1) - 1])
    BY <1>4, <2>1, Zenon
  <2> QED
    BY <1>3, <2>1, <2>2, <2>3, Zenon
<1>6. ASSUME NEW d \in 1..n
      PROVE  FrameEnds(t, rest[(n + 1) - d], at[d], tree[d], at[d - 1], tree[d - 1])
  <2>1. d \in 1..(n + 1) /\ (n + 1) - d \in 1..n /\ ((n + 1) + 1) - d = ((n + 1) - d) + 1
    BY <1>3
  <2>2. rest[(n + 1) - d] = calls[((n + 1) + 1) - d]
    BY <1>3, <2>1
  <2> QED
    BY <1>4, <2>1, <2>2, Zenon
<1>7. EndPath(t, rest, at, tree)
  BY <1>6, Zenon DEF EndPath, n
<1>8. Completes(t, e, rest, at[n], tree[n])
  BY <1>1, <1>7, Zenon DEF Completes, n
<1> QED
  BY <1>5, <1>8, Zenon DEF rest

(* What stands behind an operand. *)
LEMMA FollowsOperand ==
  ASSUME NEW t \in Inputs, NEW fn \in DOMAIN Levels, NEW k, NEW l, NEW j, NEW e,
         Operands(t, fn, k, l, j, e), Follows(t, fn, j)
  PROVE  Follows(t, Levels[fn].operand, k)
<1>1. \/ k = j
      \/ WordAt(t, k, Levels[fn].word)
  BY OperandsFirst DEF OperandStep
<1>2. ASSUME WordAt(t, k, "or") PROVE ~WordAt(t, k, "and")
  BY <1>2 DEF WordAt
<1>3. CASE fn = "parse_or"
  <2>1. Levels[fn].word = "or" /\ Levels[fn].operand = "parse_and"
    BY <1>3 DEF Levels
  <2> QED
    BY <1>1, <1>2, <1>3, <2>1 DEF Follows
<1>4. CASE fn = "parse_and"
  <2>1. Levels[fn].operand = "parse_unary"
    BY <1>4 DEF Levels
  <2> QED
    BY <2>1 DEF Follows
<1> QED
  BY <1>3, <1>4 DEF Levels

-----------------------------------------------------------------------------
(* Whatever is written is read. *)

(* The level that a function reads. *)
Asked(fn) == IF fn = "parse_primary" THEN "parse_unary" ELSE fn

(* The calls lead to e: the one being made can return something with which *)
(* those that wait end with e, or that is what is being returned.          *)
OnTrack(t, e, calls, fn, v, p) ==
  /\ fn # "return" =>
       \E q, f : Derives(t, Asked(fn), p, q, f) /\ Completes(t, e, calls, q, f) /\ Follows(t, fn, q)
  /\ fn = "return" => \A f \in v : Completes(t, e, calls, p, f)
  /\ fn = "parse_primary" => ~WordAt(t, p, "not")

(* parse is on its way to e, and never leaves it. *)
TrackInv(e) ==
  /\ parsed # "error"
  /\ parsed = "called" => pos = 0 /\ stack = <<>> /\ call = "parse_or"
  /\ parsed = "parsing" => OnTrack(tokens, e, stack, call, value, pos)
  /\ parsed = "ok" => \A f \in value : f = e

(* The inductive invariant: that holds of every tree that the whole text   *)
(* has.                                                                    *)
Written(e) == Derives(tokens, "parse_or", 0, Len(tokens) - 1, e)
CompleteInv == \A e : Written(e) => TrackInv(e)

(* What a step that moves on has to show. *)
LEMMA MovesOnTrack ==
  ASSUME NEW e, Parsing, parsed = "parsing", OnTrack(tokens, e, stack', call', value', pos')
  PROVE  TrackInv(e)'
<1>1. tokens' = tokens /\ parsed' = "parsing"
  BY DEF Parsing
<1>2. OnTrack(tokens', e, stack', call', value', pos')
  BY <1>1, Zenon
<1> QED
  BY <1>1, <1>2 DEF TrackInv

(* A step that calls. *)
LEMMA CallOnTrack ==
  ASSUME NEW e, Parsing, parsed = "parsing", NEW fn \in LevelFns, NEW calls, NEW p,
         call' = fn, stack' = calls, pos' = p,
         NEW q, NEW f, Derives(tokens, fn, p, q, f), Completes(tokens, e, calls, q, f), Follows(tokens, fn, q)
  PROVE  TrackInv(e)'
<1>1. fn # "return" /\ fn # "parse_primary" /\ Asked(fn) = fn
  BY DEF LevelFns, Asked
<1>2. OnTrack(tokens, e, calls, fn, value', p)
  BY <1>1 DEF OnTrack
<1>3. OnTrack(tokens, e, stack', call', value', pos')
  BY <1>2, Zenon
<1> QED
  BY <1>3, MovesOnTrack

(* A step that returns. *)
LEMMA ReturnOnTrack ==
  ASSUME NEW e, parsed = "parsing", NEW f, NEW j, NEW rest, Return(f, j, rest), Completes(tokens, e, rest, j, f)
  PROVE  TrackInv(e)'
<1>1. call' = "return" /\ value' = {f} /\ pos' = j /\ stack' = rest /\ Parsing
  BY DEF Return
<1>2. OnTrack(tokens, e, rest, "return", {f}, j)
  BY DEF OnTrack
<1>3. OnTrack(tokens, e, stack', call', value', pos')
  BY <1>1, <1>2, Zenon
<1> QED
  BY <1>1, <1>3, MovesOnTrack

(* What a call is made from. *)
LEMMA TrackedCall ==
  ASSUME ParseInv, SoundInv, NEW e, TrackInv(e), NEW fn \in ParseFns, Calls(fn)
  PROVE  /\ tokens \in Inputs /\ parsed = "parsing" /\ pos \in 0..(Len(tokens) - 1) /\ pos \in Nat
         /\ IsSeq(stack)
         /\ \E q \in Nat : \E f :
              /\ Derives(tokens, Asked(fn), pos, q, f) /\ Completes(tokens, e, stack, q, f)
              /\ Follows(tokens, fn, q)
         /\ fn = "parse_primary" => ~IsWord(pos, "not")
<1>1. parsed = "parsing" /\ call = fn /\ fn # "return"
  BY DEF Calls, ParseFns
<1>2. tokens \in Inputs /\ pos \in 0..(Len(tokens) - 1) /\ pos \in Nat /\ IsSeq(stack)
  <2>1. tokens \in Inputs /\ pos \in 0..(Len(tokens) - 1) /\ IsSeq(stack)
    BY DEF SoundInv, ParseInv
  <2> QED
    BY <2>1
<1>3. OnTrack(tokens, e, stack, fn, value, pos)
  BY <1>1 DEF TrackInv
<1>4. PICK q, f : /\ Derives(tokens, Asked(fn), pos, q, f) /\ Completes(tokens, e, stack, q, f)
                  /\ Follows(tokens, fn, q)
  BY <1>1, <1>3 DEF OnTrack
<1>5. q \in Nat
  BY <1>2, <1>4, DerivedSpan
<1>6. fn = "parse_primary" => ~WordAt(tokens, pos, "not")
  BY <1>3 DEF OnTrack
<1>7. fn = "parse_primary" => ~IsWord(pos, "not")
  BY <1>2, <1>6, InputWords
<1> QED
  BY <1>1, <1>2, <1>4, <1>5, <1>7

(* What a return is made from. *)
LEMMA TrackedReturn ==
  ASSUME ParseInv, SoundInv, NEW e, TrackInv(e), NEW fn, Returns(fn), NEW f \in value
  PROVE  /\ tokens \in Inputs /\ parsed = "parsing" /\ pos \in 0..(Len(tokens) - 1) /\ pos \in Nat
         /\ Head(stack).fn = fn /\ IsSeq(Tail(stack))
         /\ \E p, g : FrameEnds(tokens, Head(stack), pos, f, p, g) /\ Completes(tokens, e, Tail(stack), p, g)
<1>1. parsed = "parsing" /\ call = "return" /\ stack # <<>> /\ Head(stack).fn = fn
  BY DEF Returns
<1>2. tokens \in Inputs /\ pos \in 0..(Len(tokens) - 1) /\ IsSeq(stack)
  BY DEF SoundInv, ParseInv
<1>3. pos \in Nat
  BY <1>2
<1>4. Completes(tokens, e, stack, pos, f)
  BY <1>1 DEF TrackInv, OnTrack
<1>5. \E p, g : FrameEnds(tokens, Head(stack), pos, f, p, g) /\ Completes(tokens, e, Tail(stack), p, g)
  BY <1>1, <1>2, <1>4, CompletesPop
<1>6. IsSeq(Tail(stack))
  BY <1>1, GoesOn DEF ParseInv
<1> QED
  BY <1>1, <1>2, <1>3, <1>5, <1>6

(* An operand joined with what stands to its left. *)
LEMMA JoinedTree ==
  ASSUME NEW fn, NEW f
  PROVE  Joined(Waiting(fn, {}), f) = f /\ \A l : Joined(Waiting(fn, {l}), f) = BinaryTree(fn, l, f)
<1>1. Joined(Waiting(fn, {}), f) = f
  BY DEF Joined, Waiting
<1>2. ASSUME NEW l PROVE Joined(Waiting(fn, {l}), f) = BinaryTree(fn, l, f)
  <2> DEFINE frame == Waiting(fn, {l})
  <2>1. frame.fn = fn /\ frame.lhs = {l}
    BY DEF Waiting
  <2> HIDE DEF frame
  <2>2. frame.lhs # {} /\ The(frame.lhs) = l
    BY <2>1, TheIn
  <2>3. Joined(frame, f) = BinaryTree(fn, l, f)
    BY <2>1, <2>2, Zenon DEF Joined, BinaryTree
  <2> QED
    BY <2>3 DEF frame
<1> QED
  BY <1>1, <1>2

(* The first operand of a level. *)
LEMMA CallLevelTrack == ASSUME ParseInv, SoundInv, NEW e, TrackInv(e), CallLevel PROVE TrackInv(e)'
<1>1. PICK fn \in DOMAIN Levels :
        /\ Calls(fn) /\ stack' = <<Waiting(fn, {})>> \o stack /\ call' = Levels[fn].operand
        /\ UNCHANGED <<pos, value>> /\ Parsing
  BY DEF CallLevel
<1>2. fn \in ParseFns /\ fn # "parse_primary" /\ Levels[fn].operand \in LevelFns
  BY DEF Levels, ParseFns, LevelFns
<1>3. tokens \in Inputs /\ parsed = "parsing" /\ pos \in Nat /\ IsSeq(stack)
  BY <1>1, <1>2, TrackedCall
<1>4. PICK q, f :
        /\ q \in Nat
        /\ Derives(tokens, Asked(fn), pos, q, f) /\ Completes(tokens, e, stack, q, f)
        /\ Follows(tokens, fn, q)
  BY <1>1, <1>2, TrackedCall
<1>5. Derives(tokens, fn, pos, q, f)
  BY <1>2, <1>4 DEF Asked
<1>6. PICK k \in Nat : \E l : Derives(tokens, Levels[fn].operand, pos, k, l) /\ Operands(tokens, fn, k, l, q, f)
  BY <1>3, <1>5, LevelOperands
<1>7. PICK l : Derives(tokens, Levels[fn].operand, pos, k, l) /\ Operands(tokens, fn, k, l, q, f)
  BY <1>6
<1>8. Follows(tokens, Levels[fn].operand, k)
  BY <1>3, <1>4, <1>7, FollowsOperand
<1> DEFINE frame == Waiting(fn, {})
<1>9. FrameEnds(tokens, frame, k, l, q, f)
  <2>1. frame.fn = fn /\ Joined(frame, l) = l
    BY JoinedTree DEF Waiting
  <2> HIDE DEF frame
  <2> QED
    BY <1>4, <1>7, <2>1, Zenon DEF FrameEnds
<1> HIDE DEF frame
<1>10. Completes(tokens, e, <<frame>> \o stack, k, l)
  BY <1>3, <1>4, <1>9, CompletesPush
<1>11. stack' = <<frame>> \o stack /\ pos' = pos
  BY <1>1 DEF frame
<1> QED
  BY <1>1, <1>2, <1>3, <1>7, <1>8, <1>10, <1>11, CallOnTrack

(* A `not` is the beginning of nothing but a `not` and its operand. *)
LEMMA CallNotTrack == ASSUME ParseInv, SoundInv, NEW e, TrackInv(e), CallNot PROVE TrackInv(e)'
<1> DEFINE frame == [fn |-> "parse_unary", start |-> StartAt(pos)]
<1>1. /\ Calls("parse_unary") /\ call' = "parse_unary" /\ IsWord(pos, "not") /\ Parsing
      /\ stack' = <<frame>> \o stack /\ pos' = Advance(pos)
  BY DEF CallNot, Calls
<1>2. /\ tokens \in Inputs /\ parsed = "parsing" /\ pos \in 0..(Len(tokens) - 1) /\ pos \in Nat
      /\ IsSeq(stack)
  BY <1>1, TrackedCall DEF ParseFns
<1>3. PICK q, f :
        q \in Nat /\ Derives(tokens, Asked("parse_unary"), pos, q, f) /\ Completes(tokens, e, stack, q, f)
  BY <1>1, TrackedCall DEF ParseFns
<1>4. Derives(tokens, "parse_unary", pos, q, f)
  BY <1>3 DEF Asked
<1>5. ~WritesLeaf(tokens, pos, q, f)
  BY <1>1, <1>2, HereReads
<1>6. Peek(pos).tag = "Word" /\ ~SignAt(tokens, pos, "LParen")
  BY <1>1, <1>2, InputWords DEF IsWord
<1>7. PICK g : Derives(tokens, "parse_unary", pos + 1, q, g) /\ f = NotTree(tokens, pos, g)
  BY <1>2, <1>3, <1>4, <1>5, <1>6, UnaryRule
<1>8. pos' = pos + 1
  BY <1>1, <1>2, <1>6, NextPosition
<1>9. FrameEnds(tokens, frame, q, g, q, f)
  <2>1. frame.fn = "parse_unary" /\ frame.start = TokenAt(tokens, pos).offset.start
    BY <1>2, InputTokens DEF StartAt
  <2> HIDE DEF frame
  <2>2. f = NotAt(g, Span(frame.start, offset_from_expr(g).end))
    BY <1>7, <2>1, Zenon DEF NotTree
  <2> QED
    BY <2>1, <2>2, Zenon DEF FrameEnds
<1> HIDE DEF frame
<1>10. Completes(tokens, e, <<frame>> \o stack, q, g)
  BY <1>2, <1>3, <1>9, CompletesPush
<1>11. Follows(tokens, "parse_unary", q) /\ "parse_unary" \in LevelFns
  BY DEF Follows, LevelFns
<1> QED
  BY <1>1, <1>2, <1>7, <1>8, <1>10, <1>11, CallOnTrack

(* parse_unary hands its call on. *)
LEMMA CallPrimaryTrack == ASSUME ParseInv, SoundInv, NEW e, TrackInv(e), CallPrimary PROVE TrackInv(e)'
<1>1. /\ Calls("parse_unary") /\ ~IsWord(pos, "not") /\ call' = "parse_primary" /\ Parsing
      /\ pos' = pos /\ stack' = stack /\ value' = value
  BY DEF CallPrimary
<1>2. tokens \in Inputs /\ parsed = "parsing" /\ pos \in 0..(Len(tokens) - 1)
  BY <1>1, TrackedCall DEF ParseFns
<1>3. PICK q, f :
        q \in Nat /\ Derives(tokens, Asked("parse_unary"), pos, q, f) /\ Completes(tokens, e, stack, q, f)
  BY <1>1, TrackedCall DEF ParseFns
<1>4. Derives(tokens, Asked("parse_primary"), pos, q, f) /\ Follows(tokens, "parse_primary", q)
  BY <1>3 DEF Asked, Follows
<1>5. ~WordAt(tokens, pos, "not")
  BY <1>1, <1>2, InputWords
<1>6. OnTrack(tokens, e, stack, "parse_primary", value, pos)
  BY <1>3, <1>4, <1>5 DEF OnTrack
<1>7. OnTrack(tokens, e, stack', call', value', pos')
  BY <1>1, <1>6, Zenon
<1> QED
  BY <1>1, <1>2, <1>7, MovesOnTrack

(* What a primary can be: a group, which begins with `(`, or a primitive,  *)
(* which begins with a word.                                               *)
LEMMA PrimaryTrack ==
  ASSUME ParseInv, SoundInv, NEW e, TrackInv(e), Calls("parse_primary")
  PROVE  /\ tokens \in Inputs /\ parsed = "parsing" /\ pos \in 0..(Len(tokens) - 1) /\ pos \in Nat
         /\ IsSeq(stack)
         /\ \E q \in Nat : \E f :
              /\ Completes(tokens, e, stack, q, f)
              /\ \/ Peek(pos).tag = "Word" /\ ReadHere = Read(q, f)
                 \/ /\ Peek(pos).tag = "LParen"
                    /\ \E k \in Nat : q = k + 1 /\ SignAt(tokens, k, "RParen")
                                      /\ Derives(tokens, "parse_or", pos + 1, k, f)
<1>1. /\ tokens \in Inputs /\ parsed = "parsing" /\ pos \in 0..(Len(tokens) - 1) /\ pos \in Nat
      /\ IsSeq(stack) /\ ~IsWord(pos, "not")
  BY TrackedCall DEF ParseFns
<1>2. PICK q, f :
        q \in Nat /\ Derives(tokens, Asked("parse_primary"), pos, q, f) /\ Completes(tokens, e, stack, q, f)
  BY TrackedCall DEF ParseFns
<1>3. Derives(tokens, "parse_unary", pos, q, f)
  BY <1>2 DEF Asked
<1>4. ~WordAt(tokens, pos, "not") /\ (SignAt(tokens, pos, "LParen") <=> Peek(pos).tag = "LParen")
  BY <1>1, InputWords
<1>5. \/ WritesLeaf(tokens, pos, q, f)
      \/ /\ SignAt(tokens, pos, "LParen")
         /\ \E k \in Nat : q = k + 1 /\ SignAt(tokens, k, "RParen") /\ Derives(tokens, "parse_or", pos + 1, k, f)
  BY <1>1, <1>2, <1>3, <1>4, UnaryRule
<1>6. CASE WritesLeaf(tokens, pos, q, f)
  BY <1>1, <1>2, <1>6, HereReads
<1> QED
  BY <1>1, <1>2, <1>4, <1>5, <1>6

(* A `(` is the beginning of nothing but a group. *)
LEMMA OpenGroupTrack == ASSUME ParseInv, SoundInv, NEW e, TrackInv(e), OpenGroup PROVE TrackInv(e)'
<1> DEFINE frame == [fn |-> "parse_primary"]
<1>1. /\ Calls("parse_primary") /\ call' = "parse_or" /\ Peek(pos).tag = "LParen"
      /\ stack' = <<frame>> \o stack /\ pos' = Advance(pos) /\ Parsing
  BY DEF OpenGroup
<1>2. /\ tokens \in Inputs /\ parsed = "parsing" /\ pos \in 0..(Len(tokens) - 1) /\ pos \in Nat
      /\ IsSeq(stack)
  BY <1>1, PrimaryTrack
<1>3. PICK q, f :
        /\ q \in Nat
        /\ Completes(tokens, e, stack, q, f)
        /\ \E k \in Nat : q = k + 1 /\ SignAt(tokens, k, "RParen") /\ Derives(tokens, "parse_or", pos + 1, k, f)
  BY <1>1, PrimaryTrack
<1>4. PICK k \in Nat : q = k + 1 /\ SignAt(tokens, k, "RParen") /\ Derives(tokens, "parse_or", pos + 1, k, f)
  BY <1>3
<1>5. pos' = pos + 1
  BY <1>1, <1>2, InputTokens, NotLast
<1>6. FrameEnds(tokens, frame, k, f, q, f)
  BY <1>4 DEF FrameEnds
<1> HIDE DEF frame
<1>7. Completes(tokens, e, <<frame>> \o stack, k, f)
  BY <1>2, <1>3, <1>6, CompletesPush
<1>8. Follows(tokens, "parse_or", k) /\ "parse_or" \in LevelFns
  BY <1>4 DEF Follows, LevelFns, WordAt, TextAt, SignAt
<1> QED
  BY <1>1, <1>2, <1>4, <1>5, <1>7, <1>8, CallOnTrack

(* A primitive is the one that is written there, and no error. *)
LEMMA ReadLeafTrack == ASSUME ParseInv, SoundInv, NEW e, TrackInv(e), ReadLeaf PROVE TrackInv(e)'
<1> DEFINE r == ReadHere
<1>1. /\ Peek(pos).tag = "Word" /\ Calls("parse_primary")
      /\ \/ \E f \in r.expr : Return(f, r.pos, stack)
         \/ \E err \in r.error : Fail(err.tag, err.offset)
  BY DEF ReadLeaf
<1>2. parsed = "parsing"
  BY <1>1, PrimaryTrack
<1>3. PICK q, f : q \in Nat /\ Completes(tokens, e, stack, q, f) /\ ReadHere = Read(q, f)
  BY <1>1, PrimaryTrack
<1>4. r.expr = {f} /\ r.error = {} /\ r.pos = q
  BY <1>3 DEF Read
<1> HIDE DEF r
<1>5. Return(f, q, stack)
  BY <1>1, <1>4
<1> QED
  BY <1>2, <1>3, <1>5, ReturnOnTrack

(* How a level goes on behind an operand. *)
LEMMA LevelTrack ==
  ASSUME ParseInv, SoundInv, NEW e, TrackInv(e), NEW fn \in DOMAIN Levels, Returns(fn), NEW f \in value
  PROVE  \E p, g : /\ Follows(tokens, fn, p) /\ Completes(tokens, e, Tail(stack), p, g)
                   /\ Operands(tokens, fn, pos, Joined(Head(stack), f), p, g)
<1>1. fn # "parse_unary" /\ fn # "parse_primary"
  BY DEF Levels
<1>2. PICK p, g : FrameEnds(tokens, Head(stack), pos, f, p, g) /\ Completes(tokens, e, Tail(stack), p, g)
  BY TrackedReturn
<1>3. Head(stack).fn = fn
  BY TrackedReturn
<1>4. Follows(tokens, fn, p) /\ Operands(tokens, fn, pos, Joined(Head(stack), f), p, g)
  BY <1>1, <1>2, <1>3, Zenon DEF FrameEnds
<1> QED
  BY <1>2, <1>4

(* An operator of the level stands there because another operand follows. *)
LEMMA NextOperandTrack == ASSUME ParseInv, SoundInv, NEW e, TrackInv(e), NextOperand PROVE TrackInv(e)'
<1>1. PICK fn \in DOMAIN Levels, f \in value :
        /\ Returns(fn) /\ IsWord(pos, Levels[fn].word)
        /\ stack' = <<Waiting(fn, {Joined(Head(stack), f)})>> \o Tail(stack)
        /\ pos' = Advance(pos) /\ call' = Levels[fn].operand /\ value' = {} /\ Parsing
  BY DEF NextOperand
<1> DEFINE l == Joined(Head(stack), f)
           frame == Waiting(fn, {l})
<1>2. /\ tokens \in Inputs /\ parsed = "parsing" /\ pos \in 0..(Len(tokens) - 1) /\ pos \in Nat
      /\ IsSeq(Tail(stack))
  BY <1>1, TrackedReturn
<1>3. PICK p, g : /\ Follows(tokens, fn, p) /\ Completes(tokens, e, Tail(stack), p, g)
                  /\ Operands(tokens, fn, pos, l, p, g)
  BY <1>1, LevelTrack
<1>4. stack' = <<frame>> \o Tail(stack)
  BY <1>1
<1> HIDE DEF l
<1>5. WordAt(tokens, pos, Levels[fn].word)
  BY <1>1, <1>2, InputWords
<1>6. pos # p
  <2>1. ASSUME WordAt(tokens, pos, "or") PROVE ~Follows(tokens, "parse_or", pos)
    BY <2>1 DEF Follows
  <2>2. ASSUME WordAt(tokens, pos, "and") PROVE ~Follows(tokens, "parse_and", pos)
    BY <2>2 DEF Follows
  <2>3. \/ fn = "parse_or" /\ Levels[fn].word = "or"
        \/ fn = "parse_and" /\ Levels[fn].word = "and"
    BY DEF Levels
  <2> QED
    BY <1>3, <1>5, <2>1, <2>2, <2>3
<1>7. PICK i, d : i \in Nat /\ OperandStep(tokens, fn, pos, l, i, d) /\ Operands(tokens, fn, i, d, p, g)
  BY <1>2, <1>3, <1>6, OperandsFirst
<1>8. PICK r : Derives(tokens, Levels[fn].operand, pos + 1, i, r) /\ d = BinaryTree(fn, l, r)
  BY <1>7 DEF OperandStep
<1>9. Follows(tokens, Levels[fn].operand, i)
  BY <1>2, <1>3, <1>7, FollowsOperand
<1>10. FrameEnds(tokens, frame, i, r, p, g)
  <2>1. frame.fn = fn /\ Joined(frame, r) = d
    BY <1>8, JoinedTree DEF Waiting
  <2> HIDE DEF frame
  <2> QED
    BY <1>3, <1>7, <2>1, Zenon DEF FrameEnds
<1> HIDE DEF frame
<1>11. Completes(tokens, e, <<frame>> \o Tail(stack), i, r)
  BY <1>2, <1>3, <1>10, CompletesPush
<1>12. pos' = pos + 1
  BY <1>1, <1>2, NextPosition DEF IsWord
<1>13. Levels[fn].operand \in LevelFns
  BY DEF Levels, LevelFns
<1> QED
  BY <1>1, <1>2, <1>4, <1>8, <1>9, <1>11, <1>12, <1>13, CallOnTrack

(* Without one the level is at its end. *)
LEMMA LevelDoneTrack == ASSUME ParseInv, SoundInv, NEW e, TrackInv(e), LevelDone PROVE TrackInv(e)'
<1>1. PICK fn \in DOMAIN Levels, f \in value :
        /\ Returns(fn) /\ ~IsWord(pos, Levels[fn].word)
        /\ Return(Joined(Head(stack), f), pos, Tail(stack))
  BY DEF LevelDone
<1> DEFINE l == Joined(Head(stack), f)
<1>2. tokens \in Inputs /\ parsed = "parsing" /\ pos \in 0..(Len(tokens) - 1)
  BY <1>1, TrackedReturn
<1>3. PICK p, g : Completes(tokens, e, Tail(stack), p, g) /\ Operands(tokens, fn, pos, l, p, g)
  BY <1>1, LevelTrack
<1>4. Return(l, pos, Tail(stack))
  BY <1>1
<1> HIDE DEF l
<1>5. ~WordAt(tokens, pos, Levels[fn].word)
  BY <1>1, <1>2, InputWords
<1>6. pos = p /\ l = g
  BY <1>2, <1>3, <1>5, OperandsFirst DEF OperandStep
<1>7. Completes(tokens, e, Tail(stack), pos, l)
  BY <1>3, <1>6
<1> QED
  BY <1>2, <1>4, <1>7, ReturnOnTrack

(* A `not` returns with its operand. *)
LEMMA NotDoneTrack == ASSUME ParseInv, SoundInv, NEW e, TrackInv(e), NotDone PROVE TrackInv(e)'
<1>1. Returns("parse_unary") /\ "parse_unary" \notin DOMAIN Levels
  BY DEF NotDone, Levels
<1>2. PICK f \in value :
        Return(NotAt(f, Span(Head(stack).start, offset_from_expr(f).end)), pos, Tail(stack))
  BY DEF NotDone
<1>3. parsed = "parsing" /\ Head(stack).fn = "parse_unary"
  BY <1>1, <1>2, TrackedReturn
<1>4. PICK p, g : FrameEnds(tokens, Head(stack), pos, f, p, g) /\ Completes(tokens, e, Tail(stack), p, g)
  BY <1>1, <1>2, TrackedReturn
<1>5. "parse_unary" # "parse_primary"
  OBVIOUS
<1>6. p = pos /\ g = NotAt(f, Span(Head(stack).start, offset_from_expr(f).end))
  BY <1>1, <1>3, <1>4, <1>5, Zenon DEF FrameEnds
<1>7. Return(g, pos, Tail(stack)) /\ Completes(tokens, e, Tail(stack), pos, g)
  BY <1>2, <1>4, <1>6, Zenon
<1> QED
  BY <1>3, <1>7, ReturnOnTrack

(* A group that is asked for what stands behind it. *)
LEMMA GroupTrack ==
  ASSUME ParseInv, SoundInv, NEW e, TrackInv(e), Returns("parse_primary"), NEW f \in value
  PROVE  /\ tokens \in Inputs /\ parsed = "parsing" /\ pos \in 0..(Len(tokens) - 1)
         /\ Peek(pos).tag = "RParen" /\ Completes(tokens, e, Tail(stack), pos + 1, f)
<1>1. "parse_primary" \notin DOMAIN Levels /\ "parse_primary" # "parse_unary"
  BY DEF Levels
<1>2. /\ tokens \in Inputs /\ parsed = "parsing" /\ pos \in 0..(Len(tokens) - 1)
      /\ Head(stack).fn = "parse_primary"
  BY TrackedReturn
<1>3. PICK p, g : FrameEnds(tokens, Head(stack), pos, f, p, g) /\ Completes(tokens, e, Tail(stack), p, g)
  BY TrackedReturn
<1>4. SignAt(tokens, pos, "RParen") /\ p = pos + 1 /\ g = f
  BY <1>1, <1>2, <1>3, Zenon DEF FrameEnds
<1>5. Peek(pos).tag = "RParen"
  BY <1>2, <1>4, InputWords
<1> QED
  BY <1>2, <1>3, <1>4, <1>5

(* A group returns behind its `)`. *)
LEMMA CloseGroupTrack == ASSUME ParseInv, SoundInv, NEW e, TrackInv(e), CloseGroup PROVE TrackInv(e)'
<1>1. Returns("parse_primary")
  BY DEF CloseGroup
<1>2. PICK f \in value : Return(f, Advance(pos), Tail(stack))
  BY DEF CloseGroup
<1>3. /\ tokens \in Inputs /\ parsed = "parsing" /\ pos \in 0..(Len(tokens) - 1)
      /\ Peek(pos).tag = "RParen" /\ Completes(tokens, e, Tail(stack), pos + 1, f)
  BY <1>1, <1>2, GroupTrack
<1>4. Advance(pos) = pos + 1
  BY <1>3, InputTokens, NotLast
<1>5. Completes(tokens, e, Tail(stack), Advance(pos), f)
  BY <1>3, <1>4
<1> QED
  BY <1>2, <1>3, <1>5, ReturnOnTrack

(* None of the errors. *)
LEMMA NoErrorTrack ==
  ASSUME ParseInv, SoundInv, NEW e, Written(e), TrackInv(e), ParseEmpty \/ NoPrimary \/ NotClosed
  PROVE  FALSE
<1>1. CASE ParseEmpty
  <2>1. tokens \in Inputs /\ Peek(0).tag = "Eof" /\ TokensOK(tokens) /\ pos \in 0..(Len(tokens) - 1)
    BY <1>1 DEF ParseEmpty, SoundInv, ParseInv
  <2>2. Len(tokens) \in Nat
    BY <2>1, NotLast
  <2>3. 0 < Len(tokens) - 1
    BY <2>1, DerivedSpan DEF Written
  <2>4. 1 \in 1..(Len(tokens) - 1)
    BY <2>2, <2>3
  <2>5. tokens[1].tag # "Eof"
    BY <2>1, <2>4 DEF TokensOK, WellLexed
  <2> QED
    BY <2>1, <2>5 DEF Peek
<1>2. CASE NoPrimary
  <2>1. Calls("parse_primary") /\ Peek(pos).tag \in {"RParen", "Eof", "Dash"}
    BY <1>2 DEF NoPrimary
  <2>2. Peek(pos).tag \in {"Word", "LParen"}
    BY <2>1, PrimaryTrack
  <2> QED
    BY <2>1, <2>2
<1>3. CASE NotClosed
  <2>1. Returns("parse_primary") /\ Peek(pos).tag # "RParen"
    BY <1>3 DEF NotClosed
  <2>2. PICK f : f \in value
    BY <2>1 DEF Returns, ParseInv
  <2> QED
    BY <2>1, <2>2, GroupTrack
<1> QED
  BY <1>1, <1>2, <1>3

(* The first call is for the whole text, up to its Eof. *)
LEMMA ParseBeginTrack ==
  ASSUME ParseInv, SoundInv, NEW e, Written(e), TrackInv(e), ParseBegin PROVE TrackInv(e)'
<1>1. /\ parsed = "called" /\ parsed' = "parsing"
      /\ tokens' = tokens /\ pos' = pos /\ stack' = stack /\ call' = call /\ value' = value
  BY DEF ParseBegin
<1>2. tokens \in Inputs /\ pos = 0 /\ stack = <<>> /\ call = "parse_or"
  BY <1>1 DEF SoundInv, TrackInv
<1> DEFINE n == Len(tokens) - 1
<1>3. Derives(tokens, Asked("parse_or"), 0, n, e)
  BY DEF Written, Asked
<1>4. Completes(tokens, e, <<>>, n, e)
  BY CompletesFirst
<1>5. Follows(tokens, "parse_or", n)
  <2>1. SignAt(tokens, n, "Eof")
    BY <1>2, InputShape
  <2> QED
    BY <2>1 DEF Follows, WordAt, TextAt, SignAt
<1> HIDE DEF n
<1>6. OnTrack(tokens, e, <<>>, "parse_or", value, 0)
  BY <1>3, <1>4, <1>5 DEF OnTrack
<1>7. OnTrack(tokens', e, stack', call', value', pos')
  BY <1>1, <1>2, <1>6, Zenon
<1> QED
  BY <1>1, <1>7 DEF TrackInv

(* At the end of the text stands the tree. *)
LEMMA ExpectEofTrack == ASSUME ParseInv, SoundInv, NEW e, TrackInv(e), expect_eof PROVE TrackInv(e)'
<1>1. parsed = "parsing" /\ call = "return" /\ stack = <<>>
  BY DEF expect_eof, AtEnd
<1>2. tokens \in Inputs /\ pos \in 0..(Len(tokens) - 1)
  BY DEF SoundInv, ParseInv
<1>3. \A f \in value : Completes(tokens, e, <<>>, pos, f)
  BY <1>1 DEF TrackInv, OnTrack
<1>4. \A f \in value : pos = Len(tokens) - 1 /\ f = e
  BY <1>3, CompletesFirst
<1>5. pos = Len(tokens) - 1
  BY <1>1, <1>4 DEF ParseInv
<1>6. Peek(pos).tag = "Eof"
  <2>1. SignAt(tokens, pos, "Eof")
    BY <1>2, <1>5, InputShape
  <2> QED
    BY <1>2, <2>1, InputWords
<1>7. parsed' = "ok" /\ value' = value
  BY <1>6 DEF expect_eof
<1> QED
  BY <1>4, <1>7 DEF TrackInv

(* Every step keeps it. *)
LEMMA TrackNext ==
  ASSUME ParseInv, SoundInv, NEW e, Written(e), TrackInv(e), [ParseNext]_parseVars PROVE TrackInv(e)'
<1>1. CASE ParseEmpty \/ NoPrimary \/ NotClosed
  BY <1>1, NoErrorTrack
<1>2. CASE ParseBegin
  BY <1>2, ParseBeginTrack
<1>3. CASE CallLevel
  BY <1>3, CallLevelTrack
<1>4. CASE CallNot
  BY <1>4, CallNotTrack
<1>5. CASE CallPrimary
  BY <1>5, CallPrimaryTrack
<1>6. CASE OpenGroup
  BY <1>6, OpenGroupTrack
<1>7. CASE ReadLeaf
  BY <1>7, ReadLeafTrack
<1>8. CASE NextOperand
  BY <1>8, NextOperandTrack
<1>9. CASE LevelDone
  BY <1>9, LevelDoneTrack
<1>10. CASE NotDone
  BY <1>10, NotDoneTrack
<1>11. CASE CloseGroup
  BY <1>11, CloseGroupTrack
<1>12. CASE expect_eof
  BY <1>12, ExpectEofTrack
<1>13. CASE UNCHANGED parseVars
  <2>1. /\ tokens' = tokens /\ pos' = pos /\ stack' = stack /\ call' = call /\ value' = value
        /\ parsed' = parsed
    BY <1>13 DEF parseVars
  <2>2. parsed = "parsing" => OnTrack(tokens', e, stack', call', value', pos')
    BY <2>1, Zenon DEF TrackInv
  <2> QED
    BY <2>1, <2>2 DEF TrackInv
<1> QED
  BY <1>1, <1>2, <1>3, <1>4, <1>5, <1>6, <1>7, <1>8, <1>9, <1>10, <1>11, <1>12, <1>13 DEF ParseNext

(* So it does for every tree of the text at once. *)
LEMMA CompleteNext == ParseInv /\ SoundInv /\ CompleteInv /\ [ParseNext]_parseVars => CompleteInv'
<1> SUFFICES ASSUME ParseInv, SoundInv, CompleteInv, [ParseNext]_parseVars, NEW e, Written(e)'
             PROVE  TrackInv(e)'
  BY DEF CompleteInv
<1>1. tokens' = tokens
  BY DEF ParseNext, ParseEmpty, ParseBegin, CallLevel, CallNot, CallPrimary, OpenGroup, ReadLeaf, NoPrimary,
         NextOperand, LevelDone, NotDone, CloseGroup, NotClosed, expect_eof, Return, Fail, Parsing, parseVars
<1>2. Derives(tokens', "parse_or", 0, Len(tokens') - 1, e)
  BY DEF Written
<1>3. Written(e)
  BY <1>1, <1>2, Zenon DEF Written
<1>4. TrackInv(e)
  BY <1>3 DEF CompleteInv
<1> QED
  BY <1>3, <1>4, TrackNext

(* It holds at the first call. *)
LEMMA CompleteInit == ParseInit => CompleteInv
  BY DEF ParseInit, CompleteInv, TrackInv

-----------------------------------------------------------------------------
(* The parser and the grammar agree. *)

(* The trees of a text, as Grammar finds them. *)
LEMMA TreesDerived ==
  ASSUME NEW t \in Inputs, NEW e
  PROVE  e \in Trees(t, Len(t) - 1) <=> Derives(t, "parse_or", 0, Len(t) - 1, e)
<1> DEFINE n == Len(t) - 1
           Whole(x) == x.fn = "parse_or" /\ x.from = 0 /\ x.upto = n
<1>1. Len(t) \in Nat /\ n \in Nat /\ n <= Len(t) /\ n - 0 <= n
  BY InputShape
<1>2. e \in Trees(t, n) <=> \E x \in Chart(t)[n] : Whole(x) /\ x.tree = e
  BY DEF Trees
<1>3. ASSUME NEW x \in Chart(t)[n], Whole(x), x.tree = e PROVE Derives(t, "parse_or", 0, n, e)
  <2> HIDE DEF n
  <2>1. x \in Chart(t)[Len(t)]
    BY <1>1, <1>3, ChartGrows
  <2>2. IsPiece(t, x)
    BY <1>1, <1>3, ChartSpan
  <2>3. PICK fn, i, j, f : x = Item(fn, i, j, f)
    BY <2>2 DEF IsPiece
  <2>4. fn = "parse_or" /\ i = 0 /\ j = n /\ f = e
    BY <1>3, <2>3, ItemParts
  <2> QED
    BY <2>1, <2>3, <2>4, Zenon DEF Derives
<1>4. ASSUME Derives(t, "parse_or", 0, n, e) PROVE \E x \in Chart(t)[n] : Whole(x) /\ x.tree = e
  <2> DEFINE x == Item("parse_or", 0, n, e)
  <2> HIDE DEF n
  <2>1. x.fn = "parse_or" /\ x.from = 0 /\ x.upto = n /\ x.tree = e
    BY ItemParts
  <2>2. x \in Chart(t)[Len(t)]
    BY <1>4 DEF Derives
  <2> HIDE DEF x
  <2>3. x.upto - x.from <= n
    BY <1>1, <2>1
  <2>4. x \in Chart(t)[n]
    BY <1>1, <2>2, <2>3, ChartHas
  <2> QED
    BY <2>1, <2>4
<1> HIDE DEF Whole
<1> QED
  BY <1>2, <1>3, <1>4 DEF n

(* What is read is written, and what is written is read. *)
LEMMA BothWays == ParseInv /\ SoundInv /\ CompleteInv => ReadsGrammar
<1> SUFFICES ASSUME ParseInv, SoundInv, CompleteInv PROVE ReadsGrammar
  OBVIOUS
<1> DEFINE trees == Trees(tokens, Len(tokens) - 1)
<1>1. tokens \in Inputs
  BY DEF SoundInv
<1>2. \A e : e \in trees <=> Written(e)
  BY <1>1, TreesDerived DEF Written
<1> HIDE DEF trees
<1>3. ASSUME parsed = "ok" PROVE trees = value
  <2>1. \A e \in value : e \in trees
    BY <1>2, <1>3, SoundResult DEF ReturnsFilter, Written
  <2>2. \A e \in trees : \A f \in value : f = e
    BY <1>2, <1>3 DEF CompleteInv, TrackInv
  <2>3. value # {}
    BY <1>3 DEF SoundInv, ParseInv
  <2> QED
    BY <2>1, <2>2, <2>3
<1>4. ASSUME parsed = "error" PROVE trees = {}
  BY <1>2, <1>4 DEF CompleteInv, TrackInv
<1> QED
  BY <1>3, <1>4 DEF ReadsGrammar, trees

(* For every token sequence the lexer can produce, of any length: parse    *)
(* returns the one tree that the grammar gives the text, and refuses       *)
(* exactly the texts that it gives none.                                   *)
THEOREM ParseReadsGrammar == ParseSpec => []ReadsGrammar
<1>1. ParseInit => SoundInv /\ CompleteInv
  BY SoundInit, CompleteInit
<1>2. ParseInv /\ SoundInv /\ CompleteInv /\ [ParseNext]_parseVars => SoundInv' /\ CompleteInv'
  BY SoundNext, CompleteNext
<1>3. ParseInv /\ SoundInv /\ CompleteInv => ReadsGrammar
  BY BothWays
<1> QED
  BY <1>1, <1>2, <1>3, ParseInvariant, PTL DEF ParseSpec

-----------------------------------------------------------------------------
(* The leaves fit the code generator. *)

(* A layer of the nodes is the one before it and what is right below it. *)
LEMMA NodeLayers ==
  ASSUME NEW e
  PROVE  /\ Nodes(e)[0] = {e}
         /\ \A n \in Nat : Nodes(e)[n + 1] = Nodes(e)[n] \cup Below(Nodes(e)[n])
<1> DEFINE base == {e}
           Step(S) == S \cup Below(S)
           Rec(c, n) == IF n = 0 THEN base ELSE Step(c[n - 1])
           UpTo(c, m) == c = [n \in 0..m |-> Rec(c, n)]
<1>1. Nodes(e) = CHOOSE c : c = [n \in Nat |-> Rec(c, n)]
  BY Zenon DEF Nodes
<1> HIDE DEF Step, base
<1>2. ASSUME NEW m \in Nat PROVE \E c : UpTo(c, m)
  <2> DEFINE T == {k \in Nat : ~ \E c : UpTo(c, k)}
  <2>1. ASSUME T # {} PROVE FALSE
    <3>1. PICK k \in T : \A l \in T : k <= l
      BY <2>1, LeastNumber
    <3>2. CASE k = 0
      <4> DEFINE c == [n \in 0..0 |-> base]
      <4>1. \A n \in 0..0 : Rec(c, n) = base
        OBVIOUS
      <4>2. UpTo(c, 0)
        BY <4>1
      <4> QED
        BY <3>1, <3>2, <4>2
    <3>3. CASE k # 0
      <4>1. k \in Nat /\ k - 1 \in Nat /\ ~(k <= k - 1)
        BY <3>3
      <4>2. PICK c : UpTo(c, k - 1)
        <5> HIDE DEF UpTo
        <5>1. k - 1 \notin T
          BY <3>1, <4>1, Zenon
        <5> QED
          BY <4>1, <5>1
      <4> DEFINE d == [n \in 0..k |-> IF n = k THEN Step(c[k - 1]) ELSE c[n]]
      <4>3. ASSUME NEW n \in 0..k PROVE d[n] = Rec(d, n)
        <5>1. CASE n = k
          <6>1. d[k] = Step(c[k - 1]) /\ d[k - 1] = c[k - 1]
            BY <3>1, <3>3
          <6> QED
            BY <3>3, <5>1, <6>1
        <5>2. CASE n # k
          <6>1. n \in 0..(k - 1) /\ d[n] = c[n] /\ (n # 0 => d[n - 1] = c[n - 1])
            BY <3>1, <5>2
          <6>2. c[n] = Rec(c, n)
            BY <4>2, <6>1
          <6> QED
            BY <6>1, <6>2
        <5> QED
          BY <5>1, <5>2
      <4>4. UpTo(d, k)
        BY <4>3
      <4> QED
        BY <3>1, <4>4
    <3> QED
      BY <3>2, <3>3
  <2> QED
    BY <2>1
<1>3. ASSUME NEW m \in Nat, NEW c, UpTo(c, m), NEW p \in Nat, NEW d, UpTo(d, p), NEW n \in 0..m, n \in 0..p
      PROVE  c[n] = d[n]
  <2> DEFINE T == {k \in 0..m : k \in 0..p /\ c[k] # d[k]}
  <2>0. /\ T \subseteq Nat
        /\ \A k : k \in T <=> k \in 0..m /\ k \in 0..p /\ c[k] # d[k]
    OBVIOUS
  <2> HIDE DEF T
  <2>1. ASSUME T # {} PROVE FALSE
    <3>2. PICK k \in T : \A l \in T : k <= l
      BY <2>0, <2>1, LeastNumber
    <3>3. c[k] = Rec(c, k) /\ d[k] = Rec(d, k) /\ k \in 0..m /\ k \in 0..p /\ c[k] # d[k]
      BY <1>3, <2>0
    <3>4. k # 0
      BY <3>3
    <3>5. k - 1 \in 0..m /\ k - 1 \in 0..p /\ ~(k <= k - 1)
      BY <3>3, <3>4
    <3>6. c[k - 1] = d[k - 1]
      BY <2>0, <3>2, <3>5
    <3> QED
      BY <3>3, <3>4, <3>6
  <2> QED
    BY <1>3, <2>0, <2>1
<1> DEFINE F(m) == CHOOSE c : UpTo(c, m)
           g == [n \in Nat |-> F(n)[n]]
<1>4. \A m \in Nat : UpTo(F(m), m)
  BY <1>2
<1> HIDE DEF F
<1>5. ASSUME NEW n \in Nat PROVE g[n] = Rec(g, n)
  <2>1. F(n)[n] = Rec(F(n), n)
    BY <1>4
  <2>2. CASE n = 0
    BY <2>1, <2>2
  <2>3. CASE n # 0
    <3>1. n - 1 \in Nat /\ n - 1 \in 0..n /\ n - 1 \in 0..(n - 1)
      BY <2>3
    <3>2. UpTo(F(n), n) /\ UpTo(F(n - 1), n - 1)
      BY <1>4, <3>1
    <3>3. F(n)[n - 1] = F(n - 1)[n - 1]
      <4> HIDE DEF UpTo
      <4> QED
        BY <1>3, <3>1, <3>2
    <3> QED
      BY <2>1, <2>3, <3>1, <3>3
  <2> QED
    BY <2>2, <2>3
<1>6. g = [n \in Nat |-> Rec(g, n)]
  BY <1>5
<1>7. Nodes(e) = [n \in Nat |-> Rec(Nodes(e), n)]
  BY <1>1, <1>6
<1>8. ASSUME NEW n \in Nat PROVE Nodes(e)[n + 1] = Step(Nodes(e)[n])
  <2>1. n + 1 \in Nat /\ n + 1 # 0 /\ (n + 1) - 1 = n
    OBVIOUS
  <2> QED
    BY <1>7, <2>1
<1>9. Nodes(e)[0] = base
  BY <1>7
<1> QED
  BY <1>8, <1>9, Zenon DEF Step, base

(* A tree of some piece of the text. *)
PartOf(t, e) == \E fn, i, j : Derives(t, fn, i, j, e)

(* A leaf fits, and what is right below any other node is a tree too. *)
Sound(t, e) ==
  /\ e.tag \in {"Leaf", "EtherLeaf"} => LeafFits(e)
  /\ e.tag = "Not" => PartOf(t, e.inner)
  /\ e.tag \in {"And", "Or"} => PartOf(t, e.l) /\ PartOf(t, e.r)

(* A primitive that is written fits. *)
LEMMA WrittenFits ==
  ASSUME tokens \in Inputs, NEW i \in 0..(Len(tokens) - 1), NEW j, NEW e, WritesLeaf(tokens, i, j, e)
  PROVE  LeafFits(e) /\ e.tag \in {"Leaf", "EtherLeaf"}
<1>1. ASSUME NEW r, r = Read(j, e), Spelled(r, i) PROVE LeafFits(e)
  BY <1>1 DEF Spelled, Read
<1>2. ASSUME WritesPrimitive(tokens, i, j, e) PROVE LeafFits(e)
  <2>1. parse_primitive(i) = Read(j, e)
    BY <1>2, PrimitiveReads
  <2>2. Spelled(parse_primitive(i), i)
    BY PrimitiveSpelled
  <2> QED
    BY <1>1, <2>1, <2>2, Zenon
<1>3. ASSUME WritesEther(tokens, i, j, e) PROVE LeafFits(e)
  <2>1. parse_ether_primitive(i) = Read(j, e)
    BY <1>3, EtherReads
  <2>2. PICK w \in EtherKinds \cup {"ether"} : WordAt(tokens, i, w)
    BY <1>3, EtherReads
  <2>3. Peek(i).tag = "Word" /\ Peek(i).text.text \in EtherKinds \cup {"ether"}
    BY <2>2, InputWords DEF IsWord
  <2>4. Spelled(parse_ether_primitive(i), i)
    BY <2>3, EtherSpelled
  <2> QED
    BY <1>1, <2>1, <2>4, Zenon
<1>4. LeafFits(e)
  BY <1>2, <1>3 DEF WritesLeaf
<1> QED
  BY <1>4 DEF LeafFits

(* Every tree of a piece is sound, the short pieces first. *)
LEMMA PartSound ==
  ASSUME tokens \in Inputs, NEW e, PartOf(tokens, e)
  PROVE  Sound(tokens, e)
<1> DEFINE T == {n \in Nat : \E fn, i, j, f : /\ Derives(tokens, fn, i, j, f) /\ j - i = n
                                              /\ ~Sound(tokens, f)}
<1>1. ASSUME T # {} PROVE FALSE
  <2>1. T \subseteq Nat
    OBVIOUS
  <2>2. PICK n \in T : \A m \in T : n <= m
    BY <1>1, <2>1, LeastNumber
  <2>3. n \in Nat /\ \A fn, i, j, f : Derives(tokens, fn, i, j, f) /\ j - i < n => Sound(tokens, f)
    <3>1. n \in Nat
      BY <2>2
    <3>2. ASSUME NEW fn, NEW i, NEW j, NEW f, Derives(tokens, fn, i, j, f), j - i < n, ~Sound(tokens, f)
          PROVE  FALSE
      <4>1. j - i \in Nat
        BY <3>2, DerivedSpan
      <4>2. j - i \in T
        BY <3>2, <4>1
      <4>3. n <= j - i
        BY <2>2, <4>2
      <4> QED
        BY <3>1, <3>2, <4>1, <4>3
    <3> QED
      BY <3>1, <3>2
  <2>4. ASSUME NEW i, NEW j, NEW f, Derives(tokens, "parse_unary", i, j, f), j - i = n
        PROVE  Sound(tokens, f)
    <3>1. i \in Nat /\ j \in Nat /\ i < j /\ j < Len(tokens) /\ Len(tokens) \in Nat
      BY <2>4, DerivedSpan, InputShape
    <3>2. CASE WritesLeaf(tokens, i, j, f)
      <4>1. i \in 0..(Len(tokens) - 1)
        BY <3>1
      <4>2. LeafFits(f) /\ f.tag \in {"Leaf", "EtherLeaf"}
        BY <3>2, <4>1, WrittenFits
      <4> QED
        BY <4>2 DEF Sound
    <3>3. ASSUME NEW g, Derives(tokens, "parse_unary", i + 1, j, g), f = NotTree(tokens, i, g)
          PROVE  Sound(tokens, f)
      <4>1. f.tag = "Not" /\ f.inner = g
        BY <3>3 DEF NotTree, NotAt
      <4>2. PartOf(tokens, g)
        BY <3>3 DEF PartOf
      <4> QED
        BY <4>1, <4>2 DEF Sound
    <3>4. ASSUME NEW k \in Nat, j = k + 1, Derives(tokens, "parse_or", i + 1, k, f) PROVE Sound(tokens, f)
      <4>1. k - (i + 1) < n
        BY <2>4, <3>1, <3>4
      <4> QED
        BY <2>3, <3>4, <4>1
    <3> QED
      BY <2>4, <3>1, <3>2, <3>3, <3>4, UnaryRule
  <2>5. ASSUME NEW fn \in DOMAIN Levels, NEW i, NEW j, NEW f, Derives(tokens, fn, i, j, f),
               Derives(tokens, Levels[fn].operand, i, j, f) => Sound(tokens, f)
        PROVE  Sound(tokens, f)
    <3>1. i \in Nat /\ j \in Nat
      BY <2>5, DerivedSpan
    <3>2. ASSUME NEW k \in Nat, NEW l, NEW r, Derives(tokens, fn, i, k, l),
                 Derives(tokens, Levels[fn].operand, k + 1, j, r), f = BinaryTree(fn, l, r)
          PROVE  Sound(tokens, f)
      <4>1. f.tag \in {"And", "Or"} /\ f.l = l /\ f.r = r
        BY <3>2 DEF BinaryTree, BinaryAt, Levels
      <4>2. PartOf(tokens, l) /\ PartOf(tokens, r)
        BY <3>2 DEF PartOf
      <4> QED
        BY <4>1, <4>2 DEF Sound
    <3> QED
      BY <2>5, <3>1, <3>2, LevelRule
  <2>6. PICK fn, i, j, f : Derives(tokens, fn, i, j, f) /\ j - i = n /\ ~Sound(tokens, f)
    BY <2>2
  <2>7. /\ "parse_and" \in DOMAIN Levels /\ Levels["parse_and"].operand = "parse_unary"
        /\ "parse_or" \in DOMAIN Levels /\ Levels["parse_or"].operand = "parse_and"
    BY DEF Levels
  <2>8. ASSUME Derives(tokens, "parse_and", i, j, f) PROVE FALSE
    BY <2>4, <2>5, <2>6, <2>7, <2>8
  <2>9. fn \in LevelFns
    BY <2>6, DerivedSpan
  <2> QED
    BY <2>4, <2>5, <2>6, <2>7, <2>8, <2>9 DEF LevelFns
<1>2. PICK fn, i, j : Derives(tokens, fn, i, j, e)
  BY DEF PartOf
<1>3. j - i \in Nat
  BY <1>2, DerivedSpan
<1> QED
  BY <1>1, <1>2, <1>3

(* So are the nodes below it, at every depth. *)
LEMMA NodesPart ==
  ASSUME tokens \in Inputs, NEW e, PartOf(tokens, e), NEW n \in Nat, NEW f \in Nodes(e)[n]
  PROVE  PartOf(tokens, f)
<1> DEFINE N(k) == Nodes(e)[k]
           T == {k \in Nat : \E g \in N(k) : ~PartOf(tokens, g)}
<1>1. ASSUME T # {} PROVE FALSE
  <2>1. T \subseteq Nat
    OBVIOUS
  <2>2. PICK k \in T : \A m \in T : k <= m
    BY <1>1, <2>1, LeastNumber
  <2>3. PICK g \in N(k) : ~PartOf(tokens, g)
    BY <2>2
  <2>4. k \in Nat /\ k # 0
    BY <2>2, <2>3, NodeLayers
  <2>5. k - 1 \in Nat /\ (k - 1) + 1 = k /\ ~(k <= k - 1)
    BY <2>4
  <2>6. N(k) = N(k - 1) \cup Below(N(k - 1))
    BY <2>5, NodeLayers, Zenon
  <2> HIDE DEF N
  <2>7. \A h \in N(k - 1) : PartOf(tokens, h)
    BY <2>2, <2>5
  <2>8. g \in Below(N(k - 1))
    BY <2>3, <2>6, <2>7
  <2>9. PICK h \in N(k - 1) : \/ h.tag = "Not" /\ g = h.inner
                              \/ h.tag \in {"And", "Or"} /\ g \in {h.l, h.r}
    BY <2>8 DEF Below
  <2>10. Sound(tokens, h)
    BY <2>7, PartSound
  <2> QED
    BY <2>3, <2>9, <2>10 DEF Sound
<1> HIDE DEF N
<1>2. n \notin T
  BY <1>1
<1> QED
  BY <1>2 DEF N

(* What is returned is a tree of what has been read. *)
LEMMA FitsResult == ParseInv /\ SoundInv => FitsCodegen
<1> SUFFICES ASSUME ParseInv, SoundInv, NEW e \in value, NEW f \in Nodes(e)[Len(tokens)],
                    f.tag \in {"Leaf", "EtherLeaf"}
             PROVE  LeafFits(f)
  BY DEF FitsCodegen
<1>1. tokens \in Inputs /\ call = "return"
  BY DEF SoundInv, ParseInv
<1>2. PartOf(tokens, e)
  BY <1>1 DEF SoundInv, ReadUpTo, PartOf
<1>3. Len(tokens) \in Nat
  BY <1>1, InputShape
<1>4. Sound(tokens, f)
  BY <1>1, <1>2, <1>3, NodesPart, PartSound
<1> QED
  BY <1>4 DEF Sound

(* Whatever is returned, however deep it is nested, has only leaves that   *)
(* the code generator can compute with: prefixes no longer than the        *)
(* address, ports of 16 bits, ranges in order.                             *)
THEOREM ParseFitsCodegen == ParseSpec => []FitsCodegen
<1>1. ParseInit => SoundInv
  BY SoundInit
<1>2. ParseInv /\ SoundInv /\ [ParseNext]_parseVars => SoundInv'
  BY SoundNext
<1>3. ParseInv /\ SoundInv => FitsCodegen
  BY FitsResult
<1> QED
  BY <1>1, <1>2, <1>3, ParseInvariant, PTL DEF ParseSpec
=============================================================================
