------------------------------- MODULE Parser -------------------------------
(***************************************************************************)
(* parser.rs: `parse`.  The recursion of parse_or, parse_and, parse_unary  *)
(* and parse_primary is an explicit stack of the calls that wait for a     *)
(* result; one action per call, per return and per turn of their loops.    *)
(* A primitive, which has no recursion, is read in one step.               *)
(*                                                                         *)
(* `pos` counts from 0 as in the code: the token at i is tokens[i + 1].    *)
(***************************************************************************)
EXTENDS Literal, Token, FiniteSets

CONSTANT Inputs   \* the token sequences `parse` is called with

(* What the lexer guarantees, and the standard library of a word. *)
ASSUME ParserAssumption ==
  \A tokens \in Inputs :
     /\ tokens \in Seq({tokens[i] : i \in DOMAIN tokens})
     /\ WellLexed(tokens, tokens[Len(tokens)].offset.end)
     /\ \A i \in DOMAIN tokens :
          tokens[i].offset \in Offset /\ (tokens[i].tag = "Word" => IsText(tokens[i].text))

VARIABLES tokens, pos,
          stack,      \* the waiting calls, the innermost first
          call,       \* the function being called, or "return"
          value,      \* {} or {the expression being returned}
          parsed,     \* "called", "parsing", "ok" or "error"
          parseError  \* {} or {the error}

parseVars == <<tokens, pos, stack, call, value, parsed, parseError>>

ParseInit ==
  /\ tokens \in Inputs
  /\ pos = 0
  /\ stack = <<>>
  /\ call = "parse_or"
  /\ value = {}
  /\ parsed = "called"
  /\ parseError = {}

-----------------------------------------------------------------------------
(* Parser::peek, word and advance at position i. *)
Peek(i) == tokens[i + 1]
IsWord(i, text) == Peek(i).tag = "Word" /\ Peek(i).text.text = text
Advance(i) == IF i + 1 < Len(tokens) THEN i + 1 ELSE i
StartAt(i) == Peek(i).offset.start

(* The end of the token read last, `self.pos.saturating_sub(1)`. *)
EndBefore(i) == Peek(IF i = 0 THEN 0 ELSE i - 1).offset.end

(* The outcome of a function that reads a primitive from position i on. *)
Read(i, expr) == [pos |-> i, expr |-> {expr}, error |-> {}]
CompileError(tag, offset) == [tag |-> tag, offset |-> offset]
Fails(tag, offset) == [pos |-> 0, expr |-> {}, error |-> {CompileError(tag, offset)}]

Unexpected(i) ==
  Fails(IF Peek(i).tag = "Eof" THEN "UnexpectedEof" ELSE "UnexpectedToken", Peek(i).offset)

(* `?` after a literal: the rest of the function, or the error. *)
Try(literal, tag, offset, rest) == IF literal = {} THEN Fails(tag, offset) ELSE rest

(* The rest of the function if the token at position i is as expected. *)
expect_word(i, rest) == IF Peek(i).tag = "Word" THEN rest ELSE Unexpected(i)
expect_dash(i, rest) == IF Peek(i).tag = "Dash" THEN rest ELSE Unexpected(i)

try_parse_proto(i) == {ProtoWords[t] : t \in {t \in DOMAIN ProtoWords : IsWord(i, t)}}
try_parse_dir(i) == {DirWords[t] : t \in {t \in DOMAIN DirWords : IsWord(i, t)}}

(* The position behind an optional word at i, taken if it is there. *)
Past(i, there) == IF there THEN Advance(i) ELSE i

-----------------------------------------------------------------------------
(* The rest of the function if a MAC address is at position i. *)
MacAt(i, rest) ==
  expect_word(i, Try(parse_mac_literal(Peek(i).text), "InvalidMacLiteral", Peek(i).offset, rest))

EtherKinds == {"broadcast", "multicast"}
KindOf == [broadcast |-> "Broadcast", multicast |-> "Multicast"]

(* parse_ether_primitive, called with `ether`, `broadcast` or `multicast`  *)
(* at position i.                                                          *)
parse_ether_primitive(i) ==
  LET k == Advance(i)      \* the keyword behind `ether`
      v == Advance(k)      \* what follows it
      m == Past(v, IsWord(v, "host"))
      Ends(j) == Span(StartAt(i), EndBefore(j))
      kw == Peek(k).text.text
      HostAt(j, dir) ==
        MacAt(j, Read(Advance(j), EtherLeaf(
          [kind |-> "Host", mac |-> The(parse_mac_literal(Peek(j).text)), dir |-> dir,
           offset |-> Ends(Advance(j))])))
      Bare(word, j) == Read(j, EtherLeaf([kind |-> KindOf[word], offset |-> Ends(j)]))
  IN  IF Peek(i).text.text \in EtherKinds THEN Bare(Peek(i).text.text, k)
      ELSE expect_word(k,
        CASE kw = "host" -> HostAt(v, {})
          [] kw \in DOMAIN DirWords -> HostAt(m, {DirWords[kw]})
          [] kw = "proto" ->
               LET n == parse_ethertype(Peek(v).text)
               IN  expect_word(v, Try(n, "InvalidEtherType", Peek(v).offset,
                     Read(Advance(v), EtherLeaf([kind |-> "Proto", ethertype |-> The(n),
                                                 offset |-> Ends(Advance(v))]))))
          [] kw \in EtherKinds -> Bare(kw, v)
          [] OTHER -> Fails("UnexpectedToken", Peek(k).offset))

(* The error of an address, by what its text looks like. *)
BadAddr(w) == IF w.colon THEN "InvalidIPv6Literal" ELSE "InvalidIPv4Literal"

(* A primitive from the token at i up to the one before j. *)
LeafOffset(i, j) == Span(StartAt(i), EndBefore(j))

parse_primitive(i) ==
  LET proto == try_parse_proto(i)
      d == Past(i, proto # {})
      dir == try_parse_dir(d)
      t == Past(d, dir # {})     \* the type word
      v == Advance(t)            \* the value
      h == Advance(Advance(v))   \* the high end of a range
      Prim(j, type) == Read(j, Leaf([proto |-> proto, dir |-> dir, ty |-> type,
                                   offset |-> LeafOffset(i, j)]))
      ty == Peek(t).text.text
      AddrIn(allow_prefix) == The(parse_addr_literal(Peek(v).text, allow_prefix))
      AddrAt(allow_prefix, rest) ==
        expect_word(v, Try(parse_addr_literal(Peek(v).text, allow_prefix),
                           BadAddr(Peek(v).text), Peek(v).offset, rest))
      PortIn(j) == The(parse_port(Peek(j).text))
      PortAt(j, rest) ==
        expect_word(j, Try(parse_port(Peek(j).text), "InvalidPortNumber", Peek(j).offset, rest))
  IN  expect_word(t,
        CASE ty = "host" ->
               AddrAt(FALSE, Prim(Advance(v), [kind |-> "Host", addr |-> AddrIn(FALSE).addr]))
          [] ty = "net" ->
               AddrAt(TRUE, Prim(Advance(v), [kind |-> "Net", addr |-> AddrIn(TRUE).addr,
                                              prefix |-> AddrIn(TRUE).prefix]))
          [] ty = "port" ->
               PortAt(v, Prim(Advance(v), [kind |-> "Port", lo |-> PortIn(v), hi |-> PortIn(v)]))
          [] ty = "portrange" ->
               PortAt(v, expect_dash(Advance(v), PortAt(h,
                 IF PortIn(v) <= PortIn(h)
                 THEN Prim(Advance(h), [kind |-> "PortRange", lo |-> PortIn(v), hi |-> PortIn(h)])
                 ELSE Fails("InvalidPortRange", Span(StartAt(i), Peek(h).offset.end)))))
          [] ty \in {"rarp", "sctp"} -> Fails("UnknownKeyword", Peek(t).offset)
          [] OTHER -> Fails("UnexpectedToken", Peek(t).offset))

-----------------------------------------------------------------------------
(* The two levels of operators: a loop over operands of the next level. *)
Levels ==
  [parse_or |-> [word |-> "or", operand |-> "parse_and", tag |-> "Or"],
   parse_and |-> [word |-> "and", operand |-> "parse_unary", tag |-> "And"]]

Waiting(fn, lhs) == [fn |-> fn, lhs |-> lhs]
offset_from_expr(e) ==
  CASE e.tag = "Leaf" -> e.p.offset
    [] e.tag = "EtherLeaf" -> e.ether.offset
    [] OTHER -> e.offset

(* The operators of one level nested to the right. *)
MutJoined(frame, e) ==
  IF frame.lhs = {} THEN e
  ELSE LET l == The(frame.lhs)
           op == Levels[frame.fn].tag
           At(b, f) == Span(offset_from_expr(b).start, offset_from_expr(f).end)
       IN  IF l.tag = op
           THEN BinaryAt(op, l.l, BinaryAt(op, l.r, e, At(l.r, e)), At(l, e))
           ELSE BinaryAt(op, l, e, At(l, e))

(* The operand e that has been read, joined with what stands to its left. *)
Joined(frame, e) ==
  IF frame.lhs = {} THEN e
  ELSE LET l == The(frame.lhs)
       IN  BinaryAt(Levels[frame.fn].tag, l, e,
                    Span(offset_from_expr(l).start, offset_from_expr(e).end))

Fail(tag, offset) ==
  /\ parsed' = "error"
  /\ parseError' = {CompileError(tag, offset)}
  /\ UNCHANGED <<tokens, pos, stack, call, value>>

Calls(fn) == parsed = "parsing" /\ call = fn
Returns(fn) == parsed = "parsing" /\ call = "return" /\ stack # <<>> /\ Head(stack).fn = fn
Parsing == UNCHANGED <<tokens, parsed, parseError>>

(* An expression is handed to the innermost waiting call. *)
Return(e, i, rest) ==
  /\ call' = "return"
  /\ value' = {e}
  /\ pos' = i
  /\ stack' = rest
  /\ Parsing

-----------------------------------------------------------------------------
(* parse: an empty text is an error of its own. *)
ParseEmpty ==
  /\ parsed = "called"
  /\ Peek(0).tag = "Eof"
  /\ Fail("EmptyExpression", Peek(0).offset)

ParseBegin ==
  /\ parsed = "called"
  /\ Peek(0).tag # "Eof"
  /\ parsed' = "parsing"
  /\ UNCHANGED <<tokens, pos, stack, call, value, parseError>>

(* parse_or and parse_and call the level below for their first operand. *)
CallLevel ==
  \E fn \in DOMAIN Levels :
    /\ Calls(fn)
    /\ stack' = <<Waiting(fn, {})>> \o stack
    /\ call' = Levels[fn].operand
    /\ UNCHANGED <<pos, value>>
    /\ Parsing

(* `not` is recognised and not consumed. *)
MutCallNot ==
  /\ Calls("parse_unary")
  /\ IsWord(pos, "not")
  /\ UNCHANGED parseVars

(* The operand of a `not` is all that `and` joins behind it. *)
MutCallNotAnd ==
  /\ Calls("parse_unary")
  /\ IsWord(pos, "not")
  /\ stack' = <<[fn |-> "parse_unary", start |-> StartAt(pos)]>> \o stack
  /\ pos' = Advance(pos)
  /\ call' = "parse_and"
  /\ UNCHANGED value
  /\ Parsing

CallNot ==
  /\ Calls("parse_unary")
  /\ IsWord(pos, "not")
  /\ stack' = <<[fn |-> "parse_unary", start |-> StartAt(pos)]>> \o stack
  /\ pos' = Advance(pos)
  /\ UNCHANGED <<call, value>>
  /\ Parsing

CallPrimary ==
  /\ Calls("parse_unary")
  /\ ~IsWord(pos, "not")
  /\ call' = "parse_primary"
  /\ UNCHANGED <<pos, stack, value>>
  /\ Parsing

OpenGroup ==
  /\ Calls("parse_primary")
  /\ Peek(pos).tag = "LParen"
  /\ stack' = <<[fn |-> "parse_primary"]>> \o stack
  /\ pos' = Advance(pos)
  /\ call' = "parse_or"
  /\ UNCHANGED value
  /\ Parsing

(* parse_primary's match on `ether`, `broadcast` and `multicast`. *)
ReadHere == IF Peek(pos).text.text \in EtherKinds \cup {"ether"}
            THEN parse_ether_primitive(pos)
            ELSE parse_primitive(pos)

ReadLeaf ==
  /\ Calls("parse_primary")
  /\ Peek(pos).tag = "Word"
  /\ LET r == ReadHere
     IN  \/ \E e \in r.expr : Return(e, r.pos, stack)
         \/ \E err \in r.error : Fail(err.tag, err.offset)

NoPrimary ==
  /\ Calls("parse_primary")
  /\ \/ Peek(pos).tag = "RParen" /\ Fail("UnbalancedParens", Peek(pos).offset)
     \/ Peek(pos).tag = "Eof" /\ Fail("UnexpectedEof", Peek(pos).offset)
     \/ Peek(pos).tag = "Dash" /\ Fail("UnexpectedToken", Peek(pos).offset)

(* The loop of parse_or and parse_and goes round: another operand. *)
NextOperand ==
  \E fn \in DOMAIN Levels, e \in value :
    /\ Returns(fn)
    /\ IsWord(pos, Levels[fn].word)
    /\ stack' = <<Waiting(fn, {Joined(Head(stack), e)})>> \o Tail(stack)
    /\ pos' = Advance(pos)
    /\ call' = Levels[fn].operand
    /\ value' = {}
    /\ Parsing

LevelDone ==
  \E fn \in DOMAIN Levels, e \in value :
    /\ Returns(fn)
    /\ ~IsWord(pos, Levels[fn].word)
    /\ Return(Joined(Head(stack), e), pos, Tail(stack))

NotDone ==
  /\ Returns("parse_unary")
  /\ \E e \in value :
       Return(NotAt(e, Span(Head(stack).start, offset_from_expr(e).end)), pos, Tail(stack))

(* What stands behind the expression of a group is passed unseen, with     *)
(* `self.pos += 1`.                                                        *)
MutCloseGroup ==
  /\ Returns("parse_primary")
  /\ \E e \in value : Return(e, pos + 1, Tail(stack))

CloseGroup ==
  /\ Returns("parse_primary")
  /\ Peek(pos).tag = "RParen"
  /\ \E e \in value : Return(e, Advance(pos), Tail(stack))

(* A missing `)` is reported at the end of the text. *)
MutNotClosed ==
  /\ Returns("parse_primary")
  /\ Peek(pos).tag # "RParen"
  /\ Fail("UnbalancedParens", tokens[Len(tokens)].offset)

NotClosed ==
  /\ Returns("parse_primary")
  /\ Peek(pos).tag # "RParen"
  /\ Fail("UnbalancedParens", Peek(pos).offset)

(* parse_or has returned to parse. *)
AtEnd == parsed = "parsing" /\ call = "return" /\ stack = <<>>

expect_eof ==
  /\ AtEnd
  /\ \/ /\ Peek(pos).tag = "Eof"
        /\ parsed' = "ok"
        /\ UNCHANGED <<tokens, pos, stack, call, value, parseError>>
     \/ /\ Peek(pos).tag # "Eof"
        /\ Fail("UnexpectedToken", Peek(pos).offset)

ParseNext ==
  \/ ParseEmpty \/ ParseBegin \/ CallLevel \/ CallNot \/ CallPrimary \/ OpenGroup
  \/ ReadLeaf \/ NoPrimary \/ NextOperand \/ LevelDone \/ NotDone \/ CloseGroup
  \/ NotClosed \/ expect_eof

(* `parse` is one call on one thread. *)
ParseSpec == ParseInit /\ [][ParseNext]_parseVars /\ WF_parseVars(ParseNext)

-----------------------------------------------------------------------------
(* The position is always that of a token, so no index is out of range,    *)
(* and an expression is at hand exactly when one is being returned.        *)
ParseTypeOK ==
  /\ pos \in 0..(Len(tokens) - 1)
  /\ \A i \in DOMAIN stack :
       stack[i].fn \in {"parse_or", "parse_and", "parse_unary", "parse_primary"}
  /\ call \in {"parse_or", "parse_and", "parse_unary", "parse_primary", "return"}
  /\ (value # {}) <=> (call = "return")
  /\ \A e, f \in value : e = f
  /\ parsed \in {"called", "parsing", "ok", "error"}
  /\ (parseError # {}) <=> (parsed = "error")

Frames(fn) == Cardinality({i \in DOMAIN stack : stack[i].fn = fn})

(* How many `(` are open behind the first n tokens. *)
Passed(n, tag) == Cardinality({i \in 1..n : tokens[i].tag = tag})
OpenAt(n) == Passed(n, "LParen") - Passed(n, "RParen")

(* The `not`s around the current token, read off the text: what a `not`    *)
(* applies to ends before the first `and`, `or` or `)` that is not in      *)
(* parentheses opened behind the `not`.                                    *)
EndsOperand(i) == tokens[i].tag = "RParen" \/ IsWord(i - 1, "and") \/ IsWord(i - 1, "or")
NotsAround ==
  {i \in 1..pos : /\ IsWord(i - 1, "not")
                  /\ \A j \in (i + 1)..pos : EndsOperand(j) => OpenAt(j - 1) > OpenAt(i)}

(* The recursion is as deep as the parentheses and `not`s around the       *)
(* current token, however long the text and however many have been passed: *)
(* every open `(` is one waiting parse_primary, every `not` whose operand  *)
(* is still to be read one waiting parse_unary, and a chain of `and`s or   *)
(* `or`s, of `not`s and groups too, is a loop and not a deeper call.       *)
DepthIsNesting ==
  /\ Frames("parse_primary") = OpenAt(pos)
  /\ Frames("parse_or") <= Frames("parse_primary") + 1
  /\ Frames("parse_and") <= Frames("parse_or")
  /\ Frames("parse_unary") <= Cardinality(NotsAround)
  /\ call # "return" => Frames("parse_unary") = Cardinality(NotsAround)

(* `parse` returns for every token sequence. *)
ParseTerminates == <>(parsed \in {"ok", "error"})
=============================================================================
