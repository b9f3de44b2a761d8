------------------------------- MODULE Render -------------------------------
(***************************************************************************)
(* How a filter is written: the tokens of a tree, with no parentheses but  *)
(* those that precedence calls for, and the tree with the place of every   *)
(* primitive filled in.  What the parser has to undo.                      *)
(***************************************************************************)
EXTENDS Literal, Token

(* The n-th token is two bytes from 3 * n on. *)
Place(n) == Span(3 * n, 3 * n + 2)
PlaceOf(from, to) == Span(3 * from, 3 * to + 2)

KeywordOf(words, v) == Keyword(CHOOSE k \in DOMAIN words : words[k] = v)
Maybe(words, option) == IF option = {} THEN <<>> ELSE <<KeywordOf(words, The(option))>>

NumberWord(n) == [Keyword("literal") EXCEPT !.number = {n}, !.before = <<{n}>>]
AddrWord(addr, prefix) ==
  [Keyword("literal") EXCEPT
     !.colon = addr.version = 6,
     !.v6 = {addr.bits : v \in {addr.version} \ {4}},
     !.before = [i \in 1..4 |-> {ByteNum(Octet(addr.bits, 4 - i))}],
     !.after = {prefix : n \in prefix}]
MacWord(mac) ==
  [Keyword("literal") EXCEPT !.colon = TRUE,
                           !.parts = [i \in 1..6 |-> [len |-> 2, hex |-> {ByteNum(mac[i])}]]]

(* The words of a primitive; "-" is the sign. *)
TypeWords(ty) ==
  CASE ty.kind = "Host" -> <<Keyword("host"), AddrWord(ty.addr, {})>>
    [] ty.kind = "Net" -> <<Keyword("net"), AddrWord(ty.addr, ty.prefix)>>
    [] ty.kind = "Port" -> <<Keyword("port"), NumberWord(ty.lo)>>
    [] ty.kind = "PortRange" -> <<Keyword("portrange"), NumberWord(ty.lo), Keyword("-"), NumberWord(ty.hi)>>
LeafWords(p) == Maybe(ProtoWords, p.proto) \o Maybe(DirWords, p.dir) \o TypeWords(p.ty)
EtherWords(e) ==
  CASE e.kind = "Host" /\ e.dir = {} -> <<Keyword("ether"), Keyword("host"), MacWord(e.mac)>>
    [] e.kind = "Host" /\ e.dir # {} -> <<Keyword("ether")>> \o Maybe(DirWords, e.dir) \o <<MacWord(e.mac)>>
    [] e.kind = "Proto" -> <<Keyword("ether"), Keyword("proto"), NumberWord(e.ethertype)>>
    [] e.kind = "Broadcast" -> <<Keyword("broadcast")>>
    [] e.kind = "Multicast" -> <<Keyword("ether"), Keyword("multicast")>>

(* How tightly a tree binds. *)
Binds(f) == CASE f.tag = "Or" -> 1 [] f.tag = "And" -> 2 [] OTHER -> 3

At(r, offset) == [k \in DOMAIN r \cup {"offset"} |-> IF k = "offset" THEN offset ELSE r[k]]

(* The words of f, the first of them the n-th token, and f with places. *)
RECURSIVE Put(_, _, _)
Put(f, n, tight) ==
  IF Binds(f) < tight
  THEN LET inner == Put(f, n + 1, 1)
       IN  [words |-> <<Keyword("(")>> \o inner.words \o <<Keyword(")")>>, filter |-> inner.filter]
  ELSE CASE f.tag = "Leaf" ->
              LET w == LeafWords(f.p)
              IN  [words |-> w, filter |-> Leaf(At(f.p, PlaceOf(n, n + Len(w) - 1)))]
         [] f.tag = "EtherLeaf" ->
              LET w == EtherWords(f.ether)
              IN  [words |-> w, filter |-> EtherLeaf(At(f.ether, PlaceOf(n, n + Len(w) - 1)))]
         [] f.tag = "Not" ->
              LET inner == Put(f.inner, n + 1, 3)
              IN  [words |-> <<Keyword("not")>> \o inner.words, filter |-> Not(inner.filter)]
         [] f.tag \in {"And", "Or"} ->
              LET l == Put(f.l, n, Binds(f))
                  r == Put(f.r, n + Len(l.words) + 1, Binds(f) + 1)
              IN  [words |-> l.words \o <<Keyword(IF f.tag = "And" THEN "and" ELSE "or")>> \o r.words,
                   filter |-> [f EXCEPT !.l = l.filter, !.r = r.filter]]

SignOf == [t \in {"(", ")", "-"} |-> CASE t = "(" -> "LParen" [] t = ")" -> "RParen" [] t = "-" -> "Dash"]
TokensOf(words) ==
  [i \in DOMAIN words |->
     IF words[i].text \in DOMAIN SignOf THEN Sign(SignOf[words[i].text], Place(i - 1))
     ELSE WordToken(words[i], Place(i - 1))]
    \o <<Eof(3 * Len(words))>>

(* A text and the filter it is the text of, if it is one. *)
SourceOf(f) ==
  LET put == Put(f, 0, 1) IN [tokens |-> TokensOf(put.words), filter |-> {put.filter}]
NoFilter(words) == [tokens |-> TokensOf(words), filter |-> {}]
=============================================================================
