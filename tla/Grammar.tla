------------------------------- MODULE Grammar -------------------------------
(***************************************************************************)
(* The filter language as a grammar, said without a parser: which trees    *)
(* the tokens of a text write.  `or` binds weaker than `and`, `and` weaker *)
(* than `not`, and both group to the left; a primitive is                  *)
(* [proto] [dir] type value or one of the `ether` forms (the head comment  *)
(* of parser.rs).  The trees are found bottom up, the short pieces of the  *)
(* text before the long ones.                                              *)
(*                                                                         *)
(* The properties that compare the parser with the grammar are at the end. *)
(***************************************************************************)
EXTENDS Parser

CONSTANTS Hosts, Nets,    \* Hosts[t], Nets[t]: the address or network written t
          Ports, Macs, EtherTypes,
          Continuations   \* token sequences that finish whatever has been begun

(* The token of t at position i, counted from 0, and whether it is a sign, *)
(* a word, or that word.                                                   *)
TokenAt(t, i) == t[i + 1]
SignAt(t, i, tag) == i < Len(t) /\ TokenAt(t, i).tag = tag
TextAt(t, i) == SignAt(t, i, "Word")
WordAt(t, i, text) == TextAt(t, i) /\ TokenAt(t, i).text.text = text

(* The bytes of the tokens from position i up to the one before j. *)
PlaceOf(t, i, j) == Span(TokenAt(t, i).offset.start, TokenAt(t, j - 1).offset.end)

(* The tokens from position i up to the one before j write the tree e, at  *)
(* the level of the grammar that fn reads.                                 *)
Item(fn, i, j, e) == [fn |-> fn, from |-> i, upto |-> j, tree |-> e]

-----------------------------------------------------------------------------
(* The literals that position k may be read as. *)
AddrsAt(t, k, allow_prefix) ==
  IF TextAt(t, k) THEN parse_addr_literal(TokenAt(t, k).text, allow_prefix) ELSE {}
PortsAt(t, k) == IF TextAt(t, k) THEN parse_port(TokenAt(t, k).text) ELSE {}
MacsAt(t, k) == IF TextAt(t, k) THEN parse_mac_literal(TokenAt(t, k).text) ELSE {}
EtherTypesAt(t, k) == IF TextAt(t, k) THEN parse_ethertype(TokenAt(t, k).text) ELSE {}

(* An optional keyword at i: its value, and the position behind it. *)
Optional(t, words, i) ==
  {[value |-> {}, next |-> i]}
    \cup {[value |-> {words[w]}, next |-> i + 1] : w \in {w \in DOMAIN words : WordAt(t, i, w)}}

(* A type word at k and its value, and the position behind them. *)
Types(t, k) ==
  {[ty |-> [kind |-> "Host", addr |-> a.addr], next |-> k + 2] :
      a \in {a \in AddrsAt(t, k + 1, FALSE) : WordAt(t, k, "host")}}
    \cup {[ty |-> [kind |-> "Net", addr |-> a.addr, prefix |-> a.prefix], next |-> k + 2] :
            a \in {a \in AddrsAt(t, k + 1, TRUE) : WordAt(t, k, "net")}}
    \cup {[ty |-> [kind |-> "Port", lo |-> n, hi |-> n], next |-> k + 2] :
            n \in {n \in PortsAt(t, k + 1) : WordAt(t, k, "port")}}
    \cup {[ty |-> [kind |-> "PortRange", lo |-> m[1], hi |-> m[2]], next |-> k + 4] :
            m \in {m \in PortsAt(t, k + 1) \X PortsAt(t, k + 3) :
                     WordAt(t, k, "portrange") /\ SignAt(t, k + 2, "Dash") /\ m[1] <= m[2]}}

(* [proto] [dir] type value, from position i on. *)
Primitives(t, i) ==
  UNION {UNION {{Item("parse_unary", i, v.next,
                      Leaf([proto |-> p.value, dir |-> d.value, ty |-> v.ty,
                            offset |-> PlaceOf(t, i, v.next)])) :
                   v \in Types(t, d.next)} :
            d \in Optional(t, DirWords, p.next)} :
     p \in Optional(t, ProtoWords, i)}

(* A primitive of the link layer from i on that ends with a MAC address at *)
(* m, with `broadcast` or `multicast` at k, or with an EtherType at k.     *)
EtherItem(i, k, r) == Item("parse_unary", i, k + 1, EtherLeaf(r))
EtherHosts(t, i, m, dir) ==
  {EtherItem(i, m, [kind |-> "Host", mac |-> mac, dir |-> dir, offset |-> PlaceOf(t, i, m + 1)]) :
     mac \in MacsAt(t, m)}
EtherCasts(t, i, k) ==
  {EtherItem(i, k, [kind |-> KindOf[w], offset |-> PlaceOf(t, i, k + 1)]) :
     w \in {w \in EtherKinds : WordAt(t, k, w)}}
EtherProtos(t, i, k) ==
  {EtherItem(i, k, [kind |-> "Proto", ethertype |-> n, offset |-> PlaceOf(t, i, k + 1)]) :
     n \in EtherTypesAt(t, k)}

(* What may stand behind `ether` at i. *)
BehindEther(t, i) ==
  EtherCasts(t, i, i + 1)
    \cup {x \in EtherProtos(t, i, i + 2) : WordAt(t, i + 1, "proto")}
    \cup {x \in EtherHosts(t, i, i + 2, {}) : WordAt(t, i + 1, "host")}
    \cup UNION {EtherHosts(t, i, i + 2, {DirWords[w]})
                   \cup {x \in EtherHosts(t, i, i + 3, {DirWords[w]}) : WordAt(t, i + 2, "host")} :
                  w \in {w \in DOMAIN DirWords : WordAt(t, i + 1, w)}}

LeavesAt(t, i) ==
  Primitives(t, i) \cup EtherCasts(t, i, i) \cup {x \in BehindEther(t, i) : WordAt(t, i, "ether")}
Leaves(t) == UNION {LeavesAt(t, i) : i \in 0..(Len(t) - 1)}

-----------------------------------------------------------------------------
(* The trees of an operator, and of a `not` at position i. *)
BinaryTree(fn, l, r) ==
  BinaryAt(Levels[fn].tag, l, r, Span(offset_from_expr(l).start, offset_from_expr(r).end))
NotTree(t, i, e) == NotAt(e, Span(TokenAt(t, i).offset.start, offset_from_expr(e).end))

(* The pieces of n tokens, from the set S of all the shorter ones: what an *)
(* operator can be applied to, and the levels of the two operators.        *)
Negated(t, S, n) ==
  {Item("parse_unary", x.from - 1, x.upto, NotTree(t, x.from - 1, x.tree)) :
     x \in {x \in S : /\ x.fn = "parse_unary" /\ x.upto - x.from = n - 1
                     /\ x.from > 0 /\ WordAt(t, x.from - 1, "not")}}
Grouped(t, S, n) ==
  {Item("parse_unary", x.from - 1, x.upto + 1, x.tree) :
     x \in {x \in S : /\ x.fn = "parse_or" /\ x.upto - x.from = n - 2
                     /\ x.from > 0 /\ SignAt(t, x.from - 1, "LParen") /\ SignAt(t, x.upto, "RParen")}}
Units(t, leaves, S, n) ==
  {x \in leaves : x.upto - x.from = n} \cup Negated(t, S, n) \cup Grouped(t, S, n)

(* An operator between a piece of the level and an operand. *)
Operated(t, S, n, fn) ==
  UNION {{Item(fn, x.from, y.upto, BinaryTree(fn, x.tree, y.tree)) :
            y \in {y \in S : y.fn = Levels[fn].operand /\ y.from = x.upto + 1 /\ y.upto - x.from = n}} :
     x \in {x \in S : x.fn = fn /\ WordAt(t, x.upto, Levels[fn].word)}}
Level(t, S, n, fn, operands) ==
  {Item(fn, x.from, x.upto, x.tree) : x \in operands} \cup Operated(t, S, n, fn)

(* All the pieces of n tokens. *)
Pieces(t, leaves, S, n) ==
  LET units == Units(t, leaves, S, n)
      ands == Level(t, S, n, "parse_and", units)
  IN  units \cup ands \cup Level(t, S, n, "parse_or", ands)

(* The pieces of t of at most n tokens. *)
Chart(t) ==
  LET leaves == Leaves(t)
      chart[n \in Nat] == IF n = 0 THEN {}
                          ELSE LET S == chart[n - 1] IN S \cup Pieces(t, leaves, S, n)
  IN  chart

(* The trees of the first n tokens of t. *)
Trees(t, n) ==
  {x.tree : x \in {x \in Chart(t)[n] : x.fn = "parse_or" /\ x.from = 0 /\ x.upto = n}}

-----------------------------------------------------------------------------
(* "Precedence from tightest to loosest: `not`, `and`, `or`. Parentheses   *)
(* override it": a text has at most one tree, the parser returns that one, *)
(* every leaf with the literal it was written with and the exact bytes of  *)
(* its primitive, and it refuses exactly the texts that have none.         *)
ReadsGrammar ==
  /\ parsed = "ok" => Trees(tokens, Len(tokens) - 1) = value
  /\ parsed = "error" => Trees(tokens, Len(tokens) - 1) = {}

(* What a word stands for, by a table of texts. *)
Listed(table, w) == {table[x] : x \in DOMAIN table \cap {w.text}}

(* The functions that read a literal accept exactly the words that stand   *)
(* for one, at the limits of their types too, and with the right value.    *)
LiteralsRead ==
  parsed = "called" =>
    \A w \in {token.text : token \in {tokens[i] : i \in {i \in DOMAIN tokens : tokens[i].tag = "Word"}}} :
      /\ {a.addr : a \in parse_addr_literal(w, FALSE)} = Listed(Hosts, w)
      /\ parse_addr_literal(w, TRUE) = Listed(Nets, w)
      /\ parse_port(w) = Listed(Ports, w)
      /\ parse_mac_literal(w) = Listed(Macs, w)
      /\ parse_ethertype(w) = Listed(EtherTypes, w)

(* The nodes of a tree down to a depth. *)
Below(S) ==
  {f.inner : f \in {f \in S : f.tag = "Not"}}
    \cup UNION {{f.l, f.r} : f \in {f \in S : f.tag \in {"And", "Or"}}}
Nodes(e) ==
  LET nodes[n \in Nat] == IF n = 0 THEN {e} ELSE LET S == nodes[n - 1] IN S \cup Below(S)
  IN  nodes

(* A leaf, as the later stages take it for granted. *)
LeafFits(e) ==
  \/ e.tag = "Leaf" /\ IsPrimitive(e.p)
  \/ e.tag = "EtherLeaf" /\ IsEtherPrimitive(e.ether)

(* Whatever parse returns is in the range the code generator computes      *)
(* with: prefixes of at most 32 and 128 bits (netmask shifts by 32 minus   *)
(* the prefix), ports of 16 bits, ranges in order (emit_port_compare).  A  *)
(* tree is less deep than its text is long.                                *)
FitsCodegen ==
  \A e \in value : \A f \in Nodes(e)[Len(tokens)] : f.tag \in {"Leaf", "EtherLeaf"} => LeafFits(f)

-----------------------------------------------------------------------------
Before(k) == SubSeq(tokens, 1, k - 1)
Count(s, tag) == Cardinality({i \in DOMAIN s : s[i].tag = tag})

(* s can be the beginning of a filter. *)
Viable(s) ==
  LET open == Count(s, "LParen") - Count(s, "RParen")
      close == [i \in 1..open |-> Sign("RParen", Span(0, 0))]
  IN  open >= 0 /\ \E more \in Continuations :
                      LET t == s \o more \o close IN Trees(t, Len(t)) # {}

(* The token an error points at; that of a bad range is its last one. *)
PointsAt(e, k) ==
  \/ tokens[k].offset = e.offset
  \/ e.tag = "InvalidPortRange" /\ tokens[k].offset.end = e.offset.end /\ tokens[k].tag # "Eof"

(* An error is about the first token that is wrong: what stands before it  *)
(* can be completed to a filter, and with it no longer can.                *)
FirstWrongToken ==
  \A e \in parseError : \E k \in DOMAIN tokens :
    /\ PointsAt(e, k)
    /\ Viable(Before(k))
    /\ IF tokens[k].tag = "Eof" THEN Trees(tokens, k - 1) = {} ELSE ~Viable(Before(k + 1))

(* "A `(` was never closed, or a `)` had no matching `(`" (error.rs): what *)
(* an UnbalancedParens says of the text.                                   *)
Balanced ==
  /\ \A k \in 1..Len(tokens) : Count(Before(k), "LParen") >= Count(Before(k), "RParen")
  /\ Count(tokens, "LParen") = Count(tokens, "RParen")
UnbalancedIsUnbalanced == \A e \in parseError : e.tag = "UnbalancedParens" => ~Balanced
=============================================================================
