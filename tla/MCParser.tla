------------------------------ MODULE MCParser ------------------------------
(***************************************************************************)
(* The parser on two families of texts: every arrangement of up to         *)
(* MaxUnits operators, parentheses and primitives, and every kind of       *)
(* primitive with literals at the limits of their types, each cut short    *)
(* at every token and with something behind it.                            *)
(***************************************************************************)
EXTENDS Grammar, TLC

CONSTANT MaxUnits   \* bound on operators, parentheses and primitives

(* Literals, by what the standard library makes of them. *)
Decimal(t, n) == [Keyword(t) EXCEPT !.number = {n}, !.before = <<{n}>>]
Dotted(t, octets, after) ==
  [Keyword(t) EXCEPT !.before = [i \in DOMAIN octets |-> {octets[i]}], !.after = after]
Six(t, bits, after) == [Keyword(t) EXCEPT !.colon = TRUE, !.v6 = bits, !.after = after]
Hex(t, digits) == [Keyword(t) EXCEPT !.hex = digits]
Pairs(t, parts) == [Keyword(t) EXCEPT !.colon = TRUE, !.parts = parts]
Two(n) == [len |-> 2, hex |-> {n}]

MCLiterals ==
  {Decimal("0", 0), Decimal("80", 80), Decimal("65535", 65535), Decimal("65536", 65536)}
    \cup {Dotted("10.0.0.1", <<10, 0, 0, 1>>, {}), Dotted("255.0.0.255", <<255, 0, 0, 255>>, {}),
          Dotted("10.0.0.256", <<10, 0, 0, 256>>, {}), Dotted("10.0.1", <<10, 0, 1>>, {}),
          Dotted("10.0.0.1.1", <<10, 0, 0, 1, 1>>, {}), Dotted("10.0.0.65536", <<10, 0, 0, 65536>>, {}),
          Dotted("10.0.0.1/0", <<10, 0, 0, 1>>, {{0}}), Dotted("10.0.0.1/32", <<10, 0, 0, 1>>, {{32}}),
          Dotted("10.0.0.1/33", <<10, 0, 0, 1>>, {{33}}), Dotted("10.0.0.1/288", <<10, 0, 0, 1>>, {{288}}),
          Dotted("10.0.0.1/", <<10, 0, 0, 1>>, {{}}), Dotted("10.0.1/8", <<10, 0, 1>>, {{8}})}
    \cup {Six("::1", {{0}}, {}), Six("::1/128", {{0}}, {{128}}), Six("::1/129", {{0}}, {{129}}),
          Six("::1/0", {{0}}, {{0}}), Six("1::2::3", {}, {}), Six("::1/x", {{0}}, {{}})}
    \cup {Hex("0x800", {{2048}}), Hex("0X86DD", {{34525}}), Hex("0x10000", {{65536}}), Hex("0xip", {{}})}
    \cup {[Keyword("IPv6") EXCEPT !.lower = "ipv6"], Keyword("x")}
    \cup {Pairs("02:00:00:00:00:ff", <<Two(2), Two(0), Two(0), Two(0), Two(0), Two(255)>>),
          Pairs("02:00:00:00:00", <<Two(2), Two(0), Two(0), Two(0), Two(0)>>),
          Pairs("02:00:00:00:00:00:00", <<Two(2), Two(0), Two(0), Two(0), Two(0), Two(0), Two(0)>>),
          Pairs("02:00:00:00:00:0", <<Two(2), Two(0), Two(0), Two(0), Two(0), [len |-> 1, hex |-> {0}]>>),
          Pairs("02:00:00:00:00:0g", <<Two(2), Two(0), Two(0), Two(0), Two(0), [len |-> 2, hex |-> {}]>>)}

(* What the literals stand for. *)
MCHosts == "10.0.0.1" :> V4({27, 25, 0}) @@ "255.0.0.255" :> V4((24..31) \cup (0..7)) @@ "::1" :> V6({0})
Net(addr, prefix) == [addr |-> addr, prefix |-> prefix]
MCNets == [t \in DOMAIN MCHosts |-> Net(MCHosts[t], {})]
            @@ "10.0.0.1/0" :> Net(V4({27, 25, 0}), {0}) @@ "10.0.0.1/32" :> Net(V4({27, 25, 0}), {32})
            @@ "::1/0" :> Net(V6({0}), {0}) @@ "::1/128" :> Net(V6({0}), {128})
MCPorts == "0" :> 0 @@ "80" :> 80 @@ "65535" :> 65535
MCMacs == "02:00:00:00:00:ff" :> <<{1}, {}, {}, {}, {}, 0..7>>
MCEtherTypes == MCPorts @@ "0x800" :> 2048 @@ "0X86DD" :> 34525 @@ "IPv6" :> 34525
                  @@ "ip" :> 2048 @@ "ip6" :> 34525 @@ "arp" :> 2054 @@ "rarp" :> 32821

-----------------------------------------------------------------------------
Signed == ("(" :> "LParen" @@ ")" :> "RParen" @@ "-" :> "Dash")
WordOf(t) == IF \E w \in MCLiterals : w.text = t
             THEN CHOOSE w \in MCLiterals : w.text = t ELSE Keyword(t)

(* The i-th token is two bytes from 3 * i on; the text ends with the last. *)
TokenOf(t, i) == IF t \in DOMAIN Signed THEN Sign(Signed[t], Span(3 * i, 3 * i + 2))
                 ELSE WordToken(WordOf(t), Span(3 * i, 3 * i + 2))
TokensOf(ts) == [i \in DOMAIN ts |-> TokenOf(ts[i], i)]
                  \o <<Eof(IF ts = <<>> THEN 0 ELSE 3 * Len(ts) + 2)>>

Flat(units) ==
  LET at[i \in 0..Len(units)] == IF i = 0 THEN <<>> ELSE at[i - 1] \o units[i]
  IN  at[Len(units)]

MCUnits == {<<"port", "80">>, <<"or">>, <<"and">>, <<"not">>, <<"(">>, <<")">>}
MCSkeletons == {Flat(u) : u \in UNION {[1..n -> MCUnits] : n \in 0..MaxUnits}}

(* Chains of three operands, groups and `not`s among them; and chains of   *)
(* two with any one token missing.                                         *)
P == <<"port", "80">>
MCOps == {<<"or">>, <<"and">>}
MCGroups == {<<"(">> \o P \o op \o P \o <<")">> : op \in MCOps}
MCOperands == UNION {{x, <<"not">> \o x} : x \in {P} \cup MCGroups}
MCChains == {x \o o \o y \o p \o z : x, y, z \in MCOperands, o, p \in MCOps}
MCDamaged ==
  UNION {{SubSeq(x, 1, i - 1) \o SubSeq(x, i + 1, Len(x)) : i \in DOMAIN x} :
           x \in {y \o o \o z : y, z \in MCOperands, o \in MCOps}}

Qualifiers == {<<>>, <<"tcp">>, <<"src">>, <<"ip6", "dst">>, <<"dst", "arp">>}
LiteralTexts == {w.text : w \in MCLiterals}
MCPrimitives ==
  {q \o <<ty, v>> : q \in Qualifiers, ty \in {"host", "net", "port", "rarp", "x"}, v \in LiteralTexts \cup {"host"}}
    \cup {q \o <<"portrange", lo, "-", hi>> :
            q \in Qualifiers, lo, hi \in {"0", "80", "65535", "65536", "x"}}
    \cup {<<"portrange", "80", s, "80">> : s \in {"(", "80", "or"}}
    \cup {<<"ether", kw, v>> : kw \in {"host", "src", "dst", "proto", "port"},
                               v \in LiteralTexts \cup {"ip", "arp", "rarp", "sctp"}}
    \cup {<<"ether", kw, "host", v>> : kw \in {"src", "dst", "host"}, v \in LiteralTexts}
    \cup {<<"ether", w, "x">> : w \in {"broadcast", "multicast", "-", ")"}}
    \cup {<<w, "-">> : w \in {"broadcast", "multicast", "udp", "icmp", "sctp"}}
MCTails == {<<>>, <<"and", "multicast">>, <<"-">>, <<"80">>}
MCCutShort == UNION {{SubSeq(p, 1, n) : n \in 0..Len(p)} : p \in MCPrimitives}

MCInputs == {TokensOf(ts) : ts \in MCSkeletons \cup MCChains \cup MCDamaged \cup MCCutShort
                                     \cup {p \o t : p \in MCPrimitives, t \in MCTails}}

(* Every suffix of some primitives. *)
MCWhole == {<<"host", "10.0.0.1">>, <<"port", "80">>, <<"portrange", "80", "-", "65535">>,
            <<"ether", "host", "02:00:00:00:00:ff">>}
MCContinuations ==
  UNION {{SubSeq(TokensOf(p), n, Len(p)) : n \in 1..(Len(p) + 1)} : p \in MCWhole}

-----------------------------------------------------------------------------
(* Texts whose parentheses match. *)
MCMatched == {TokensOf(ts) : ts \in {<<"(", "port", "80", "port", "80", ")">>, <<"(", ")">>}}
=============================================================================
