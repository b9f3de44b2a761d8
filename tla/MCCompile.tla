------------------------------ MODULE MCCompile ------------------------------
(***************************************************************************)
(* The crate on filters of every kind of primitive, alone and combined,    *)
(* and packets that separate them: each transport, header lengths,         *)
(* fragments, ARP and RARP, IPv6, and every packet of a set cut short at   *)
(* each length where a load begins or ends.                                *)
(***************************************************************************)
EXTENDS Compile, Render

(* Filters. *)
Prim(proto, dir, ty) == Leaf([proto |-> proto, dir |-> dir, ty |-> ty])

Ten(d) == V4({27, 25} \cup Bits(d))                  \* 10.0.0.d
Two(low) == V6({125} \cup low)                       \* 2000::low
Host(addr) == [kind |-> "Host", addr |-> addr]
Net(addr, prefix) == [kind |-> "Net", addr |-> addr, prefix |-> prefix]
Port(p) == [kind |-> "Port", lo |-> p, hi |-> p]
PortRange(lo, hi) == [kind |-> "PortRange", lo |-> lo, hi |-> hi]

Mac(last) == [i \in 1..6 |-> Bits(IF i = 6 THEN last ELSE 2)]

MCAddresses ==
  {Host(Ten(1)), Net(Ten(1), {}), Net(Ten(1), {0}), Net(Ten(1), {31}),
   Net(Ten(1), {8}), Net(Ten(3), {32})}
MCAddresses6 ==
  {Host(Two({0})), Net(Two({0}), {})}
    \cup {Net(Two({0, 62, 63, 94}), {n}) : n \in {0, 32, 33, 64, 65, 66, 127}}

MCPrimitives ==
  {Prim(proto, dir, ty) :
      proto \in {{}, {"Ip"}, {"Arp"}, {"Tcp"}}, dir \in {{}, {"Src"}}, ty \in MCAddresses}
    \cup {Prim(proto, dir, ty) :
      proto \in {{}, {"Ip6"}}, dir \in {{}, {"Dst"}}, ty \in MCAddresses6}
    \cup {Prim(proto, dir, ty) :
      proto \in {{}, {"Tcp"}, {"Udp"}}, dir \in {{}, {"Src"}, {"Dst"}},
      ty \in {Port(80), PortRange(80, 90), PortRange(80, 80), PortRange(81, 65535)}}
    \cup {Prim({"Arp"}, {}, Port(80)), Prim({"Ip6"}, {}, Host(Ten(1))),
          Prim({"Tcp"}, {}, Host(Two({0}))), Prim({"Icmp"}, {"Dst"}, Host(Ten(1))),
          Prim({"Udp"}, {"Dst"}, Host(Ten(1)))}

MCEther ==
  {EtherLeaf([kind |-> "Host", mac |-> Mac(1), dir |-> dir]) :
      dir \in {{}, {"Src"}, {"Dst"}}}
    \cup {EtherLeaf([kind |-> "Proto", ethertype |-> 2054]),
          EtherLeaf([kind |-> "Broadcast"]),
          EtherLeaf([kind |-> "Multicast"])}

(* Parts of combined filters, and the operators over them. *)
TcpPort == Prim({"Tcp"}, {}, Port(80))
SrcHost == Prim({"Ip"}, {"Src"}, Host(Ten(1)))
DstHost == Prim({"Ip"}, {"Dst"}, Host(Ten(1)))
Net6Zero == Prim({"Ip6"}, {}, Net(Two({0}), {0}))
BareHost == Prim({}, {}, Host(Ten(1)))
NoPort == Prim({"Arp"}, {}, Port(80))
Multicast == EtherLeaf([kind |-> "Multicast"])
MCParts == {TcpPort, SrcHost, DstHost, Net6Zero, BareHost, NoPort, Multicast}

(* The longest code two primitives can have, and too much of it. *)
Range(lo, hi) == Prim({}, {}, PortRange(lo, hi))
TwoRanges == Or(Range(1, 2), Range(80, 90))
ThreeRanges == Or(TwoRanges, Range(3, 4))

MCCombined ==
  {And(l, Not(r)) : l, r \in MCParts} \cup {Or(l, r) : l, r \in MCParts}
    \cup {Not(Or(l, And(TcpPort, Not(r)))) : l, r \in MCParts}
    \cup {TwoRanges, ThreeRanges, Or(ThreeRanges, NoPort)}

(* `port 1 or port 2 or port 3 or port 4`. *)
FourPorts ==
  Or(Or(Or(Prim({}, {}, Port(1)), Prim({}, {}, Port(2))),
        Prim({}, {}, Port(3))), Prim({}, {}, Port(4)))
MCLarge == {SourceOf(FourPorts)}

(* Texts that are no filter, also behind a primitive that means nothing. *)
Port80 == <<Keyword("port"), NumberWord(80)>>
MCUnreadable ==
  {<<>>, Port80 \o <<Keyword("or")>>, <<Keyword("(")>> \o Port80, Port80 \o <<Keyword(")")>>,
   Port80 \o Port80, <<Keyword("arp")>> \o Port80 \o <<Keyword("or")>>,
   <<Keyword("arp")>> \o Port80 \o <<Keyword(")")>>, <<Keyword("not")>>, <<Keyword("tcp")>>, <<Keyword("port"), NumberWord(65536)>>,
   <<Keyword("portrange"), NumberWord(90), Keyword("-"), NumberWord(80)>>}

MCSources ==
  {SourceOf(f) : f \in MCPrimitives \cup MCEther \cup MCCombined}
    \cup {NoFilter(w) : w \in MCUnreadable}

-----------------------------------------------------------------------------
(* Packets, from numbers. *)
Bytes(s) == [i \in DOMAIN s |-> Bits(s[i])]
Zeros(n) == [i \in 1..n |-> 0]

Ip4(ihl, frag, proto, from, to, sport, dport) ==
  <<64 + ihl, 0, 0, 60, 0, 0, frag[1], frag[2], 64, proto, 0, 0, 10, 0, 0, from, 10, 0, 0, to>>
    \o Zeros(4 * (ihl - 5)) \o <<0, sport, 0, dport>>
Ip6(nexthdr, from, to, sport, dport) ==
  <<96, 0, 0, 0, 0, 20, nexthdr, 64, 32, 0, 0, 0>> \o from \o <<32, 0, 0, 0>> \o to
    \o <<0, sport, 0, dport>>
ArpBody(from, to) ==
  <<0, 1, 8, 0, 6, 4, 0, 1>> \o Zeros(6) \o <<10, 0, 0, from>> \o Zeros(6) \o <<10, 0, 0, to>>

Low(b5, b9, b12) == <<b5, 0, 0, 0, b9, 0, 0, 0, 0, 0, 0, b12>>

(* <<ethertype, network layer>> *)
MCBodies ==
  {<<<<8, 0>>, Ip4(5, <<0, 0>>, 6, 1, 2, 80, 95)>>, <<<<8, 0>>, Ip4(6, <<64, 0>>, 6, 2, 1, 95, 80)>>,
   <<<<8, 0>>, Ip4(5, <<32, 0>>, 17, 1, 2, 91, 90)>>, <<<<8, 0>>, Ip4(5, <<32, 1>>, 6, 2, 0, 80, 80)>>,
   <<<<8, 0>>, Ip4(15, <<0, 0>>, 132, 3, 1, 79, 81)>>, <<<<8, 0>>, Ip4(5, <<0, 0>>, 1, 3, 1, 80, 80)>>,
   <<<<8, 6>>, ArpBody(1, 2)>>, <<<<8, 6>>, ArpBody(2, 1)>>, <<<<128, 53>>, ArpBody(0, 1)>>,
   <<<<134, 221>>, Ip6(6, Low(0, 0, 1), Low(128, 64, 1), 79, 80)>>,
   <<<<134, 221>>, Ip6(17, Low(192, 64, 0), Low(0, 0, 0), 85, 7)>>,
   <<<<134, 221>>, Ip6(17, Low(64, 64, 0), Low(192, 64, 0), 90, 91)>>,
   <<<<134, 221>>, Ip6(6, Low(192, 0, 0), Low(192, 192, 1), 1, 2)>>}

Framed(lt, ethertype) ==
  CASE lt = "Ethernet" /\ ethertype[2] = 0 -> <<2, 2, 2, 2, 2, 1, 2, 2, 2, 2, 2, 3>> \o ethertype
    [] lt = "Ethernet" /\ ethertype[2] = 6 -> [i \in 1..6 |-> 255] \o <<2, 2, 2, 2, 2, 1>> \o ethertype
    [] lt = "Ethernet" /\ ethertype[2] \notin {0, 6} -> <<51, 51, 0, 0, 0, 1, 2, 2, 2, 2, 2, 1>> \o ethertype
    [] lt = "LinuxSll" -> Zeros(14) \o ethertype
    [] lt = "Raw" -> <<>>

Whole(lt) == {Framed(lt, b[1]) \o b[2] : b \in MCBodies}

(* Cut in the middle of each field a filter loads. *)
MCCuts == {1, 7, 10, 15, 22, 26, 37, 43}
Truncated(lt) ==
  {SubSeq(q, 1, n) : n \in {0, 5, 8, 13}, q \in Whole(lt)}
    \cup UNION {{SubSeq(q, 1, n + IpBase(lt)) : n \in {m \in MCCuts : m + IpBase(lt) < Len(q)}} :
                q \in Whole(lt)}

MCPacketsOn == [lt \in LinkTypes |-> {Bytes(q) : q \in Whole(lt) \cup Truncated(lt)}]

MCSnaplens == {AllOnes}
MCUsizeMax == 1000000
=============================================================================
