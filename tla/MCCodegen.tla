------------------------------ MODULE MCCodegen ------------------------------
(***************************************************************************)
(* The code generator on every `or` of two primitives and on deeper        *)
(* expressions, over primitives of each kind: each link-type restriction,  *)
(* the shapes with labels of their own (ranges, /0 and multi-word IPv6     *)
(* nets), and src/dst pairs.                                               *)
(***************************************************************************)
EXTENDS Codegen

Prim(proto, dir, ty) == Leaf([proto |-> proto, dir |-> dir, ty |-> ty, offset |-> Span(0, 9)])
Ether(kind) == EtherLeaf([kind |-> kind, offset |-> Span(10, 15)])

Host4 == [kind |-> "Host", addr |-> V4({0, 27})]
Net6(prefix) == [kind |-> "Net", addr |-> V6({0, 125}), prefix |-> {prefix}]
PortRange == [kind |-> "PortRange", lo |-> 80, hi |-> 90]

MCLeaves ==
  {Prim("Ip", "Src", Host4), Prim("Ip", "Dst", Host4), Prim("Arp", "Src", Host4),
   Prim("Ip6", "Src", Net6(0)), Prim("Ip6", "Dst", Net6(0)),
   Prim("Ip6", "Src", Net6(65)), Prim("Ip6", "Dst", Net6(65)),
   Prim("Tcp", "Src", PortRange), Prim("Tcp", "Dst", PortRange),
   EtherLeaf([kind |-> "Host", mac |-> ETH_MAC_BROADCAST, dir |-> {}, offset |-> Span(10, 15)]),
   EtherLeaf([kind |-> "Proto", ethertype |-> 34525, offset |-> Span(10, 15)]),
   Ether("Broadcast"), Ether("Multicast")}

HostPair == Or(Prim("Ip", "Src", Host4), Prim("Ip", "Dst", Host4))
PortPair == Or(Prim("Tcp", "Src", PortRange), Prim("Tcp", "Dst", PortRange))

MCPairs == {Or(l, r) : l, r \in MCLeaves}
MCExprs ==
  MCLeaves \cup MCPairs \cup {HostPair, PortPair, Not(PortPair)}
    \cup {And(HostPair, e) : e \in MCLeaves}
    \cup {And(e, Not(PortPair)) : e \in MCLeaves}
    \cup {Or(And(HostPair, e), Not(PortPair)) : e \in MCLeaves}

MCSnaplens == {AllOnes}
=============================================================================
