------------------------------- MODULE Filter -------------------------------
(***************************************************************************)
(* What a filter expression means, said of the packet and not of any code: *)
(* the reference the compiled programs are checked against.                *)
(*                                                                         *)
(* A test of a packet is "yes", "no" or "short": the packet ends before    *)
(* the bytes the test needs.  Tests are made from left to right, a later   *)
(* one only if the earlier ones do not settle the matter, and a test that  *)
(* finds the packet short settles it: the packet is rejected, also inside  *)
(* a `not` and also when the other side of an `or` would have said yes     *)
(* (vm.rs: "Any out-of-bounds load ... causes the packet to be rejected"). *)
(***************************************************************************)
EXTENDS Ast, LinkType, Sequences

AndThen(s, t) == IF s = "yes" THEN t ELSE s
OrElse(s, t) == IF s = "no" THEN t ELSE s
Negated(s) == CASE s = "yes" -> "no" [] s = "no" -> "yes" [] s = "short" -> "short"

(* A test of the n bytes from offset i on. *)
Test(pkt, i, n, holds) ==
  IF i + n > Len(pkt) THEN "short" ELSE IF holds THEN "yes" ELSE "no"

Byte1(pkt, i) == Num(pkt[i + 1])
Byte2(pkt, i) == 256 * Byte1(pkt, i) + Byte1(pkt, i + 1)
Byte4(pkt, i) == U32(pkt[i + 1], pkt[i + 2], pkt[i + 3], pkt[i + 4])

(* Where the network layer begins: behind the two MAC addresses and the    *)
(* ethertype, behind a cooked header, or at once.                          *)
IpBase(lt) == [Ethernet |-> 6 + 6 + 2, LinuxSll |-> 16, Raw |-> 0][lt]

(* The packet carries IPv4, IPv6, ARP or RARP. *)
EtherTypes == [v4 |-> 2048, v6 |-> 34525, arp |-> 2054, rarp |-> 32821]
Carries(lt, pkt, what) ==
  IF lt = "Raw"
  THEN Test(pkt, 0, 1, (Byte1(pkt, 0) \div 16) = (IF what = "v4" THEN 4 ELSE 6))
  ELSE Test(pkt, IpBase(lt) - 2, 2, Byte2(pkt, IpBase(lt) - 2) = EtherTypes[what])

ProtoNumbers == [Icmp |-> 1, Tcp |-> 6, Udp |-> 17, Sctp |-> 132]

(* The words agree in their n highest bits. *)
SamePrefix(u, v, n) == \A i \in 0..31 : i >= 32 - n => (i \in u <=> i \in v)

-----------------------------------------------------------------------------
(* `host`/`net` under one protocol and in one direction. *)
Addr4(lt, pkt, proto, dir, addr, n) ==
  LET at == IpBase(lt) + (IF proto \in {"Arp", "Rarp"}
                          THEN (IF dir = "Src" THEN 14 ELSE 24)
                          ELSE (IF dir = "Src" THEN 12 ELSE 16))
      carrier == CASE proto = "Arp" -> "arp" [] proto = "Rarp" -> "rarp" [] OTHER -> "v4"
      transport == IF proto \in DOMAIN ProtoNumbers
                   THEN Test(pkt, IpBase(lt) + 9, 1, Byte1(pkt, IpBase(lt) + 9) = ProtoNumbers[proto])
                   ELSE "yes"
  IN  AndThen(Carries(lt, pkt, carrier),
              AndThen(transport, Test(pkt, at, 4, SamePrefix(Byte4(pkt, at), addr, n))))

(* As many of the four words as the prefix of n bits reaches. *)
Addr6(lt, pkt, dir, addr, n) ==
  LET at == IpBase(lt) + (IF dir = "Src" THEN 8 ELSE 24)
      Part(w) == {b \in 0..31 : b + 32 * (3 - w) \in addr}
      Agrees(w) == IF 32 * w >= n THEN "yes"
                   ELSE Test(pkt, at + 4 * w, 4, SamePrefix(Byte4(pkt, at + 4 * w), Part(w), n - 32 * w))
  IN  AndThen(Carries(lt, pkt, "v6"),
              AndThen(Agrees(0), AndThen(Agrees(1), AndThen(Agrees(2), Agrees(3)))))

(* `port`/`portrange`: over IPv4, in a first fragment, behind a header of  *)
(* its own length; or over IPv6, right behind the fixed header.            *)
Ports(lt, pkt, proto, dir, lo, hi) ==
  LET base == IpBase(lt)
      rel == IF dir = "Src" THEN 0 ELSE 2
      InRange(at) == Test(pkt, at, 2, Byte2(pkt, at) \in lo..hi)
      Transport(at) == Test(pkt, at, 1, Byte1(pkt, at) = ProtoNumbers[proto])
      over4 == AndThen(Carries(lt, pkt, "v4"),
                AndThen(Transport(base + 9),
                 AndThen(Test(pkt, base + 6, 2, Byte2(pkt, base + 6) % 8192 = 0),
                         InRange(base + 4 * (Byte1(pkt, base) % 16) + rel))))
      over6 == AndThen(Carries(lt, pkt, "v6"),
                AndThen(Transport(base + 6), InRange(base + 40 + rel)))
  IN  OrElse(over4, over6)

PrimTest(lt, pkt, proto, dir, ty) ==
  CASE ty.kind \in {"Port", "PortRange"} -> Ports(lt, pkt, proto, dir, ty.lo, ty.hi)
    [] ty.kind \in {"Host", "Net"} /\ ty.addr.version = 6 ->
         Addr6(lt, pkt, dir, ty.addr.bits,
               IF ty.kind = "Host" \/ ty.prefix = {} THEN 128 ELSE CHOOSE n \in ty.prefix : TRUE)
    [] OTHER ->
         Addr4(lt, pkt, proto, dir, ty.addr.bits,
               IF ty.kind = "Host" \/ ty.prefix = {} THEN 32 ELSE CHOOSE n \in ty.prefix : TRUE)

(* A written primitive: its defaults, protocol by protocol, `src` first. *)
Written(lt, pkt, p) ==
  LET both(proto) == OrElse(PrimTest(lt, pkt, proto, "Src", p.ty),
                            PrimTest(lt, pkt, proto, "Dst", p.ty))
      Under(proto) == IF p.dir = {} THEN both(proto)
                      ELSE PrimTest(lt, pkt, proto, CHOOSE d \in p.dir : TRUE, p.ty)
  IN  CASE p.proto # {} -> Under(CHOOSE q \in p.proto : TRUE)
        [] p.proto = {} /\ p.ty.kind \in {"Port", "PortRange"} ->
             OrElse(OrElse(Under("Tcp"), Under("Udp")), Under("Sctp"))
        [] p.proto = {} /\ p.ty.kind \in {"Host", "Net"} ->
             IF p.ty.addr.version = 6 THEN Under("Ip6")
             ELSE OrElse(OrElse(Under("Ip"), Under("Arp")), Under("Rarp"))

-----------------------------------------------------------------------------
(* `ether`, `broadcast`, `multicast`. *)
MacIs(pkt, at, mac) ==
  AndThen(Test(pkt, at, 4, \A i \in 1..4 : pkt[at + i] = mac[i]),
          Test(pkt, at + 4, 2, \A i \in 5..6 : pkt[at + i] = mac[i]))

EtherTest(pkt, e) ==
  CASE e.kind = "Host" /\ e.dir = {"Dst"} -> MacIs(pkt, 0, e.mac)
    [] e.kind = "Host" /\ e.dir = {"Src"} -> MacIs(pkt, 6, e.mac)
    [] e.kind = "Host" /\ e.dir = {} -> OrElse(MacIs(pkt, 0, e.mac), MacIs(pkt, 6, e.mac))
    [] e.kind = "Proto" -> Test(pkt, 12, 2, Byte2(pkt, 12) = e.ethertype)
    [] e.kind = "Broadcast" -> MacIs(pkt, 0, [i \in 1..6 |-> 0..7])
    [] e.kind = "Multicast" -> Test(pkt, 0, 1, Byte1(pkt, 0) % 2 = 1)

(* The whole filter, and the number of primitives in it. *)
RECURSIVE Eval(_, _, _)
Eval(lt, pkt, f) ==
  CASE f.tag = "Leaf" -> Written(lt, pkt, f.p)
    [] f.tag = "EtherLeaf" -> EtherTest(pkt, f.ether)
    [] f.tag = "Not" -> Negated(Eval(lt, pkt, f.inner))
    [] f.tag = "And" -> AndThen(Eval(lt, pkt, f.l), Eval(lt, pkt, f.r))
    [] f.tag = "Or" -> OrElse(Eval(lt, pkt, f.l), Eval(lt, pkt, f.r))

RECURSIVE Primitives(_)
Primitives(f) ==
  CASE f.tag \in {"Leaf", "EtherLeaf"} -> 1
    [] f.tag = "Not" -> Primitives(f.inner)
    [] f.tag \in {"And", "Or"} -> Primitives(f.l) + Primitives(f.r)

-----------------------------------------------------------------------------
(* Whether a written primitive means anything on a link type. *)
Meaningful(lt, p) ==
  IF p.ty.kind \in {"Port", "PortRange"} THEN p.proto \subseteq {"Tcp", "Udp"}
  ELSE IF p.ty.addr.version = 6 THEN p.proto \subseteq {"Ip6"}
  ELSE p.proto # {"Ip6"} /\ (lt = "Raw" => p.proto \notin {{}, {"Arp"}})

(* The offsets of the meaningless primitives of f, in the order of the text. *)
RECURSIVE Meaningless(_, _)
Meaningless(lt, f) ==
  CASE f.tag = "Leaf" -> IF Meaningful(lt, f.p) THEN <<>> ELSE <<f.p.offset>>
    [] f.tag = "EtherLeaf" -> IF lt = "Ethernet" THEN <<>> ELSE <<f.ether.offset>>
    [] f.tag = "Not" -> Meaningless(lt, f.inner)
    [] f.tag \in {"And", "Or"} -> Meaningless(lt, f.l) \o Meaningless(lt, f.r)
=============================================================================
