-------------------------------- MODULE Emit --------------------------------
(***************************************************************************)
(* The emitting half of codegen.rs: the code of one primitive.             *)
(*                                                                         *)
(* Every function there appends to the IrBuilder and may take labels from  *)
(* it.  Here it is an operator from the number `n` of labels taken so far  *)
(* to a block: the entries it appends and the number of labels taken       *)
(* afterwards.  Cat is "and then".                                         *)
(***************************************************************************)
EXTENDS Irep, LinkType

Block(code, n) == [code |-> code, n |-> n]
Cat(g, h) == Block(g.code \o h.code, h.n)
Placing(label, g) == Block(<<Mark(label)>> \o g.code, g.n)

(* The value of an Option that is not None. *)
The(option) == CHOOSE v \in option : TRUE

Branch(on_true, on_false) == [on_true |-> on_true, on_false |-> on_false]
swapped(branch) == Branch(branch.on_false, branch.on_true)

(* Ctx without its IrBuilder. *)
Ctx(link_type) ==
  LET info == l3_offset_info(link_type)
  IN  [ip_base |-> info.ip_base, eth_field |-> info.ethertype_offset, link_type |-> link_type]

-----------------------------------------------------------------------------
ETH_TYPE_IP == 2048        \* 0x0800
ETH_TYPE_ARP == 2054       \* 0x0806
ETH_TYPE_RARP == 32821     \* 0x8035
ETH_TYPE_IPV6 == 34525     \* 0x86dd

IP_PROTO_ICMP == 1
IP_PROTO_TCP == 6
IP_PROTO_UDP == 17
IP_PROTO_SCTP == 132

IP_FLAGS_FRAG_OFFSET == 6
IP_PROTO_OFFSET == 9
IP_SRC_OFFSET == 12
IP_DST_OFFSET == 16
FRAG_MASK == 0..12         \* 0x1fff

IP6_SRC_OFFSET == 8
IP6_DST_OFFSET == 24
IP6_NEXTHDR_OFFSET == 6
IP6_HEADER_LEN == 40

ARP_SENDER_PA_OFFSET == 14
ARP_TARGET_PA_OFFSET == 24

ETH_DST_MAC_OFFSET == 0
ETH_SRC_MAC_OFFSET == 6
ETH_MAC_BROADCAST == [i \in 1..6 |-> 0..7]

PORT_SRC_REL == 0
PORT_DST_REL == 2

-----------------------------------------------------------------------------
(* The gates: a load and a jump to `on_false`, or on to what follows. *)

gate_ldh_eq(n, jump, imm, offset, on_false) ==
  Block(<<LdhAbs(Bits(jump), offset), Jeq(Bits(imm), n, on_false, offset), Mark(n)>>, n + 1)

gate_ldb_eq(n, jump, imm, offset, on_false) ==
  Block(<<LdbAbs(Bits(jump), offset), Jeq(Bits(imm), n, on_false, offset), Mark(n)>>, n + 1)

gate_ip_version(ctx, n, version_nibble, offset, on_false) ==
  Block(<<LdbAbs(Bits(ctx.ip_base), offset), AndK(4..7, offset),
          Jeq(version_nibble, n, on_false, offset), Mark(n)>>, n + 1)

emit_l3_gate(ctx, n, ethertype, offset, on_false) ==
  CASE ctx.eth_field # {} ->
         gate_ldh_eq(n, The(ctx.eth_field), ethertype, offset, on_false)
    [] ctx.eth_field = {} /\ ethertype = ETH_TYPE_IP ->
         gate_ip_version(ctx, n, {6}, offset, on_false)
    [] ctx.eth_field = {} /\ ethertype = ETH_TYPE_IPV6 ->
         gate_ip_version(ctx, n, {5, 6}, offset, on_false)
    [] OTHER -> Block(<<Panic>>, n)

emit_ethertype_and_proto_gates(ctx, n, ethertype, proto_field_offset, ip_proto, offset, on_false) ==
  LET l3 == emit_l3_gate(ctx, n, ethertype, offset, on_false)
  IN  IF ip_proto = {} THEN l3
      ELSE Cat(l3, gate_ldb_eq(l3.n, ctx.ip_base + proto_field_offset, The(ip_proto),
                               offset, on_false))

emit_not_fragment_gate(ctx, n, offset, on_false) ==
  Block(<<LdhAbs(Bits(ctx.ip_base + IP_FLAGS_FRAG_OFFSET), offset),
          Jset(FRAG_MASK, on_false, n, offset), Mark(n)>>, n + 1)

-----------------------------------------------------------------------------
(* Addresses. *)

(* The shift alone, which a release build takes modulo 32. *)
MutNetmask(prefix) == Shl(AllOnes, 32 - prefix)

netmask(prefix) == IF prefix = 0 THEN Zero ELSE Shl(AllOnes, 32 - prefix)

full_prefix(addr) == IF addr.version = 4 THEN 32 ELSE 128

(* `and #mask`, left out when the mask keeps every bit. *)
Masking(mask, offset) == IF mask = AllOnes THEN <<>> ELSE <<AndK(mask, offset)>>

emit_addr_terminal(ctx, n, gates, dir, mask, target, offset, branch) ==
  LET step == IF dir = "Src" THEN gates.src_offset ELSE gates.dst_offset
  IN  Block(<<LdwAbs(Bits(ctx.ip_base + step), offset)>>
              \o (IF mask = {} THEN <<>> ELSE Masking(The(mask), offset))
              \o <<Jeq(target, branch.on_true, branch.on_false, offset)>>, n)

(* The comparison of word i, counted from the most significant end. *)
Addr6Word(ctx, n, step, addr, prefix, words, i, offset, branch) ==
  LET word == {b \in 0..31 : b + (96 - 32 * i) \in addr}
      mask == netmask(IF prefix - 32 * i < 32 THEN prefix - 32 * i ELSE 32)
      last == i = words - 1
      next == IF last THEN branch.on_true ELSE n + i
  IN  <<LdwAbs(Bits(ctx.ip_base + step + 4 * i), offset)>>
        \o Masking(mask, offset)
        \o <<Jeq(word \cap mask, next, branch.on_false, offset)>>
        \o (IF last THEN <<>> ELSE <<Mark(next)>>)

emit_addr6_terminal(ctx, n, gates, dir, addr, prefix, offset, branch) ==
  LET step == IF dir = "Src" THEN gates.src_offset ELSE gates.dst_offset
      words == (prefix + 31) \div 32
      WordCode(i) == IF i < words
                  THEN Addr6Word(ctx, n, step, addr, prefix, words, i, offset, branch)
                  ELSE <<>>
  IN  IF words = 0 THEN Block(<<Jmp(branch.on_true, offset)>>, n)
      ELSE Block(WordCode(0) \o WordCode(1) \o WordCode(2) \o WordCode(3), n + words - 1)

-----------------------------------------------------------------------------
(* Ports. *)

(* A range without new_label. *)
MutPortCompare(n, lo, hi, offset, branch) ==
  IF lo = hi
  THEN Block(<<Jeq(Bits(lo), branch.on_true, branch.on_false, offset)>>, n)
  ELSE Block(<<Jge(Bits(lo), n, branch.on_false, offset), Mark(n),
               Jgt(Bits(hi), branch.on_false, branch.on_true, offset)>>, n)

emit_port_compare(n, lo, hi, offset, branch) ==
  IF lo = hi
  THEN Block(<<Jeq(Bits(lo), branch.on_true, branch.on_false, offset)>>, n)
  ELSE Block(<<Jge(Bits(lo), n, branch.on_false, offset), Mark(n),
               Jgt(Bits(hi), branch.on_false, branch.on_true, offset)>>, n + 1)

PortRel(dir) == IF dir = "Src" THEN PORT_SRC_REL ELSE PORT_DST_REL

emit_port_terminal(ctx, n, dir, lo, hi, offset, branch) ==
  Cat(Block(<<LdhInd(Bits(ctx.ip_base + PortRel(dir)), offset)>>, n),
      emit_port_compare(n, lo, hi, offset, branch))

emit_port6_terminal(ctx, n, dir, lo, hi, offset, branch) ==
  Cat(Block(<<LdhAbs(Bits(ctx.ip_base + IP6_HEADER_LEN + PortRel(dir)), offset)>>, n),
      emit_port_compare(n, lo, hi, offset, branch))

-----------------------------------------------------------------------------
(* MAC addresses: a sequence of six bytes. *)

emit_mac_eq(n, field_offset, mac, offset, branch) ==
  Block(<<LdwAbs(Bits(field_offset), offset),
          Jeq(U32(mac[1], mac[2], mac[3], mac[4]), n, branch.on_false, offset),
          Mark(n),
          LdhAbs(Bits(field_offset + 4), offset),
          Jeq(U16(mac[5], mac[6]), branch.on_true, branch.on_false, offset)>>, n + 1)

-----------------------------------------------------------------------------
(* The primitives.  Each checks before it emits, so a primitive either is  *)
(* an error, told by one of the predicates here, or a block.               *)

(* Where a `host`/`net` check finds its gates and addresses. *)
AddrGates(ethertype, ip_proto, src_offset, dst_offset) ==
  [ethertype |-> ethertype, ip_proto |-> ip_proto,
   src_offset |-> src_offset, dst_offset |-> dst_offset]

addr_gates(proto) ==
  CASE proto = "Ip"   -> AddrGates(ETH_TYPE_IP, {}, IP_SRC_OFFSET, IP_DST_OFFSET)
    [] proto = "Tcp"  -> AddrGates(ETH_TYPE_IP, {IP_PROTO_TCP}, IP_SRC_OFFSET, IP_DST_OFFSET)
    [] proto = "Udp"  -> AddrGates(ETH_TYPE_IP, {IP_PROTO_UDP}, IP_SRC_OFFSET, IP_DST_OFFSET)
    [] proto = "Icmp" -> AddrGates(ETH_TYPE_IP, {IP_PROTO_ICMP}, IP_SRC_OFFSET, IP_DST_OFFSET)
    [] proto = "Arp"  -> AddrGates(ETH_TYPE_ARP, {}, ARP_SENDER_PA_OFFSET, ARP_TARGET_PA_OFFSET)
    [] proto = "Rarp" -> AddrGates(ETH_TYPE_RARP, {}, ARP_SENDER_PA_OFFSET, ARP_TARGET_PA_OFFSET)

addr6_gates == AddrGates(ETH_TYPE_IPV6, {}, IP6_SRC_OFFSET, IP6_DST_OFFSET)

(* ARP forgotten. *)
MutEthertypeAvailable(ctx, gates) ==
  ~(ctx.eth_field = {} /\ gates.ethertype = ETH_TYPE_RARP)

ensure_ethertype_available(ctx, gates) ==
  ~(ctx.eth_field = {} /\ gates.ethertype \in {ETH_TYPE_ARP, ETH_TYPE_RARP})

(* compile_addr and compile_addr6 go ahead. *)
AddrFits(ctx, proto, addr) ==
  IF addr.version = 6
  THEN proto = "Ip6" /\ ensure_ethertype_available(ctx, addr6_gates)
  ELSE proto \notin {"Ip6", "Sctp"} /\ ensure_ethertype_available(ctx, addr_gates(proto))

addr_prologue(ctx, n, p, gates, branch) ==
  emit_ethertype_and_proto_gates(ctx, n, gates.ethertype, IP_PROTO_OFFSET, gates.ip_proto,
                                 p.offset, branch.on_false)

(* The mask of a prefix (None for `host`), and the address under it. *)
MaskOf(prefix) == {netmask(q) : q \in prefix}
TargetOf(addr, mask) == IF mask = {} THEN addr ELSE addr \cap The(mask)

(* compile_addr6; `second` is {} or the direction tried after the first. *)
compile_addr6(ctx, n, p, second, addr, prefix, branch) ==
  LET g == emit_ethertype_and_proto_gates(ctx, n, addr6_gates.ethertype, IP6_NEXTHDR_OFFSET,
                                          {}, p.offset, branch.on_false)
      bits == IF prefix = {} THEN 128 ELSE The(prefix)
      mid == g.n
      alone == emit_addr6_terminal(ctx, g.n, addr6_gates, p.dir, addr, bits, p.offset, branch)
      one == emit_addr6_terminal(ctx, mid + 1, addr6_gates, p.dir, addr, bits, p.offset,
                                 Branch(branch.on_true, mid))
      two == emit_addr6_terminal(ctx, one.n, addr6_gates, The(second), addr, bits, p.offset, branch)
  IN  IF second = {} THEN Cat(g, alone) ELSE Cat(g, Cat(one, Placing(mid, two)))

compile_addr(ctx, n, p, addr, prefix, branch) ==
  LET gates == addr_gates(p.proto)
      mask == MaskOf(prefix)
      g == addr_prologue(ctx, n, p, gates, branch)
  IN  IF addr.version = 6 THEN compile_addr6(ctx, n, p, {}, addr.bits, prefix, branch)
      ELSE Cat(g, emit_addr_terminal(ctx, g.n, gates, p.dir, mask, TargetOf(addr.bits, mask),
                                     p.offset, branch))

compile_addr_pair(ctx, n, p1, p2, addr, prefix, branch) ==
  LET gates == addr_gates(p1.proto)
      mask == MaskOf(prefix)
      target == TargetOf(addr.bits, mask)
      g == addr_prologue(ctx, n, p1, gates, branch)
      mid == g.n
      one == emit_addr_terminal(ctx, mid + 1, gates, p1.dir, mask, target, p1.offset,
                                Branch(branch.on_true, mid))
      two == emit_addr_terminal(ctx, one.n, gates, p2.dir, mask, target, p1.offset, branch)
  IN  IF addr.version = 6 THEN compile_addr6(ctx, n, p1, {p2.dir}, addr.bits, prefix, branch)
      ELSE Cat(g, Cat(one, Placing(mid, two)))

-----------------------------------------------------------------------------
PortProtos == {"Tcp", "Udp", "Sctp"}

port_proto_num(proto) ==
  CASE proto = "Tcp" -> IP_PROTO_TCP
    [] proto = "Udp" -> IP_PROTO_UDP
    [] proto = "Sctp" -> IP_PROTO_SCTP

(* Gates, fragment check and `ldx_msh`: what both forms of compile_port4 start with. *)
port4_prologue(ctx, n, proto_num, offset, branch) ==
  LET g == emit_ethertype_and_proto_gates(ctx, n, ETH_TYPE_IP, IP_PROTO_OFFSET, {proto_num},
                                          offset, branch.on_false)
      f == emit_not_fragment_gate(ctx, g.n, offset, branch.on_false)
  IN  Cat(g, Cat(f, Block(<<LdxMsh(Bits(ctx.ip_base), offset)>>, f.n)))

port6_prologue(ctx, n, proto_num, offset, branch) ==
  emit_ethertype_and_proto_gates(ctx, n, ETH_TYPE_IPV6, IP6_NEXTHDR_OFFSET, {proto_num},
                                 offset, branch.on_false)

compile_port4(ctx, n, proto_num, dir, lo, hi, offset, branch) ==
  LET g == port4_prologue(ctx, n, proto_num, offset, branch)
  IN  Cat(g, emit_port_terminal(ctx, g.n, dir, lo, hi, offset, branch))

compile_port4_pair(ctx, n, proto_num, dir1, dir2, lo, hi, offset, branch) ==
  LET g == port4_prologue(ctx, n, proto_num, offset, branch)
      mid == g.n
      one == emit_port_terminal(ctx, mid + 1, dir1, lo, hi, offset, Branch(branch.on_true, mid))
      two == emit_port_terminal(ctx, one.n, dir2, lo, hi, offset, branch)
  IN  Cat(g, Cat(one, Placing(mid, two)))

compile_port6(ctx, n, proto_num, dir, lo, hi, offset, branch) ==
  LET g == port6_prologue(ctx, n, proto_num, offset, branch)
  IN  Cat(g, emit_port6_terminal(ctx, g.n, dir, lo, hi, offset, branch))

compile_port6_pair(ctx, n, proto_num, dir1, dir2, lo, hi, offset, branch) ==
  LET g == port6_prologue(ctx, n, proto_num, offset, branch)
      mid == g.n
      one == emit_port6_terminal(ctx, mid + 1, dir1, lo, hi, offset, Branch(branch.on_true, mid))
      two == emit_port6_terminal(ctx, one.n, dir2, lo, hi, offset, branch)
  IN  Cat(g, Cat(one, Placing(mid, two)))

(* Label n is `try_v6`. *)
compile_port(ctx, n, p, lo, hi, branch) ==
  LET num == port_proto_num(p.proto)
      v4 == compile_port4(ctx, n + 1, num, p.dir, lo, hi, p.offset, Branch(branch.on_true, n))
      v6 == compile_port6(ctx, v4.n, num, p.dir, lo, hi, p.offset, branch)
  IN  Cat(v4, Placing(n, v6))

compile_port_pair(ctx, n, p1, p2, lo, hi, branch) ==
  LET num == port_proto_num(p1.proto)
      v4 == compile_port4_pair(ctx, n + 1, num, p1.dir, p2.dir, lo, hi, p1.offset,
                               Branch(branch.on_true, n))
      v6 == compile_port6_pair(ctx, v4.n, num, p1.dir, p2.dir, lo, hi, p1.offset, branch)
  IN  Cat(v4, Placing(n, v6))

-----------------------------------------------------------------------------
compile_ether_host(n, mac, dir, offset, branch) ==
  LET one == emit_mac_eq(n + 1, ETH_DST_MAC_OFFSET, mac, offset, Branch(branch.on_true, n))
      two == emit_mac_eq(one.n, ETH_SRC_MAC_OFFSET, mac, offset, branch)
  IN  CASE dir = {"Src"} -> emit_mac_eq(n, ETH_SRC_MAC_OFFSET, mac, offset, branch)
        [] dir = {"Dst"} -> emit_mac_eq(n, ETH_DST_MAC_OFFSET, mac, offset, branch)
        [] dir = {} -> Cat(one, Placing(n, two))

compile_ether_proto(ctx, n, ethertype, offset, branch) ==
  IF ctx.eth_field = {} THEN Block(<<Panic>>, n)
  ELSE Block(<<LdhAbs(Bits(The(ctx.eth_field)), offset),
               Jeq(Bits(ethertype), branch.on_true, branch.on_false, offset)>>, n)

compile_ether_multicast(n, offset, branch) ==
  Block(<<LdbAbs(Bits(ETH_DST_MAC_OFFSET), offset),
          Jset({0}, branch.on_true, branch.on_false, offset)>>, n)

(* compile_ether goes ahead. *)
EtherFits(ctx) == ctx.link_type = "Ethernet"

compile_ether(ctx, n, e, branch) ==
  CASE e.kind = "Host" -> compile_ether_host(n, e.mac, e.dir, e.offset, branch)
    [] e.kind = "Proto" -> compile_ether_proto(ctx, n, e.ethertype, e.offset, branch)
    [] e.kind = "Broadcast" ->
         emit_mac_eq(n, ETH_DST_MAC_OFFSET, ETH_MAC_BROADCAST, e.offset, branch)
    [] e.kind = "Multicast" -> compile_ether_multicast(n, e.offset, branch)

-----------------------------------------------------------------------------
(* The prefix compile_addr is called with: None for `host`, the written    *)
(* one or the whole address for `net`.                                     *)
PrefixOf(ty) ==
  CASE ty.kind = "Host" -> {}
    [] ty.kind = "Net" -> IF ty.prefix = {} THEN {full_prefix(ty.addr)} ELSE ty.prefix

PrimFits(ctx, p) ==
  IF p.ty.kind \in {"Host", "Net"} THEN AddrFits(ctx, p.proto, p.ty.addr)
  ELSE p.proto \in PortProtos

compile_primitive(ctx, n, p, branch) ==
  IF p.ty.kind \in {"Host", "Net"}
  THEN compile_addr(ctx, n, p, p.ty.addr, PrefixOf(p.ty), branch)
  ELSE compile_port(ctx, n, p, p.ty.lo, p.ty.hi, branch)

compile_dir_pair(ctx, n, p1, p2, branch) ==
  IF p1.ty.kind \in {"Host", "Net"}
  THEN compile_addr_pair(ctx, n, p1, p2, p1.ty.addr, PrefixOf(p1.ty), branch)
  ELSE compile_port_pair(ctx, n, p1, p2, p1.ty.lo, p1.ty.hi, branch)
=============================================================================
