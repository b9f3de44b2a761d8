--------------------------------- MODULE Ast ---------------------------------
(***************************************************************************)
(* ast.rs and the types of desugar.rs: filter expressions before and after *)
(* default expansion.  An address is the set of its one bits, most         *)
(* significant bit highest; a MAC address is six bytes; an Option is a set *)
(* of at most one element; offsets into the text are those of Token.       *)
(*                                                                         *)
(* `Port(p)` is written with lo = hi = p, the range it is compiled as; its *)
(* kind keeps it apart from a `PortRange` of one port.                     *)
(***************************************************************************)
EXTENDS Words, Token

ProtoTag == {"Ip", "Ip6", "Arp", "Tcp", "Udp", "Icmp"}
CompiledProto == ProtoTag \cup {"Rarp", "Sctp"}
DirTag == {"Src", "Dst"}
Option(S) == {{}} \cup {{v} : v \in S}
U16Max == 65535
Port16 == 0..U16Max

V4(bits) == [version |-> 4, bits |-> bits]
V6(bits) == [version |-> 6, bits |-> bits]

(* TRUE of the values of PrimType; a prefix fits its address (parser.rs). *)
IsAddr(addr) ==
  \/ addr.version = 4 /\ addr.bits \subseteq 0..31
  \/ addr.version = 6 /\ addr.bits \subseteq 0..127
IsPrimType(ty) ==
  \/ ty.kind = "Host" /\ IsAddr(ty.addr)
  \/ /\ ty.kind = "Net" /\ IsAddr(ty.addr)
     /\ ty.prefix \in Option(0..(IF ty.addr.version = 4 THEN 32 ELSE 128))
  \/ ty.kind = "Port" /\ ty.lo \in Port16 /\ ty.hi = ty.lo
  \/ ty.kind = "PortRange" /\ ty.lo \in Port16 /\ ty.hi \in Port16 /\ ty.lo <= ty.hi

IsPrimitive(p) ==
  /\ p.proto \in Option(ProtoTag) /\ p.dir \in Option(DirTag) /\ IsPrimType(p.ty)
  /\ p.offset \in Offset

IsCompiledPrimitive(p) ==
  /\ p.proto \in CompiledProto /\ p.dir \in DirTag /\ IsPrimType(p.ty)
  /\ p.offset \in Offset

IsEtherPrimitive(e) ==
  /\ \/ e.kind = "Host" /\ e.mac \in [1..6 -> Byte] /\ e.dir \in Option(DirTag)
     \/ e.kind = "Proto" /\ e.ethertype \in Port16
     \/ e.kind \in {"Broadcast", "Multicast"}
  /\ e.offset \in Offset

(* The constructors of Expr and ExpandedExpr; the inner nodes of an Expr   *)
(* also carry the place in the text they were read from.                   *)
Leaf(p) == [tag |-> "Leaf", p |-> p]
EtherLeaf(e) == [tag |-> "EtherLeaf", ether |-> e]
Not(inner) == [tag |-> "Not", inner |-> inner]
And(l, r) == [tag |-> "And", l |-> l, r |-> r]
Or(l, r) == [tag |-> "Or", l |-> l, r |-> r]
NotAt(inner, offset) == [tag |-> "Not", inner |-> inner, offset |-> offset]
BinaryAt(tag, l, r, offset) == [tag |-> tag, l |-> l, r |-> r, offset |-> offset]
=============================================================================
