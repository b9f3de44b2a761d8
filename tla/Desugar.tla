------------------------------- MODULE Desugar -------------------------------
(***************************************************************************)
(* desugar.rs: default expansion.  A written primitive has optional        *)
(* `proto` and `dir`; every combination of the defaults for what is left   *)
(* out becomes a leaf, and the leaves are joined by `or`, left to right.   *)
(***************************************************************************)
EXTENDS Ast, Sequences
LOCAL INSTANCE SequencesExt

(* The protocols of a primitive written without one. *)
DefaultProtos(ty) ==
  CASE ty.kind \in {"Host", "Net"} /\ ty.addr.version = 6 -> <<"Ip6">>
    [] ty.kind \in {"Host", "Net"} /\ ty.addr.version = 4 -> <<"Ip", "Arp", "Rarp">>
    [] ty.kind \in {"Port", "PortRange"} -> <<"Tcp", "Udp", "Sctp">>

protos(p) == IF p.proto = {} THEN DefaultProtos(p.ty) ELSE SetToSeq(p.proto)
dirs(p) == IF p.dir = {} THEN <<"Src", "Dst">> ELSE SetToSeq(p.dir)

(* The leaves, the directions of one protocol next to each other. *)
leaves(p) ==
  LET d == Len(dirs(p))
  IN  [i \in 1..(Len(protos(p)) * d) |->
         Leaf([proto |-> protos(p)[((i - 1) \div d) + 1],
               dir |-> dirs(p)[((i - 1) % d) + 1],
               ty |-> p.ty, offset |-> p.offset])]

or_reduce(seq) == FoldLeft(Or, Head(seq), Tail(seq))

expand_primitive(p) == or_reduce(leaves(p))

RECURSIVE expand(_)
expand(expr) ==
  CASE expr.tag = "Leaf" -> expand_primitive(expr.p)
    [] expr.tag = "EtherLeaf" -> expr
    [] expr.tag = "Not" -> Not(expand(expr.inner))
    [] expr.tag = "And" -> And(expand(expr.l), expand(expr.r))
    [] expr.tag = "Or" -> Or(expand(expr.l), expand(expr.r))
=============================================================================
