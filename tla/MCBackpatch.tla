----------------------------- MODULE MCBackpatch -----------------------------
(***************************************************************************)
(* The assembler on every stream of up to MaxLen entries over two labels,  *)
(* ill-formed ones (a label never placed, placed twice, placed before a    *)
(* jump to it) included, with a displacement limit of MaxDisp so that the  *)
(* overflow is within reach.                                               *)
(***************************************************************************)
EXTENDS Backpatch

CONSTANT MaxLen   \* bound on the length of a stream

At(n) == Span(n, n + 1)

MCEntries ==
  {LdhAbs(Bits(12), At(0)), Jeq(Zero, 0, 1, At(1)), Jeq(Zero, 1, 0, At(2)), Jmp(0, At(3)),
   Mark(0), Mark(1)}

(* Each of the other operations, in shorter streams. *)
MCOtherEntries ==
  {LdbAbs(Bits(1), At(4)), LdwAbs(Bits(2), At(5)), LdxMsh(Bits(3), At(6)), LdhInd(Bits(4), At(7)),
   AndK(Bits(5), At(8)), Ret(AllOnes, At(9)), Jgt(Bits(6), 0, 1, At(10)), Jge(Bits(7), 1, 0, At(11)),
   Jset(Bits(8), 0, 0, At(12))}

MCStreams ==
  {[stream |-> s, num_labels |-> 2] :
     s \in UNION {[1..n -> MCEntries] : n \in 0..MaxLen}
            \cup [1..3 -> MCEntries \cup MCOtherEntries]}
=============================================================================
