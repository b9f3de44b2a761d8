------------------------------ MODULE MCVmPair ------------------------------
(***************************************************************************)
(* Pairs of runs over programs that end in an accepting `ret`, so that a   *)
(* read that succeeds where it should not shows up in the result.          *)
(***************************************************************************)
EXTENDS VmPair

CONSTANT MaxLen   \* bound on the instructions before the last `ret`

MCUsizeMax == 300

MCInsns ==
  {ldh_abs(Bits(0)), ldh_abs(Bits(1)), ldb_abs(Bits(1)), ldw_abs(Bits(0)),
   ldh_ind(Bits(0)), ldx_msh(Bits(0)), and_k(Bits(1)), jmp(Bits(0)), jmp(Bits(300)),
   jeq(Bits(1), 0, 1), jgt(Bits(1), 1, 0), jge(Bits(1), 0, 1), jset(Bits(1), 1, 0),
   ret_k(Zero), Plain({0, 1, 2}, Zero)}

MCPrograms ==
  UNION {{Append(p, ret_k(AllOnes)) : p \in [1..n -> MCInsns]} : n \in 0..MaxLen}

MCPackets ==
  {<<Bits(65), Bits(0), Bits(0), Bits(0), Bits(0), Bits(1)>>,
   <<Bits(0), Bits(2), Bits(1), Bits(3)>>}
=============================================================================
