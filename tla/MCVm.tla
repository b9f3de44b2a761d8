--------------------------------- MODULE MCVm ---------------------------------
(***************************************************************************)
(* The interpreter on every program of up to MaxLen instructions drawn     *)
(* from a small set that has each opcode, an unknown one, loads at, across *)
(* and past the end of the packet, and jumps at every boundary: the next   *)
(* instruction, the end of the program, past it, and past usize::MAX.      *)
(***************************************************************************)
EXTENDS Listing

CONSTANT MaxLen   \* bound on the program length

MCUsizeMax == 300

(* `ja`'s operands: to the next instruction, over one, past the end, and   *)
(* just past usize::MAX wherever it stands.                                *)
MCInsns ==
  {ldh_abs(Bits(k)) : k \in {0, 1, 299}} \cup {ldb_abs(Bits(1)), ldb_abs(Bits(2))}
    \cup {ldw_abs(Bits(0)), ldh_ind(Bits(0)), ldh_ind(Bits(250)), ldx_msh(Bits(0))}
    \cup {and_k(Bits(1)), jmp(Bits(0)), jmp(Bits(1)), jmp(Bits(299)), jmp(Bits(300))}
    \cup {jeq(Bits(1), 0, 1), jgt(Bits(1), 1, 0), jge(Bits(1), 0, 255), jset(Bits(1), 1, 0)}
    \cup {ret_k(Zero), ret_k(AllOnes), Plain({0, 1, 2}, Zero)}

MCPrograms == UNION {[1..n -> MCInsns] : n \in 0..MaxLen}

MCPackets ==
  {<<>>, <<Bits(1)>>, <<Bits(255), Bits(1)>>, <<Bits(0), Bits(2)>>,
   <<Bits(65), Bits(0), Bits(0), Bits(0), Bits(1), Bits(1)>>}
=============================================================================
