-------------------------------- MODULE Words --------------------------------
(***************************************************************************)
(* Machine words as sets of bit positions.                                 *)
(*                                                                         *)
(* A u32 is the set of the positions of its one bits, so `&` is \cap,      *)
(* "a & k != 0" is a non-empty intersection, and equality is equality of   *)
(* sets.  Every constant of the crate (ethertypes, masks, addresses, the   *)
(* 0xFFFF_FFFF of KEEP_WHOLE_PACKET) keeps its true width: TLC's integers  *)
(* stop at 2^31 - 1, these words do not.                                   *)
(***************************************************************************)
EXTENDS Integers

Word == SUBSET (0..31)
Byte == SUBSET (0..7)

Zero == {}
AllOnes == 0..31

(* The word of a number below 2^31. *)
Bits(n) == {i \in 0..30 : (n \div 2^i) % 2 = 1}

(* Unsigned comparison: the highest bit on which the two differ decides. *)
Gt(u, v) == \E i \in u \ v : \A j \in v \ u : j < i
Ge(u, v) == u = v \/ Gt(u, v)

(* `u << n`, the bits past the top dropped; the amount is taken modulo 32, *)
(* which is what a release build does with an amount out of range.         *)
Shl(u, n) == {i \in 0..31 : i - (n % 32) \in u}

(* from_be_bytes: the first byte is the most significant one. *)
Up(b, n) == {i + n : i \in b}
U16(b0, b1) == Up(b0, 8) \cup b1
U32(b0, b1, b2, b3) == Up(b0, 24) \cup Up(b1, 16) \cup Up(b2, 8) \cup b3

(* `w as usize`: the number a word stands for. *)
BitVal(w, i, v) == IF i \in w THEN v ELSE 0
ByteNum(b) ==
  BitVal(b, 0, 1) + BitVal(b, 1, 2) + BitVal(b, 2, 4) + BitVal(b, 3, 8)
    + BitVal(b, 4, 16) + BitVal(b, 5, 32) + BitVal(b, 6, 64) + BitVal(b, 7, 128)
Octet(w, j) == {i \in 0..7 : i + 8 * j \in w}
Num(w) ==
  ByteNum(Octet(w, 0)) + 256 * ByteNum(Octet(w, 1))
    + 65536 * ByteNum(Octet(w, 2)) + 16777216 * ByteNum(Octet(w, 3))
=============================================================================
