---------------------------------- MODULE Vm ----------------------------------
(***************************************************************************)
(* vm.rs: the cBPF interpreter.  One action per opcode of the loop in      *)
(* `run`; every early `return 0` is a disjunct of the action it belongs    *)
(* to.  A Rust Option is a set: {} is None and {v} is Some(v).             *)
(*                                                                         *)
(* `pc` counts from 0 as in the code, so the instruction at pc is          *)
(* insns[pc + 1] and the byte at `offset` is packet[offset + 1].           *)
(***************************************************************************)
EXTENDS Insn, Sequences

CONSTANTS Programs,   \* the instruction sequences `run` is called with
          Packets,    \* the packets it is called with
          UsizeMax    \* usize::MAX of the target

(* A slice of 8-byte instructions is at most isize::MAX bytes, so the      *)
(* unchecked `pc + 1 + disp` of `branch` cannot wrap.                      *)
ASSUME VmAssumption ==
  /\ UsizeMax \in Nat
  /\ \A p \in Programs : p \in Seq(Insns) /\ Len(p) + 256 <= UsizeMax
  /\ \A q \in Packets : q \in Seq(Byte) /\ Len(q) <= UsizeMax

VARIABLES insns, packet,
          a,     \* the accumulator, a u32
          x,     \* the index register: 4 * (a nibble), kept as a number
          pc,
          ret    \* {} while the loop runs, {v} once `run` has returned v

vars == <<insns, packet, a, x, pc, ret>>

Init ==
  /\ insns \in Programs
  /\ packet \in Packets
  /\ a = Zero
  /\ x = 0
  /\ pc = 0
  /\ ret = {}

-----------------------------------------------------------------------------
CheckedAdd(m, n) == IF m + n <= UsizeMax THEN {m + n} ELSE {}

(* A slice that may not end at the end of the packet. *)
MutSliceEnd(offset, n) == {end \in CheckedAdd(offset, n) : end < Len(packet)}

(* packet.get(offset..offset.checked_add(n)?): the range if it is in the packet. *)
SliceEnd(offset, n) == {end \in CheckedAdd(offset, n) : end <= Len(packet)}

ReadU8(offset) == IF offset < Len(packet) THEN {packet[offset + 1]} ELSE {}

(* A read that takes what lies behind the packet as zeros. *)
MutReadU16(offset) ==
  LET At(i) == IF i <= Len(packet) THEN packet[i] ELSE Zero
  IN  {U16(At(offset + 1), At(offset + 2))}

ReadU16(offset) ==
  {U16(packet[offset + 1], packet[offset + 2]) : end \in SliceEnd(offset, 2)}

ReadU32(offset) ==
  {U32(packet[offset + 1], packet[offset + 2], packet[offset + 3], packet[offset + 4]) :
     end \in SliceEnd(offset, 4)}

(* Displacements counted from the instruction after the next one. *)
MutBranch(taken) ==
  pc + 2 + (IF taken THEN insns[pc + 1].jt ELSE insns[pc + 1].jf)

Branch(taken) ==
  pc + 1 + (IF taken THEN insns[pc + 1].jt ELSE insns[pc + 1].jf)

(* `ja` with wrapping arithmetic. *)
MutStep(k) == {(pc + 1 + Num(k)) % (UsizeMax + 1)}

(* The target of `ja`, if `usize` can hold it. *)
Step(k) == CheckedAdd(pc + 1, Num(k))

-----------------------------------------------------------------------------
Executing(op) ==
  /\ ret = {}
  /\ pc < Len(insns)
  /\ Decode(insns[pc + 1]) = op

K == insns[pc + 1].k

Return(v) ==
  /\ ret' = {v}
  /\ UNCHANGED <<insns, packet, a, x, pc>>

Advance ==
  /\ pc' = pc + 1
  /\ UNCHANGED <<insns, packet, ret>>

Goto(target) ==
  /\ pc' = target
  /\ UNCHANGED <<insns, packet, a, x, ret>>

(* A load: the value goes to the accumulator, a failed read rejects. *)
LoadA(read) ==
  \/ \E v \in read : a' = v /\ UNCHANGED x /\ Advance
  \/ read = {} /\ Return(Zero)

LdhAbs == Executing("LdhAbs") /\ LoadA(ReadU16(Num(K)))
LdbAbs == Executing("LdbAbs") /\ LoadA(ReadU8(Num(K)))
LdwAbs == Executing("LdwAbs") /\ LoadA(ReadU32(Num(K)))

LdhInd ==
  /\ Executing("LdhInd")
  /\ LoadA(UNION {ReadU16(offset) : offset \in CheckedAdd(x, Num(K))})

(* The whole byte taken for the header length, without `& 0x0f`. *)
MutLdxMsh ==
  /\ Executing("LdxMsh")
  /\ \/ \E byte \in ReadU8(Num(K)) :
           x' = 4 * ByteNum(byte) /\ UNCHANGED a /\ Advance
     \/ ReadU8(Num(K)) = {} /\ Return(Zero)

LdxMsh ==
  /\ Executing("LdxMsh")
  /\ \/ \E byte \in ReadU8(Num(K)) :
           x' = 4 * ByteNum(byte \cap (0..3)) /\ UNCHANGED a /\ Advance
     \/ ReadU8(Num(K)) = {} /\ Return(Zero)

AluAndK ==
  /\ Executing("AluAndK")
  /\ a' = a \cap K
  /\ UNCHANGED x
  /\ Advance

Ja ==
  /\ Executing("Ja")
  /\ \/ \E target \in Step(K) : Goto(target)
     \/ Step(K) = {} /\ Return(Zero)

Jeq  == Executing("Jeq")  /\ Goto(Branch(a = K))
Jgt  == Executing("Jgt")  /\ Goto(Branch(Gt(a, K)))
Jge  == Executing("Jge")  /\ Goto(Branch(Ge(a, K)))
Jset == Executing("Jset") /\ Goto(Branch(a \cap K # {}))

Ret == Executing("Ret") /\ Return(K)

Unknown == Executing("Unknown") /\ Return(Zero)

(* insns.get(pc) is None: the program ran, or jumped, past its end. *)
RanOff ==
  /\ ret = {}
  /\ pc >= Len(insns)
  /\ Return(Zero)

Next ==
  \/ LdhAbs \/ LdbAbs \/ LdwAbs \/ LdhInd \/ LdxMsh \/ AluAndK
  \/ Ja \/ Jeq \/ Jgt \/ Jge \/ Jset \/ Ret \/ Unknown \/ RanOff

(* `run` is one call on one thread: the loop keeps turning until it        *)
(* returns.                                                                *)
Spec == Init /\ [][Next]_vars /\ WF_vars(Next)

-----------------------------------------------------------------------------
(* Every variable has its type; the index register is four times a nibble  *)
(* and so never exceeds 60, and `run` returns at most one value.           *)
TypeOK ==
  /\ insns \in Programs
  /\ packet \in Packets
  /\ a \in Word
  /\ x \in 0..60
  /\ pc \in Nat
  /\ ret \subseteq Word
  /\ \A v, w \in ret : v = w

(* A step of the loop either returns or moves strictly forward, for any    *)
(* program, a `ja` with a huge displacement included: this is what bounds  *)
(* a run by the length of the program.                                     *)
ForwardOnly == [][pc' > pc \/ ret' # {}]_vars

(* `run` never hangs: it returns for every program and every packet.       *)
Terminates == <>(ret # {})

(* A program the kernel would accept is never left through its end: the    *)
(* `return 0` for running off the end is dead code for validated programs. *)
ValidNeverRunsOff == Valid(insns) => pc < Len(insns)

(* Whether the instruction at pc is a load that reads past the packet. *)
LoadFails ==
  LET op == Decode(insns[pc + 1])
  IN  \/ op \in {"LdbAbs", "LdxMsh"} /\ Num(K) >= Len(packet)
      \/ op = "LdhAbs" /\ Num(K) + 2 > Len(packet)
      \/ op = "LdwAbs" /\ Num(K) + 4 > Len(packet)
      \/ op = "LdhInd" /\ x + Num(K) + 2 > Len(packet)

(* Why a validated program returned: it stands on a `ret` and its result   *)
(* is that instruction's k, unclamped, or it stands on a load that the     *)
(* packet is too short for and the packet was rejected.                    *)
ReturnHasCause ==
  (Valid(insns) /\ ret # {}) =>
     \/ Decode(insns[pc + 1]) = "Ret" /\ ret = {K}
     \/ LoadFails /\ ret = {Zero}
=============================================================================
