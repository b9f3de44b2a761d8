------------------------------ MODULE VmProofs ------------------------------
(***************************************************************************)
(* What the interpreter guarantees for every program, every packet and     *)
(* every width of usize.                                                   *)
(***************************************************************************)
EXTENDS Vm, TLAPS

-----------------------------------------------------------------------------
(* The operators on words. *)

(* The number of a byte is a natural number. *)
LEMMA ByteNumType == \A b : ByteNum(b) \in Nat
  BY DEF ByteNum, BitVal

(* `k as usize` is a natural number. *)
LEMMA NumType == \A w : Num(w) \in Nat
<1> TAKE w
<1>1. \A j : ByteNum(Octet(w, j)) \in Nat
  BY ByteNumType
<1> HIDE DEF ByteNum, Octet
<1> QED
  BY <1>1 DEF Num

(* `byte & 0x0f` is below sixteen, so ldx_msh puts at most 60 in X. *)
LEMMA NibbleBound == \A b : 4 * ByteNum(b \cap (0..3)) \in 0..60
<1> TAKE b
<1>1. ~(4 \in b \cap (0..3)) /\ ~(5 \in b \cap (0..3)) /\ ~(6 \in b \cap (0..3))
        /\ ~(7 \in b \cap (0..3))
  OBVIOUS
<1> DEFINE c == b \cap (0..3)
<1> HIDE DEF c
<1>2. ByteNum(c) = BitVal(c, 0, 1) + BitVal(c, 1, 2) + BitVal(c, 2, 4) + BitVal(c, 3, 8)
  BY <1>1 DEF c, ByteNum, BitVal
<1>3. ByteNum(c) \in 0..15
  BY <1>2 DEF BitVal
<1>4. 4 * ByteNum(c) \in 0..60
  BY <1>3
<1> QED
  BY <1>4 DEF c

(* A byte moved up within a word is part of a word. *)
LEMMA UpType == ASSUME NEW b \in Byte, NEW n \in 0..24
                PROVE  Up(b, n) \subseteq 0..31
<1> SUFFICES ASSUME NEW j \in Up(b, n) PROVE j \in 0..31
  OBVIOUS
<1>1. PICK i \in b : j = i + n
  BY DEF Up
<1>2. i \in 0..7
  BY DEF Byte
<1> QED
  BY <1>1, <1>2

(* Two bytes make a u32. *)
LEMMA U16Type == ASSUME NEW b0 \in Byte, NEW b1 \in Byte
                 PROVE  U16(b0, b1) \in Word
<1>1. Up(b0, 8) \subseteq 0..31
  BY UpType
<1>2. b1 \subseteq 0..31
  BY DEF Byte
<1> QED
  BY <1>1, <1>2 DEF U16, Word

(* Four bytes make a u32. *)
LEMMA U32Type == ASSUME NEW b0 \in Byte, NEW b1 \in Byte, NEW b2 \in Byte, NEW b3 \in Byte
                 PROVE  U32(b0, b1, b2, b3) \in Word
<1>1. Up(b0, 24) \subseteq 0..31 /\ Up(b1, 16) \subseteq 0..31 /\ Up(b2, 8) \subseteq 0..31
  BY UpType
<1>2. b3 \subseteq 0..31
  BY DEF Byte
<1> QED
  BY <1>1, <1>2 DEF U32, Word

-----------------------------------------------------------------------------
(* The reads. *)

(* A read returns bytes of the packet, or nothing. *)
LEMMA ReadType ==
  ASSUME packet \in Packets, NEW offset \in Nat
  PROVE  /\ ReadU8(offset) \subseteq Word
         /\ ReadU16(offset) \subseteq Word
         /\ ReadU32(offset) \subseteq Word
<1>1. packet \in Seq(Byte) /\ UsizeMax \in Nat
  BY VmAssumption
<1>2. ASSUME NEW i \in 1..Len(packet) PROVE packet[i] \in Byte
  BY <1>1
<1>3. Byte \subseteq Word
  BY DEF Byte, Word
<1>4. ReadU8(offset) \subseteq Word
  BY <1>1, <1>2, <1>3 DEF ReadU8
<1>5. ASSUME NEW n \in Nat, NEW e \in SliceEnd(offset, n)
      PROVE  offset + n <= Len(packet)
  BY <1>1 DEF SliceEnd, CheckedAdd
<1>6. ASSUME NEW e \in SliceEnd(offset, 2)
      PROVE  U16(packet[offset + 1], packet[offset + 2]) \in Word
  <2>1. offset + 1 \in 1..Len(packet) /\ offset + 2 \in 1..Len(packet)
    BY <1>1, <1>5, <1>6
  <2> QED
    BY <2>1, <1>2, U16Type
<1>7. ASSUME NEW e \in SliceEnd(offset, 4)
      PROVE  U32(packet[offset + 1], packet[offset + 2], packet[offset + 3],
                 packet[offset + 4]) \in Word
  <2>1. /\ offset + 1 \in 1..Len(packet) /\ offset + 2 \in 1..Len(packet)
        /\ offset + 3 \in 1..Len(packet) /\ offset + 4 \in 1..Len(packet)
    BY <1>1, <1>5, <1>7
  <2> QED
    BY <2>1, <1>2, U32Type
<1> QED
  BY <1>4, <1>6, <1>7 DEF ReadU16, ReadU32

(* The instruction at pc, while the loop is inside the program. *)
LEMMA InsnType ==
  ASSUME insns \in Programs, pc \in Nat, pc < Len(insns)
  PROVE  /\ insns \in Seq(Insns)
         /\ pc + 1 \in DOMAIN insns
         /\ insns[pc + 1] \in Insns
         /\ K \in Word
         /\ insns[pc + 1].jt \in 0..255
         /\ insns[pc + 1].jf \in 0..255
<1>1. insns \in Seq(Insns)
  BY VmAssumption
<1>2. pc + 1 \in DOMAIN insns
  BY <1>1
<1>3. insns[pc + 1] \in Insns
  BY <1>1, <1>2
<1> QED
  BY <1>1, <1>2, <1>3 DEF K, Insns

(* The four conditional jumps. *)
CondJump == Jeq \/ Jgt \/ Jge \/ Jset

(* A conditional jump moves pc by one of its two displacements and does    *)
(* nothing else.                                                           *)
LEMMA CondJumpGoes ==
  ASSUME CondJump
  PROVE  /\ pc < Len(insns)
         /\ IsConditionalJump(insns[pc + 1])
         /\ \/ Goto(pc + 1 + insns[pc + 1].jt)
            \/ Goto(pc + 1 + insns[pc + 1].jf)
<1>1. CASE Jeq
  BY <1>1 DEF Jeq, Executing, Branch, Goto, IsConditionalJump
<1>2. CASE Jgt
  BY <1>2 DEF Jgt, Executing, Branch, Goto, IsConditionalJump
<1>3. CASE Jge
  BY <1>3 DEF Jge, Executing, Branch, Goto, IsConditionalJump
<1>4. CASE Jset
  BY <1>4 DEF Jset, Executing, Branch, Goto, IsConditionalJump
<1> QED
  BY <1>1, <1>2, <1>3, <1>4 DEF CondJump

-----------------------------------------------------------------------------
(* TypeOK is inductive. *)

(* Returning a u32 keeps the types. *)
LEMMA ReturnType ==
  ASSUME TypeOK, NEW v \in Word, Return(v)
  PROVE  TypeOK'
  BY DEF TypeOK, Return

(* A load leaves a u32 in the accumulator. *)
LEMMA LoadAType ==
  ASSUME TypeOK, NEW r, r \subseteq Word, LoadA(r)
  PROVE  TypeOK'
<1>1. CASE \E v \in r : a' = v /\ UNCHANGED x /\ Advance
  <2>1. a' \in Word
    BY <1>1
  <2>2. UNCHANGED <<insns, packet, x, ret>> /\ pc' = pc + 1
    BY <1>1 DEF Advance
  <2> QED
    BY <2>1, <2>2 DEF TypeOK
<1>2. CASE Return(Zero)
  <2>1. Zero \in Word
    BY DEF Zero, Word
  <2> QED
    BY <1>2, <2>1, ReturnType
<1> QED
  BY <1>1, <1>2 DEF LoadA

(* A jump to a natural number keeps the types. *)
LEMMA GotoType ==
  ASSUME TypeOK, NEW t \in Nat, Goto(t)
  PROVE  TypeOK'
  BY DEF TypeOK, Goto

(* `ja` goes to a natural number past pc, whatever its displacement. *)
LEMMA StepForward ==
  ASSUME pc \in Nat, NEW k, NEW t \in Step(k)
  PROVE  t \in Nat /\ t > pc
  BY NumType, VmAssumption DEF Step, CheckedAdd

(* Every step keeps the types. *)
LEMMA TypeStep == TypeOK /\ [Next]_vars => TypeOK'
<1> SUFFICES ASSUME TypeOK, [Next]_vars PROVE TypeOK'
  OBVIOUS
<1> USE NumType
<1>0. Zero \in Word
  BY DEF Zero, Word
<1>1. CASE LdhAbs
  BY <1>1, ReadType, LoadAType DEF LdhAbs, TypeOK
<1>2. CASE LdbAbs
  BY <1>2, ReadType, LoadAType DEF LdbAbs, TypeOK
<1>3. CASE LdwAbs
  BY <1>3, ReadType, LoadAType DEF LdwAbs, TypeOK
<1>4. CASE LdhInd
  <2>1. \A offset \in CheckedAdd(x, Num(K)) : offset \in Nat
    BY DEF CheckedAdd, TypeOK
  <2>2. \A offset \in CheckedAdd(x, Num(K)) : ReadU16(offset) \subseteq Word
    BY <2>1, ReadType DEF TypeOK
  <2>3. UNION {ReadU16(offset) : offset \in CheckedAdd(x, Num(K))} \subseteq Word
    BY <2>2
  <2> QED
    BY <1>4, <2>3, LoadAType DEF LdhInd
<1>5. CASE LdxMsh
  <2>1. CASE \E byte \in ReadU8(Num(K)) :
               x' = 4 * ByteNum(byte \cap (0..3)) /\ UNCHANGED a /\ Advance
    BY <2>1, NibbleBound DEF TypeOK, Advance
  <2> QED
    BY <1>5, <2>1, <1>0, ReturnType DEF LdxMsh
<1>6. CASE AluAndK
  <2>1. a' \in Word
    BY <1>6 DEF AluAndK, TypeOK, Word
  <2>2. UNCHANGED <<insns, packet, x, ret>> /\ pc' = pc + 1
    BY <1>6 DEF AluAndK, Advance
  <2> QED
    BY <2>1, <2>2 DEF TypeOK
<1>7. CASE Ja
  <2>1. ASSUME NEW t \in Step(K), Goto(t) PROVE TypeOK'
    BY <2>1, StepForward, GotoType DEF TypeOK
  <2> QED
    BY <1>7, <2>1, <1>0, ReturnType DEF Ja
<1>8. CASE CondJump
  <2>0. pc < Len(insns) /\ pc \in Nat
    BY <1>8, CondJumpGoes DEF TypeOK
  <2>1. /\ pc + 1 + insns[pc + 1].jt \in Nat
        /\ pc + 1 + insns[pc + 1].jf \in Nat
    <3> DEFINE jt == insns[pc + 1].jt
               jf == insns[pc + 1].jf
    <3>1. jt \in 0..255 /\ jf \in 0..255
      BY <2>0, InsnType DEF TypeOK
    <3> HIDE DEF jt, jf
    <3>2. pc + 1 + jt \in Nat /\ pc + 1 + jf \in Nat
      BY <2>0, <3>1
    <3> QED
      BY <3>2 DEF jt, jf
  <2> QED
    BY <1>8, <2>1, CondJumpGoes, GotoType
<1>9. CASE Ret
  BY <1>9, InsnType, ReturnType DEF Ret, Executing, TypeOK
<1>10. CASE Unknown
  BY <1>10, <1>0, ReturnType DEF Unknown
<1>11. CASE RanOff
  BY <1>11, <1>0, ReturnType DEF RanOff
<1>12. CASE UNCHANGED vars
  BY <1>12 DEF vars, TypeOK
<1> QED
  BY <1>1, <1>2, <1>3, <1>4, <1>5, <1>6, <1>7, <1>8, <1>9, <1>10, <1>11, <1>12
     DEF Next, CondJump

(* The registers of the interpreter keep their types in every run: the     *)
(* index register never exceeds 60, and `run` returns one u32.             *)
THEOREM TypeCorrect == Spec => []TypeOK
<1>1. Init => TypeOK
  BY DEF Init, TypeOK, Zero, Word
<1> QED
  BY <1>1, TypeStep, PTL DEF Spec

-----------------------------------------------------------------------------
(* Where a step goes. *)

(* The successors of an instruction lie behind it. *)
LEMMA TargetsForward ==
  ASSUME insns \in Programs, pc \in Nat, pc < Len(insns), NEW t \in Targets(insns, pc + 1)
  PROVE  t > pc + 1 /\ t \in Nat
<1> DEFINE jt == insns[pc + 1].jt
           jf == insns[pc + 1].jf
           k == Num(insns[pc + 1].k)
<1>1. jt \in 0..255 /\ jf \in 0..255
  BY InsnType
<1>2. k \in Nat
  BY NumType
<1>3. t \in {pc + 1 + 1 + jt, pc + 1 + 1 + jf, pc + 1 + 1 + k, pc + 1 + 1}
  BY DEF Targets
<1> HIDE DEF jt, jf, k
<1> QED
  BY <1>1, <1>2, <1>3

(* A step returns where it stands or goes to a successor of its            *)
(* instruction.                                                            *)
Moves ==
  /\ pc < Len(insns)
  /\ pc' + 1 \in Targets(insns, pc + 1)
  /\ insns' = insns

Stops ==
  /\ ret' # {}
  /\ pc' = pc
  /\ insns' = insns

(* The opcodes after which control falls through. *)
LEMMA AdvanceMoves ==
  ASSUME TypeOK, pc < Len(insns), Advance,
         Decode(insns[pc + 1]) \in {"LdhAbs", "LdbAbs", "LdwAbs", "LdhInd", "LdxMsh", "AluAndK"}
  PROVE  Moves
  BY DEF Moves, Advance, Targets, IsConditionalJump, TypeOK

(* Returning stops. *)
LEMMA ReturnStops == ASSUME NEW v, Return(v) PROVE Stops
  BY DEF Return, Stops

(* A load falls through or returns. *)
LEMMA LoadAMoves ==
  ASSUME TypeOK, pc < Len(insns), NEW r, LoadA(r),
         Decode(insns[pc + 1]) \in {"LdhAbs", "LdbAbs", "LdwAbs", "LdhInd"}
  PROVE  Moves \/ Stops
  BY AdvanceMoves, ReturnStops DEF LoadA

(* Every step moves or stops. *)
LEMMA NextMoves == ASSUME TypeOK, Next PROVE Moves \/ Stops
<1>1. CASE LdhAbs \/ LdbAbs \/ LdwAbs \/ LdhInd
  BY <1>1, LoadAMoves DEF LdhAbs, LdbAbs, LdwAbs, LdhInd, Executing
<1>2. CASE LdxMsh
  BY <1>2, AdvanceMoves, ReturnStops DEF LdxMsh, Executing
<1>3. CASE AluAndK
  BY <1>3, AdvanceMoves DEF AluAndK, Executing
<1>4. CASE Ja
  <2>1. ASSUME NEW t \in Step(K), Goto(t) PROVE Moves
    <3>1. t = pc + 1 + Num(insns[pc + 1].k)
      BY <2>1, NumType, VmAssumption DEF Step, CheckedAdd, K
    <3>2. Targets(insns, pc + 1) = {pc + 1 + 1 + Num(insns[pc + 1].k)}
      BY <1>4 DEF Ja, Executing, Targets, IsConditionalJump
    <3>3. pc' + 1 = pc + 1 + 1 + Num(insns[pc + 1].k)
      BY <2>1, <3>1, NumType DEF Goto, TypeOK
    <3> QED
      BY <1>4, <2>1, <3>2, <3>3 DEF Moves, Goto, Ja, Executing
  <2> QED
    BY <1>4, <2>1, ReturnStops DEF Ja
<1>5. CASE CondJump
  <2> DEFINE jt == insns[pc + 1].jt
             jf == insns[pc + 1].jf
  <2>1. pc < Len(insns) /\ pc \in Nat
    BY <1>5, CondJumpGoes DEF TypeOK
  <2>2. Targets(insns, pc + 1) = {pc + 1 + 1 + jt, pc + 1 + 1 + jf}
    <3>1. IsConditionalJump(insns[pc + 1])
      BY <1>5, CondJumpGoes
    <3> QED
      BY <3>1 DEF Targets, IsConditionalJump
  <2>3. jt \in 0..255 /\ jf \in 0..255
    BY <2>1, InsnType DEF TypeOK
  <2>4. insns' = insns /\ (pc' = pc + 1 + jt \/ pc' = pc + 1 + jf)
    BY <1>5, CondJumpGoes DEF Goto
  <2> HIDE DEF jt, jf
  <2>5. pc' + 1 = pc + 1 + 1 + jt \/ pc' + 1 = pc + 1 + 1 + jf
    BY <2>1, <2>3, <2>4
  <2> QED
    BY <2>1, <2>2, <2>4, <2>5 DEF Moves
<1>6. CASE Ret \/ Unknown \/ RanOff
  BY <1>6, ReturnStops DEF Ret, Unknown, RanOff
<1> QED
  BY <1>1, <1>2, <1>3, <1>4, <1>5, <1>6 DEF Next, CondJump

(* The loop of `run` moves strictly forward or returns, for every program, *)
(* every packet and every usize: the checked addition of `step` is what    *)
(* keeps a huge `ja` displacement from wrapping round to an earlier pc.    *)
THEOREM RunsForward == Spec => ForwardOnly
<1>1. TypeOK /\ [Next]_vars => [pc' > pc \/ ret' # {}]_vars
  <2> SUFFICES ASSUME TypeOK, Next PROVE pc' > pc \/ ret' # {}
    OBVIOUS
  <2>1. CASE Stops
    BY <2>1 DEF Stops
  <2>2. CASE Moves
    <3>1. pc' + 1 > pc + 1
      BY <2>2, TargetsForward DEF Moves, TypeOK
    <3>2. pc' \in Nat
      BY TypeStep DEF TypeOK
    <3>3. pc \in Nat
      BY DEF TypeOK
    <3>4. \A m, n \in Nat : m + 1 > n + 1 => m > n
      OBVIOUS
    <3> QED
      BY <3>1, <3>2, <3>3, <3>4
  <2> QED
    BY <2>1, <2>2, NextMoves
<1> QED
  BY <1>1, TypeCorrect, PTL DEF Spec, ForwardOnly

(* A validated program never runs off its end, on any packet. *)
LEMMA ValidStep ==
  ASSUME TypeOK, ValidNeverRunsOff, [Next]_vars PROVE ValidNeverRunsOff'
<1>1. CASE UNCHANGED vars
  BY <1>1 DEF vars, ValidNeverRunsOff
<1>2. CASE Stops
  BY <1>2 DEF Stops, ValidNeverRunsOff
<1>3. CASE Moves
  <2> SUFFICES ASSUME Valid(insns) PROVE pc' < Len(insns)
    BY <1>3 DEF Moves, ValidNeverRunsOff
  <2>1. insns \in Seq(Insns) /\ pc + 1 \in DOMAIN insns
    BY <1>3, InsnType DEF Moves, TypeOK
  <2>2. pc' + 1 \in DOMAIN insns
    BY <1>3, <2>1 DEF Moves, Valid
  <2>3. pc' \in Nat /\ [Next]_vars
    BY TypeStep DEF TypeOK
  <2> QED
    BY <2>1, <2>2, <2>3
<1> QED
  BY <1>1, <1>2, <1>3, NextMoves

(* The interpreter never leaves a validated program through its end: its   *)
(* `return 0` for a missing instruction is dead code for such programs.    *)
THEOREM ValidStaysInside == Spec => []ValidNeverRunsOff
<1>1. Init => ValidNeverRunsOff
  <2> SUFFICES ASSUME Init, Valid(insns) PROVE 0 < Len(insns)
    BY DEF Init, ValidNeverRunsOff
  <2>1. insns \in Seq(Insns) /\ insns # <<>>
    BY VmAssumption DEF Init, Valid
  <2> QED
    BY <2>1
<1> QED
  BY <1>1, ValidStep, TypeCorrect, PTL DEF Spec

-----------------------------------------------------------------------------
(* Why a run returned. *)

(* A read comes back empty only when the packet is too short for it. *)
LEMMA ReadFails ==
  ASSUME packet \in Packets, NEW offset \in Nat
  PROVE  /\ ReadU8(offset) = {} => offset >= Len(packet)
         /\ ReadU16(offset) = {} => offset + 2 > Len(packet)
         /\ ReadU32(offset) = {} => offset + 4 > Len(packet)
<1>1. Len(packet) \in Nat /\ UsizeMax \in Nat /\ Len(packet) <= UsizeMax
  BY VmAssumption
<1>2. ASSUME NEW n \in Nat, offset + n <= Len(packet)
      PROVE  SliceEnd(offset, n) = {offset + n}
  BY <1>1, <1>2 DEF SliceEnd, CheckedAdd
<1>3. ReadU8(offset) = {} => offset >= Len(packet)
  <2> SUFFICES ASSUME offset < Len(packet) PROVE ReadU8(offset) # {}
    BY <1>1
  <2> QED
    BY DEF ReadU8
<1>4. ReadU16(offset) = {} => offset + 2 > Len(packet)
  <2> SUFFICES ASSUME offset + 2 <= Len(packet) PROVE ReadU16(offset) # {}
    BY <1>1
  <2>1. SliceEnd(offset, 2) = {offset + 2}
    BY <1>2
  <2> QED
    BY <2>1 DEF ReadU16
<1>5. ReadU32(offset) = {} => offset + 4 > Len(packet)
  <2> SUFFICES ASSUME offset + 4 <= Len(packet) PROVE ReadU32(offset) # {}
    BY <1>1
  <2>1. SliceEnd(offset, 4) = {offset + 4}
    BY <1>2
  <2> QED
    BY <2>1 DEF ReadU32
<1> QED
  BY <1>3, <1>4, <1>5

(* What ReturnHasCause says of a run that has returned, without the        *)
(* condition that it has.                                                  *)
Cause ==
  \/ Decode(insns[pc + 1]) = "Ret" /\ ret = {K}
  \/ LoadFails /\ ret = {Zero}

(* A failed load is a cause. *)
LEMMA FailedLoad ==
  ASSUME LoadFails, Return(Zero) PROVE Cause'
<1>1. UNCHANGED <<insns, packet, a, x, pc>> /\ ret' = {Zero}
  BY DEF Return
<1>2. LoadFails'
  BY <1>1 DEF LoadFails, K
<1> QED
  BY <1>1, <1>2 DEF Cause

(* A step of a validated program that returns has a cause. *)
LEMMA ReturnCause ==
  ASSUME TypeOK, ValidNeverRunsOff, Valid(insns), Next, ret' # {}
  PROVE  Cause'
<1> USE NumType
<1>0. ret = {}
  BY DEF Next, LdhAbs, LdbAbs, LdwAbs, LdhInd, LdxMsh, AluAndK, Ja, Jeq, Jgt, Jge, Jset,
         Ret, Unknown, RanOff, Executing
<1>1. ASSUME Advance PROVE FALSE
  BY <1>0, <1>1 DEF Advance
<1>2. ASSUME NEW t, Goto(t) PROVE FALSE
  BY <1>0, <1>2 DEF Goto
<1>3. CASE LdhAbs
  <2>1. ReadU16(Num(K)) = {} /\ Return(Zero)
    BY <1>1, <1>3 DEF LdhAbs, LoadA
  <2>2. LoadFails
    BY <1>3, <2>1, ReadFails DEF LdhAbs, Executing, LoadFails, TypeOK
  <2> QED
    BY <2>1, <2>2, FailedLoad
<1>4. CASE LdbAbs
  <2>1. ReadU8(Num(K)) = {} /\ Return(Zero)
    BY <1>1, <1>4 DEF LdbAbs, LoadA
  <2>2. LoadFails
    BY <1>4, <2>1, ReadFails DEF LdbAbs, Executing, LoadFails, TypeOK
  <2> QED
    BY <2>1, <2>2, FailedLoad
<1>5. CASE LdwAbs
  <2>1. ReadU32(Num(K)) = {} /\ Return(Zero)
    BY <1>1, <1>5 DEF LdwAbs, LoadA
  <2>2. LoadFails
    BY <1>5, <2>1, ReadFails DEF LdwAbs, Executing, LoadFails, TypeOK
  <2> QED
    BY <2>1, <2>2, FailedLoad
<1>6. CASE LdhInd
  <2>1. /\ UNION {ReadU16(offset) : offset \in CheckedAdd(x, Num(K))} = {}
        /\ Return(Zero)
    BY <1>1, <1>6 DEF LdhInd, LoadA
  <2>2. x + Num(K) + 2 > Len(packet)
    <3>1. x \in Nat /\ packet \in Packets /\ Len(packet) \in Nat /\ UsizeMax \in Nat
            /\ Len(packet) <= UsizeMax
      BY VmAssumption DEF TypeOK
    <3>2. CASE x + Num(K) <= UsizeMax
      <4>1. CheckedAdd(x, Num(K)) = {x + Num(K)}
        BY <3>2 DEF CheckedAdd
      <4>2. ReadU16(x + Num(K)) = {}
        BY <2>1, <4>1
      <4>3. x + Num(K) \in Nat
        BY <3>1
      <4> QED
        BY <3>1, <4>2, <4>3, ReadFails
    <3>3. CASE x + Num(K) > UsizeMax
      BY <3>1, <3>3
    <3> QED
      BY <3>1, <3>2, <3>3
  <2>3. LoadFails
    BY <1>6, <2>2 DEF LdhInd, Executing, LoadFails
  <2> QED
    BY <2>1, <2>3, FailedLoad
<1>7. CASE LdxMsh
  <2>1. ReadU8(Num(K)) = {} /\ Return(Zero)
    BY <1>1, <1>7 DEF LdxMsh
  <2>2. LoadFails
    BY <1>7, <2>1, ReadFails DEF LdxMsh, Executing, LoadFails, TypeOK
  <2> QED
    BY <2>1, <2>2, FailedLoad
<1>8. CASE AluAndK
  BY <1>1, <1>8 DEF AluAndK
<1>9. CASE CondJump
  BY <1>2, <1>9, CondJumpGoes
<1>10. CASE Ja
  <2> DEFINE k == Num(K)
  <2>1. pc < Len(insns) /\ Decode(insns[pc + 1]) = "Ja"
    BY <1>10 DEF Ja, Executing
  <2>2. /\ insns \in Programs /\ insns \in Seq(Insns) /\ pc + 1 \in DOMAIN insns
        /\ Len(insns) + 256 <= UsizeMax /\ pc \in Nat /\ UsizeMax \in Nat
    BY <2>1, InsnType, VmAssumption DEF TypeOK
  <2>3. pc + 1 + 1 + k \in DOMAIN insns
    <3>1. Targets(insns, pc + 1) = {pc + 1 + 1 + k}
      BY <2>1 DEF Targets, IsConditionalJump, K
    <3>2. Targets(insns, pc + 1) \subseteq DOMAIN insns
      BY <2>2 DEF Valid
    <3> QED
      BY <3>1, <3>2
  <2>4. k \in Nat
    OBVIOUS
  <2> HIDE DEF k
  <2>5. pc + 1 + k <= UsizeMax
    BY <2>2, <2>3, <2>4
  <2>6. Step(K) # {}
    BY <2>5 DEF Step, CheckedAdd, k
  <2> QED
    BY <1>2, <1>10, <2>6 DEF Ja
<1>11. CASE Ret
  BY <1>11 DEF Ret, Executing, Return, Cause, K
<1>12. CASE Unknown
  <2>1. pc + 1 \in DOMAIN insns
    BY <1>12, InsnType DEF Unknown, Executing, TypeOK
  <2> QED
    BY <1>12, <2>1 DEF Unknown, Executing, Valid
<1>13. CASE RanOff
  <2>1. pc \in Nat /\ Len(insns) \in Nat /\ pc < Len(insns)
    BY VmAssumption DEF TypeOK, ValidNeverRunsOff
  <2> QED
    BY <1>13, <2>1 DEF RanOff
<1> QED
  BY <1>3, <1>4, <1>5, <1>6, <1>7, <1>8, <1>9, <1>10, <1>11, <1>12, <1>13
     DEF Next, CondJump

(* A validated program returns for one of two reasons only, on every       *)
(* packet: it reached a `ret` and hands back that instruction's k, or a    *)
(* load met the end of the packet and rejected it.                         *)
THEOREM ReturnsWithCause == Spec => []ReturnHasCause
<1>1. Init => ReturnHasCause
  BY DEF Init, ReturnHasCause
<1>2. ASSUME TypeOK, ValidNeverRunsOff, ReturnHasCause, [Next]_vars
      PROVE  ReturnHasCause'
  <2>1. CASE UNCHANGED vars
    BY <1>2, <2>1 DEF vars, ReturnHasCause, LoadFails, K
  <2>2. CASE Next
    <3>1. insns' = insns
      BY <1>2, <2>2, NextMoves DEF Moves, Stops
    <3>2. Valid(insns) /\ ret' # {} => Cause'
      BY <1>2, <2>2, ReturnCause
    <3> QED
      BY <3>1, <3>2 DEF ReturnHasCause, Cause
  <2> QED
    BY <1>2, <2>1, <2>2
<1> QED
  BY <1>1, <1>2, TypeCorrect, ValidStaysInside, PTL DEF Spec
=============================================================================
