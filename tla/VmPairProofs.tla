---------------------------- MODULE VmPairProofs ----------------------------
(***************************************************************************)
(* A truncated packet never gains acceptance, for every program.           *)
(***************************************************************************)
EXTENDS VmPair, VmProofs

(* The second packet is what a cut left of the first. *)
IsPrefix ==
  /\ packet2 \in Seq(Byte)
  /\ Len(packet2) <= Len(packet)
  /\ \A i \in 1..Len(packet2) : packet2[i] = packet[i]

(* The registers of the two runs are the same. *)
Agree == a2 = a /\ x2 = x /\ pc2 = pc /\ ret2 = ret

(* The inductive invariant: the types, the prefix, and agreement until the *)
(* run on the prefix has rejected.                                         *)
PairInv == TypeOK /\ IsPrefix /\ AgreeUntilRejected

-----------------------------------------------------------------------------
(* A read from the prefix fails or returns what the whole packet has. *)
LEMMA CutReads ==
  ASSUME TypeOK, IsPrefix, NEW offset \in Nat
  PROVE  /\ Cut!ReadU8(offset) \in {{}, ReadU8(offset)}
         /\ Cut!ReadU16(offset) \in {{}, ReadU16(offset)}
         /\ Cut!ReadU32(offset) \in {{}, ReadU32(offset)}
<1>1. /\ packet \in Seq(Byte) /\ packet2 \in Seq(Byte) /\ UsizeMax \in Nat
      /\ Len(packet) \in Nat /\ Len(packet2) \in Nat
      /\ Len(packet2) <= Len(packet)
  BY VmAssumption DEF TypeOK, IsPrefix
<1>2. ASSUME NEW i \in 1..Len(packet2) PROVE packet2[i] = packet[i]
  BY DEF IsPrefix
<1>3. Cut!ReadU8(offset) \in {{}, ReadU8(offset)}
  <2>1. CASE offset < Len(packet2)
    <3>1. offset + 1 \in 1..Len(packet2) /\ offset < Len(packet)
      BY <1>1, <2>1
    <3>2. packet2[offset + 1] = packet[offset + 1]
      BY <1>2, <3>1
    <3> QED
      BY <2>1, <3>1, <3>2 DEF ReadU8, Cut!ReadU8
  <2>2. CASE ~(offset < Len(packet2))
    BY <2>2 DEF Cut!ReadU8
  <2> QED
    BY <2>1, <2>2
<1>4. ASSUME NEW n \in Nat, offset + n <= Len(packet2)
      PROVE  Cut!SliceEnd(offset, n) = SliceEnd(offset, n)
  BY <1>1, <1>4 DEF Cut!SliceEnd, SliceEnd, Cut!CheckedAdd, CheckedAdd
<1>5. ASSUME NEW n \in Nat, ~(offset + n <= Len(packet2))
      PROVE  Cut!SliceEnd(offset, n) = {}
  BY <1>1, <1>5 DEF Cut!SliceEnd, Cut!CheckedAdd
<1>6. Cut!ReadU16(offset) \in {{}, ReadU16(offset)}
  <2>1. CASE offset + 2 <= Len(packet2)
    <3>1. /\ packet2[offset + 1] = packet[offset + 1]
          /\ packet2[offset + 2] = packet[offset + 2]
      BY <1>1, <1>2, <2>1
    <3>2. Cut!SliceEnd(offset, 2) = SliceEnd(offset, 2)
      BY <1>4, <2>1
    <3>3. Cut!U16(packet2[offset + 1], packet2[offset + 2])
            = U16(packet[offset + 1], packet[offset + 2])
      BY <3>1 DEF U16, Up, Cut!U16, Cut!Up
    <3> QED
      BY <3>2, <3>3 DEF ReadU16, Cut!ReadU16
  <2>2. CASE ~(offset + 2 <= Len(packet2))
    BY <1>5, <2>2 DEF Cut!ReadU16
  <2> QED
    BY <2>1, <2>2
<1>7. Cut!ReadU32(offset) \in {{}, ReadU32(offset)}
  <2>1. CASE offset + 4 <= Len(packet2)
    <3>1. /\ packet2[offset + 1] = packet[offset + 1]
          /\ packet2[offset + 2] = packet[offset + 2]
          /\ packet2[offset + 3] = packet[offset + 3]
          /\ packet2[offset + 4] = packet[offset + 4]
      BY <1>1, <1>2, <2>1
    <3>2. Cut!SliceEnd(offset, 4) = SliceEnd(offset, 4)
      BY <1>4, <2>1
    <3>3. Cut!U32(packet2[offset + 1], packet2[offset + 2], packet2[offset + 3],
                  packet2[offset + 4])
            = U32(packet[offset + 1], packet[offset + 2], packet[offset + 3],
                  packet[offset + 4])
      BY <3>1 DEF U32, Up, Cut!U32, Cut!Up
    <3> QED
      BY <3>2, <3>3 DEF ReadU32, Cut!ReadU32
  <2>2. CASE ~(offset + 4 <= Len(packet2))
    BY <1>5, <2>2 DEF Cut!ReadU32
  <2> QED
    BY <2>1, <2>2
<1> QED
  BY <1>3, <1>6, <1>7

-----------------------------------------------------------------------------
(* The operators on words mean the same in both runs. *)
LEMMA CutOperators ==
  /\ \A w : Cut!Num(w) = Num(w)
  /\ \A b : Cut!ByteNum(b) = ByteNum(b)
  /\ \A u, v : Cut!Gt(u, v) = Gt(u, v)
  /\ \A u, v : Cut!Ge(u, v) = Ge(u, v)
  /\ \A i : Cut!Decode(i) = Decode(i)
  /\ Cut!Zero = Zero
<1>1. \A w, i, v : Cut!BitVal(w, i, v) = BitVal(w, i, v)
  BY DEF BitVal, Cut!BitVal
<1>2. \A b : Cut!ByteNum(b) = ByteNum(b)
  BY <1>1 DEF ByteNum, Cut!ByteNum
<1>3. \A w, j : Cut!Octet(w, j) = Octet(w, j)
  BY DEF Octet, Cut!Octet
<1>4. \A w : Cut!Num(w) = Num(w)
  BY <1>2, <1>3 DEF Num, Cut!Num
<1>5. \A u, v : Cut!Gt(u, v) = Gt(u, v)
  BY DEF Gt, Cut!Gt
<1>6. \A u, v : Cut!Ge(u, v) = Ge(u, v)
  BY <1>5 DEF Ge, Cut!Ge
<1>7. \A i : Cut!Decode(i) = Decode(i)
  BY DEF Decode, Cut!Decode,
        BPF_LD, BPF_LDX, BPF_ALU, BPF_JMP, BPF_RET, BPF_W, BPF_H, BPF_B,
        BPF_ABS, BPF_IND, BPF_MSH, BPF_JA, BPF_JEQ, BPF_JGT, BPF_JGE,
        BPF_JSET, BPF_AND, BPF_K, Cut!BPF_LD, Cut!BPF_LDX, Cut!BPF_ALU,
        Cut!BPF_JMP, Cut!BPF_RET, Cut!BPF_W, Cut!BPF_H, Cut!BPF_B,
        Cut!BPF_ABS, Cut!BPF_IND, Cut!BPF_MSH, Cut!BPF_JA, Cut!BPF_JEQ,
        Cut!BPF_JGT, Cut!BPF_JGE, Cut!BPF_JSET, Cut!BPF_AND, Cut!BPF_K
<1>8. Cut!Zero = Zero
  BY DEF Zero, Cut!Zero
<1> QED
  BY <1>2, <1>4, <1>5, <1>6, <1>7, <1>8

(* While it runs, the interpreter has one thing to do: what the opcode at  *)
(* pc says, or to return when there is none.                               *)
LEMMA OneAction ==
  ASSUME TypeOK, Next
  PROVE  /\ Executing("LdhAbs") => LdhAbs
         /\ Executing("LdbAbs") => LdbAbs
         /\ Executing("LdwAbs") => LdwAbs
         /\ Executing("LdhInd") => LdhInd
         /\ Executing("LdxMsh") => LdxMsh
         /\ Executing("AluAndK") => AluAndK
         /\ Executing("Ja") => Ja
         /\ Executing("Jeq") => Jeq
         /\ Executing("Jgt") => Jgt
         /\ Executing("Jge") => Jge
         /\ Executing("Jset") => Jset
         /\ Executing("Ret") => Ret
         /\ Executing("Unknown") => Unknown
<1>1. /\ LdhAbs => Executing("LdhAbs")
      /\ LdbAbs => Executing("LdbAbs")
      /\ LdwAbs => Executing("LdwAbs")
      /\ LdhInd => Executing("LdhInd")
      /\ LdxMsh => Executing("LdxMsh")
      /\ AluAndK => Executing("AluAndK")
      /\ Ja => Executing("Ja")
      /\ Jeq => Executing("Jeq")
      /\ Jgt => Executing("Jgt")
      /\ Jge => Executing("Jge")
      /\ Jset => Executing("Jset")
      /\ Ret => Executing("Ret")
      /\ Unknown => Executing("Unknown")
  BY DEF LdhAbs, LdbAbs, LdwAbs, LdhInd, LdxMsh, AluAndK,
         Ja, Jeq, Jgt, Jge, Jset, Ret, Unknown
<1>2. \A o, p : Executing(o) /\ Executing(p) => o = p
  BY DEF Executing
<1>3. pc \in Nat /\ Len(insns) \in Nat
  BY VmAssumption DEF TypeOK
<1>4. \A o : Executing(o) => ~RanOff
  BY <1>3 DEF Executing, RanOff
<1> QED
  BY <1>1, <1>2, <1>4, Zenon DEF Next

(* The same of the run on the prefix. *)
LEMMA CutOneAction ==
  ASSUME TypeOK, Agree, Cut!Next
  PROVE  /\ Cut!Executing("LdhAbs") => Cut!LdhAbs
         /\ Cut!Executing("LdbAbs") => Cut!LdbAbs
         /\ Cut!Executing("LdwAbs") => Cut!LdwAbs
         /\ Cut!Executing("LdhInd") => Cut!LdhInd
         /\ Cut!Executing("LdxMsh") => Cut!LdxMsh
         /\ Cut!Executing("AluAndK") => Cut!AluAndK
         /\ Cut!Executing("Ja") => Cut!Ja
         /\ Cut!Executing("Jeq") => Cut!Jeq
         /\ Cut!Executing("Jgt") => Cut!Jgt
         /\ Cut!Executing("Jge") => Cut!Jge
         /\ Cut!Executing("Jset") => Cut!Jset
         /\ Cut!Executing("Ret") => Cut!Ret
         /\ Cut!Executing("Unknown") => Cut!Unknown
<1>1. /\ Cut!LdhAbs => Cut!Executing("LdhAbs")
      /\ Cut!LdbAbs => Cut!Executing("LdbAbs")
      /\ Cut!LdwAbs => Cut!Executing("LdwAbs")
      /\ Cut!LdhInd => Cut!Executing("LdhInd")
      /\ Cut!LdxMsh => Cut!Executing("LdxMsh")
      /\ Cut!AluAndK => Cut!Executing("AluAndK")
      /\ Cut!Ja => Cut!Executing("Ja")
      /\ Cut!Jeq => Cut!Executing("Jeq")
      /\ Cut!Jgt => Cut!Executing("Jgt")
      /\ Cut!Jge => Cut!Executing("Jge")
      /\ Cut!Jset => Cut!Executing("Jset")
      /\ Cut!Ret => Cut!Executing("Ret")
      /\ Cut!Unknown => Cut!Executing("Unknown")
  BY DEF Cut!LdhAbs, Cut!LdbAbs, Cut!LdwAbs, Cut!LdhInd, Cut!LdxMsh, Cut!AluAndK,
         Cut!Ja, Cut!Jeq, Cut!Jgt, Cut!Jge, Cut!Jset, Cut!Ret, Cut!Unknown
<1>2. \A o, p : Cut!Executing(o) /\ Cut!Executing(p) => o = p
  BY DEF Cut!Executing
<1>3. pc2 \in Nat /\ Len(insns) \in Nat
  BY VmAssumption DEF TypeOK, Agree
<1>4. \A o : Cut!Executing(o) => ~Cut!RanOff
  BY <1>3 DEF Cut!Executing, Cut!RanOff
<1> QED
  BY <1>1, <1>2, <1>4, Zenon DEF Cut!Next

(* Two runs that agree execute the same opcode with the same operand. *)
LEMMA CutSame ==
  ASSUME Agree
  PROVE  /\ \A o : Cut!Executing(o) <=> Executing(o)
         /\ Cut!K = K
         /\ Cut!Branch(TRUE) = Branch(TRUE)
         /\ Cut!Branch(FALSE) = Branch(FALSE)
         /\ Cut!Step(K) = Step(K)
         /\ \A m, n : Cut!CheckedAdd(m, n) = CheckedAdd(m, n)
<1>1. \A o : Cut!Executing(o) <=> Executing(o)
  BY CutOperators DEF Agree, Cut!Executing, Executing
<1>2. \A m, n : Cut!CheckedAdd(m, n) = CheckedAdd(m, n)
  BY DEF CheckedAdd, Cut!CheckedAdd
<1>3. Cut!Step(K) = Step(K)
  BY <1>2, CutOperators DEF Agree, Step, Cut!Step
<1> QED
  BY <1>1, <1>2, <1>3 DEF Agree, K, Cut!K, Branch, Cut!Branch

(* A load from the prefix that returns the same value keeps the agreement, *)
(* and one that fails rejects.                                             *)
LEMMA CutLoadA ==
  ASSUME TypeOK, Agree, NEW r, NEW r2 \in {{}, r}, LoadA(r), Cut!LoadA(r2),
         \A v, w \in r : v = w
  PROVE  AgreeUntilRejected'
<1>1. CASE r2 = {}
  BY <1>1, CutOperators DEF Cut!LoadA, Cut!Return, AgreeUntilRejected
<1>2. CASE r2 = r /\ r # {}
  BY <1>2 DEF LoadA, Cut!LoadA, Advance, Cut!Advance, Agree, AgreeUntilRejected
<1> QED
  BY <1>1, <1>2

(* A read returns one value at most. *)
LEMMA ReadOne ==
  \A offset :
     /\ \A v, w \in ReadU8(offset) : v = w
     /\ \A v, w \in ReadU16(offset) : v = w
     /\ \A v, w \in ReadU32(offset) : v = w
  BY DEF ReadU8, ReadU16, ReadU32

(* A common step of two runs that agree leaves them in agreement, or       *)
(* rejects the prefix.                                                     *)
LEMMA CommonStep ==
  ASSUME TypeOK, IsPrefix, Agree, Next, Cut!Next
  PROVE  AgreeUntilRejected'
<1>1. CASE Executing("LdhAbs")
  <2>1. LdhAbs /\ Cut!LdhAbs
    BY <1>1, OneAction, CutOneAction, CutSame
  <2>2. LoadA(ReadU16(Num(K))) /\ Cut!LoadA(Cut!ReadU16(Num(K)))
    BY <2>1, CutSame, CutOperators DEF LdhAbs, Cut!LdhAbs
  <2> QED
    BY <2>2, NumType, CutReads, ReadOne, CutLoadA
<1>2. CASE Executing("LdbAbs")
  <2>1. LdbAbs /\ Cut!LdbAbs
    BY <1>2, OneAction, CutOneAction, CutSame
  <2>2. LoadA(ReadU8(Num(K))) /\ Cut!LoadA(Cut!ReadU8(Num(K)))
    BY <2>1, CutSame, CutOperators DEF LdbAbs, Cut!LdbAbs
  <2> QED
    BY <2>2, NumType, CutReads, ReadOne, CutLoadA
<1>3. CASE Executing("LdwAbs")
  <2>1. LdwAbs /\ Cut!LdwAbs
    BY <1>3, OneAction, CutOneAction, CutSame
  <2>2. LoadA(ReadU32(Num(K))) /\ Cut!LoadA(Cut!ReadU32(Num(K)))
    BY <2>1, CutSame, CutOperators DEF LdwAbs, Cut!LdwAbs
  <2> QED
    BY <2>2, NumType, CutReads, ReadOne, CutLoadA
<1>4. CASE Executing("LdhInd")
  <2> DEFINE r == UNION {ReadU16(offset) : offset \in CheckedAdd(x, Num(K))}
             r2 == UNION {Cut!ReadU16(offset) : offset \in CheckedAdd(x, Num(K))}
  <2>1. LdhInd /\ Cut!LdhInd
    BY <1>4, OneAction, CutOneAction, CutSame
  <2>2. LoadA(r)
    BY <2>1 DEF LdhInd
  <2>3. Cut!LoadA(r2)
    BY <2>1, CutSame, CutOperators DEF Cut!LdhInd, Agree
  <2>4. CASE CheckedAdd(x, Num(K)) = {}
    <3>1. r = {} /\ r2 = {}
      BY <2>4
    <3> HIDE DEF r, r2
    <3> QED
      BY <2>2, <2>3, <3>1, CutLoadA
  <2>5. CASE CheckedAdd(x, Num(K)) = {x + Num(K)}
    <3>1. r = ReadU16(x + Num(K)) /\ r2 = Cut!ReadU16(x + Num(K))
      BY <2>5
    <3>2. x + Num(K) \in Nat
      BY NumType DEF TypeOK
    <3>3. r2 \in {{}, r} /\ \A v, w \in r : v = w
      BY <3>1, <3>2, CutReads, ReadOne
    <3> HIDE DEF r, r2
    <3> QED
      BY <2>2, <2>3, <3>3, CutLoadA
  <2> QED
    BY <2>4, <2>5 DEF CheckedAdd
<1>5. CASE Executing("LdxMsh")
  <2>1. LdxMsh /\ Cut!LdxMsh
    BY <1>5, OneAction, CutOneAction, CutSame
  <2>2. /\ \/ \E byte \in Cut!ReadU8(Num(K)) :
                x2' = 4 * ByteNum(byte \cap (0..3)) /\ UNCHANGED a2 /\ Cut!Advance
           \/ Cut!ReadU8(Num(K)) = {} /\ Cut!Return(Zero)
    BY <2>1, CutSame, CutOperators DEF Cut!LdxMsh
  <2>3. CASE Cut!ReadU8(Num(K)) = {}
    BY <2>2, <2>3 DEF Cut!Return, AgreeUntilRejected
  <2>4. CASE Cut!ReadU8(Num(K)) = ReadU8(Num(K)) /\ ReadU8(Num(K)) # {}
    <3>1. PICK byte \in ReadU8(Num(K)) :
             x' = 4 * ByteNum(byte \cap (0..3)) /\ UNCHANGED a /\ Advance
      BY <2>1, <2>4 DEF LdxMsh
    <3>2. PICK byte2 \in ReadU8(Num(K)) :
             x2' = 4 * ByteNum(byte2 \cap (0..3)) /\ UNCHANGED a2 /\ Cut!Advance
      BY <2>2, <2>4
    <3>3. byte2 = byte
      BY ReadOne
    <3>4. x2' = x'
      BY <3>1, <3>2, <3>3
    <3> QED
      BY <3>1, <3>2, <3>4 DEF Advance, Cut!Advance, Agree, AgreeUntilRejected
  <2> QED
    BY <2>3, <2>4, NumType, CutReads
<1>6. CASE Executing("AluAndK")
  <2>1. AluAndK /\ Cut!AluAndK
    BY <1>6, OneAction, CutOneAction, CutSame
  <2> QED
    BY <2>1, CutSame DEF AluAndK, Cut!AluAndK, Advance, Cut!Advance, Agree, AgreeUntilRejected
<1>7. CASE Executing("Ja")
  <2>1. Ja /\ Cut!Ja
    BY <1>7, OneAction, CutOneAction, CutSame
  <2>2. \A t, u \in Step(K) : t = u
    BY DEF Step, CheckedAdd
  <2>3. \/ \E target \in Step(K) : Cut!Goto(target)
        \/ Step(K) = {} /\ Cut!Return(Zero)
    BY <2>1, CutSame, CutOperators DEF Cut!Ja
  <2>4. CASE Step(K) = {}
    BY <2>3, <2>4 DEF Cut!Return, AgreeUntilRejected
  <2>5. CASE Step(K) # {}
    BY <2>1, <2>2, <2>3, <2>5 DEF Ja, Goto, Cut!Goto, Agree, AgreeUntilRejected
  <2> QED
    BY <2>4, <2>5
<1>8. CASE Executing("Jeq")
  <2>1. Jeq /\ Cut!Jeq
    BY <1>8, OneAction, CutOneAction, CutSame
  <2>2. CASE a = K
    BY <2>1, <2>2, CutSame, CutOperators
       DEF Jeq, Cut!Jeq, Branch, Cut!Branch, Goto, Cut!Goto, Agree, AgreeUntilRejected
  <2>3. CASE ~(a = K)
    BY <2>1, <2>3, CutSame, CutOperators
       DEF Jeq, Cut!Jeq, Branch, Cut!Branch, Goto, Cut!Goto, Agree, AgreeUntilRejected
  <2> QED
    BY <2>2, <2>3
<1>9. CASE Executing("Jgt")
  <2>1. Jgt /\ Cut!Jgt
    BY <1>9, OneAction, CutOneAction, CutSame
  <2>2. CASE Gt(a, K)
    BY <2>1, <2>2, CutSame, CutOperators
       DEF Jgt, Cut!Jgt, Branch, Cut!Branch, Goto, Cut!Goto, Agree, AgreeUntilRejected
  <2>3. CASE ~(Gt(a, K))
    BY <2>1, <2>3, CutSame, CutOperators
       DEF Jgt, Cut!Jgt, Branch, Cut!Branch, Goto, Cut!Goto, Agree, AgreeUntilRejected
  <2> QED
    BY <2>2, <2>3
<1>10. CASE Executing("Jge")
  <2>1. Jge /\ Cut!Jge
    BY <1>10, OneAction, CutOneAction, CutSame
  <2>2. CASE Ge(a, K)
    BY <2>1, <2>2, CutSame, CutOperators
       DEF Jge, Cut!Jge, Branch, Cut!Branch, Goto, Cut!Goto, Agree, AgreeUntilRejected
  <2>3. CASE ~(Ge(a, K))
    BY <2>1, <2>3, CutSame, CutOperators
       DEF Jge, Cut!Jge, Branch, Cut!Branch, Goto, Cut!Goto, Agree, AgreeUntilRejected
  <2> QED
    BY <2>2, <2>3
<1>11. CASE Executing("Jset")
  <2>1. Jset /\ Cut!Jset
    BY <1>11, OneAction, CutOneAction, CutSame
  <2>2. CASE a \cap K # {}
    BY <2>1, <2>2, CutSame, CutOperators
       DEF Jset, Cut!Jset, Branch, Cut!Branch, Goto, Cut!Goto, Agree, AgreeUntilRejected
  <2>3. CASE ~(a \cap K # {})
    BY <2>1, <2>3, CutSame, CutOperators
       DEF Jset, Cut!Jset, Branch, Cut!Branch, Goto, Cut!Goto, Agree, AgreeUntilRejected
  <2> QED
    BY <2>2, <2>3
<1>12. CASE Executing("Ret")
  <2>1. Ret /\ Cut!Ret
    BY <1>12, OneAction, CutOneAction, CutSame
  <2> QED
    BY <2>1, CutSame DEF Ret, Cut!Ret, Return, Cut!Return, Agree, AgreeUntilRejected
<1>13. CASE Executing("Unknown")
  <2>1. Unknown /\ Cut!Unknown
    BY <1>13, OneAction, CutOneAction, CutSame
  <2> QED
    BY <2>1, CutOperators DEF Cut!Unknown, Cut!Return, AgreeUntilRejected
<1>14. CASE RanOff
  <2>1. pc2 \in Nat /\ Len(insns) \in Nat /\ pc2 >= Len(insns)
    BY <1>14, VmAssumption DEF RanOff, TypeOK, Agree
  <2>2. \A o : ~Cut!Executing(o)
    BY <2>1 DEF Cut!Executing
  <2>3. Cut!RanOff
    BY <2>2 DEF Cut!Next, Cut!LdhAbs, Cut!LdbAbs, Cut!LdwAbs, Cut!LdhInd, Cut!LdxMsh,
                Cut!AluAndK, Cut!Ja, Cut!Jeq, Cut!Jgt, Cut!Jge, Cut!Jset, Cut!Ret, Cut!Unknown
  <2> QED
    BY <2>3, CutOperators DEF Cut!RanOff, Cut!Return, AgreeUntilRejected
<1> QED
  BY <1>1, <1>2, <1>3, <1>4, <1>5, <1>6, <1>7, <1>8, <1>9, <1>10, <1>11, <1>12,
     <1>13, <1>14
  DEF Next, LdhAbs, LdbAbs, LdwAbs, LdhInd, LdxMsh, AluAndK, Ja, Jeq, Jgt, Jge, Jset,
      Ret, Unknown

(* An interpreter that has returned takes no step. *)
LEMMA ReturnedIdle ==
  /\ Next => ret = {}
  /\ Cut!Next => ret2 = {}
<1>1. Next => ret = {}
  BY DEF Next, LdhAbs, LdbAbs, LdwAbs, LdhInd, LdxMsh, AluAndK, Ja, Jeq, Jgt, Jge, Jset,
         Ret, Unknown, RanOff, Executing
<1>2. Cut!Next => ret2 = {}
  BY DEF Cut!Next, Cut!LdhAbs, Cut!LdbAbs, Cut!LdwAbs, Cut!LdhInd, Cut!LdxMsh,
         Cut!AluAndK, Cut!Ja, Cut!Jeq, Cut!Jgt, Cut!Jge, Cut!Jset, Cut!Ret,
         Cut!Unknown, Cut!RanOff, Cut!Executing
<1> QED
  BY <1>1, <1>2

(* The interpreter changes neither packet. *)
LEMMA PacketsKept ==
  /\ Next => packet' = packet
  /\ Cut!Next => packet2' = packet2
<1>1. Next => packet' = packet
  BY DEF Next, LdhAbs, LdbAbs, LdwAbs, LdhInd, LdxMsh, AluAndK, Ja, Jeq, Jgt, Jge, Jset,
         Ret, Unknown, RanOff, LoadA, Advance, Goto, Return
<1>2. Cut!Next => packet2' = packet2
  BY DEF Cut!Next, Cut!LdhAbs, Cut!LdbAbs, Cut!LdwAbs, Cut!LdhInd, Cut!LdxMsh,
         Cut!AluAndK, Cut!Ja, Cut!Jeq, Cut!Jgt, Cut!Jge, Cut!Jset, Cut!Ret,
         Cut!Unknown, Cut!RanOff, Cut!LoadA, Cut!Advance, Cut!Goto, Cut!Return
<1> QED
  BY <1>1, <1>2

(* PairInv is inductive. *)
LEMMA PairStep == PairInv /\ [PairNext]_pairVars => PairInv'
<1> SUFFICES ASSUME PairInv, [PairNext]_pairVars PROVE PairInv'
  OBVIOUS
<1>1. TypeOK /\ IsPrefix /\ AgreeUntilRejected
  BY DEF PairInv
<1>2. TypeOK'
  <2>1. [Next]_vars
    BY DEF PairNext, pairVars
  <2> QED
    BY <1>1, <2>1, TypeStep
<1>3. packet' = packet /\ packet2' = packet2
  BY PacketsKept DEF PairNext, CutIdle, pairVars, vars
<1>4. IsPrefix'
  BY <1>1, <1>3 DEF IsPrefix
<1>5. AgreeUntilRejected'
  <2>1. CASE UNCHANGED pairVars
    BY <1>1, <2>1 DEF pairVars, vars, AgreeUntilRejected
  <2>2. CASE Next /\ Cut!Next
    <3>1. ret2 = {}
      BY <2>2, ReturnedIdle
    <3>2. Agree
      BY <1>1, <3>1 DEF AgreeUntilRejected, Agree
    <3> QED
      BY <1>1, <2>2, <3>2, CommonStep
  <2>3. CASE Next /\ CutIdle
    <3>1. ret = {} /\ ret2 # {} /\ ret2' = ret2
      BY <2>3, ReturnedIdle DEF CutIdle
    <3> QED
      BY <1>1, <3>1 DEF AgreeUntilRejected
  <2> QED
    BY <2>1, <2>2, <2>3 DEF PairNext
<1> QED
  BY <1>2, <1>4, <1>5 DEF PairInv

(* PairInv holds from the start. *)
LEMMA PairStart == PairInit => PairInv
<1> SUFFICES ASSUME PairInit PROVE PairInv
  OBVIOUS
<1>1. TypeOK
  BY DEF PairInit, Init, TypeOK, Zero, Word
<1>2. packet \in Seq(Byte)
  BY <1>1, VmAssumption DEF TypeOK
<1>3. PICK n \in 0..Len(packet) : packet2 = SubSeq(packet, 1, n)
  BY DEF PairInit
<1>4. /\ packet2 \in Seq(Byte)
      /\ Len(packet2) = n
      /\ \A i \in 1..n : packet2[i] = packet[i]
  BY <1>2, <1>3
<1>5. IsPrefix
  BY <1>2, <1>4 DEF IsPrefix
<1> QED
  BY <1>1, <1>5 DEF PairInv, PairInit, Init, AgreeUntilRejected

(* For every program, packet, cut and width of usize, the run on the cut   *)
(* packet agrees with the run on the whole one until it rejects.           *)
THEOREM CutAgrees == PairSpec => []AgreeUntilRejected
<1>1. PairInv => AgreeUntilRejected
  BY DEF PairInv
<1> QED
  BY <1>1, PairStart, PairStep, PTL DEF PairSpec

(* A capture cut short by a snaplen never makes a filter accept a packet   *)
(* it would have rejected, nor keep a different number of bytes of it.     *)
THEOREM TruncationSafe == PairSpec => []TruncationOnlyRejects
<1>1. AgreeUntilRejected => TruncationOnlyRejects
  BY DEF AgreeUntilRejected, TruncationOnlyRejects
<1> QED
  BY <1>1, CutAgrees, PTL
=============================================================================
