-------------------------- MODULE BackpatchProofs --------------------------
(***************************************************************************)
(* What the assembler guarantees for every stream, any number of labels    *)
(* and any displacement limit, in a debug and in a release build.          *)
(***************************************************************************)
EXTENDS Backpatch, FiniteSetTheorems, TLAPS

-----------------------------------------------------------------------------
(* Counting the instructions before an entry. *)

(* There are at most as many instructions as entries. *)
LEMMA RealsType ==
  ASSUME NEW str, NEW m \in Nat \ {0}
  PROVE  /\ RealsBefore(str, m) \in 0..(m - 1)
         /\ IsFiniteSet({j \in 1..(m - 1) : str[j].op # "Mark"})
<1>1. IsFiniteSet(1..(m - 1)) /\ Cardinality(1..(m - 1)) = m - 1
  BY FS_Interval
<1>2. {j \in 1..(m - 1) : str[j].op # "Mark"} \in SUBSET (1..(m - 1))
  OBVIOUS
<1> QED
  BY <1>1, <1>2, FS_Subset, FS_CardinalityType DEF RealsBefore

(* None before the first entry. *)
LEMMA RealsFirst == ASSUME NEW str PROVE RealsBefore(str, 1) = 0
<1>1. {j \in 1..(1 - 1) : str[j].op # "Mark"} = {}
  OBVIOUS
<1> QED
  BY <1>1, FS_EmptySet DEF RealsBefore

(* An entry counts for those behind it unless it is a mark. *)
LEMMA RealsStep ==
  ASSUME NEW str, NEW m \in Nat \ {0}
  PROVE  RealsBefore(str, m + 1) =
           IF str[m].op = "Mark" THEN RealsBefore(str, m) ELSE RealsBefore(str, m) + 1
<1> DEFINE S(n) == {j \in 1..(n - 1) : str[j].op # "Mark"}
<1>1. m \notin S(m)
  OBVIOUS
<1>2. IsFiniteSet(S(m))
  BY RealsType
<1>3. CASE str[m].op = "Mark"
  <2>1. S(m + 1) = S(m)
    BY <1>3
  <2> QED
    BY <1>3, <2>1 DEF RealsBefore
<1>4. CASE str[m].op # "Mark"
  <2>1. S(m + 1) = S(m) \cup {m}
    BY <1>4
  <2> HIDE DEF S
  <2>2. Cardinality(S(m + 1)) = Cardinality(S(m)) + 1
    BY <2>1, <1>1, <1>2, FS_AddElement
  <2> QED
    BY <1>4, <2>2 DEF RealsBefore, S
<1> QED
  BY <1>3, <1>4

(* The count never falls. *)
LEMMA RealsMono ==
  ASSUME NEW str, NEW s \in Nat \ {0}, NEW m \in Nat \ {0}, s <= m
  PROVE  RealsBefore(str, s) <= RealsBefore(str, m)
<1> DEFINE S(n) == {j \in 1..(n - 1) : str[j].op # "Mark"}
<1>1. S(s) \in SUBSET S(m)
  OBVIOUS
<1>2. IsFiniteSet(S(m))
  BY RealsType
<1> QED
  BY <1>1, <1>2, FS_Subset DEF RealsBefore

(* It rises past an instruction. *)
LEMMA RealsPassed ==
  ASSUME NEW str, NEW s \in Nat \ {0}, NEW m \in Nat \ {0}, s < m, str[s].op # "Mark"
  PROVE  RealsBefore(str, s) + 1 <= RealsBefore(str, m)
<1>1. RealsBefore(str, s + 1) = RealsBefore(str, s) + 1
  BY RealsStep
<1>2. s + 1 <= m /\ s + 1 \in Nat \ {0}
  OBVIOUS
<1> QED
  BY <1>1, <1>2, RealsMono

-----------------------------------------------------------------------------
(* Instructions. *)

(* The decoder tells the bit patterns of the constructors apart. *)
LEMMA DecodeCodes ==
  ASSUME NEW i
  PROVE  /\ i.code = {3, 5} => Decode(i) = "LdhAbs"
         /\ i.code = {4, 5} => Decode(i) = "LdbAbs"
         /\ i.code = {5} => Decode(i) = "LdwAbs"
         /\ i.code = {3, 6} => Decode(i) = "LdhInd"
         /\ i.code = {0, 4, 5, 7} => Decode(i) = "LdxMsh"
         /\ i.code = {2, 4, 6} => Decode(i) = "AluAndK"
         /\ i.code = {0, 2} => Decode(i) = "Ja"
         /\ i.code = {0, 2, 4} => Decode(i) = "Jeq"
         /\ i.code = {0, 2, 5} => Decode(i) = "Jgt"
         /\ i.code = {0, 2, 4, 5} => Decode(i) = "Jge"
         /\ i.code = {0, 2, 6} => Decode(i) = "Jset"
         /\ i.code = {1, 2} => Decode(i) = "Ret"
<1> USE DEF Decode, BPF_LD, BPF_LDX, BPF_ALU, BPF_JMP, BPF_RET, BPF_W, BPF_H, BPF_B,
            BPF_ABS, BPF_IND, BPF_MSH, BPF_JA, BPF_JEQ, BPF_JGT, BPF_JGE, BPF_JSET,
            BPF_AND, BPF_K
<1>1. i.code = {3, 5} => Decode(i) = "LdhAbs"
  OBVIOUS
<1>2. i.code = {4, 5} => Decode(i) = "LdbAbs"
  OBVIOUS
<1>3. i.code = {5} => Decode(i) = "LdwAbs"
  OBVIOUS
<1>4. i.code = {3, 6} => Decode(i) = "LdhInd"
  OBVIOUS
<1>5. i.code = {0, 4, 5, 7} => Decode(i) = "LdxMsh"
  OBVIOUS
<1>6. i.code = {2, 4, 6} => Decode(i) = "AluAndK"
  OBVIOUS
<1>7. i.code = {0, 2} => Decode(i) = "Ja"
  OBVIOUS
<1>8. i.code = {0, 2, 4} => Decode(i) = "Jeq"
  OBVIOUS
<1>9. i.code = {0, 2, 5} => Decode(i) = "Jgt"
  OBVIOUS
<1>10. i.code = {0, 2, 4, 5} => Decode(i) = "Jge"
  OBVIOUS
<1>11. i.code = {0, 2, 6} => Decode(i) = "Jset"
  OBVIOUS
<1>12. i.code = {1, 2} => Decode(i) = "Ret"
  OBVIOUS
<1> HIDE DEF Decode
<1> QED
  BY <1>1, <1>2, <1>3, <1>4, <1>5, <1>6, <1>7, <1>8, <1>9, <1>10, <1>11, <1>12

(* What an entry holds. *)
LEMMA EntryFields ==
  ASSUME NEW e \in Entries
  PROVE  /\ e.op \in PlainOps \cup CondOps \cup {"Jmp", "Mark"}
         /\ e.op \in PlainOps \cup CondOps => e.k \in Word
         /\ e.op \in CondOps => e.jt \in Nat /\ e.jf \in Nat
         /\ e.op = "Jmp" => e.target \in Nat
         /\ e.op = "Mark" => e.label \in Nat
  BY DEF Entries, PlainOps, LoadOps, CondOps

(* The labels of the two kinds of jumps. *)
LEMMA RefsOf ==
  ASSUME NEW e
  PROVE  /\ e.op \in CondOps => Refs(e) = {e.jt, e.jf}
         /\ e.op = "Jmp" => Refs(e) = {e.target}
<1>1. ~("Jmp" \in CondOps)
  BY DEF CondOps
<1>2. ASSUME e.op \in CondOps PROVE Refs(e) = {e.jt, e.jf}
  <2>1. e.op # "Jmp"
    BY <1>1, <1>2
  <2> QED
    BY <1>2, <2>1 DEF Refs
<1>3. ASSUME e.op = "Jmp" PROVE Refs(e) = {e.target}
  <2>1. e.op \notin CondOps
    BY <1>1, <1>3
  <2> QED
    BY <1>3, <2>1 DEF Refs
<1> QED
  BY <1>2, <1>3

(* An instruction without a jump keeps its operation and operand. *)
LEMMA PlainKept ==
  ASSUME NEW e \in Entries, e.op \in PlainOps
  PROVE  /\ LoweredPlain(e) \in Insns
         /\ Decode(LoweredPlain(e)) = DecodedAs(e.op)
         /\ LoweredPlain(e).k = e.k
<1>1. e.k \in Word
  BY EntryFields
<1> DEFINE o == LoweredPlain(e)
<1> USE DEF LoweredPlain, Plain, BPF_LD, BPF_LDX, BPF_ALU, BPF_RET, BPF_W, BPF_H, BPF_B,
            BPF_ABS, BPF_IND, BPF_MSH, BPF_AND, BPF_K, DecodedAs, Insns, Code
<1>2. CASE e.op = "LdhAbs"
  <2>1. o = [code |-> {3, 5}, jt |-> 0, jf |-> 0, k |-> e.k]
    BY <1>2 DEF ldh_abs
  <2> QED
    BY <2>1, <1>1, <1>2, DecodeCodes
<1>3. CASE e.op = "LdbAbs"
  <2>1. o = [code |-> {4, 5}, jt |-> 0, jf |-> 0, k |-> e.k]
    BY <1>3 DEF ldb_abs
  <2> QED
    BY <2>1, <1>1, <1>3, DecodeCodes
<1>4. CASE e.op = "LdwAbs"
  <2>1. o = [code |-> {5}, jt |-> 0, jf |-> 0, k |-> e.k]
    BY <1>4 DEF ldw_abs
  <2> QED
    BY <2>1, <1>1, <1>4, DecodeCodes
<1>5. CASE e.op = "LdxMsh"
  <2>1. o = [code |-> {0, 4, 5, 7}, jt |-> 0, jf |-> 0, k |-> e.k]
    BY <1>5 DEF ldx_msh
  <2> QED
    BY <2>1, <1>1, <1>5, DecodeCodes
<1>6. CASE e.op = "LdhInd"
  <2>1. o = [code |-> {3, 6}, jt |-> 0, jf |-> 0, k |-> e.k]
    BY <1>6 DEF ldh_ind
  <2> QED
    BY <2>1, <1>1, <1>6, DecodeCodes
<1>7. CASE e.op = "AndK"
  <2>1. o = [code |-> {2, 4, 6}, jt |-> 0, jf |-> 0, k |-> e.k]
    BY <1>7 DEF and_k
  <2> QED
    BY <2>1, <1>1, <1>7, DecodeCodes
<1>8. CASE e.op = "Ret"
  <2>1. o = [code |-> {1, 2}, jt |-> 0, jf |-> 0, k |-> e.k]
    BY <1>8 DEF ret_k
  <2> QED
    BY <2>1, <1>1, <1>8, DecodeCodes
<1> QED
  BY <1>2, <1>3, <1>4, <1>5, <1>6, <1>7, <1>8 DEF PlainOps, LoadOps

(* A conditional jump keeps them too, and takes the displacements given. *)
LEMMA CondKept ==
  ASSUME NEW e \in Entries, NEW jt, NEW jf, e.op \in CondOps
  PROVE  /\ jt \in 0..255 /\ jf \in 0..255 => LoweredCond(e, jt, jf) \in Insns
         /\ Decode(LoweredCond(e, jt, jf)) = DecodedAs(e.op)
         /\ LoweredCond(e, jt, jf).k = e.k
         /\ LoweredCond(e, jt, jf).jt = jt
         /\ LoweredCond(e, jt, jf).jf = jf
<1>1. e.k \in Word
  BY EntryFields
<1> DEFINE o == LoweredCond(e, jt, jf)
<1> USE DEF LoweredCond, Cond, BPF_JMP, BPF_JEQ, BPF_JGT, BPF_JGE, BPF_JSET, BPF_K,
            DecodedAs, Insns, Code
<1>2. CASE e.op = "Jeq"
  <2>1. o = [code |-> {0, 2, 4}, jt |-> jt, jf |-> jf, k |-> e.k]
    BY <1>2 DEF jeq
  <2> QED
    BY <2>1, <1>1, <1>2, DecodeCodes
<1>3. CASE e.op = "Jgt"
  <2>1. o = [code |-> {0, 2, 5}, jt |-> jt, jf |-> jf, k |-> e.k]
    BY <1>3 DEF jgt
  <2> QED
    BY <2>1, <1>1, <1>3, DecodeCodes
<1>4. CASE e.op = "Jge"
  <2>1. o = [code |-> {0, 2, 4, 5}, jt |-> jt, jf |-> jf, k |-> e.k]
    BY <1>4 DEF jge
  <2> QED
    BY <2>1, <1>1, <1>4, DecodeCodes
<1>5. CASE e.op = "Jset"
  <2>1. o = [code |-> {0, 2, 6}, jt |-> jt, jf |-> jf, k |-> e.k]
    BY <1>5 DEF jset
  <2> QED
    BY <2>1, <1>1, <1>5, DecodeCodes
<1> QED
  BY <1>2, <1>3, <1>4, <1>5 DEF CondOps

(* So does an unconditional one. *)
LEMMA JmpKept ==
  ASSUME NEW w \in Word
  PROVE  jmp(w) \in Insns /\ Decode(jmp(w)) = "Ja" /\ jmp(w).k = w
<1>1. jmp(w) = [code |-> {0, 2}, jt |-> 0, jf |-> 0, k |-> w]
  BY DEF jmp, Plain, BPF_JMP, BPF_JA
<1> QED
  BY <1>1, DecodeCodes DEF Insns, Code

(* The displacement of an unconditional jump is a number. *)
LEMMA WordNum == ASSUME NEW w PROVE Num(w) \in Nat
<1>1. \A b : ByteNum(b) \in Nat
  BY DEF ByteNum, BitVal
<1>2. /\ ByteNum(Octet(w, 0)) \in Nat /\ ByteNum(Octet(w, 1)) \in Nat
      /\ ByteNum(Octet(w, 2)) \in Nat /\ ByteNum(Octet(w, 3)) \in Nat
  BY <1>1
<1> HIDE DEF ByteNum, Octet
<1> QED
  BY <1>2 DEF Num

-----------------------------------------------------------------------------
(* The inductive invariant. *)

(* How many entries pass A has taken. *)
Taken == IF bpStatus = "passA" THEN pos ELSE Len(stream)

(* The input is one of the streams. *)
StreamOK ==
  /\ num_labels \in Nat
  /\ stream \in Seq(Entries)
  /\ \A i \in DOMAIN stream :
        (Refs(stream[i]) \cup Places(stream[i])) \subseteq 0..(num_labels - 1)
  /\ \A n \in 0..Len(stream) : Num(Bits(n)) = n

(* The position is that of the pass under way. *)
PosOK ==
  /\ bpStatus \in {"passA", "passB", "ok", "error", "panic"}
  /\ bpStatus = "passA" => pos \in 0..Len(stream)
  /\ bpStatus # "passA" => pos \in 0..Len(real)

(* `real` is the taken entries without the marks. *)
RealOK ==
  /\ real \in Seq(Entries)
  /\ Len(real) = RealsBefore(stream, Taken + 1)
  /\ \A s \in 1..Taken : stream[s].op # "Mark" => real[RealsBefore(stream, s) + 1] = stream[s]
  /\ \A i \in 1..Len(real) : \E s \in 1..Taken :
        stream[s].op # "Mark" /\ i = RealsBefore(stream, s) + 1 /\ real[i] = stream[s]

(* An offset is where a taken mark of the label lies; each taken mark has  *)
(* left one.                                                               *)
OffsetsOK ==
  /\ DOMAIN offsets = 0..(num_labels - 1)
  /\ \A l \in DOMAIN offsets : \A t \in offsets[l] : \E m \in 1..Taken :
        l \in Places(stream[m]) /\ t = RealsBefore(stream, m)
  /\ \A l \in DOMAIN offsets : \A t, u \in offsets[l] : t = u
  /\ \A m \in 1..Taken : \A l \in Places(stream[m]) : offsets[l] # {}

(* Instruction i of the output is what entry e of `real` stands for. *)
LoweredFrom(e, o, i) ==
  /\ o \in Insns
  /\ Decode(o) = DecodedAs(e.op)
  /\ e.op # "Jmp" => o.k = e.k
  /\ e.op \in CondOps => i + o.jt \in offsets[e.jt] /\ i + o.jf \in offsets[e.jf]
  /\ e.op = "Jmp" => \A t \in offsets[e.target] : t >= i => t = i + Num(o.k)

(* The output is the lowering of the first instructions. *)
OutOK ==
  /\ DOMAIN out = 1..(IF bpStatus = "passA" THEN 0 ELSE pos)
  /\ out \in Seq(Insns)
  /\ \A i \in DOMAIN out : LoweredFrom(real[i], out[i], i)

(* The three ways to end. *)
OkOK == bpStatus = "ok" => pos = Len(real)

(* A panic is about a label whose offset is not behind the jump. *)
PanicOK ==
  bpStatus = "panic" =>
    pos < Len(real) /\ \E l \in Refs(real[pos + 1]) : \A t \in offsets[l] : t < pos + 1

(* The branch to label is out of reach, and err says by how much. *)
FarBranch(label, err) ==
  \E t \in offsets[label] :
    /\ t \notin (pos + 1)..(pos + 1 + MaxDisp)
    /\ t >= pos + 1 => err.displacement = Bits(t - (pos + 1))

(* An error is about the instruction at pos. *)
ErrorOK ==
  /\ bpStatus = "error" <=> bpError # {}
  /\ \A err \in bpError :
        LET e == real[pos + 1]
        IN  /\ pos < Len(real)
            /\ e.op \in CondOps
            /\ err.inst_index = pos
            /\ err.offset = e.offset
            /\ \/ FarBranch(e.jt, err)
               \/ /\ \E t \in offsets[e.jt] : t \in (pos + 1)..(pos + 1 + MaxDisp)
                  /\ FarBranch(e.jf, err)

(* All of it. *)
BpInv ==
  /\ StreamOK
  /\ PosOK
  /\ RealOK
  /\ OffsetsOK
  /\ OutOK
  /\ OkOK
  /\ PanicOK
  /\ ErrorOK

(* At the start nothing has been taken. *)
LEMMA InvInit == BpInit => BpInv
<1> SUFFICES ASSUME BpInit PROVE BpInv
  OBVIOUS
<1> USE DEF BpInit, Start
<1>1. StreamOK
  BY BackpatchAssumption DEF StreamOK
<1>2. Len(stream) \in Nat /\ Taken = 0
  BY <1>1 DEF StreamOK, Taken
<1>3. PosOK
  BY <1>2 DEF PosOK
<1>4. RealOK
  <2>1. Len(real) = 0 /\ real \in Seq(Entries)
    OBVIOUS
  <2>2. RealsBefore(stream, Taken + 1) = 0
    BY <1>2, RealsFirst
  <2> QED
    BY <2>1, <2>2, <1>2 DEF RealOK
<1>5. OffsetsOK
  BY <1>2 DEF OffsetsOK
<1>6. OutOK
  <2>1. out \in Seq(Insns) /\ DOMAIN out = 1..0
    OBVIOUS
  <2> QED
    BY <2>1 DEF OutOK
<1>7. OkOK /\ PanicOK /\ ErrorOK
  BY DEF OkOK, PanicOK, ErrorOK
<1> QED
  BY <1>1, <1>3, <1>4, <1>5, <1>6, <1>7 DEF BpInv

(* What pass A leaves alone. *)
LEMMA TakingKeeps ==
  ASSUME BpInv, Taking
  PROVE  /\ pos + 1 \in 1..Len(stream) /\ pos + 1 \in DOMAIN stream
         /\ Taken = pos /\ Taken' = pos + 1 /\ pos \in Nat /\ Len(stream) \in Nat
         /\ stream[pos + 1] \in Entries
         /\ bpStatus = "passA" /\ stream' = stream /\ num_labels' = num_labels
         /\ StreamOK' /\ PosOK' /\ OutOK' /\ OkOK' /\ PanicOK' /\ ErrorOK'
<1> USE DEF BpInv, Taking
<1>1. Len(stream) \in Nat /\ pos \in 0..Len(stream) /\ stream \in Seq(Entries)
  BY DEF StreamOK, PosOK
<1>2. /\ pos + 1 \in 1..Len(stream) /\ pos + 1 \in DOMAIN stream
      /\ Taken = pos /\ Taken' = pos + 1 /\ pos \in Nat
      /\ bpStatus = "passA" /\ stream' = stream /\ num_labels' = num_labels
  BY <1>1 DEF Taken
<1>3. stream[pos + 1] \in Entries
  BY <1>1, <1>2
<1>4. StreamOK'
  BY <1>2 DEF StreamOK
<1>5. PosOK'
  BY <1>2 DEF PosOK
<1>6. OutOK'
  <2>1. out' = out /\ DOMAIN out = {} /\ out \in Seq(Insns) /\ DOMAIN out = 1..0
    BY DEF OutOK
  <2> QED
    BY <2>1, <1>2 DEF OutOK
<1>7. OkOK' /\ PanicOK' /\ ErrorOK'
  <2>1. bpError = {} /\ bpError' = {}
    BY DEF ErrorOK
  <2> QED
    BY <2>1 DEF OkOK, PanicOK, ErrorOK
<1> QED
  BY <1>1, <1>2, <1>3, <1>4, <1>5, <1>6, <1>7

(* A mark is resolved to the instruction that comes next. *)
LEMMA InvTakeMark == ASSUME BpInv, TakeMark PROVE BpInv'
<1> DEFINE e == stream[pos + 1]
<1>1. Taking /\ e.op = "Mark" /\ real' = real
      /\ offsets' = [offsets EXCEPT ![e.label] = {Len(real)}]
  BY DEF TakeMark
<1> HIDE DEF e
<1>2. /\ pos + 1 \in 1..Len(stream) /\ pos + 1 \in DOMAIN stream
      /\ Taken = pos /\ Taken' = pos + 1 /\ pos \in Nat /\ Len(stream) \in Nat
      /\ stream' = stream /\ num_labels' = num_labels
      /\ StreamOK' /\ PosOK' /\ OutOK' /\ OkOK' /\ PanicOK' /\ ErrorOK'
  BY <1>1, TakingKeeps
<1>3. RealsBefore(stream, pos + 2) = RealsBefore(stream, pos + 1)
      /\ RealsBefore(stream, pos + 1) = Len(real)
  <2>1. pos + 1 \in Nat \ {0} /\ (pos + 1) + 1 = pos + 2 /\ stream[pos + 1].op = "Mark"
    BY <1>1, <1>2 DEF e
  <2>2. RealsBefore(stream, (pos + 1) + 1) = RealsBefore(stream, pos + 1)
    BY <2>1, RealsStep
  <2> QED
    BY <2>1, <2>2, <1>2 DEF BpInv, RealOK
<1>4. RealOK'
  <2>1. \A s \in 1..(pos + 1) : stream[s].op # "Mark" => s \in 1..pos
    BY <1>1, <1>2 DEF e
  <2>2. /\ real \in Seq(Entries)
        /\ \A s \in 1..pos : stream[s].op # "Mark" => real[RealsBefore(stream, s) + 1] = stream[s]
        /\ \A i \in 1..Len(real) : \E s \in 1..pos :
              stream[s].op # "Mark" /\ i = RealsBefore(stream, s) + 1 /\ real[i] = stream[s]
    BY <1>2 DEF BpInv, RealOK
  <2>3. Len(real) = RealsBefore(stream, (pos + 1) + 1)
    <3>1. (pos + 1) + 1 = pos + 2
      BY <1>2
    <3> QED
      BY <1>3, <3>1
  <2>4. \A s \in 1..pos : s \in 1..(pos + 1)
    BY <1>2
  <2> HIDE DEF e
  <2> QED
    BY <2>1, <2>2, <2>3, <2>4, <1>1, <1>2 DEF RealOK
<1>5. OffsetsOK'
  <2>1. /\ DOMAIN offsets = 0..(num_labels - 1)
        /\ \A l \in DOMAIN offsets : \A t \in offsets[l] : \E m \in 1..pos :
              l \in Places(stream[m]) /\ t = RealsBefore(stream, m)
        /\ \A l \in DOMAIN offsets : \A t, u \in offsets[l] : t = u
        /\ \A m \in 1..pos : \A l \in Places(stream[m]) : offsets[l] # {}
    BY <1>2 DEF BpInv, OffsetsOK
  <2>2. Places(stream[pos + 1]) = {e.label} /\ e.label \in DOMAIN offsets
    BY <1>1, <1>2, <2>1 DEF BpInv, StreamOK, Places, e
  <2>3. DOMAIN offsets' = 0..(num_labels' - 1)
    BY <1>1, <1>2, <2>1
  <2>4. offsets'[e.label] = {Len(real)}
        /\ \A l \in DOMAIN offsets : l # e.label => offsets'[l] = offsets[l]
    BY <1>1, <2>2
  <2>5. pos + 1 \in 1..(pos + 1) /\ \A m \in 1..pos : m \in 1..(pos + 1)
    BY <1>2
  <2>6. \A l \in DOMAIN offsets' : \A t \in offsets'[l] : \E m \in 1..(pos + 1) :
              l \in Places(stream[m]) /\ t = RealsBefore(stream, m)
    <3> SUFFICES ASSUME NEW l \in DOMAIN offsets, NEW t \in offsets'[l]
                 PROVE  \E m \in 1..(pos + 1) :
                          l \in Places(stream[m]) /\ t = RealsBefore(stream, m)
      BY <1>2, <2>1, <2>3
    <3>1. CASE l = e.label
      BY <3>1, <1>3, <2>2, <2>4, <2>5
    <3>2. CASE l # e.label
      BY <3>2, <2>1, <2>4, <2>5
    <3> QED
      BY <3>1, <3>2
  <2>7. \A l \in DOMAIN offsets' : \A t, u \in offsets'[l] : t = u
    BY <1>2, <2>1, <2>3, <2>4
  <2>8. \A m \in 1..(pos + 1) : \A l \in Places(stream[m]) : offsets'[l] # {}
    <3> SUFFICES ASSUME NEW m \in 1..(pos + 1), NEW l \in Places(stream[m])
                 PROVE  offsets'[l] # {}
      OBVIOUS
    <3>1. CASE l = e.label
      BY <3>1, <2>4
    <3>2. CASE l # e.label
      <4>1. m \in 1..pos
        BY <3>2, <2>2, <1>2
      <4>2. m \in DOMAIN stream
        BY <4>1, <1>2 DEF BpInv, StreamOK
      <4>3. l \in DOMAIN offsets
        BY <4>2, <2>1 DEF BpInv, StreamOK
      <4> QED
        BY <3>2, <4>1, <4>3, <2>1, <2>4
    <3> QED
      BY <3>1, <3>2
  <2> QED
    BY <2>3, <2>6, <2>7, <2>8, <1>2 DEF OffsetsOK
<1> QED
  BY <1>2, <1>4, <1>5 DEF BpInv

(* An instruction goes to the end of `real`. *)
LEMMA InvTakeReal == ASSUME BpInv, TakeReal PROVE BpInv'
<1> DEFINE e == stream[pos + 1]
<1>1. Taking /\ e.op # "Mark" /\ real' = Append(real, e) /\ offsets' = offsets
  BY DEF TakeReal
<1>2. /\ pos + 1 \in 1..Len(stream) /\ pos + 1 \in DOMAIN stream
      /\ Taken = pos /\ Taken' = pos + 1 /\ pos \in Nat /\ Len(stream) \in Nat
      /\ e \in Entries
      /\ stream' = stream /\ num_labels' = num_labels
      /\ StreamOK' /\ PosOK' /\ OutOK' /\ OkOK' /\ PanicOK' /\ ErrorOK'
  BY <1>1, TakingKeeps
<1>3. /\ RealsBefore(stream, (pos + 1) + 1) = RealsBefore(stream, pos + 1) + 1
      /\ RealsBefore(stream, pos + 1) = Len(real)
  <2>1. pos + 1 \in Nat \ {0}
    BY <1>2
  <2>2. RealsBefore(stream, (pos + 1) + 1) = RealsBefore(stream, pos + 1) + 1
    BY <2>1, <1>1, RealsStep
  <2> QED
    BY <2>2, <1>2 DEF BpInv, RealOK
<1>4. RealOK'
  <2>1. /\ real \in Seq(Entries)
        /\ \A s \in 1..pos : stream[s].op # "Mark" => real[RealsBefore(stream, s) + 1] = stream[s]
        /\ \A i \in 1..Len(real) : \E s \in 1..pos :
              stream[s].op # "Mark" /\ i = RealsBefore(stream, s) + 1 /\ real[i] = stream[s]
    BY <1>2 DEF BpInv, RealOK
  <2> DEFINE n == Len(real)
  <2>2. n \in Nat
    BY <2>1
  <2>3. /\ real' \in Seq(Entries) /\ Len(real') = n + 1
        /\ real'[n + 1] = e /\ \A i \in 1..n : real'[i] = real[i]
    BY <2>1, <1>1, <1>2
  <2> HIDE DEF e, n
  <2>4. Len(real') = RealsBefore(stream, (pos + 1) + 1)
    BY <2>3, <1>3 DEF n
  <2>5. ASSUME NEW s \in 1..(pos + 1), stream[s].op # "Mark"
        PROVE  real'[RealsBefore(stream, s) + 1] = stream[s]
    <3>1. CASE s = pos + 1
      BY <3>1, <2>3, <1>3 DEF e, n
    <3>2. CASE s # pos + 1
      <4>1. s \in 1..pos /\ s \in Nat \ {0} /\ pos + 1 \in Nat \ {0} /\ s < pos + 1
        BY <3>2, <1>2
      <4>2. RealsBefore(stream, s) \in 0..(s - 1)
        BY <4>1, RealsType
      <4>3. RealsBefore(stream, s) + 1 <= n
        BY <4>1, <2>5, RealsPassed, <1>3 DEF n
      <4>4. RealsBefore(stream, s) + 1 \in 1..n
        BY <4>1, <4>2, <4>3, <2>2
      <4> QED
        BY <4>1, <4>4, <2>1, <2>3, <2>5
    <3> QED
      BY <3>1, <3>2
  <2>6. ASSUME NEW i \in 1..(n + 1)
        PROVE  \E s \in 1..(pos + 1) :
                 stream[s].op # "Mark" /\ i = RealsBefore(stream, s) + 1 /\ real'[i] = stream[s]
    <3>1. CASE i = n + 1
      <4>1. pos + 1 \in 1..(pos + 1)
        BY <1>2
      <4> QED
        BY <4>1, <3>1, <2>3, <1>1, <1>3 DEF e, n
    <3>2. CASE i # n + 1
      <4>1. i \in 1..n
        BY <3>2, <2>2
      <4>2. \A s \in 1..pos : s \in 1..(pos + 1)
        BY <1>2
      <4> QED
        BY <4>1, <4>2, <2>1, <2>3 DEF n
    <3> QED
      BY <3>1, <3>2
  <2> QED
    BY <2>3, <2>4, <2>5, <2>6, <1>2 DEF RealOK
<1>5. OffsetsOK'
  <2>1. /\ DOMAIN offsets = 0..(num_labels - 1)
        /\ \A l \in DOMAIN offsets : \A t \in offsets[l] : \E m \in 1..pos :
              l \in Places(stream[m]) /\ t = RealsBefore(stream, m)
        /\ \A l \in DOMAIN offsets : \A t, u \in offsets[l] : t = u
        /\ \A m \in 1..pos : \A l \in Places(stream[m]) : offsets[l] # {}
    BY <1>2 DEF BpInv, OffsetsOK
  <2>2. \A m \in 1..(pos + 1) : \A l \in Places(stream[m]) : m \in 1..pos
    BY <1>1, <1>2 DEF Places
  <2>3. \A m \in 1..pos : m \in 1..(pos + 1)
    BY <1>2
  <2>4. \A l \in DOMAIN offsets : \A t \in offsets[l] : \E m \in 1..(pos + 1) :
           l \in Places(stream[m]) /\ t = RealsBefore(stream, m)
    BY <2>1, <2>3
  <2>5. \A m \in 1..(pos + 1) : \A l \in Places(stream[m]) : offsets[l] # {}
    BY <2>1, <2>2
  <2>6. Taken' = pos + 1 /\ stream' = stream /\ num_labels' = num_labels /\ offsets' = offsets
    BY <1>1, <1>2
  <2> QED
    BY <2>1, <2>4, <2>5, <2>6 DEF OffsetsOK
<1> QED
  BY <1>2, <1>4, <1>5 DEF BpInv

(* Pass B begins with everything taken. *)
LEMMA InvBeginPassB == ASSUME BpInv, BeginPassB PROVE BpInv'
<1> USE DEF BpInv, BeginPassB
<1>1. StreamOK'
  BY DEF StreamOK
<1>2. Taken' = Taken /\ Len(real) \in Nat
  BY DEF Taken, RealOK
<1>3. PosOK'
  BY <1>2 DEF PosOK
<1>4. RealOK'
  BY <1>2 DEF RealOK
<1>5. OffsetsOK'
  BY <1>2 DEF OffsetsOK
<1>6. OutOK'
  <2>1. DOMAIN out = {}
    BY DEF OutOK
  <2> QED
    BY <2>1 DEF OutOK
<1>7. bpError = {} /\ bpError' = {}
  BY DEF ErrorOK
<1>8. OkOK' /\ PanicOK' /\ ErrorOK'
  BY <1>7 DEF OkOK, PanicOK, ErrorOK
<1> QED
  BY <1>1, <1>3, <1>4, <1>5, <1>6, <1>8

(* The instruction pass B is at stems from an entry, and the labels it     *)
(* names have offsets within the stream.                                   *)
LEMMA AtInsn ==
  ASSUME BpInv, bpStatus # "passA", pos < Len(real)
  PROVE  /\ pos \in Nat /\ Len(real) \in Nat /\ Len(stream) \in Nat
         /\ pos + 1 \in 1..Len(real)
         /\ insn = real[pos + 1] /\ idx = pos /\ next = pos + 1
         /\ insn \in Entries /\ insn.op # "Mark"
         /\ \E s \in DOMAIN stream : stream[s] = insn /\ RealsBefore(stream, s) = pos
         /\ Refs(insn) \subseteq DOMAIN offsets
         /\ \A l \in Refs(insn) : \A t \in offsets[l] : t \in 0..Len(stream)
<1>1. /\ Taken = Len(stream) /\ Len(stream) \in Nat /\ Len(real) \in Nat
      /\ DOMAIN stream = 1..Len(stream)
  BY DEF BpInv, StreamOK, RealOK, Taken
<1>2. pos \in Nat /\ pos + 1 \in 1..Len(real)
  BY <1>1 DEF BpInv, PosOK
<1>3. insn = real[pos + 1] /\ idx = pos /\ next = pos + 1
  BY DEF insn, idx, next
<1>4. PICK s \in 1..Len(stream) :
        stream[s].op # "Mark" /\ pos + 1 = RealsBefore(stream, s) + 1 /\ real[pos + 1] = stream[s]
  BY <1>1, <1>2 DEF BpInv, RealOK
<1>5. RealsBefore(stream, s) = pos
  <2>1. s \in Nat \ {0}
    BY <1>1
  <2>2. RealsBefore(stream, s) \in 0..(s - 1)
    BY <2>1, RealsType
  <2> QED
    BY <2>1, <2>2, <1>2, <1>4
<1>6. s \in DOMAIN stream /\ stream[s] \in Entries
  BY <1>1 DEF BpInv, StreamOK
<1>7. Refs(insn) \subseteq DOMAIN offsets
  BY <1>3, <1>4, <1>6 DEF BpInv, StreamOK, OffsetsOK
<1>8. \A l \in Refs(insn) : \A t \in offsets[l] : t \in 0..Len(stream)
  <2> SUFFICES ASSUME NEW l \in Refs(insn), NEW t \in offsets[l] PROVE t \in 0..Len(stream)
    OBVIOUS
  <2>1. PICK m \in 1..Len(stream) : t = RealsBefore(stream, m)
    BY <1>1, <1>7 DEF BpInv, OffsetsOK
  <2>2. m \in Nat \ {0} /\ m <= Len(stream)
    BY <1>1
  <2>3. RealsBefore(stream, m) \in 0..(m - 1)
    BY <2>2, RealsType
  <2> QED
    BY <2>1, <2>2, <2>3, <1>1
<1> HIDE DEF insn, idx, next
<1> QED
  BY <1>1, <1>2, <1>3, <1>4, <1>5, <1>6, <1>7, <1>8

(* The invariant follows a lowered instruction if that is faithful. *)
LEMMA InvLowered ==
  ASSUME BpInv, Lowering, NEW o, Lowered(o), LoweredFrom(insn, o, pos + 1)
  PROVE  BpInv'
<1>1. /\ bpStatus = "passB" /\ bpStatus' = "passB" /\ pos' = pos + 1 /\ pos < Len(real)
      /\ out' = Append(out, o) /\ stream' = stream /\ num_labels' = num_labels
      /\ offsets' = offsets /\ real' = real /\ bpError' = bpError
  BY DEF Lowering, Lowered
<1>2. pos \in Nat /\ Len(real) \in Nat /\ pos + 1 \in 1..Len(real) /\ insn = real[pos + 1]
  BY <1>1, AtInsn
<1>3. Taken' = Taken
  BY <1>1 DEF Taken
<1>4. StreamOK' /\ RealOK' /\ OffsetsOK'
  <2>1. StreamOK'
    BY <1>1 DEF BpInv, StreamOK
  <2>2. RealOK'
    BY <1>1, <1>3 DEF BpInv, RealOK
  <2>3. OffsetsOK'
    BY <1>1, <1>3 DEF BpInv, OffsetsOK
  <2> QED
    BY <2>1, <2>2, <2>3
<1>5. PosOK'
  BY <1>1, <1>2 DEF PosOK
<1>6. OutOK'
  <2>1. /\ out \in Seq(Insns) /\ DOMAIN out = 1..pos
        /\ \A i \in 1..pos : LoweredFrom(real[i], out[i], i)
    BY <1>1 DEF BpInv, OutOK
  <2>2. o \in Insns /\ Len(out) = pos
    BY <2>1, <1>2 DEF LoweredFrom
  <2>3. /\ out' \in Seq(Insns) /\ DOMAIN out' = 1..(pos + 1)
        /\ out'[pos + 1] = o /\ \A i \in 1..pos : out'[i] = out[i]
    BY <1>1, <1>2, <2>1, <2>2
  <2>4. \A e, p, i : LoweredFrom(e, p, i) <=> LoweredFrom(e, p, i)'
    BY <1>1 DEF LoweredFrom
  <2>5. \A i \in 1..(pos + 1) : LoweredFrom(real[i], out'[i], i)
    <3> SUFFICES ASSUME NEW i \in 1..(pos + 1) PROVE LoweredFrom(real[i], out'[i], i)
      OBVIOUS
    <3>1. CASE i = pos + 1
      BY <3>1, <2>3, <1>2
    <3>2. CASE i \in 1..pos
      BY <3>2, <2>1, <2>3
    <3> QED
      BY <3>1, <3>2, <1>2
  <2>6. \A i \in 1..(pos + 1) : LoweredFrom(real[i], out[i], i)'
    <3> SUFFICES ASSUME NEW i \in 1..(pos + 1) PROVE LoweredFrom(real[i], out[i], i)'
      OBVIOUS
    <3>1. LoweredFrom(real[i], out'[i], i)
      BY <2>5
    <3> QED
      BY <3>1, <1>1 DEF LoweredFrom
  <2> QED
    BY <2>3, <2>6, <1>1 DEF OutOK
<1>7. OkOK' /\ PanicOK'
  BY <1>1 DEF OkOK, PanicOK
<1>8. ErrorOK'
  BY <1>1 DEF BpInv, ErrorOK
<1> QED
  BY <1>4, <1>5, <1>6, <1>7, <1>8 DEF BpInv

(* A label that does not panic has an offset, and Target is it. *)
LEMMA TargetOfLabel ==
  ASSUME NEW l, ~Panics(l)
  PROVE  Target(l) \in offsets[l]
  BY DEF Panics, Target

(* Instructions without a jump. *)
LEMMA InvLowerPlain == ASSUME BpInv, LowerPlain PROVE BpInv'
<1> DEFINE o == LoweredPlain(insn)
<1>1. Lowering /\ insn.op \notin CondOps /\ insn.op # "Jmp" /\ Lowered(o)
  BY DEF LowerPlain
<1>2. insn \in Entries /\ insn.op # "Mark"
  BY <1>1, AtInsn DEF Lowering
<1>3. insn.op \in PlainOps
  BY <1>1, <1>2, EntryFields
<1>4. LoweredFrom(insn, o, pos + 1)
  <2>1. o \in Insns /\ Decode(o) = DecodedAs(insn.op) /\ o.k = insn.k
    BY <1>2, <1>3, PlainKept
  <2> HIDE DEF o, insn
  <2> QED
    BY <2>1, <1>1 DEF LoweredFrom
<1> HIDE DEF o
<1> QED
  BY <1>1, <1>4, InvLowered

(* A displacement that fits is a u8 and leads to the label. *)
LEMMA FittingBranch ==
  ASSUME BpInv, Lowering, NEW l \in Refs(insn), ~Panics(l), Fits(l)
  PROVE  Displacement(l) \in 0..255 /\ pos + 1 + Displacement(l) \in offsets[l]
<1>1. Target(l) \in offsets[l]
  BY TargetOfLabel
<1>2. pos \in Nat /\ next = pos + 1
  BY AtInsn DEF Lowering
<1>3. MaxDisp \in 0..255
  BY BackpatchAssumption
<1> DEFINE t == Target(l)
<1>4. t \in (pos + 1)..(pos + 1 + MaxDisp) /\ Displacement(l) = t - (pos + 1)
  BY <1>2 DEF Fits, Displacement
<1> HIDE DEF t
<1>5. t - (pos + 1) \in 0..255 /\ pos + 1 + (t - (pos + 1)) = t
  BY <1>2, <1>3, <1>4
<1> QED
  BY <1>1, <1>4, <1>5 DEF t

(* Conditional jumps. *)
LEMMA InvLowerCond == ASSUME BpInv, LowerCond PROVE BpInv'
<1> DEFINE dt == Displacement(insn.jt)
           df == Displacement(insn.jf)
           o == LoweredCond(insn, dt, df)
<1>1. /\ Lowering /\ insn.op \in CondOps /\ Lowered(o)
      /\ \A l \in Refs(insn) : ~Panics(l) /\ Fits(l)
  BY DEF LowerCond
<1>2. insn \in Entries /\ insn.op # "Jmp"
  BY <1>1, AtInsn DEF Lowering, CondOps
<1>3. insn.jt \in Refs(insn) /\ insn.jf \in Refs(insn)
  BY <1>1, RefsOf
<1>4. /\ dt \in 0..255 /\ pos + 1 + dt \in offsets[insn.jt]
      /\ df \in 0..255 /\ pos + 1 + df \in offsets[insn.jf]
  BY <1>1, <1>3, FittingBranch
<1>5. LoweredFrom(insn, o, pos + 1)
  <2> HIDE DEF dt, df
  <2>1. insn \in Entries /\ insn.op \in CondOps
    BY <1>1, <1>2
  <2>2. dt \in 0..255 /\ df \in 0..255
    BY <1>4
  <2>3. o \in Insns
    BY <2>1, <2>2, CondKept
  <2>4. Decode(o) = DecodedAs(insn.op) /\ o.k = insn.k
    BY <2>1, <2>2, CondKept
  <2>5. o.jt = dt /\ o.jf = df
    BY <2>1, <2>2, CondKept
  <2> HIDE DEF o
  <2> QED
    BY <2>3, <2>4, <2>5, <1>2, <1>4 DEF LoweredFrom
<1> HIDE DEF o
<1> QED
  BY <1>1, <1>5, InvLowered

(* A displacement of a u32 is a word, and the right one going forward. *)
LEMMA WordType == \A l : DisplacementWord(l) \in Word
<1>1. \A n : Bits(n) \in Word
  <2> SUFFICES ASSUME NEW n, NEW b \in Bits(n) PROVE b \in 0..31
    BY DEF Word
  <2> QED
    BY DEF Bits
<1>2. \A n : AllOnes \ Bits(n) \in Word
  BY DEF AllOnes, Word
<1> QED
  BY <1>1, <1>2 DEF DisplacementWord

(* Unconditional jumps. *)
LEMMA InvLowerJmp == ASSUME BpInv, LowerJmp PROVE BpInv'
<1> DEFINE w == DisplacementWord(insn.target)
           o == jmp(w)
           t == Target(insn.target)
<1>1. Lowering /\ insn.op = "Jmp" /\ ~Panics(insn.target) /\ Lowered(o)
  BY DEF LowerJmp
<1>2. /\ pos \in Nat /\ next = pos + 1 /\ Len(stream) \in Nat
      /\ Refs(insn) \subseteq DOMAIN offsets
      /\ \A l \in Refs(insn) : \A u \in offsets[l] : u \in 0..Len(stream)
  BY <1>1, AtInsn DEF Lowering
<1>3. insn.target \in Refs(insn)
  BY <1>1, RefsOf
<1>4. t \in offsets[insn.target] /\ t \in 0..Len(stream)
  BY <1>1, <1>2, <1>3, TargetOfLabel
<1>5. \A u \in offsets[insn.target] : u = t
  BY <1>2, <1>3, <1>4 DEF BpInv, OffsetsOK
<1>6. t >= pos + 1 => t = pos + 1 + Num(w)
  <2> SUFFICES ASSUME t >= pos + 1 PROVE t = pos + 1 + Num(w)
    OBVIOUS
  <2>1. w = Bits(t - (pos + 1))
    BY <1>2 DEF DisplacementWord
  <2> HIDE DEF t, w
  <2>2. t - (pos + 1) \in 0..Len(stream)
    BY <1>2, <1>4
  <2>3. Num(Bits(t - (pos + 1))) = t - (pos + 1)
    BY <2>2 DEF BpInv, StreamOK
  <2> QED
    BY <2>1, <2>3, <1>2, <1>4
<1>7. LoweredFrom(insn, o, pos + 1)
  <2>1. o \in Insns /\ Decode(o) = "Ja" /\ o.k = w
    BY WordType, JmpKept
  <2>2. DecodedAs(insn.op) = "Ja"
    BY <1>1 DEF DecodedAs
  <2> HIDE DEF o, insn, w, t
  <2> QED
    BY <2>1, <2>2, <1>1, <1>5, <1>6 DEF LoweredFrom, CondOps
<1> HIDE DEF o
<1> QED
  BY <1>1, <1>7, InvLowered

(* Returning leaves all but the status and the error alone. *)
LEMMA InvEnds ==
  ASSUME BpInv, bpStatus = "passB", NEW how \in {"ok", "error", "panic"}, Ends(how),
         OkOK', PanicOK', ErrorOK'
  PROVE  BpInv'
<1>1. /\ bpStatus' = how /\ bpStatus' # "passA" /\ bpStatus # "passA"
      /\ stream' = stream /\ num_labels' = num_labels /\ pos' = pos
      /\ offsets' = offsets /\ real' = real /\ out' = out
  BY DEF Ends
<1>2. Taken' = Taken
  BY <1>1 DEF Taken
<1>3. StreamOK'
  BY <1>1 DEF BpInv, StreamOK
<1>4. PosOK'
  BY <1>1 DEF BpInv, PosOK
<1>5. RealOK'
  BY <1>1, <1>2 DEF BpInv, RealOK
<1>6. OffsetsOK'
  BY <1>1, <1>2 DEF BpInv, OffsetsOK
<1>7. OutOK'
  <2>1. DOMAIN out = 1..pos /\ out \in Seq(Insns)
        /\ \A i \in DOMAIN out : LoweredFrom(real[i], out[i], i)
    BY <1>1 DEF BpInv, OutOK
  <2>2. \A i \in DOMAIN out : LoweredFrom(real[i], out[i], i)'
    BY <2>1, <1>1 DEF LoweredFrom
  <2> QED
    BY <2>1, <2>2, <1>1 DEF OutOK
<1> QED
  BY <1>3, <1>4, <1>5, <1>6, <1>7 DEF BpInv

(* Pass B is through. *)
LEMMA InvBpFinish == ASSUME BpInv, BpFinish PROVE BpInv'
<1>1. bpStatus = "passB" /\ Ends("ok") /\ bpStatus' = "ok" /\ bpError' = bpError
      /\ pos' = Len(real')
  BY DEF BpFinish, Ends
<1>2. bpError = {}
  BY <1>1 DEF BpInv, ErrorOK
<1>3. OkOK' /\ PanicOK' /\ ErrorOK'
  BY <1>1, <1>2 DEF OkOK, PanicOK, ErrorOK
<1> QED
  BY <1>1, <1>3, InvEnds

(* A panic has a label without an offset ahead of the jump. *)
LEMMA InvLowerPanic == ASSUME BpInv, LowerPanic PROVE BpInv'
<1>1. Lowering /\ Ends("panic") /\ bpError' = bpError
  BY DEF LowerPanic
<1>2. /\ bpStatus = "passB" /\ bpStatus' = "panic" /\ pos < Len(real)
      /\ pos' = pos /\ real' = real /\ offsets' = offsets
  BY <1>1 DEF Lowering, Ends
<1>3. bpError = {}
  BY <1>2 DEF BpInv, ErrorOK
<1>4. insn = real[pos + 1] /\ next = pos + 1
  BY <1>2, AtInsn
<1>5. \E l \in Refs(insn) : Panics(l)
  BY RefsOf DEF LowerPanic
<1>6. \E l \in Refs(real[pos + 1]) : \A t \in offsets[l] : t < pos + 1
  BY <1>4, <1>5 DEF Panics
<1>7. OkOK' /\ ErrorOK'
  BY <1>1, <1>2, <1>3 DEF OkOK, ErrorOK
<1>8. PanicOK'
  BY <1>2, <1>6 DEF PanicOK
<1> QED
  BY <1>1, <1>2, <1>7, <1>8, InvEnds

(* What an Overflow step reports of a label. *)
LEMMA OverflowReports ==
  ASSUME BpInv, Lowering, NEW l, ~Panics(l), ~Fits(l),
         NEW err, err.displacement = DisplacementWord(l)
  PROVE  FarBranch(l, err)
<1>1. next = pos + 1
  BY AtInsn DEF Lowering
<1>2. Target(l) \in offsets[l]
  BY TargetOfLabel
<1>3. Target(l) \notin (pos + 1)..(pos + 1 + MaxDisp)
  BY <1>1 DEF Fits
<1>4. Target(l) >= pos + 1 => err.displacement = Bits(Target(l) - (pos + 1))
  BY <1>1 DEF DisplacementWord
<1> QED
  BY <1>2, <1>3, <1>4 DEF FarBranch

(* Overflow of either branch. *)
LEMMA InvLowerOverflow == ASSUME BpInv, LowerOverflow PROVE BpInv'
<1>1. Lowering /\ insn.op \in CondOps
  BY DEF LowerOverflow
<1>2. /\ pos < Len(real) /\ insn = real[pos + 1] /\ idx = pos /\ next = pos + 1
      /\ bpStatus = "passB"
  BY <1>1, AtInsn DEF Lowering
<1>3. PICK l : /\ Overflow(l)
               /\ \/ l = insn.jt
                  \/ l = insn.jf /\ ~Panics(insn.jt) /\ Fits(insn.jt)
  BY DEF LowerOverflow
<1>4. ~Panics(l) /\ ~Fits(l) /\ Ends("error")
  BY <1>3 DEF Overflow
<1>5. PICK err : /\ bpError' = {err}
                 /\ err.offset = real[pos + 1].offset /\ err.inst_index = pos
                 /\ err.displacement = DisplacementWord(l)
  <2> DEFINE r == [offset |-> insn.offset, inst_index |-> idx,
                   displacement |-> DisplacementWord(l)]
  <2>1. bpError' = {r}
    BY <1>3 DEF Overflow
  <2>2. /\ r.offset = real[pos + 1].offset /\ r.inst_index = pos
        /\ r.displacement = DisplacementWord(l)
    BY <1>2
  <2> HIDE DEF r
  <2> QED
    BY <2>1, <2>2
<1>6. FarBranch(l, err)
  BY <1>1, <1>4, <1>5, OverflowReports
<1>7. /\ bpStatus' = "error" /\ pos' = pos /\ real' = real /\ offsets' = offsets
  BY <1>4 DEF Ends
<1>8. FarBranch(l, err)'
  BY <1>6, <1>7 DEF FarBranch
<1>9. OkOK' /\ PanicOK'
  BY <1>7 DEF OkOK, PanicOK
<1>10. \/ FarBranch(real[pos + 1].jt, err)'
       \/ /\ \E t \in offsets[real[pos + 1].jt] : t \in (pos + 1)..(pos + 1 + MaxDisp)
          /\ FarBranch(real[pos + 1].jf, err)'
  <2>1. CASE l = insn.jt
    <3>1. l = real'[pos' + 1].jt
      BY <2>1, <1>2, <1>7
    <3>2. FarBranch(real[pos + 1].jt, err)'
      BY <1>8, <3>1
    <3> QED
      BY <3>2
  <2>2. CASE l = insn.jf /\ ~Panics(insn.jt) /\ Fits(insn.jt)
    <3>1. Target(insn.jt) \in offsets[insn.jt]
      BY <2>2, TargetOfLabel
    <3>2. Target(insn.jt) \in (pos + 1)..(pos + 1 + MaxDisp)
      BY <2>2, <1>2 DEF Fits
    <3>3. \E t \in offsets[real[pos + 1].jt] : t \in (pos + 1)..(pos + 1 + MaxDisp)
      BY <3>1, <3>2, <1>2
    <3>4. l = real'[pos' + 1].jf
      BY <2>2, <1>2, <1>7
    <3>5. FarBranch(real[pos + 1].jf, err)'
      BY <1>8, <3>4
    <3> QED
      BY <3>3, <3>5
  <2> QED
    BY <1>3, <2>1, <2>2
<1>11. ErrorOK'
  BY <1>1, <1>2, <1>5, <1>7, <1>10 DEF ErrorOK
<1> QED
  BY <1>2, <1>4, <1>9, <1>11, InvEnds

(* Every step keeps the invariant. *)
LEMMA InvNext == BpInv /\ [BpNext]_bpVars => BpInv'
<1> SUFFICES ASSUME BpInv, [BpNext]_bpVars PROVE BpInv'
  OBVIOUS
<1>1. CASE TakeMark
  BY <1>1, InvTakeMark
<1>2. CASE TakeReal
  BY <1>2, InvTakeReal
<1>3. CASE BeginPassB
  BY <1>3, InvBeginPassB
<1>4. CASE LowerPlain
  BY <1>4, InvLowerPlain
<1>5. CASE LowerCond
  BY <1>5, InvLowerCond
<1>6. CASE LowerOverflow
  BY <1>6, InvLowerOverflow
<1>7. CASE LowerJmp
  BY <1>7, InvLowerJmp
<1>8. CASE LowerPanic
  BY <1>8, InvLowerPanic
<1>9. CASE BpFinish
  BY <1>9, InvBpFinish
<1>10. CASE UNCHANGED bpVars
  <2>1. /\ stream' = stream /\ num_labels' = num_labels /\ bpStatus' = bpStatus
        /\ pos' = pos /\ offsets' = offsets /\ real' = real /\ out' = out
        /\ bpError' = bpError
    BY <1>10 DEF bpVars
  <2>2. Taken' = Taken
    BY <2>1 DEF Taken
  <2>3. StreamOK'
    BY <2>1 DEF BpInv, StreamOK
  <2>4. PosOK' /\ OkOK'
    BY <2>1 DEF BpInv, PosOK, OkOK
  <2>5. RealOK'
    BY <2>1, <2>2 DEF BpInv, RealOK
  <2>6. OffsetsOK'
    BY <2>1, <2>2 DEF BpInv, OffsetsOK
  <2>7. OutOK'
    <3>1. \A i \in DOMAIN out : LoweredFrom(real[i], out[i], i)'
      BY <2>1 DEF BpInv, OutOK, LoweredFrom
    <3> QED
      BY <3>1, <2>1 DEF BpInv, OutOK
  <2>8. PanicOK'
    BY <2>1 DEF BpInv, PanicOK
  <2>9. ErrorOK'
    BY <2>1 DEF BpInv, ErrorOK, FarBranch
  <2> QED
    BY <2>3, <2>4, <2>5, <2>6, <2>7, <2>8, <2>9 DEF BpInv
<1> QED
  BY <1>1, <1>2, <1>3, <1>4, <1>5, <1>6, <1>7, <1>8, <1>9, <1>10 DEF BpNext, BpReturned

(* The state of the assembler is always that of an honest two-pass         *)
(* assembly of its stream.                                                 *)
THEOREM BpInvariant == BpSpec => []BpInv
  BY InvInit, InvNext, PTL DEF BpSpec

-----------------------------------------------------------------------------
(* What follows from the invariant. *)

(* Every variable of `assemble` has its type; an index never leaves the    *)
(* stream.                                                                 *)
THEOREM BpTypeCorrect == BpSpec => []BpTypeOK
<1>1. BpInv => BpTypeOK
  <2> SUFFICES ASSUME BpInv PROVE BpTypeOK
    OBVIOUS
  <2>1. Len(stream) \in Nat /\ Len(real) \in Nat /\ Taken \in 0..Len(stream)
    BY DEF BpInv, StreamOK, RealOK, PosOK, Taken
  <2>2. Len(real) <= Len(stream)
    <3>1. Taken + 1 \in Nat \ {0}
      BY <2>1
    <3>2. RealsBefore(stream, Taken + 1) \in 0..((Taken + 1) - 1)
      BY <3>1, RealsType
    <3>3. Len(real) = RealsBefore(stream, Taken + 1)
      BY DEF BpInv, RealOK
    <3> QED
      BY <2>1, <3>2, <3>3
  <2>3. pos \in 0..Len(stream)
    BY <2>1, <2>2 DEF BpInv, PosOK
  <2>4. \A l \in DOMAIN offsets : \A t \in offsets[l] : t \in 0..Len(real)
    <3> SUFFICES ASSUME NEW l \in DOMAIN offsets, NEW t \in offsets[l]
                 PROVE  t \in 0..Len(real)
      OBVIOUS
    <3>1. PICK m \in 1..Taken : t = RealsBefore(stream, m)
      BY DEF BpInv, OffsetsOK
    <3>2. m \in Nat \ {0} /\ Taken + 1 \in Nat \ {0} /\ m <= Taken + 1
      BY <2>1
    <3>3. RealsBefore(stream, m) \in 0..(m - 1)
      BY <3>2, RealsType
    <3>4. RealsBefore(stream, m) <= Len(real)
      BY <3>2, RealsMono DEF BpInv, RealOK
    <3> QED
      BY <3>1, <3>2, <3>3, <3>4, <2>1
  <2>5. \A i \in DOMAIN out : out[i] \in Insns
    BY DEF BpInv, OutOK, LoweredFrom
  <2>6. /\ bpStatus \in {"passA", "passB", "ok", "error", "panic"}
        /\ DOMAIN offsets = 0..(num_labels - 1)
        /\ bpStatus = "error" <=> bpError # {}
    BY DEF BpInv, PosOK, OffsetsOK, ErrorOK
  <2> QED
    BY <2>3, <2>4, <2>5, <2>6 DEF BpTypeOK
<1> QED
  BY <1>1, BpInvariant, PTL

(* In a well-formed stream the offset of a label a jump names is there, is *)
(* behind the jump and is the only place the label can stand for.          *)
LEMMA LabelsAhead ==
  ASSUME BpInv, WellFormed, bpStatus # "passA",
         NEW s \in DOMAIN stream, stream[s].op # "Mark", NEW l \in Refs(stream[s])
  PROVE  \E t \in offsets[l] :
           /\ t \in (RealsBefore(stream, s) + 1)..Len(stream)
           /\ ResolvesTo(l, t)
           /\ \A u \in offsets[l] : u = t
           /\ \A u : ResolvesTo(l, u) => u = t
<1>1. Taken = Len(stream) /\ Len(stream) \in Nat /\ DOMAIN stream = 1..Len(stream)
  BY DEF BpInv, StreamOK, Taken
<1>2. PICK j \in DOMAIN stream : s < j /\ l \in Places(stream[j])
  BY DEF WellFormed, JumpsForward
<1>3. l \in DOMAIN offsets /\ offsets[l] # {}
  BY <1>1, <1>2 DEF BpInv, StreamOK, OffsetsOK
<1>4. PICK t \in offsets[l] : TRUE
  BY <1>3
<1>5. PICK m \in 1..Len(stream) : l \in Places(stream[m]) /\ t = RealsBefore(stream, m)
  BY <1>1, <1>3 DEF BpInv, OffsetsOK
<1>6. \A i \in DOMAIN stream : l \in Places(stream[i]) => i = m
  BY <1>1, <1>5 DEF WellFormed, PlacedAtMostOnce
<1>7. t \in (RealsBefore(stream, s) + 1)..Len(stream)
  <2>1. s < m
    BY <1>2, <1>6
  <2>2. s \in Nat \ {0} /\ m \in Nat \ {0} /\ m <= Len(stream)
    BY <1>1
  <2>3. RealsBefore(stream, s) + 1 <= RealsBefore(stream, m)
    BY <2>1, <2>2, RealsPassed
  <2>4. RealsBefore(stream, s) \in 0..(s - 1) /\ RealsBefore(stream, m) \in 0..(m - 1)
    BY <2>2, RealsType
  <2> QED
    BY <2>2, <2>3, <2>4, <1>1, <1>5
<1>8. ResolvesTo(l, t)
  BY <1>1, <1>5 DEF ResolvesTo
<1>9. \A u \in offsets[l] : u = t
  BY <1>3 DEF BpInv, OffsetsOK
<1>10. \A u : ResolvesTo(l, u) => u = t
  BY <1>5, <1>6 DEF ResolvesTo
<1> QED
  BY <1>7, <1>8, <1>9, <1>10

(* Neither the `expect` nor the debug_assert! of displacement_from can     *)
(* fire on a stream that keeps irep.rs's promise.                          *)
THEOREM NoPanicIfWellFormed == BpSpec => []PanicsOnlyIllFormed
<1>1. BpInv => PanicsOnlyIllFormed
  <2> SUFFICES ASSUME BpInv, bpStatus = "panic", WellFormed PROVE FALSE
    BY DEF PanicsOnlyIllFormed
  <2>1. pos < Len(real) /\ \E l \in Refs(real[pos + 1]) : \A t \in offsets[l] : t < pos + 1
    BY DEF BpInv, PanicOK
  <2>2. /\ insn = real[pos + 1] /\ insn.op # "Mark" /\ pos \in Nat /\ Len(stream) \in Nat
        /\ \E s \in DOMAIN stream : stream[s] = insn /\ RealsBefore(stream, s) = pos
    BY <2>1, AtInsn
  <2>3. PICK l \in Refs(insn) : \A t \in offsets[l] : t < pos + 1
    BY <2>1, <2>2
  <2>4. PICK s \in DOMAIN stream : stream[s] = insn /\ RealsBefore(stream, s) = pos
    BY <2>2
  <2>5. PICK t \in offsets[l] : t \in (RealsBefore(stream, s) + 1)..Len(stream)
    BY <2>2, <2>3, <2>4, LabelsAhead
  <2>6. t \in (pos + 1)..Len(stream) /\ t < pos + 1
    BY <2>3, <2>4, <2>5
  <2> QED
    BY <2>2, <2>6
<1> QED
  BY <1>1, BpInvariant, PTL

(* A program assemble returns has every instruction of the stream, in      *)
(* order, with the operation and operand the interpreter will see.         *)
THEOREM NothingLost == BpSpec => []AssembledWhole
<1>1. BpInv => AssembledWhole
  <2> SUFFICES ASSUME BpInv, bpStatus = "ok" PROVE
        /\ Len(out) = RealsBefore(stream, Len(stream) + 1)
        /\ \A s \in DOMAIN stream :
             LET i == RealsBefore(stream, s) + 1
             IN  stream[s].op # "Mark" =>
                    /\ Decode(out[i]) = DecodedAs(stream[s].op)
                    /\ stream[s].op # "Jmp" => out[i].k = stream[s].k
    BY DEF AssembledWhole
  <2>1. Taken = Len(stream) /\ Len(stream) \in Nat /\ DOMAIN stream = 1..Len(stream)
    BY DEF BpInv, StreamOK, Taken
  <2>2. DOMAIN out = 1..Len(real) /\ Len(real) \in Nat /\ out \in Seq(Insns)
    BY DEF BpInv, OutOK, OkOK, RealOK
  <2>3. Len(out) = Len(real) /\ Len(real) = RealsBefore(stream, Len(stream) + 1)
    BY <2>1, <2>2 DEF BpInv, RealOK
  <2>4. ASSUME NEW s \in DOMAIN stream, stream[s].op # "Mark"
        PROVE  LET i == RealsBefore(stream, s) + 1
               IN  /\ Decode(out[i]) = DecodedAs(stream[s].op)
                   /\ stream[s].op # "Jmp" => out[i].k = stream[s].k
    <3> DEFINE i == RealsBefore(stream, s) + 1
    <3>1. s \in Nat \ {0} /\ Len(stream) + 1 \in Nat \ {0} /\ s < Len(stream) + 1
      BY <2>1
    <3>2. RealsBefore(stream, s) \in 0..(s - 1)
      BY <3>1, RealsType
    <3>3. RealsBefore(stream, s) + 1 <= Len(real)
      BY <3>1, <2>3, <2>4, RealsPassed
    <3>4. i \in DOMAIN out
      BY <3>1, <3>2, <3>3, <2>2
    <3>5. real[i] = stream[s]
      BY <2>1, <2>4 DEF BpInv, RealOK
    <3> HIDE DEF i
    <3>6. LoweredFrom(stream[s], out[i], i)
      BY <3>4, <3>5 DEF BpInv, OutOK
    <3> QED
      BY <3>6 DEF LoweredFrom, i
  <2> QED
    BY <2>3, <2>4
<1> QED
  BY <1>1, BpInvariant, PTL

(* resolve_branch and resolve_jmp are right: both ways of a conditional    *)
(* jump and an unconditional one lead to the instruction behind the mark.  *)
THEOREM JumpsLandAtLabels == BpSpec => []JumpsLand
<1>1. BpInv => JumpsLand
  <2> SUFFICES ASSUME BpInv, WellFormed, NEW s \in DOMAIN stream, stream[s].op # "Mark",
                      RealsBefore(stream, s) + 1 \in DOMAIN out
               PROVE  LET i == RealsBefore(stream, s) + 1
                      IN  /\ stream[s].op \in CondOps =>
                               /\ ResolvesTo(stream[s].jt, i + out[i].jt)
                               /\ ResolvesTo(stream[s].jf, i + out[i].jf)
                          /\ stream[s].op = "Jmp" =>
                               ResolvesTo(stream[s].target, i + Num(out[i].k))
    BY DEF JumpsLand
  <2> DEFINE i == RealsBefore(stream, s) + 1
  <2>1. bpStatus # "passA"
    BY DEF BpInv, OutOK
  <2>2. Taken = Len(stream) /\ DOMAIN stream = 1..Len(stream)
    BY <2>1 DEF BpInv, StreamOK, Taken
  <2>3. real[i] = stream[s]
    BY <2>2 DEF BpInv, RealOK
  <2>4. LoweredFrom(stream[s], out[i], i)
    BY <2>3 DEF BpInv, OutOK
  <2>5. \A l \in Refs(stream[s]) : \E t \in offsets[l] :
           t \in i..Len(stream) /\ ResolvesTo(l, t) /\ \A u \in offsets[l] : u = t
    BY <2>1, LabelsAhead
  <2>6. i \in Nat /\ Len(stream) \in Nat
    <3>1. s \in Nat \ {0} /\ Len(stream) \in Nat
      BY DEF BpInv, StreamOK
    <3>2. RealsBefore(stream, s) \in 0..(s - 1)
      BY <3>1, RealsType
    <3> QED
      BY <3>1, <3>2
  <2> HIDE DEF i
  <2>7. ASSUME stream[s].op \in CondOps
        PROVE  ResolvesTo(stream[s].jt, i + out[i].jt) /\ ResolvesTo(stream[s].jf, i + out[i].jf)
    <3>1. stream[s].jt \in Refs(stream[s]) /\ stream[s].jf \in Refs(stream[s])
      BY <2>7, RefsOf
    <3>2. i + out[i].jt \in offsets[stream[s].jt] /\ i + out[i].jf \in offsets[stream[s].jf]
      BY <2>4, <2>7 DEF LoweredFrom
    <3> QED
      BY <3>1, <3>2, <2>5
  <2>8. ASSUME stream[s].op = "Jmp"
        PROVE  ResolvesTo(stream[s].target, i + Num(out[i].k))
    <3>1. stream[s].target \in Refs(stream[s])
      BY <2>8, RefsOf
    <3>2. PICK t \in offsets[stream[s].target] :
            t \in i..Len(stream) /\ ResolvesTo(stream[s].target, t)
      BY <3>1, <2>5
    <3>3. t >= i
      BY <3>2, <2>6
    <3>4. t = i + Num(out[i].k)
      BY <3>3, <2>4, <2>8 DEF LoweredFrom
    <3> QED
      BY <3>2, <3>4
  <2> QED
    BY <2>7, <2>8 DEF i
<1> QED
  BY <1>1, BpInvariant, PTL

(* A program assembled from a well-formed stream that ends in a `ret` is   *)
(* one that Vm::new accepts: each jump leads to the instruction behind a   *)
(* mark, marks lie before the last `ret`, and so does whatever falls       *)
(* through.                                                                *)
THEOREM AssembledIsValid == BpSpec => []AssembledValid
<1>1. BpInv /\ JumpsLand => AssembledValid
  <2> SUFFICES ASSUME BpInv, JumpsLand, bpStatus = "ok", WellFormed, ClosedByRet(stream)
               PROVE  Valid(out)
    BY DEF AssembledValid
  <2> DEFINE n == Len(stream)
             R(m) == RealsBefore(stream, m)
  <2>1. /\ Taken = n /\ n \in Nat /\ DOMAIN stream = 1..n /\ stream \in Seq(Entries)
    BY DEF BpInv, StreamOK, Taken
  <2>2. n \in 1..n /\ stream[n].op = "Ret"
    BY <2>1 DEF ClosedByRet
  <2>3. DOMAIN out = 1..Len(real) /\ Len(real) \in Nat /\ out \in Seq(Insns)
    BY DEF BpInv, OutOK, OkOK, RealOK
  <2>4. Len(real) = R(n + 1)
    BY <2>1 DEF BpInv, RealOK
  <2> HIDE DEF n, R
  <2>5. ASSUME NEW m \in 1..n PROVE R(m) \in 0..(m - 1) /\ R(m) + 1 <= Len(real)
    <3>1. /\ m \in Nat \ {0} /\ n \in Nat \ {0} /\ n + 1 \in Nat \ {0} /\ m <= n /\ n < n + 1
          /\ stream[n].op # "Mark"
      BY <2>1, <2>2
    <3>2. R(m) \in 0..(m - 1) /\ R(n) \in 0..(n - 1)
      BY <3>1, RealsType DEF R
    <3>3. R(m) <= R(n)
      BY <3>1, RealsMono DEF R
    <3>4. R(n) + 1 <= R(n + 1)
      BY <3>1, RealsPassed DEF R
    <3> QED
      BY <3>1, <3>2, <3>3, <3>4, <2>3, <2>4
  <2>6. out # <<>>
    BY <2>2, <2>3, <2>5
  <2>7. ASSUME NEW l, NEW t, ResolvesTo(l, t) PROVE t + 1 \in DOMAIN out
    <3>1. PICK m \in 1..n : t = R(m)
      BY <2>1, <2>7 DEF ResolvesTo, R
    <3> QED
      BY <3>1, <2>1, <2>3, <2>5
  <2>8. ASSUME NEW i \in DOMAIN out
        PROVE  Decode(out[i]) # "Unknown" /\ Targets(out, i) \subseteq DOMAIN out
    <3>1. i \in 1..Len(real)
      BY <2>3
    <3>2. PICK s \in 1..n : stream[s].op # "Mark" /\ i = R(s) + 1 /\ real[i] = stream[s]
      BY <3>1, <2>1 DEF BpInv, RealOK, R
    <3>3. LoweredFrom(stream[s], out[i], i)
      BY <3>2 DEF BpInv, OutOK
    <3> DEFINE op == stream[s].op
               o == out[i]
    <3>4. op \in PlainOps \cup CondOps \cup {"Jmp"}
      BY <3>2, <2>1, EntryFields
    <3>5. Decode(o) = DecodedAs(op)
      BY <3>3 DEF LoweredFrom
    <3>6. /\ s \in DOMAIN stream /\ i = RealsBefore(stream, s) + 1
          /\ stream[s].op \in CondOps =>
               ResolvesTo(stream[s].jt, i + o.jt) /\ ResolvesTo(stream[s].jf, i + o.jf)
          /\ stream[s].op = "Jmp" => ResolvesTo(stream[s].target, i + Num(o.k))
      <4>1. s \in DOMAIN stream /\ i = RealsBefore(stream, s) + 1
        BY <3>2, <2>1 DEF R
      <4> QED
        BY <4>1, <3>2 DEF JumpsLand
    <3>7. i \in Nat /\ o \in Insns
      BY <3>1, <2>3, <3>3 DEF LoweredFrom
    <3>8. o.jt \in Nat /\ o.jf \in Nat
      BY <3>7 DEF Insns
    <3> HIDE DEF op, o
    <3>9. CASE op \in CondOps
      <4>1. Decode(o) = op
        BY <3>5, <3>9 DEF CondOps, DecodedAs
      <4>2. (i + o.jt) + 1 \in DOMAIN out /\ (i + o.jf) + 1 \in DOMAIN out
        BY <3>6, <3>9, <2>7 DEF op
      <4>3. i + 1 + o.jt \in DOMAIN out /\ i + 1 + o.jf \in DOMAIN out
        <5>1. i + 1 + o.jt = (i + o.jt) + 1 /\ i + 1 + o.jf = (i + o.jf) + 1
          BY <3>7, <3>8
        <5> QED
          BY <4>2, <5>1
      <4>4. IsConditionalJump(o)
        BY <4>1, <3>9 DEF IsConditionalJump, CondOps
      <4>5. Targets(out, i) = {i + 1 + o.jt, i + 1 + o.jf}
        BY <4>1, <4>4, <3>9 DEF Targets, o, CondOps, IsConditionalJump
      <4> QED
        BY <4>1, <4>3, <4>5, <3>9 DEF CondOps, o
    <3>10. CASE op = "Jmp"
      <4>1. Decode(o) = "Ja"
        BY <3>5, <3>10 DEF DecodedAs
      <4>2. ~IsConditionalJump(o)
        BY <4>1 DEF IsConditionalJump
      <4>3. Targets(out, i) = {i + 1 + Num(o.k)}
        BY <4>1, <4>2 DEF Targets, o
      <4>4. (i + Num(o.k)) + 1 \in DOMAIN out
        BY <3>6, <3>10, <2>7 DEF op
      <4>5. i + 1 + Num(o.k) = (i + Num(o.k)) + 1
        BY <3>7, WordNum
      <4> QED
        BY <4>1, <4>3, <4>4, <4>5 DEF o
    <3>11. CASE op = "Ret"
      <4>1. Decode(o) = "Ret"
        BY <3>5, <3>11 DEF DecodedAs
      <4>2. ~IsConditionalJump(o)
        BY <4>1 DEF IsConditionalJump
      <4>3. Targets(out, i) = {}
        BY <4>1, <4>2 DEF Targets, o
      <4> QED
        BY <4>1, <4>3 DEF o
    <3>12. CASE op \in PlainOps \ {"Ret"}
      <4>1. Decode(o) \in {"LdhAbs", "LdbAbs", "LdwAbs", "LdxMsh", "LdhInd", "AluAndK"}
        BY <3>5, <3>12 DEF DecodedAs, PlainOps, LoadOps
      <4>2. ~IsConditionalJump(o)
        BY <4>1 DEF IsConditionalJump
      <4>3. Targets(out, i) = {i + 1}
        BY <4>1, <4>2 DEF Targets, o
      <4>4. s < n
        BY <3>12, <2>1, <2>2 DEF op
      <4>5. s \in Nat \ {0} /\ n \in Nat \ {0}
        BY <2>1, <4>4
      <4>6. R(s) + 1 <= R(n)
        BY <3>2, <4>4, <4>5, RealsPassed DEF R
      <4>7. R(n) + 1 <= Len(real) /\ R(n) \in Nat /\ R(s) \in Nat
        BY <2>5, <4>5, <2>2
      <4>8. i + 1 \in 1..Len(real)
        BY <3>2, <4>6, <4>7, <3>7, <2>3
      <4> QED
        BY <4>1, <4>3, <4>8, <2>3 DEF o
    <3> QED
      BY <3>4, <3>9, <3>10, <3>11, <3>12 DEF op
  <2> QED
    BY <2>6, <2>8 DEF Valid
<1> QED
  BY <1>1, BpInvariant, JumpsLandAtLabels, PTL

(* A JumpDisplacementOverflow names the first instruction with a branch    *)
(* out of reach, and the branch's true displacement.                       *)
THEOREM OverflowIsTrue == BpSpec => []OverflowIsReal
<1>1. BpInv => OverflowIsReal
  <2> SUFFICES ASSUME BpInv, WellFormed, NEW err \in bpError
               PROVE
      \E s \in DOMAIN stream :
        LET Far(label) == \E d \in 0..Len(stream) :
                            d > MaxDisp /\ ResolvesTo(label, RealsBefore(stream, s) + 1 + d)
            Reported(label) == ResolvesTo(label, RealsBefore(stream, s) + 1 + Num(err.displacement))
        IN  /\ stream[s].op \in CondOps
            /\ RealsBefore(stream, s) = err.inst_index
            /\ Len(out) = err.inst_index
            /\ stream[s].offset = err.offset
            /\ \/ Far(stream[s].jt) /\ Reported(stream[s].jt)
               \/ ~Far(stream[s].jt) /\ Far(stream[s].jf) /\ Reported(stream[s].jf)
    BY DEF OverflowIsReal
  <2>1. bpStatus = "error" /\ MaxDisp \in 0..255
    BY BackpatchAssumption DEF BpInv, ErrorOK
  <2> DEFINE e == real[pos + 1]
  <2>2. /\ pos < Len(real) /\ e.op \in CondOps /\ err.inst_index = pos /\ err.offset = e.offset
        /\ \/ FarBranch(e.jt, err)
           \/ /\ \E t \in offsets[e.jt] : t \in (pos + 1)..(pos + 1 + MaxDisp)
              /\ FarBranch(e.jf, err)
    BY DEF BpInv, ErrorOK
  <2> HIDE DEF e
  <2>3. /\ insn = e /\ insn.op # "Mark" /\ pos \in Nat /\ Len(stream) \in Nat
        /\ \E s \in DOMAIN stream : stream[s] = insn /\ RealsBefore(stream, s) = pos
    BY <2>1, <2>2, AtInsn DEF e
  <2>4. PICK s \in DOMAIN stream : stream[s] = e /\ RealsBefore(stream, s) = pos
    BY <2>3
  <2>5. Len(out) = pos
    BY <2>1, <2>3 DEF BpInv, OutOK
  <2> DEFINE Far(l) == \E d \in 0..Len(stream) : d > MaxDisp /\ ResolvesTo(l, pos + 1 + d)
             Reported(l) == ResolvesTo(l, pos + 1 + Num(err.displacement))
  <2>6. ASSUME NEW l \in Refs(e)
        PROVE  \E t \in offsets[l] :
                 /\ t \in (pos + 1)..Len(stream) /\ ResolvesTo(l, t)
                 /\ \A u \in offsets[l] : u = t
                 /\ \A u : ResolvesTo(l, u) => u = t
    BY <2>1, <2>3, <2>4, LabelsAhead
  <2>7. ASSUME NEW l \in Refs(e), FarBranch(l, err)
        PROVE  Far(l) /\ Reported(l)
    <3>1. PICK t \in offsets[l] : t \in (pos + 1)..Len(stream) /\ ResolvesTo(l, t)
                                 /\ \A u \in offsets[l] : u = t
      BY <2>6
    <3>2. /\ t \notin (pos + 1)..(pos + 1 + MaxDisp)
          /\ t >= pos + 1 => err.displacement = Bits(t - (pos + 1))
      BY <2>7, <3>1 DEF FarBranch
    <3> DEFINE d == t - (pos + 1)
    <3>3. /\ d \in 0..Len(stream) /\ d > MaxDisp /\ pos + 1 + d = t
          /\ err.displacement = Bits(d)
      BY <3>1, <3>2, <2>1, <2>3
    <3> HIDE DEF d
    <3>4. Num(Bits(d)) = d
      BY <3>3 DEF BpInv, StreamOK
    <3> QED
      BY <3>1, <3>3, <3>4
  <2>8. ASSUME NEW l \in Refs(e),
               \E t \in offsets[l] : t \in (pos + 1)..(pos + 1 + MaxDisp)
        PROVE  ~Far(l)
    <3> SUFFICES ASSUME NEW d \in 0..Len(stream), d > MaxDisp, ResolvesTo(l, pos + 1 + d)
                 PROVE  FALSE
      OBVIOUS
    <3>1. PICK t \in offsets[l] : t \in (pos + 1)..(pos + 1 + MaxDisp)
      BY <2>8
    <3>2. pos + 1 + d = t
      BY <2>6, <3>1
    <3> QED
      BY <3>1, <3>2, <2>1, <2>3
  <2>9. e.jt \in Refs(e) /\ e.jf \in Refs(e)
    BY <2>2, RefsOf
  <2>10. (Far(e.jt) /\ Reported(e.jt)) \/ (~Far(e.jt) /\ Far(e.jf) /\ Reported(e.jf))
    <3> HIDE DEF Far, Reported
    <3>1. CASE FarBranch(e.jt, err)
      BY <3>1, <2>7, <2>9
    <3>2. CASE /\ \E t \in offsets[e.jt] : t \in (pos + 1)..(pos + 1 + MaxDisp)
               /\ FarBranch(e.jf, err)
      BY <3>2, <2>7, <2>8, <2>9
    <3> QED
      BY <3>1, <3>2, <2>2
  <2> QED
    BY <2>2, <2>4, <2>5, <2>10
<1> QED
  BY <1>1, BpInvariant, PTL
=============================================================================
