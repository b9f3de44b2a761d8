---------------------------- MODULE ListingProofs ----------------------------
(***************************************************************************)
(* The listing of a program tells how it runs, for every program, packet   *)
(* and usize::MAX.                                                         *)
(***************************************************************************)
EXTENDS Listing, VmProofs

(* The lines of the instructions behind which the next line comes. *)
LEMMA FallsThrough ==
  ASSUME NEW op \in {"LdhAbs", "LdbAbs", "LdwAbs", "LdhInd", "LdxMsh", "AluAndK"},
         Decode(insns[pc + 1]) = op, NEW acc
  PROVE  /\ Follow(LineAt(pc), acc) = {pc + 1}
         /\ LineAt(pc).text.mnemonic # "ret"
<1>1. ~IsConditionalJump(insns[pc + 1])
  BY DEF IsConditionalJump
<1>2. LineAt(pc).targets = <<>> /\ LineAt(pc).index = pc
  BY <1>1 DEF LineAt, fmt_insn
<1>3. LineAt(pc).text.mnemonic \notin {"ret", "unimp"} /\ LineAt(pc).text.form # "line"
  BY DEF LineAt, fmt_insn, describe, Mnemonics, Forms
<1> QED
  BY <1>2, <1>3 DEF Follow

(* What is printed of a conditional jump. *)
LEMMA JumpLine ==
  ASSUME IsConditionalJump(insns[pc + 1])
  PROVE  /\ LineAt(pc).targets = <<pc + 1 + insns[pc + 1].jt, pc + 1 + insns[pc + 1].jf>>
         /\ LineAt(pc).text.operand = K
         /\ LineAt(pc).text.mnemonic # "ret"
         /\ Decode(insns[pc + 1]) = "Jeq" => LineAt(pc).text.mnemonic = "jeq"
         /\ Decode(insns[pc + 1]) = "Jgt" => LineAt(pc).text.mnemonic = "jgt"
         /\ Decode(insns[pc + 1]) = "Jge" => LineAt(pc).text.mnemonic = "jge"
         /\ Decode(insns[pc + 1]) = "Jset" => LineAt(pc).text.mnemonic = "jset"
<1>1. LineAt(pc).targets = <<pc + 1 + insns[pc + 1].jt, pc + 1 + insns[pc + 1].jf>>
  BY DEF LineAt, fmt_insn
<1>2. LineAt(pc).text = describe(insns[pc + 1], pc)
  BY DEF LineAt, fmt_insn
<1>3. describe(insns[pc + 1], pc).operand = K
  BY DEF describe, IsConditionalJump, K
<1>4. describe(insns[pc + 1], pc).mnemonic = Mnemonics[Decode(insns[pc + 1])]
  BY DEF describe
<1> QED
  BY <1>1, <1>2, <1>3, <1>4 DEF Mnemonics, IsConditionalJump

(* A reader takes the branch the interpreter takes. *)
LEMMA JumpFollows ==
  ASSUME CondJump PROVE pc' \in Follow(LineAt(pc), a)
<1> DEFINE text == LineAt(pc).text
           jt == pc + 1 + insns[pc + 1].jt
           jf == pc + 1 + insns[pc + 1].jf
           Taken(p) == pc' = IF p THEN jt ELSE jf
<1>1. IsConditionalJump(insns[pc + 1])
  BY CondJumpGoes
<1>2. LineAt(pc).targets = <<jt, jf>> /\ text.operand = K
  BY <1>1, JumpLine
<1>3. Follow(LineAt(pc), a) = {IF Holds(text, a) THEN jt ELSE jf}
  BY <1>2 DEF Follow
<1>4. CASE Jeq
  <2>1. Taken(a = K) /\ text.mnemonic = "jeq"
    BY <1>1, <1>4, JumpLine DEF Jeq, Executing, Goto, Branch
  <2> QED
    BY <1>2, <1>3, <2>1 DEF Holds
<1>5. CASE Jgt
  <2>1. Taken(Gt(a, K)) /\ text.mnemonic = "jgt"
    BY <1>1, <1>5, JumpLine DEF Jgt, Executing, Goto, Branch
  <2> QED
    BY <1>2, <1>3, <2>1 DEF Holds
<1>6. CASE Jge
  <2>1. Taken(Ge(a, K)) /\ text.mnemonic = "jge"
    BY <1>1, <1>6, JumpLine DEF Jge, Executing, Goto, Branch
  <2> QED
    BY <1>2, <1>3, <2>1 DEF Holds
<1>7. CASE Jset
  <2>1. Taken(a \cap K # {}) /\ text.mnemonic = "jset"
    BY <1>1, <1>7, JumpLine DEF Jset, Executing, Goto, Branch
  <2> QED
    BY <1>2, <1>3, <2>1 DEF Holds
<1> QED
  BY <1>4, <1>5, <1>6, <1>7 DEF CondJump

(* A printed `ja` names the line it goes to. *)
LEMMA JaFollows ==
  ASSUME Executing("Ja"), TypeOK, NEW t \in Step(K), NEW acc
  PROVE  t \in Follow(LineAt(pc), acc)
<1>1. ~IsConditionalJump(insns[pc + 1])
  BY DEF Executing, IsConditionalJump
<1>2. LineAt(pc).targets = <<>> /\ LineAt(pc).text = describe(insns[pc + 1], pc)
  BY <1>1 DEF LineAt, fmt_insn
<1>3. /\ describe(insns[pc + 1], pc).form = "line"
      /\ describe(insns[pc + 1], pc).operand = pc + 1 + Num(K)
  BY DEF Executing, describe, Forms, K
<1>4. t = pc + 1 + Num(K)
  BY DEF Step, CheckedAdd
<1> QED
  BY <1>2, <1>3, <1>4 DEF Follow

(* What RunsAsListed asks of a step. *)
AsListed ==
  pc < Len(insns) =>
    /\ ret' = {} => pc' \in Follow(LineAt(pc), a)
    /\ LineAt(pc).text.mnemonic = "ret" => ret' = {LineAt(pc).text.operand}

(* Every step goes where the listing says. *)
LEMMA StepAsListed == ASSUME TypeOK, Next PROVE AsListed
<1>1. CASE LdhAbs \/ LdbAbs \/ LdwAbs \/ LdhInd
  <2>1. \E r : LoadA(r)
    BY <1>1 DEF LdhAbs, LdbAbs, LdwAbs, LdhInd
  <2>2. ret' # {} \/ pc' = pc + 1
    BY <2>1 DEF LoadA, Return, Advance
  <2>3. Decode(insns[pc + 1]) \in {"LdhAbs", "LdbAbs", "LdwAbs", "LdhInd"}
    BY <1>1 DEF LdhAbs, LdbAbs, LdwAbs, LdhInd, Executing
  <2> QED
    BY <2>2, <2>3, FallsThrough DEF AsListed
<1>2. CASE LdxMsh
  <2>1. ret' # {} \/ pc' = pc + 1
    BY <1>2 DEF LdxMsh, Return, Advance
  <2> QED
    BY <1>2, <2>1, FallsThrough DEF AsListed, LdxMsh, Executing
<1>3. CASE AluAndK
  BY <1>3, FallsThrough DEF AsListed, AluAndK, Executing, Advance
<1>4. CASE Ja
  <2>1. Executing("Ja")
    BY <1>4 DEF Ja
  <2>2. LineAt(pc).text.mnemonic # "ret"
    BY <2>1 DEF Executing, LineAt, fmt_insn, describe, Mnemonics
  <2>3. ret' # {} \/ \E t \in Step(K) : pc' = t
    BY <1>4 DEF Ja, Goto, Return
  <2> QED
    BY <2>1, <2>2, <2>3, JaFollows DEF AsListed
<1>5. CASE CondJump
  BY <1>5, JumpFollows, CondJumpGoes, JumpLine DEF AsListed
<1>6. CASE Ret
  <2>1. ret' = {K} /\ Decode(insns[pc + 1]) = "Ret"
    BY <1>6 DEF Ret, Return, Executing
  <2>2. LineAt(pc).text.operand = K
    BY <2>1 DEF LineAt, fmt_insn, describe, K
  <2> QED
    BY <2>1, <2>2 DEF AsListed
<1>7. CASE Unknown
  <2>1. ret' # {} /\ Decode(insns[pc + 1]) = "Unknown"
    BY <1>7 DEF Unknown, Return, Executing
  <2>2. LineAt(pc).text.mnemonic # "ret"
    BY <2>1 DEF LineAt, fmt_insn, describe, Mnemonics
  <2> QED
    BY <2>1, <2>2 DEF AsListed
<1>8. CASE RanOff
  <2>1. ~(pc < Len(insns))
    <3>1. pc \in Nat /\ Len(insns) \in Nat
      BY VmAssumption DEF TypeOK
    <3> QED
      BY <1>8, <3>1 DEF RanOff
  <2> QED
    BY <2>1 DEF AsListed
<1> QED
  BY <1>1, <1>2, <1>3, <1>4, <1>5, <1>6, <1>7, <1>8 DEF Next, CondJump

(* What `Display` prints of a program (insn.rs fmt_insn) is how vm.rs runs *)
(* it: each step goes to the line a reader of the listing goes to.         *)
THEOREM ListingTellsRun == Spec => RunsAsListed
<1>1. TypeOK /\ [Next]_vars => [AsListed]_vars
  BY StepAsListed
<1> QED
  BY <1>1, TypeCorrect, PTL DEF Spec, RunsAsListed, AsListed
=============================================================================
