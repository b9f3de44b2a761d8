-------------------------------- MODULE Insn --------------------------------
(***************************************************************************)
(* insn.rs: the concrete cBPF instruction, the constructors the assembler  *)
(* uses and the decoder the interpreter uses.  `code` is a bit set built   *)
(* from the BPF_* fields, `|` being \cup, so a constructor and the decoder *)
(* agree only if their bit patterns do.                                    *)
(***************************************************************************)
EXTENDS Words

(* Instruction class (the low three bits of `code`). *)
BPF_LD  == {}
BPF_LDX == {0}
BPF_ALU == {2}
BPF_JMP == {0, 2}
BPF_RET == {1, 2}

(* BPF_SIZE. *)
BPF_W == {}
BPF_H == {3}
BPF_B == {4}

(* BPF_MODE. *)
BPF_ABS == {5}
BPF_IND == {6}
BPF_MSH == {5, 7}

(* BPF_OP of BPF_JMP and of BPF_ALU, and BPF_SRC. *)
BPF_JA   == {}
BPF_JEQ  == {4}
BPF_JGT  == {5}
BPF_JGE  == {4, 5}
BPF_JSET == {6}
BPF_AND  == {4, 6}
BPF_K    == {}

KEEP_WHOLE_PACKET == AllOnes

Code == SUBSET (0..15)
Insns == [code : Code, jt : 0..255, jf : 0..255, k : Word]

Plain(code, k) == [code |-> code, jt |-> 0, jf |-> 0, k |-> k]
Cond(code, k, jt, jf) == [code |-> code, jt |-> jt, jf |-> jf, k |-> k]

ldh_abs(k) == Plain(BPF_LD \cup BPF_H \cup BPF_ABS, k)
ldb_abs(k) == Plain(BPF_LD \cup BPF_B \cup BPF_ABS, k)
ldw_abs(k) == Plain(BPF_LD \cup BPF_W \cup BPF_ABS, k)
ldh_ind(k) == Plain(BPF_LD \cup BPF_H \cup BPF_IND, k)
ldx_msh(k) == Plain(BPF_LDX \cup BPF_B \cup BPF_MSH, k)
and_k(k) == Plain(BPF_ALU \cup BPF_AND \cup BPF_K, k)
jmp(k) == Plain(BPF_JMP \cup BPF_JA, k)
ret_k(k) == Plain(BPF_RET \cup BPF_K, k)
jeq(k, jt, jf) == Cond(BPF_JMP \cup BPF_JEQ \cup BPF_K, k, jt, jf)
jgt(k, jt, jf) == Cond(BPF_JMP \cup BPF_JGT \cup BPF_K, k, jt, jf)
jge(k, jt, jf) == Cond(BPF_JMP \cup BPF_JGE \cup BPF_K, k, jt, jf)
jset(k, jt, jf) == Cond(BPF_JMP \cup BPF_JSET \cup BPF_K, k, jt, jf)

(* Insn::decode: the operation of `code`; its operand is the field k. *)
Decode(insn) ==
  CASE insn.code = BPF_LD \cup BPF_H \cup BPF_ABS -> "LdhAbs"
    [] insn.code = BPF_LD \cup BPF_B \cup BPF_ABS -> "LdbAbs"
    [] insn.code = BPF_LD \cup BPF_W \cup BPF_ABS -> "LdwAbs"
    [] insn.code = BPF_LD \cup BPF_H \cup BPF_IND -> "LdhInd"
    [] insn.code = BPF_LDX \cup BPF_B \cup BPF_MSH -> "LdxMsh"
    [] insn.code = BPF_ALU \cup BPF_AND \cup BPF_K -> "AluAndK"
    [] insn.code = BPF_JMP \cup BPF_JA -> "Ja"
    [] insn.code = BPF_JMP \cup BPF_JEQ \cup BPF_K -> "Jeq"
    [] insn.code = BPF_JMP \cup BPF_JGT \cup BPF_K -> "Jgt"
    [] insn.code = BPF_JMP \cup BPF_JGE \cup BPF_K -> "Jge"
    [] insn.code = BPF_JMP \cup BPF_JSET \cup BPF_K -> "Jset"
    [] insn.code = BPF_RET \cup BPF_K -> "Ret"
    [] OTHER -> "Unknown"

(* Insn::is_conditional_jump. *)
IsConditionalJump(insn) == Decode(insn) \in {"Jeq", "Jgt", "Jge", "Jset"}

(* What the kernel asks of a filter before it attaches it, and what        *)
(* Program::from_validated takes for granted: every instruction is a known *)
(* one and its successors lie inside the program (so the last one returns).*)
(* Its limit on the length is that of the call: Attach.                    *)
Targets(insns, i) ==
  CASE IsConditionalJump(insns[i]) ->
         {i + 1 + insns[i].jt, i + 1 + insns[i].jf}
    [] Decode(insns[i]) = "Ja" -> {i + 1 + Num(insns[i].k)}
    [] Decode(insns[i]) = "Ret" -> {}
    [] OTHER -> {i + 1}

(* `insns` is indexed from 1 here, so instruction `pc` of the code is      *)
(* insns[pc + 1].                                                          *)
Valid(insns) ==
  /\ insns # <<>>
  /\ \A i \in DOMAIN insns :
        /\ Decode(insns[i]) # "Unknown"
        /\ Targets(insns, i) \subseteq DOMAIN insns
=============================================================================
