------------------------------- MODULE Listing -------------------------------
(***************************************************************************)
(* insn.rs: the listing of a program as `tcpdump -d` prints it, one line   *)
(* per instruction, with jump targets as line numbers.  A line is a record *)
(* of what is printed, without padding and number format.                  *)
(***************************************************************************)
EXTENDS Vm

Mnemonics ==
  [LdhAbs |-> "ldh", LdbAbs |-> "ldb", LdwAbs |-> "ld", LdhInd |-> "ldh", LdxMsh |-> "ldxb",
   AluAndK |-> "and", Ja |-> "ja", Jeq |-> "jeq", Jgt |-> "jgt", Jge |-> "jge", Jset |-> "jset",
   Ret |-> "ret", Unknown |-> "unimp"]

(* How the operand is printed: `[k]`, `[x + k]`, `4*([k]&0xf)`, `#0xk`,    *)
(* the number of a line, or the opcode in place of an operand.             *)
Forms ==
  [LdhAbs |-> "abs", LdbAbs |-> "abs", LdwAbs |-> "abs", LdhInd |-> "ind",
   LdxMsh |-> "msh", AluAndK |-> "imm", Ja |-> "line", Jeq |-> "imm", Jgt |-> "imm",
   Jge |-> "imm", Jset |-> "imm", Ret |-> "imm", Unknown |-> "code"]

(* The sum behind `ja` is unbounded here: where usize could not hold it,   *)
(* `run` returns instead of going there.                                   *)
describe(insn, index) ==
  [mnemonic |-> Mnemonics[Decode(insn)],
   form |-> Forms[Decode(insn)],
   operand |-> IF Decode(insn) = "Ja" THEN index + 1 + Num(insn.k)
               ELSE IF Decode(insn) = "Unknown" THEN insn.code
               ELSE insn.k]

(* The displacements of a jump printed as they are stored. *)
Mutfmt_insn(insn, index) ==
  [index |-> index, text |-> describe(insn, index),
   targets |-> IF IsConditionalJump(insn) THEN <<insn.jt, insn.jf>> ELSE <<>>]

fmt_insn(insn, index) ==
  [index |-> index, text |-> describe(insn, index),
   targets |-> IF IsConditionalJump(insn) THEN <<index + 1 + insn.jt, index + 1 + insn.jf>>
               ELSE <<>>]

-----------------------------------------------------------------------------
(* How a reader follows the listing: the test of a jump, by its mnemonic,  *)
(* and the lines that may come next with `acc` in the accumulator.         *)
Holds(text, acc) ==
  \/ text.mnemonic = "jeq" /\ acc = text.operand
  \/ text.mnemonic = "jgt" /\ Gt(acc, text.operand)
  \/ text.mnemonic = "jge" /\ Ge(acc, text.operand)
  \/ text.mnemonic = "jset" /\ acc \cap text.operand # {}

Follow(line, acc) ==
  IF line.targets # <<>> THEN {line.targets[IF Holds(line.text, acc) THEN 1 ELSE 2]}
  ELSE IF line.text.form = "line" THEN {line.text.operand}
  ELSE IF line.text.mnemonic \in {"ret", "unimp"} THEN {}
  ELSE {line.index + 1}

LineAt(n) == fmt_insn(insns[n + 1], n)

(* The listing tells the run: from a printed instruction the interpreter   *)
(* goes to the line a reader goes to, also at the first instruction, over  *)
(* the end and with `jt` and `jf` equal, and a printed `ret` returns the   *)
(* value printed.                                                          *)
RunsAsListed ==
  [][pc < Len(insns) =>
       /\ ret' = {} => pc' \in Follow(LineAt(pc), a)
       /\ LineAt(pc).text.mnemonic = "ret" => ret' = {LineAt(pc).text.operand}]_vars
=============================================================================
