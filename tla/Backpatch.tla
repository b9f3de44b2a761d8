------------------------------ MODULE Backpatch ------------------------------
(***************************************************************************)
(* backpatch.rs: the two-pass assembler.  Pass A takes one entry of the    *)
(* stream per step and records where each label lies; pass B lowers one    *)
(* instruction per step and stops at the first error.                      *)
(***************************************************************************)
EXTENDS Irep

CONSTANTS Streams,           \* the finished IR programs: [stream, num_labels]
          MaxDisp            \* the largest jt/jf a conditional jump can hold

(* The stream names only labels that were handed out, and is not so long   *)
(* that `as u32` loses bits of an index.                                   *)
ASSUME BackpatchAssumption ==
  /\ MaxDisp \in 0..255
  /\ \A ir \in Streams :
        /\ ir.num_labels \in Nat
        /\ ir.stream \in Seq(Entries)
        /\ \A i \in DOMAIN ir.stream :
              (Refs(ir.stream[i]) \cup Places(ir.stream[i])) \subseteq 0..(ir.num_labels - 1)
        /\ \A n \in 0..Len(ir.stream) : Num(Bits(n)) = n

VARIABLES debug,                \* whether the build has debug_assert!
          stream, num_labels,   \* the IrProgram
          bpStatus,             \* "passA", "passB", "ok", "error" or "panic"
          pos,                  \* entries taken by pass A, then instructions by pass B
          offsets,              \* offsets[l] is {} or {the index label l resolves to}
          real,                 \* the instructions without the marks
          out,                  \* the lowered instructions
          bpError               \* {} or {the JumpDisplacementOverflow}

bpVars == <<debug, stream, num_labels, bpStatus, pos, offsets, real, out, bpError>>

Start(labels) ==
  /\ pos = 0
  /\ offsets = [l \in 0..(labels - 1) |-> {}]
  /\ real = <<>>
  /\ out = <<>>
  /\ bpError = {}

BpInit ==
  /\ debug \in BOOLEAN
  /\ \E ir \in Streams : stream = ir.stream /\ num_labels = ir.num_labels
  /\ bpStatus = "passA"
  /\ Start(num_labels)

-----------------------------------------------------------------------------
(* Pass A. *)

Taking ==
  /\ bpStatus = "passA"
  /\ pos < Len(stream)
  /\ pos' = pos + 1
  /\ UNCHANGED <<debug, stream, num_labels, bpStatus, out, bpError>>

(* A label stands for the instruction after the next one. *)
MutTakeMark ==
  /\ Taking
  /\ stream[pos + 1].op = "Mark"
  /\ offsets' = [offsets EXCEPT ![stream[pos + 1].label] = {Len(real) + 1}]
  /\ UNCHANGED real

TakeMark ==
  /\ Taking
  /\ stream[pos + 1].op = "Mark"
  /\ offsets' = [offsets EXCEPT ![stream[pos + 1].label] = {Len(real)}]
  /\ UNCHANGED real

TakeReal ==
  /\ Taking
  /\ stream[pos + 1].op # "Mark"
  /\ real' = Append(real, stream[pos + 1])
  /\ UNCHANGED offsets

BeginPassB ==
  /\ bpStatus = "passA"
  /\ pos = Len(stream)
  /\ bpStatus' = "passB"
  /\ pos' = 0
  /\ UNCHANGED <<debug, stream, num_labels, offsets, real, out, bpError>>

-----------------------------------------------------------------------------
(* Pass B.  `idx` is the index of the instruction being lowered. *)

idx == pos
next == idx + 1
insn == real[idx + 1]

Target(label) == CHOOSE t \in offsets[label] : TRUE

(* `target > next` asserted: a jump to the next instruction panics. *)
MutPanics(label) == \A t \in offsets[label] : debug /\ t <= next

(* The `expect` (no offset) and the debug_assert! (one behind the jump) of *)
(* displacement_from.                                                      *)
Panics(label) == \A t \in offsets[label] : debug /\ t < next

(* `target - next`, which wraps below zero without debug assertions, as a u32. *)
DisplacementWord(label) ==
  IF Target(label) >= next THEN Bits(Target(label) - next)
  ELSE AllOnes \ Bits(next - Target(label) - 1)

(* `displacement < u8::MAX`. *)
MutFits(label) == Target(label) \in next..(next + MaxDisp - 1)

(* u8::try_from(displacement) is Ok; a wrapped difference is far too large. *)
Fits(label) == Target(label) \in next..(next + MaxDisp)

(* Counted from the jump itself. *)
MutDisplacement(label) == Target(label) - idx

Displacement(label) == Target(label) - next

Lowering == bpStatus = "passB" /\ pos < Len(real)

Lowered(i) ==
  /\ out' = Append(out, i)
  /\ pos' = pos + 1
  /\ UNCHANGED <<debug, stream, num_labels, bpStatus, offsets, real, bpError>>

Ends(how) ==
  /\ bpStatus' = how
  /\ UNCHANGED <<debug, stream, num_labels, pos, offsets, real, out>>

(* `lower`: the constructor for each operation of the IR. *)
LoweredPlain(e) ==
  CASE e.op = "LdhAbs" -> ldh_abs(e.k)
    [] e.op = "LdbAbs" -> ldb_abs(e.k)
    [] e.op = "LdwAbs" -> ldw_abs(e.k)
    [] e.op = "LdxMsh" -> ldx_msh(e.k)
    [] e.op = "LdhInd" -> ldh_ind(e.k)
    [] e.op = "AndK" -> and_k(e.k)
    [] e.op = "Ret" -> ret_k(e.k)

LoweredCond(e, jt, jf) ==
  CASE e.op = "Jeq" -> jeq(e.k, jt, jf)
    [] e.op = "Jgt" -> jgt(e.k, jt, jf)
    [] e.op = "Jge" -> jge(e.k, jt, jf)
    [] e.op = "Jset" -> jset(e.k, jt, jf)

LowerPlain ==
  /\ Lowering
  /\ insn.op \notin CondOps \cup {"Jmp"}
  /\ Lowered(LoweredPlain(insn))

(* A conditional jump whose two displacements fit. *)
LowerCond ==
  /\ Lowering
  /\ insn.op \in CondOps
  /\ \A l \in Refs(insn) : ~Panics(l) /\ Fits(l)
  /\ Lowered(LoweredCond(insn, Displacement(insn.jt), Displacement(insn.jf)))

(* resolve_branch fails: jt is resolved first, so its error is the one     *)
(* reported when neither fits.                                             *)
Overflow(label) ==
  /\ ~Panics(label) /\ ~Fits(label)
  /\ bpError' = {[offset |-> insn.offset, inst_index |-> idx,
                  displacement |-> DisplacementWord(label)]}
  /\ Ends("error")

LowerOverflow ==
  /\ Lowering
  /\ insn.op \in CondOps
  /\ \/ Overflow(insn.jt)
     \/ ~Panics(insn.jt) /\ Fits(insn.jt) /\ Overflow(insn.jf)

LowerJmp ==
  /\ Lowering
  /\ insn.op = "Jmp"
  /\ ~Panics(insn.target)
  /\ Lowered(jmp(DisplacementWord(insn.target)))

LowerPanic ==
  /\ Lowering
  /\ \/ insn.op = "Jmp" /\ Panics(insn.target)
     \/ insn.op \in CondOps /\ Panics(insn.jt)
     \/ insn.op \in CondOps /\ ~Panics(insn.jt) /\ Fits(insn.jt) /\ Panics(insn.jf)
  /\ Ends("panic")
  /\ UNCHANGED bpError

(* The last instruction is left out. *)
MutBpFinish ==
  /\ bpStatus = "passB"
  /\ pos >= Len(real) - 1
  /\ Ends("ok")
  /\ UNCHANGED bpError

BpFinish ==
  /\ bpStatus = "passB"
  /\ pos = Len(real)
  /\ Ends("ok")
  /\ UNCHANGED bpError

BpReturned == bpStatus \in {"ok", "error", "panic"} /\ UNCHANGED bpVars

BpNext ==
  \/ TakeMark \/ TakeReal \/ BeginPassB
  \/ LowerPlain \/ LowerCond \/ LowerOverflow \/ LowerJmp \/ LowerPanic
  \/ BpFinish \/ BpReturned

BpSpec == BpInit /\ [][BpNext]_bpVars

-----------------------------------------------------------------------------
(* Properties. *)

(* What irep.rs asks of a stream: each label in use placed once, ahead of  *)
(* every jump to it.                                                       *)
WellFormed == PlacedAtMostOnce(stream) /\ JumpsForward(stream)

ResolvesTo(label, t) ==
  \E m \in DOMAIN stream : label \in Places(stream[m]) /\ t = RealsBefore(stream, m)

(* Every variable has its type. *)
BpTypeOK ==
  /\ bpStatus \in {"passA", "passB", "ok", "error", "panic"}
  /\ pos \in 0..Len(stream)
  /\ DOMAIN offsets = 0..(num_labels - 1)
  /\ \A l \in DOMAIN offsets : \A t \in offsets[l] : t \in 0..Len(real)
  /\ \A i \in DOMAIN out : out[i] \in Insns
  /\ bpStatus = "error" <=> bpError # {}

(* "every Label reaching backpatch was placed exactly once by codegen" and *)
(* "CPS lowering never emits a backward jump": given that, in a debug or a *)
(* release build, the assembler cannot panic.                              *)
PanicsOnlyIllFormed == bpStatus = "panic" => ~WellFormed

(* An assembled jump lands on the instruction its label was placed before, *)
(* both ways of a conditional one, after all marks are gone.               *)
JumpsLand ==
  WellFormed =>
    \A s \in DOMAIN stream :
      LET i == RealsBefore(stream, s) + 1
      IN  (stream[s].op # "Mark" /\ i \in DOMAIN out) =>
             /\ stream[s].op \in CondOps =>
                  /\ ResolvesTo(stream[s].jt, i + out[i].jt)
                  /\ ResolvesTo(stream[s].jf, i + out[i].jf)
             /\ stream[s].op = "Jmp" => ResolvesTo(stream[s].target, i + Num(out[i].k))

(* The interpreter's name for an operation of the IR. *)
DecodedAs(op) == CASE op = "AndK" -> "AluAndK" [] op = "Jmp" -> "Ja" [] OTHER -> op

(* An assembled program is the stream without its marks, instruction for   *)
(* instruction: none lost or reordered, and what insn.rs makes of each one *)
(* is what the interpreter's decoder takes it for, operand included.       *)
AssembledWhole ==
  bpStatus = "ok" =>
    /\ Len(out) = RealsBefore(stream, Len(stream) + 1)
    /\ \A s \in DOMAIN stream :
         LET i == RealsBefore(stream, s) + 1
         IN  stream[s].op # "Mark" =>
                /\ Decode(out[i]) = DecodedAs(stream[s].op)
                /\ stream[s].op # "Jmp" => out[i].k = stream[s].k

(* Whatever assemble returns for a well-formed stream that ends in a `ret` *)
(* is a program the interpreter's validation accepts: nothing unknown, and *)
(* no jump or fall-through out of the program.                             *)
AssembledValid ==
  (bpStatus = "ok" /\ WellFormed /\ ClosedByRet(stream)) => Valid(out)

(* A JumpDisplacementOverflow is true: its instruction has a branch that   *)
(* far away, farther than a conditional jump can reach, and it is the      *)
(* first such instruction (those before it were lowered); if both branches *)
(* are out of reach it names jt's displacement.                            *)
OverflowIsReal ==
  WellFormed =>
    \A err \in bpError :
      \E s \in DOMAIN stream :
        LET Far(label) == \E d \in 0..Len(stream) :
                            d > MaxDisp /\ ResolvesTo(label, RealsBefore(stream, s) + 1 + d)
            Reported(label) == ResolvesTo(label, RealsBefore(stream, s) + 1 + Num(err.displacement))
        IN  /\ stream[s].op \in CondOps
            /\ RealsBefore(stream, s) = err.inst_index
            /\ Len(out) = err.inst_index
            /\ stream[s].offset = err.offset
            /\ \/ Far(stream[s].jt) /\ Reported(stream[s].jt)
               \/ ~Far(stream[s].jt) /\ Far(stream[s].jf) /\ Reported(stream[s].jf)
=============================================================================
