-------------------------------- MODULE Irep --------------------------------
(***************************************************************************)
(* irep.rs: the intermediate representation.  A stream is a sequence of    *)
(* entries, each an instruction whose jumps name labels or a zero-width    *)
(* mark that says "this label is the next instruction".  Labels are the    *)
(* numbers IrBuilder::new_label hands out, from 0.                         *)
(*                                                                         *)
(* `offset` is the place in the filter text an instruction stems from; it  *)
(* is carried along for error messages and never looked into.              *)
(***************************************************************************)
EXTENDS Insn, Token, FiniteSets

NoOffset == Span(0, 0)    \* the two `ret`s stem from no text

LdhAbs(k, offset) == [op |-> "LdhAbs", k |-> k, offset |-> offset]
LdbAbs(k, offset) == [op |-> "LdbAbs", k |-> k, offset |-> offset]
LdwAbs(k, offset) == [op |-> "LdwAbs", k |-> k, offset |-> offset]
LdxMsh(k, offset) == [op |-> "LdxMsh", k |-> k, offset |-> offset]
LdhInd(k, offset) == [op |-> "LdhInd", k |-> k, offset |-> offset]
AndK(k, offset) == [op |-> "AndK", k |-> k, offset |-> offset]
Ret(k, offset) == [op |-> "Ret", k |-> k, offset |-> offset]
Jeq(k, jt, jf, offset) == [op |-> "Jeq", k |-> k, jt |-> jt, jf |-> jf, offset |-> offset]
Jgt(k, jt, jf, offset) == [op |-> "Jgt", k |-> k, jt |-> jt, jf |-> jf, offset |-> offset]
Jge(k, jt, jf, offset) == [op |-> "Jge", k |-> k, jt |-> jt, jf |-> jf, offset |-> offset]
Jset(k, jt, jf, offset) == [op |-> "Jset", k |-> k, jt |-> jt, jf |-> jf, offset |-> offset]
Jmp(target, offset) == [op |-> "Jmp", target |-> target, offset |-> offset]
Mark(label) == [op |-> "Mark", label |-> label]

(* Where an `unreachable!()` or an `expect` of the code generator would    *)
(* panic.                                                                  *)
Panic == [op |-> "Panic"]

LoadOps == {"LdhAbs", "LdbAbs", "LdwAbs", "LdxMsh", "LdhInd"}
PlainOps == LoadOps \cup {"AndK", "Ret"}
CondOps == {"Jeq", "Jgt", "Jge", "Jset"}

(* What IrBuilder::finish hands over is a sequence of these. *)
Entries ==
  [op : PlainOps, k : Word, offset : Offset]
    \cup [op : CondOps, k : Word, jt : Nat, jf : Nat, offset : Offset]
    \cup [op : {"Jmp"}, target : Nat, offset : Offset]
    \cup [op : {"Mark"}, label : Nat]

(* The labels an entry jumps to, and the label it places. *)
Refs(entry) ==
  CASE entry.op \in CondOps -> {entry.jt, entry.jf}
    [] entry.op = "Jmp" -> {entry.target}
    [] OTHER -> {}
Places(entry) == IF entry.op = "Mark" THEN {entry.label} ELSE {}

(* The number of instructions before entry m: the index that a mark at m   *)
(* stands for, and the index of an instruction at m.                       *)
RealsBefore(stream, m) == Cardinality({j \in 1..(m - 1) : stream[j].op # "Mark"})

-----------------------------------------------------------------------------
(* What the stream of a finished IrBuilder has to be ("must be placed      *)
(* exactly once", "CPS lowering never emits a backward jump").             *)

(* No label is placed twice. *)
PlacedAtMostOnce(stream) ==
  \A i, j \in DOMAIN stream : Places(stream[i]) \cap Places(stream[j]) # {} => i = j

(* Every jump is to a label placed behind it. *)
JumpsForward(stream) ==
  \A i \in DOMAIN stream : \A l \in Refs(stream[i]) :
     \E j \in DOMAIN stream : i < j /\ l \in Places(stream[j])

(* No jump is to a label placed before it. *)
NoJumpBack(stream) ==
  \A i, j \in DOMAIN stream : j < i => Refs(stream[i]) \cap Places(stream[j]) = {}

(* The last entry is a `ret`: nothing falls off the end. *)
ClosedByRet(stream) == stream # <<>> /\ stream[Len(stream)].op = "Ret"
=============================================================================
