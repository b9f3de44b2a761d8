------------------------------- MODULE Compile -------------------------------
(***************************************************************************)
(* lib.rs and program.rs: the whole crate behind the lexer.  The tokens of *)
(* a text are parsed, the filter is expanded, lowered by the code          *)
(* generator, assembled by the backpatcher, and the program is run by the  *)
(* interpreter; each stage is an instance of its own module and takes its  *)
(* own steps.  The `value` of the parser becomes the `expr` of the code    *)
(* generator, whose stream and num_labels are those of the backpatcher,    *)
(* whose `out` becomes the `insns` of the interpreter.                     *)
(*                                                                         *)
(* A source is a record: `tokens`, all that compile sees of it, and        *)
(* `filter`, the filter it is the text of, if it is one.                   *)
(***************************************************************************)
EXTENDS Filter, Desugar, Insn

CONSTANTS Sources,
          Snaplens,
          PacketsOn,   \* PacketsOn[lt]: the packets captured on link type lt
          MaxDisp,     \* the largest jt/jf
          UsizeMax

VARIABLES src, link_type, snaplen,              \* the arguments of compile
          debug,                                \* the build has debug_assert!
          stage,                                \* which function is running
          ppos, stack, call, value, parsed, parseError,
          expr, todo, status, cgError,          \* codegen
          stream, num_labels,                   \* the IrProgram
          bpStatus, pos, offsets, real, out, bpError,
          insns, packet, a, x, pc, ret          \* the Program and a run of it

parseOwn == <<ppos, stack, call, value, parsed, parseError>>
cgOwn == <<expr, todo, status, cgError>>
ir == <<stream, num_labels>>
bpOwn == <<bpStatus, pos, offsets, real, out, bpError>>
vmOwn == <<insns, packet, a, x, pc, ret>>
args == <<src, link_type, snaplen, debug>>
allVars == <<args, stage, parseOwn, cgOwn, ir, bpOwn, vmOwn>>

P == INSTANCE Parser WITH Inputs <- {}, tokens <- src.tokens, pos <- ppos
G == INSTANCE Codegen WITH Exprs <- {}, error <- cgError
B == INSTANCE Backpatch WITH Streams <- {}
V == INSTANCE Vm WITH Programs <- {}, Packets <- {}

CompInit ==
  /\ src \in Sources
  /\ link_type \in LinkTypes
  /\ snaplen \in Snaplens
  /\ debug = TRUE    \* it panics where the release build goes on
  /\ stage = "parse"
  /\ ppos = 0 /\ stack = <<>> /\ call = "parse_or" /\ value = {}
  /\ parsed = "called" /\ parseError = {}
  /\ expr = {} /\ todo = <<>> /\ status = "idle" /\ cgError = {}
  /\ stream = <<>> /\ num_labels = 0
  /\ bpStatus = "idle" /\ B!Start(0)
  /\ insns = <<>> /\ packet = <<>> /\ a = Zero /\ x = 0 /\ pc = 0 /\ ret = {}

(* The locals of assemble as B!Start has them. *)
AssembleAfresh(labels) ==
  /\ pos' = 0
  /\ offsets' = [l \in 0..(labels - 1) |-> {}]
  /\ real' = <<>>
  /\ out' = <<>>
  /\ bpError' = {}

-----------------------------------------------------------------------------
(* compile: parser::parse, called with the tokens. *)
ParseStep ==
  /\ UNCHANGED <<args, stage, cgOwn, ir, bpOwn, vmOwn>>
  /\ stage = "parse"
  /\ P!ParseNext

(* parse's `?`. *)
ParseErr ==
  /\ stage = "parse"
  /\ parsed = "error"
  /\ stage' = "failed"
  /\ UNCHANGED <<args, parseOwn, cgOwn, ir, bpOwn, vmOwn>>

(* desugar::expand, and codegen::generate is called. *)
BeginGenerate ==
  /\ stage = "parse"
  /\ parsed = "ok"
  /\ stage' = "generate"
  /\ \E ast \in value : expr' = expand(ast)
  /\ todo' = <<G!Call(expr', G!Branch(G!accept, G!reject))>>
  /\ status' = "running"
  /\ num_labels' = 2
  /\ UNCHANGED <<args, parseOwn, cgError, stream, bpOwn, vmOwn>>

GenerateStep ==
  /\ stage = "generate"
  /\ status = "running"
  /\ G!CgNext
  /\ UNCHANGED <<src, debug, stage, parseOwn, bpOwn, vmOwn>>

(* generate's `?`. *)
GenerateErr ==
  /\ stage = "generate"
  /\ status = "failed"
  /\ stage' = "failed"
  /\ UNCHANGED <<args, parseOwn, cgOwn, ir, bpOwn, vmOwn>>

(* backpatch::assemble is called with the finished stream. *)
BeginAssemble ==
  /\ stage = "generate"
  /\ status = "ok"
  /\ G!NeverPanics
  /\ stage' = "assemble"
  /\ bpStatus' = "passA"
  /\ AssembleAfresh(num_labels)
  /\ UNCHANGED <<args, parseOwn, cgOwn, ir, vmOwn>>

AssembleStep ==
  /\ stage = "assemble"
  /\ bpStatus \in {"passA", "passB"}
  /\ B!BpNext
  /\ UNCHANGED <<args, stage, parseOwn, cgOwn, vmOwn>>

(* assemble's `?`. *)
AssembleErr ==
  /\ stage = "assemble"
  /\ bpStatus = "error"
  /\ stage' = "failed"
  /\ UNCHANGED <<args, parseOwn, cgOwn, ir, bpOwn, vmOwn>>

(* Program::from_validated: only the instructions outlive compile. *)
from_validated ==
  /\ stage = "assemble"
  /\ bpStatus = "ok"
  /\ stage' = "ready"
  /\ insns' = out
  /\ stream' = <<>> /\ num_labels' = 0
  /\ bpStatus' = "idle" /\ AssembleAfresh(0)
  /\ UNCHANGED <<args, parseOwn, cgOwn, packet, a, x, pc, ret>>

-----------------------------------------------------------------------------
(* Program::run, any number of times; its locals start anew in each. *)
BeginRun ==
  /\ stage = "ready"
  /\ stage' = "run"
  /\ packet' \in PacketsOn[link_type]
  /\ UNCHANGED <<args, parseOwn, cgOwn, ir, bpOwn, insns, a, x, pc, ret>>

RunStep ==
  /\ stage = "run"
  /\ V!Next
  /\ UNCHANGED <<args, stage, parseOwn, cgOwn, ir, bpOwn>>

run ==
  /\ stage = "run"
  /\ ret # {}
  /\ stage' = "ready"
  /\ packet' = <<>> /\ a' = Zero /\ x' = 0 /\ pc' = 0 /\ ret' = {}
  /\ UNCHANGED <<args, parseOwn, cgOwn, ir, bpOwn, insns>>

(* compile has returned an error. *)
Refused == stage = "failed" /\ UNCHANGED allVars

CompNext ==
  \/ ParseStep \/ ParseErr \/ BeginGenerate \/ GenerateStep \/ GenerateErr
  \/ BeginAssemble \/ AssembleStep \/ AssembleErr \/ from_validated
  \/ BeginRun \/ RunStep \/ run \/ Refused

CompSpec == CompInit /\ [][CompNext]_allVars

-----------------------------------------------------------------------------
Promise == INSTANCE Contract WITH
  Texts <- {s.filter : s \in Sources},
  src <- src.filter,
  phase <- CASE stage \in {"ready", "run"} -> "ready"
             [] stage = "failed" -> "failed"
             [] OTHER -> "compiling",
  error <- CASE stage # "failed" -> {}
             [] stage = "failed" /\ parsed = "error" -> {[why |-> "syntax"]}
             [] stage = "failed" /\ status = "failed" ->
                  {[why |-> "combination", at |-> offset] : offset \in cgError}
             [] stage = "failed" /\ bpStatus = "error" -> {[why |-> "overflow"]},
  verdict <- ret

(* The crate keeps its promise: compile fails exactly for a text that is   *)
(* no filter, and for a filter with a primitive that means nothing on the  *)
(* link type, about the place in the text of the first such primitive (or, *)
(* with more than two primitives, for a jump too far), and a program       *)
(* returns snaplen for a packet that passes the filter as written and 0    *)
(* for every other, whatever the precedence and nesting in the text, also  *)
(* for packets cut short, fragments, long IP headers, and under every      *)
(* sharing of code the generator does.                                     *)
KeepsPromise == Promise!Spec

(* "A compiled, validated cBPF program" (program.rs), although             *)
(* from_validated validates nothing: whatever compile returns is a program *)
(* the kernel's checker accepts, every jump inside it and a `ret` last.    *)
OutputValid == stage \in {"ready", "run"} => Valid(insns)

(* "an expression that ORs together roughly 85+ primitives can             *)
(* legitimately overflow it" (error.rs): a jump too far is for filters of  *)
(* about that size, here with a fifth to spare.                            *)
OverflowNeedsManyPrimitives ==
  (stage = "failed" /\ bpStatus = "error") => \A f \in src.filter : Primitives(f) >= 68
=============================================================================
