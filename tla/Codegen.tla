------------------------------- MODULE Codegen -------------------------------
(***************************************************************************)
(* codegen.rs: the lowering of an expanded expression to labelled IR.      *)
(*                                                                         *)
(* compile_expr is recursive; its call stack is `todo`, the calls and the  *)
(* placements of labels that are still to be made, the next one first.     *)
(* Compiling a primitive is one step (Emit has its code).  The labels are  *)
(* handed out in the order of the code, `accept` and `reject` first.       *)
(***************************************************************************)
EXTENDS Emit, Ast

CONSTANTS Exprs,      \* the expressions `generate` is called with, and their parts
          Snaplens    \* the values of its `snaplen`

ASSUME CodegenAssumption ==
  /\ \A e \in Exprs :
        \/ e.tag = "Leaf" /\ IsCompiledPrimitive(e.p)
        \/ e.tag = "EtherLeaf" /\ IsEtherPrimitive(e.ether)
        \/ e.tag = "Not" /\ e.inner \in Exprs
        \/ e.tag \in {"And", "Or"} /\ e.l \in Exprs /\ e.r \in Exprs
  /\ Snaplens \subseteq Word

VARIABLES expr, link_type, snaplen,   \* the arguments of `generate`
          stream, num_labels,         \* the IrBuilder
          todo,
          status,                     \* "running", "ok" or "failed"
          error                       \* {} or {the offset of the offending primitive}

cgVars == <<expr, link_type, snaplen, stream, num_labels, todo, status, error>>

accept == 0
reject == 1

Call(e, branch) == [do |-> "expr", e |-> e, branch |-> branch]
PlaceLater(label) == [do |-> "place", label |-> label]

(* generate, up to the call of compile_expr. *)
CgInit ==
  /\ expr \in Exprs
  /\ link_type \in LinkTypes
  /\ snaplen \in Snaplens
  /\ stream = <<>>
  /\ num_labels = 2
  /\ todo = <<Call(expr, Branch(accept, reject))>>
  /\ status = "running"
  /\ error = {}

-----------------------------------------------------------------------------
ctx == Ctx(link_type)

Calling(tag) ==
  /\ status = "running"
  /\ todo # <<>>
  /\ Head(todo).do = "expr"
  /\ Head(todo).e.tag = tag

Here == Head(todo).e
HereBranch == Head(todo).branch

(* The block is appended and the call returns. *)
Emits(block) ==
  /\ stream' = stream \o block.code
  /\ num_labels' = block.n
  /\ todo' = Tail(todo)
  /\ UNCHANGED <<expr, link_type, snaplen, status, error>>

(* The call is replaced by the calls it makes, `taken` labels later. *)
Become(calls, taken) ==
  /\ todo' = calls \o Tail(todo)
  /\ num_labels' = num_labels + taken
  /\ UNCHANGED <<expr, link_type, snaplen, stream, status, error>>

(* An Err propagates through every pending `?`. *)
Fail(offset) ==
  /\ status' = "failed"
  /\ error' = {offset}
  /\ UNCHANGED <<expr, link_type, snaplen, stream, num_labels, todo>>

CompileLeaf ==
  /\ Calling("Leaf")
  /\ \/ PrimFits(ctx, Here.p) /\ Emits(compile_primitive(ctx, num_labels, Here.p, HereBranch))
     \/ ~PrimFits(ctx, Here.p) /\ Fail(Here.p.offset)

CompileEtherLeaf ==
  /\ Calling("EtherLeaf")
  /\ \/ EtherFits(ctx) /\ Emits(compile_ether(ctx, num_labels, Here.ether, HereBranch))
     \/ ~EtherFits(ctx) /\ Fail(Here.ether.offset)

CompileNot ==
  /\ Calling("Not")
  /\ Become(<<Call(Here.inner, swapped(HereBranch))>>, 0)

(* `mid` is never placed. *)
MutCompileAnd ==
  /\ Calling("And")
  /\ Become(<<Call(Here.l, Branch(num_labels, HereBranch.on_false)), Call(Here.r, HereBranch)>>, 1)

CompileAnd ==
  /\ Calling("And")
  /\ Become(<<Call(Here.l, Branch(num_labels, HereBranch.on_false)), PlaceLater(num_labels),
              Call(Here.r, HereBranch)>>, 1)

differs_only_in_dir(p1, p2) ==
  p1.proto = p2.proto /\ p1.dir # p2.dir /\ p1.ty = p2.ty

IsDirPair(e) ==
  e.l.tag = "Leaf" /\ e.r.tag = "Leaf" /\ differs_only_in_dir(e.l.p, e.r.p)

CompileDirPair ==
  /\ Calling("Or")
  /\ IsDirPair(Here)
  /\ \/ /\ PrimFits(ctx, Here.l.p)
        /\ Emits(compile_dir_pair(ctx, num_labels, Here.l.p, Here.r.p, HereBranch))
     \/ ~PrimFits(ctx, Here.l.p) /\ Fail(Here.l.p.offset)

(* `mid` is placed before the left side. *)
MutCompileOr ==
  /\ Calling("Or")
  /\ ~IsDirPair(Here)
  /\ Become(<<PlaceLater(num_labels), Call(Here.l, Branch(HereBranch.on_true, num_labels)),
              Call(Here.r, HereBranch)>>, 1)

CompileOr ==
  /\ Calling("Or")
  /\ ~IsDirPair(Here)
  /\ Become(<<Call(Here.l, Branch(HereBranch.on_true, num_labels)), PlaceLater(num_labels),
              Call(Here.r, HereBranch)>>, 1)

Place ==
  /\ status = "running"
  /\ todo # <<>>
  /\ Head(todo).do = "place"
  /\ Emits(Block(<<Mark(Head(todo).label)>>, num_labels))

(* The end of generate: the two return blocks. *)
Finish ==
  /\ status = "running"
  /\ todo = <<>>
  /\ stream' = stream \o <<Mark(accept), Ret(snaplen, NoOffset),
                           Mark(reject), Ret(Zero, NoOffset)>>
  /\ status' = "ok"
  /\ UNCHANGED <<expr, link_type, snaplen, num_labels, todo, error>>

(* generate has returned; with this step a deadlock is a call that can     *)
(* neither go on nor return.                                               *)
Returned == status # "running" /\ UNCHANGED cgVars

CgNext ==
  \/ CompileLeaf \/ CompileEtherLeaf \/ CompileNot \/ CompileAnd
  \/ CompileDirPair \/ CompileOr \/ Place \/ Finish \/ Returned

CgSpec == CgInit /\ [][CgNext]_cgVars

-----------------------------------------------------------------------------
(* Properties. *)

Labels == 0..(num_labels - 1)

IsCall(item) ==
  /\ item.do = "expr"
  /\ item.e \in Exprs
  /\ item.branch.on_true \in Labels
  /\ item.branch.on_false \in Labels

(* Every variable has its type, and every label in use has been handed out. *)
CgTypeOK ==
  /\ expr \in Exprs
  /\ link_type \in LinkTypes
  /\ snaplen \in Snaplens
  /\ num_labels \in Nat
  /\ stream \in Seq(Entries \cup {Panic})
  /\ \A i \in DOMAIN stream :
        Refs(stream[i]) \subseteq Labels /\ Places(stream[i]) \subseteq Labels
  /\ \A i \in DOMAIN todo :
        IsCall(todo[i]) \/ (todo[i].do = "place" /\ todo[i].label \in Labels)
  /\ status \in {"running", "ok", "failed"}
  /\ status = "failed" <=> error # {}

(* "must be placed exactly once ... before backpatch::assemble runs"       *)
(* (irep.rs): no label is ever placed twice, and none is left unplaced     *)
(* when generate hands the stream over.  The backpatcher takes the second  *)
(* placement of a label silently and panics on a missing one.              *)
LabelsPlacedOnce ==
  /\ PlacedAtMostOnce(stream)
  /\ status = "ok" => \A l \in Labels : \E i \in DOMAIN stream : l \in Places(stream[i])

(* "CPS lowering never emits a backward jump" (backpatch.rs), which in a   *)
(* release build would wrap the subtraction of displacement_from: at no    *)
(* time is a jump emitted behind its label, and the finished stream has    *)
(* every target ahead of its jump.                                         *)
NoBackwardJump ==
  /\ NoJumpBack(stream)
  /\ status = "ok" => JumpsForward(stream)

(* The `unreachable!()` of emit_l3_gate (an ARP gate without an ethertype  *)
(* field) and the `expect` of compile_ether_proto stay unreached on every  *)
(* link type.                                                              *)
NeverPanics == \A i \in DOMAIN stream : stream[i].op # "Panic"

(* "Unconditional jump. Not emitted by MVP codegen's CPS lowering"         *)
(* (irep.rs); emit_addr6_terminal emits one for an IPv6 net of prefix 0.   *)
NoJmpEmitted == \A i \in DOMAIN stream : stream[i].op # "Jmp"
=============================================================================
