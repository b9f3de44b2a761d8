------------------------------ MODULE Contract ------------------------------
(***************************************************************************)
(* What the crate promises: compile(src, link_type, snaplen) yields a      *)
(* program or an error, and running the program tells whether a packet     *)
(* passes the filter.  No tokens, instructions, labels or registers here:  *)
(* a text either is the text of a filter or it is not, and the verdict is  *)
(* what Filter says of the filter and the packet.                          *)
(***************************************************************************)
EXTENDS Filter

CONSTANTS Texts,       \* each {} or {the filter it is the text of}
          Snaplens

VARIABLES src, link_type, snaplen,
          phase,      \* "compiling", "ready" or "failed"
          error,      \* {} or {why compile failed}
          packet,
          verdict     \* {} or {what run has returned}

contractVars == <<src, link_type, snaplen, phase, error, packet, verdict>>

Init ==
  /\ src \in Texts
  /\ link_type \in LinkTypes
  /\ snaplen \in Snaplens
  /\ phase = "compiling"
  /\ error = {}
  /\ packet = <<>>
  /\ verdict = {}

(* Two primitives always compile; three can be too far for a jump. *)
AlwaysFits == 2

Compiled ==
  /\ phase = "compiling"
  /\ phase' = "ready"
  /\ \E f \in src : Meaningless(link_type, f) = <<>>
  /\ UNCHANGED <<src, link_type, snaplen, error, packet, verdict>>

Fails(why) ==
  /\ phase = "compiling"
  /\ phase' = "failed"
  /\ error' = {why}
  /\ UNCHANGED <<src, link_type, snaplen, packet, verdict>>

(* Not a filter at all. *)
Unreadable == src = {} /\ Fails([why |-> "syntax"])

(* The error is about the first primitive of the text that is wrong. *)
Refused ==
  \E f \in src :
    /\ Meaningless(link_type, f) # <<>>
    /\ Fails([why |-> "combination", at |-> Head(Meaningless(link_type, f))])

TooLarge ==
  \E f \in src :
    /\ Meaningless(link_type, f) = <<>>
    /\ Primitives(f) > AlwaysFits
    /\ Fails([why |-> "overflow"])

(* The program is called with a packet, answers, and may be called again. *)
Run ==
  /\ phase = "ready"
  /\ packet = <<>>
  /\ packet' \in Seq(Byte)
  /\ UNCHANGED <<src, link_type, snaplen, phase, error, verdict>>

Answer ==
  /\ phase = "ready"
  /\ verdict = {}
  /\ \E v \in verdict', f \in src :
       v = IF Eval(link_type, packet, f) = "yes" THEN snaplen ELSE Zero
  /\ UNCHANGED <<src, link_type, snaplen, phase, error, packet>>

Return ==
  /\ phase = "ready"
  /\ verdict # {}
  /\ packet' = <<>>
  /\ verdict' = {}
  /\ UNCHANGED <<src, link_type, snaplen, phase, error>>

Next == Compiled \/ Unreadable \/ Refused \/ TooLarge \/ Run \/ Answer \/ Return

Spec == Init /\ [][Next]_contractVars
=============================================================================
