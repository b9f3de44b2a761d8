------------------------------- MODULE VmPair -------------------------------
(***************************************************************************)
(* One program run on a packet and on what a capture cut off after its     *)
(* first bytes left of it (a snaplen, a short read).  The variables of Vm  *)
(* are the run on the whole packet; a second instance of Vm over the same  *)
(* program is the run on the prefix.  Neither run knows of the other, so   *)
(* taking their steps together loses no behaviour.                         *)
(***************************************************************************)
EXTENDS Vm

VARIABLES packet2, a2, x2, pc2, ret2

pairVars == <<vars, packet2, a2, x2, pc2, ret2>>

Prefixes == {SubSeq(q, 1, n) : q \in Packets, n \in 0..UsizeMax}

Cut == INSTANCE Vm WITH Packets <- Prefixes, packet <- packet2,
                        a <- a2, x <- x2, pc <- pc2, ret <- ret2

PairInit ==
  /\ Init
  /\ \E n \in 0..Len(packet) : packet2 = SubSeq(packet, 1, n)
  /\ a2 = Zero /\ x2 = 0 /\ pc2 = 0 /\ ret2 = {}

(* The run on the prefix has returned. *)
CutIdle == ret2 # {} /\ UNCHANGED <<packet2, a2, x2, pc2, ret2>>

(* There is no step for the prefix alone: should its run ever outlast the  *)
(* other, BothReturn fails.                                                *)
PairNext ==
  \/ Next /\ Cut!Next
  \/ Next /\ CutIdle

PairSpec == PairInit /\ [][PairNext]_pairVars /\ WF_pairVars(PairNext)

-----------------------------------------------------------------------------
(* A truncated packet never gains acceptance: whatever the program, its    *)
(* result on a prefix is its result on the whole packet or a rejection.    *)
(* A filter behind a small snaplen may miss packets and never adds one.    *)
TruncationOnlyRejects == (ret # {} /\ ret2 # {}) => (ret2 = ret \/ ret2 = {Zero})

(* Until the shorter run gives up, the two agree on every register: no     *)
(* instruction can observe where a packet ends except by rejecting it.     *)
AgreeUntilRejected ==
  \/ a2 = a /\ x2 = x /\ pc2 = pc /\ ret2 = ret
  \/ ret2 = {Zero}

(* Both runs come to an end. *)
BothReturn == <>(ret # {} /\ ret2 # {})
=============================================================================
