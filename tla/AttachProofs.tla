---------------------------- MODULE AttachProofs ----------------------------
(***************************************************************************)
(* attach for every number of threads, sockets and descriptors, every set  *)
(* of programs, and every u16::MAX and kernel limit.                       *)
(***************************************************************************)
EXTENDS Attach, SequenceTheorems, TLAPS

(* What a call that is back from the kernel has to show for it. *)
Owed ==
  \A t \in Threads : at[t] = "back" =>
    /\ ret[t] = 0 => "ok" \in Outcomes(fd[t], insns[t])
    /\ ret[t] # 0 => errno[t] \in Outcomes(fd[t], insns[t])

(* The inductive invariant: errno outlives the call, so ResultIsOwn alone  *)
(* does not say that the errno `attach` is about to return is this call's. *)
AttachInv == AttachTypeOK /\ ResultIsOwn /\ Owed

(* A program is a sequence, and the whole of itself. *)
LEMMA ProgramType == ASSUME NEW p \in Programs
                     PROVE  Len(p) \in Nat /\ SubSeq(p, 1, Len(p)) = p
<1>1. p \in Seq(Insns)
  BY AttachAssumption
<1> QED
  BY <1>1, SubSeqFull, LenProperties

(* The kernel answers with success or an errno. *)
LEMMA AnswerType == ASSUME NEW f, NEW p PROVE Answers(f, p) \subseteq Errors \cup {"ok"}
  BY DEF Answers, Errors

(* While a call holds a length, that is the length of its program and the  *)
(* kernel is shown all of it.                                              *)
LEMMA ShownWhole ==
  ASSUME AttachTypeOK, NEW t \in Threads, at[t] \in {"prepared", "back"}
  PROVE  /\ SubSeq(insns[t], 1, len[t]) = insns[t]
         /\ Answers(fd[t], insns[t]) = Outcomes(fd[t], insns[t])
<1>1. insns[t] \in Programs /\ len[t] \in 0..U16Max /\ len[t] = Len(insns[t])
  BY DEF AttachTypeOK
<1>2. ~(Len(insns[t]) > U16Max)
  BY <1>1, AttachAssumption
<1> QED
  BY <1>1, <1>2, ProgramType DEF Outcomes

(* The system call, with the program shown whole. *)
LEMMA SetsockoptWhole ==
  ASSUME AttachTypeOK, NEW t \in Threads, Setsockopt(t)
  PROVE  /\ at[t] = "prepared"
         /\ at' = [at EXCEPT ![t] = "back"]
         /\ UNCHANGED <<fd, insns, len, result>>
         /\ \/ /\ "ok" \in Outcomes(fd[t], insns[t])
               /\ filters' = [s \in Sockets |-> IF s \in Names[fd[t]] THEN {insns[t]} ELSE filters[s]]
               /\ ret' = [ret EXCEPT ![t] = 0]
               /\ UNCHANGED errno
            \/ \E e \in Outcomes(fd[t], insns[t]) \ {"ok"} :
                 /\ errno' = [errno EXCEPT ![t] = e]
                 /\ ret' = [ret EXCEPT ![t] = -1]
                 /\ e \in Errors
                 /\ UNCHANGED filters
<1>1. at[t] = "prepared"
  BY DEF Setsockopt
<1>2. SubSeq(insns[t], 1, len[t]) = insns[t] /\ Answers(fd[t], insns[t]) = Outcomes(fd[t], insns[t])
  BY <1>1, ShownWhole
<1>3. Outcomes(fd[t], insns[t]) \subseteq Errors \cup {"ok"}
  BY <1>2, AnswerType
<1> QED
  BY <1>1, <1>2, <1>3 DEF Setsockopt

(* Every step of every thread keeps the invariant. *)
LEMMA AttachStep == AttachInv /\ [AttachNext]_attachVars => AttachInv'
<1> SUFFICES ASSUME AttachInv, [AttachNext]_attachVars PROVE AttachInv'
  OBVIOUS
<1> USE DEF AttachInv
<1>1. ASSUME NEW t \in Threads, Call(t) PROVE AttachInv'
  <2>1. AttachTypeOK'
    BY <1>1 DEF Call, AttachTypeOK
  <2>2. ResultIsOwn'
    BY <1>1 DEF Call, AttachTypeOK, ResultIsOwn
  <2>3. Owed'
    BY <1>1 DEF Call, AttachTypeOK, Owed
  <2> QED
    BY <2>1, <2>2, <2>3
<1>2. ASSUME NEW t \in Threads, TooLong(t) PROVE AttachInv'
  <2>1. AttachTypeOK'
    BY <1>2 DEF TooLong, AttachTypeOK, Errors
  <2>2. ResultIsOwn'
    BY <1>2 DEF TooLong, AttachTypeOK, ResultIsOwn, Outcomes
  <2>3. Owed'
    BY <1>2 DEF TooLong, AttachTypeOK, Owed
  <2> QED
    BY <2>1, <2>2, <2>3
<1>3. ASSUME NEW t \in Threads, Prepare(t) PROVE AttachInv'
  <2>1. AttachTypeOK'
    <3>1. Len(insns[t]) \in 0..U16Max
      BY <1>3, ProgramType, AttachAssumption DEF Prepare, AttachTypeOK
    <3> QED
      BY <1>3, <3>1 DEF Prepare, AttachTypeOK
  <2>2. ResultIsOwn'
    BY <1>3 DEF Prepare, AttachTypeOK, ResultIsOwn
  <2>3. Owed'
    BY <1>3 DEF Prepare, AttachTypeOK, Owed
  <2> QED
    BY <2>1, <2>2, <2>3
<1>4. ASSUME NEW t \in Threads, Setsockopt(t) PROVE AttachInv'
  <2> DEFINE outcomes == Outcomes(fd[t], insns[t])
  <2>1. /\ at[t] = "prepared" /\ at' = [at EXCEPT ![t] = "back"]
        /\ UNCHANGED <<fd, insns, len, result>>
    BY <1>4, SetsockoptWhole
  <2>2. /\ ret'[t] \in {0, -1} /\ ret' = [ret EXCEPT ![t] = ret'[t]]
        /\ errno'[t] \in Errors \cup {"none"} /\ errno' = [errno EXCEPT ![t] = errno'[t]]
        /\ ret'[t] = 0 => "ok" \in outcomes
        /\ ret'[t] # 0 => errno'[t] \in outcomes
    BY <1>4, SetsockoptWhole DEF AttachTypeOK
  <2>3. AttachTypeOK'
    BY <2>1, <2>2 DEF AttachTypeOK
  <2>4. ResultIsOwn'
    BY <2>1 DEF ResultIsOwn
  <2>5. Owed'
    BY <2>1, <2>2 DEF Owed, AttachTypeOK
  <2> QED
    BY <2>3, <2>4, <2>5
<1>5. ASSUME NEW t \in Threads, Return(t) PROVE AttachInv'
  <2>1. AttachTypeOK'
    BY <1>5, AttachAssumption DEF Return, AttachTypeOK, Errors
  <2>2. ResultIsOwn'
    BY <1>5 DEF Return, AttachTypeOK, ResultIsOwn, Owed
  <2>3. Owed'
    BY <1>5 DEF Return, AttachTypeOK, Owed
  <2> QED
    BY <2>1, <2>2, <2>3
<1>6. CASE UNCHANGED attachVars
  BY <1>6 DEF attachVars, AttachTypeOK, ResultIsOwn, Owed
<1> QED
  BY <1>1, <1>2, <1>3, <1>4, <1>5, <1>6 DEF AttachNext

(* The invariant holds throughout. *)
LEMMA AttachInvariant == AttachSpec => []AttachInv
<1>1. AttachInit => AttachInv
  BY AttachAssumption DEF AttachInit, AttachInv, AttachTypeOK, ResultIsOwn, Owed
<1> QED
  BY <1>1, AttachStep, PTL DEF AttachSpec

(* The length `attach` tells the kernel is a u16 and that of the program. *)
THEOREM AttachTypeCorrect == AttachSpec => []AttachTypeOK
  BY AttachInvariant, PTL DEF AttachInv

(* What `attach` returns is an outcome of its own arguments, whatever its  *)
(* thread's errno holds and whatever other threads attach.                 *)
THEOREM ResultFitsCall == AttachSpec => []ResultIsOwn
  BY AttachInvariant, PTL DEF AttachInv

(* What OnlyWholePrograms asks of a step. *)
ChangesWhole ==
  \A s \in Sockets : filters'[s] # filters[s] =>
    \E t \in Threads : /\ s \in Names[fd[t]]
                       /\ filters'[s] = {insns[t]}
                       /\ at'[t] = "back" /\ ret'[t] = 0

(* A socket's filter changes only to the whole program of a call that      *)
(* succeeds on it.                                                         *)
THEOREM AttachesWhole == AttachSpec => OnlyWholePrograms
<1>1. AttachInv /\ [AttachNext]_attachVars => [ChangesWhole]_attachVars
  <2> SUFFICES ASSUME AttachInv, AttachNext, NEW s \in Sockets, filters'[s] # filters[s]
               PROVE  \E t \in Threads : /\ s \in Names[fd[t]]
                                         /\ filters'[s] = {insns[t]}
                                         /\ at'[t] = "back" /\ ret'[t] = 0
    BY DEF ChangesWhole
  <2>1. PICK t \in Threads : Setsockopt(t)
    BY DEF AttachNext, Call, TooLong, Prepare, Return
  <2>2. AttachTypeOK
    BY DEF AttachInv
  <2>3. /\ filters' = [r \in Sockets |-> IF r \in Names[fd[t]] THEN {insns[t]} ELSE filters[r]]
        /\ ret' = [ret EXCEPT ![t] = 0] /\ at' = [at EXCEPT ![t] = "back"]
    BY <2>1, <2>2, SetsockoptWhole
  <2>4. s \in Names[fd[t]] /\ filters'[s] = {insns[t]}
    BY <2>3
  <2>5. at'[t] = "back" /\ ret'[t] = 0
    BY <2>2, <2>3 DEF AttachTypeOK
  <2> QED
    BY <2>4, <2>5
<1> QED
  BY <1>1, AttachInvariant, PTL DEF AttachSpec, OnlyWholePrograms, ChangesWhole
=============================================================================
