------------------------------- MODULE Attach -------------------------------
(***************************************************************************)
(* attach/mod.rs: programs are attached to sockets by any number of        *)
(* threads, on the same socket too.  `attach` is cut where it can be       *)
(* interrupted: before and after its one system call.  The kernel's side   *)
(* of that call is external; it is atomic, under the socket's lock.        *)
(***************************************************************************)
EXTENDS Insn, Sequences

CONSTANTS Threads,
          Programs,
          Sockets,
          Fds,        \* the descriptors, open or not
          Names,      \* Names[fd]: {}, {a socket}, or {something else}
          U16Max,     \* u16::MAX
          MaxInsns    \* the kernel's BPF_MAXINSNS

(* A Program is what compile returned (see OutputValid of Compile). *)
ASSUME AttachAssumption ==
  /\ U16Max \in Nat /\ MaxInsns \in 1..U16Max
  /\ \A p \in Programs : p \in Seq(Insns) /\ Valid(p)

VARIABLES at,        \* at[t]: "idle", "called", "prepared" or "back"
          fd, insns, \* fd[t], insns[t]: the arguments of t's call
          len,       \* len[t]: fprog.len, once it has been made
          ret,       \* ret[t]: what setsockopt returned to t
          errno,     \* errno[t]: the last error of a system call of t
          result,    \* result[t]: what t's last call of attach returned
          filters    \* filters[s]: {} or {the filter of socket s}

attachVars == <<at, fd, insns, len, ret, errno, result, filters>>

Errors == {"InvalidInput", "EBADF", "ENOTSOCK", "EINVAL", "ENOMEM"}

AttachInit ==
  /\ at = [t \in Threads |-> "idle"]
  /\ fd \in [Threads -> Fds]
  /\ insns \in [Threads -> Programs]
  /\ len = [t \in Threads |-> 0]
  /\ ret = [t \in Threads |-> 0]
  /\ errno = [t \in Threads |-> "none"]
  /\ result = [t \in Threads |-> "none"]
  /\ filters = [s \in Sockets |-> {}]

-----------------------------------------------------------------------------
(* attach(sock_fd, program); a thread may call it again and again. *)
Call(t) ==
  /\ at[t] = "idle"
  /\ at' = [at EXCEPT ![t] = "called"]
  /\ result' = [result EXCEPT ![t] = "none"]
  /\ \E f \in Fds, p \in Programs :
       /\ fd' = [fd EXCEPT ![t] = f]
       /\ insns' = [insns EXCEPT ![t] = p]
  /\ UNCHANGED <<len, ret, errno, filters>>

(* insns.len().try_into() fails, and so does attach. *)
TooLong(t) ==
  /\ at[t] = "called"
  /\ Len(insns[t]) > U16Max
  /\ at' = [at EXCEPT ![t] = "idle"]
  /\ result' = [result EXCEPT ![t] = "InvalidInput"]
  /\ UNCHANGED <<fd, insns, len, ret, errno, filters>>

(* The length cast `as u16`. *)
MutPrepare(t) ==
  /\ at[t] = "called"
  /\ at' = [at EXCEPT ![t] = "prepared"]
  /\ len' = [len EXCEPT ![t] = Len(insns[t]) % (U16Max + 1)]
  /\ UNCHANGED <<fd, insns, ret, errno, result, filters>>

(* fprog is filled in. *)
Prepare(t) ==
  /\ at[t] = "called"
  /\ Len(insns[t]) <= U16Max
  /\ at' = [at EXCEPT ![t] = "prepared"]
  /\ len' = [len EXCEPT ![t] = Len(insns[t])]
  /\ UNCHANGED <<fd, insns, ret, errno, result, filters>>

(* What setsockopt(SO_ATTACH_FILTER) may say of a filter on a descriptor;  *)
(* memory can always be short.                                             *)
Answers(f, filter) ==
  IF Names[f] = {} THEN {"EBADF"}
  ELSE IF Names[f] \cap Sockets = {} THEN {"ENOTSOCK"}
  ELSE IF Len(filter) > MaxInsns \/ ~Valid(filter) THEN {"EINVAL"}
  ELSE {"ok", "ENOMEM"}

(* The kernel reads `len` instructions; a success leaves errno alone. *)
Setsockopt(t) ==
  LET filter == SubSeq(insns[t], 1, len[t])
  IN  /\ at[t] = "prepared"
      /\ at' = [at EXCEPT ![t] = "back"]
      /\ \/ /\ "ok" \in Answers(fd[t], filter)
            /\ filters' = [s \in Sockets |-> IF s \in Names[fd[t]] THEN {filter} ELSE filters[s]]
            /\ ret' = [ret EXCEPT ![t] = 0]
            /\ UNCHANGED errno
         \/ \E e \in Answers(fd[t], filter) \ {"ok"} :
              /\ errno' = [errno EXCEPT ![t] = e]
              /\ ret' = [ret EXCEPT ![t] = -1]
              /\ UNCHANGED filters
      /\ UNCHANGED <<fd, insns, len, result>>

(* Success judged by errno. *)
MutReturn(t) ==
  /\ at[t] = "back"
  /\ at' = [at EXCEPT ![t] = "idle"]
  /\ result' = [result EXCEPT ![t] = IF errno[t] = "none" THEN "ok" ELSE errno[t]]
  /\ len' = [len EXCEPT ![t] = 0]
  /\ ret' = [ret EXCEPT ![t] = 0]
  /\ UNCHANGED <<fd, insns, errno, filters>>

(* Ok(()), or last_os_error(); the locals are gone. *)
Return(t) ==
  /\ at[t] = "back"
  /\ at' = [at EXCEPT ![t] = "idle"]
  /\ result' = [result EXCEPT ![t] = IF ret[t] = 0 THEN "ok" ELSE errno[t]]
  /\ len' = [len EXCEPT ![t] = 0]
  /\ ret' = [ret EXCEPT ![t] = 0]
  /\ UNCHANGED <<fd, insns, errno, filters>>

AttachNext ==
  \E t \in Threads : Call(t) \/ TooLong(t) \/ Prepare(t) \/ Setsockopt(t) \/ Return(t)

AttachSpec == AttachInit /\ [][AttachNext]_attachVars

-----------------------------------------------------------------------------
(* What attach may return for a program on a descriptor, from the two      *)
(* arguments alone.                                                        *)
Outcomes(f, program) ==
  IF Len(program) > U16Max THEN {"InvalidInput"} ELSE Answers(f, program)

(* The length the kernel is told is a u16, and that of the program.        *)
AttachTypeOK ==
  /\ at \in [Threads -> {"idle", "called", "prepared", "back"}]
  /\ fd \in [Threads -> Fds]
  /\ insns \in [Threads -> Programs]
  /\ len \in [Threads -> 0..U16Max]
  /\ ret \in [Threads -> {0, -1}]
  /\ errno \in [Threads -> Errors \cup {"none"}]
  /\ result \in [Threads -> Errors \cup {"ok", "none"}]
  /\ \A t \in Threads : at[t] \in {"prepared", "back"} => len[t] = Len(insns[t])

(* What attach returns is about this call: whatever the thread's earlier   *)
(* calls left in errno and whatever other threads do to the same socket,   *)
(* it is an outcome of these arguments, and a program that is too long for *)
(* a u16 is InvalidInput on every descriptor, an invalid one too.          *)
ResultIsOwn ==
  \A t \in Threads : result[t] # "none" => result[t] \in Outcomes(fd[t], insns[t])

(* The filter of a socket changes only to the whole program of a running   *)
(* call on that socket, never to a part of it, and not by a call that will *)
(* return an error.                                                        *)
OnlyWholePrograms ==
  [][\A s \in Sockets : filters'[s] # filters[s] =>
       \E t \in Threads : /\ s \in Names[fd[t]]
                          /\ filters'[s] = {insns[t]}
                          /\ at'[t] = "back" /\ ret'[t] = 0]_attachVars
=============================================================================
