------------------------------ MODULE MCAttach ------------------------------
(***************************************************************************)
(* Two threads on two sockets, a file and a closed descriptor; programs    *)
(* below and at the kernel's limit, at u16::MAX, and past it by so much    *)
(* that a truncated length would be short enough for the kernel.           *)
(***************************************************************************)
EXTENDS Attach

CONSTANTS t1, t2, s1, s2, file

MCThreads == {t1, t2}
MCSockets == {s1, s2}
MCFds == {-1, 3, 4, 5}
MCNames == [f \in MCFds |-> CASE f = -1 -> {} [] f = 3 -> {file} [] f = 4 -> {s1} [] f = 5 -> {s2}]

(* n instructions, `ret` each, the last with operand k. *)
Rets(n, k) == [i \in 1..n |-> ret_k(IF i = n THEN k ELSE Zero)]
MCPrograms == {Rets(1, AllOnes), Rets(2, AllOnes), Rets(3, Zero), Rets(5, Zero)}
=============================================================================
