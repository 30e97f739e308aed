------------------------------ MODULE MCDriver ------------------------------
(* Small instances of Driver for TLC. *)
EXTENDS Driver, TLC

CONSTANTS t1, t2, t3, p1, p2

\* Two threads share a process, a third has its own.
MCProcOf == t1 :> p1 @@ t2 :> p1 @@ t3 :> p2

\* Neither entry is implemented: one function serves both.
MCOriginal == [e \in Entries |-> "sys_ni_syscall"]
=============================================================================
