---------------------------- MODULE MCPageCache -----------------------------
(* Small instances of PageCache for TLC. *)
EXTENDS PageCache, TLC

CONSTANTS t1, t2, a1, a2, p1, p2, p3

\* An area of two pages and one of a single page.
MCAreaOf == p1 :> a1 @@ p2 :> a1 @@ p3 :> a2

\* One thread has both, or each of two threads one.
OneThread_PidOf == a1 :> t1 @@ a2 :> t1
TwoThreads_PidOf == a1 :> t1 @@ a2 :> t2
=============================================================================
