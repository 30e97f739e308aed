------------------------------- MODULE Memory -------------------------------
(***************************************************************************)
(* What the memory behind netmalloc promises: a thread that reads a page   *)
(* finds the last value written to it, wherever the page has been since.   *)
(* What a page holds when it is handed out is not promised.                *)
(***************************************************************************)
CONSTANTS Threads, Pages, Values

VARIABLES
  live,      \* the pages the program holds
  content,   \* live page |-> the last value written to it
  seen       \* thread |-> the value it read last

vars == <<live, content, seen>>

Init ==
  /\ live = {} /\ content \in [live -> Values]
  /\ seen \in [Threads -> Values]

Read ==
  \E t \in Threads, p \in live :
    seen' = [seen EXCEPT ![t] = content[p]] /\ UNCHANGED <<live, content>>

Write ==
  \E p \in live, v \in Values :
    content' = [content EXCEPT ![p] = v] /\ UNCHANGED <<live, seen>>

Allocate ==
  \E p \in Pages \ live, v \in Values :
    /\ live' = live \cup {p}
    /\ content' = [q \in live' |-> IF q = p THEN v ELSE content[q]]
    /\ UNCHANGED seen

Release ==
  /\ live' \subseteq live
  /\ content' = [q \in live' |-> content[q]]
  /\ UNCHANGED seen

Next == Read \/ Write \/ Allocate \/ Release

Spec == Init /\ [][Next]_vars
=============================================================================
