-------------------------------- MODULE Heap --------------------------------
(***************************************************************************)
(* What a memory allocator promises to the programs that use it: a block   *)
(* handed out overlaps no block that is still in use, and a block in use   *)
(* stays as it is until it is given back.                                  *)
(*                                                                         *)
(* A block is a record [pid, start, size]: the thread that asked for it    *)
(* and the addresses start .. start + size - 1.                            *)
(***************************************************************************)
EXTENDS Integers

VARIABLE blocks      \* the blocks in use

Overlap(b, c) == b.start < c.start + c.size /\ c.start < b.start + b.size

Init == blocks = {}

\* One new block, clear of all the others.
Allocate ==
  \E b \in blocks' \ blocks :
    /\ blocks' = blocks \cup {b}
    /\ \A c \in blocks : ~Overlap(b, c)

\* One block by netfree, or every block of a mapping that goes away.
Release == blocks' \subseteq blocks

Next == Allocate \/ Release

Spec == Init /\ [][Next]_blocks
=============================================================================
