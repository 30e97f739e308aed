------------------------------- MODULE Driver -------------------------------
(***************************************************************************)
(* The module as the kernel runs it: src/src/netmalloc.c and syscall.c     *)
(* patch the table of system calls when it is loaded, and the entries of   *)
(* generic_malloc.c run under two locks, the mmap_sem of the process and   *)
(* the semaphore of the module.                                            *)
(*                                                                         *)
(* netmalloc, netfree and munmap take mmap_sem for writing; the kernel     *)
(* takes it for reading before it calls the fault handler.  The close      *)
(* handler takes no lock: netfree calls it under both, munmap under        *)
(* mmap_sem, and the end of a process under none.  What the calls do to    *)
(* the lists is in the other modules.                                      *)
(***************************************************************************)
EXTENDS Integers, FiniteSets, Sequences, SequencesExt

CONSTANTS
  Threads, Procs,
  ProcOf,        \* thread |-> process
  SEM,           \* the semaphore of the module
  Original,      \* the table of system calls before any load: entry |-> function
  NULL,
  MaxSignals     \* bound: waits cut short by a signal since the module was loaded

Entries == {"NI1", "NI2"}

ASSUME DriverAssumption ==
  /\ ProcOf \in [Threads -> Procs] /\ SEM \notin Procs
  /\ MaxSignals \in Nat

\* One function of the kernel serves every entry that is not implemented
\* (README.md:23-25).
ASSUME NotImplemented == Original = [e \in Entries |-> Original["NI1"]]

VARIABLES
  table, original,    \* the table, and original_syscall
  module,             \* "out" or "in"
  failed,             \* history: some load has failed
  call, pc, got,      \* thread |-> its call, its step there, the locks it has passed
  vma,                \* process |-> whether it has a VMA of the module
  mmap_sem,           \* process |-> the threads that hold its mmap_sem
  sem,                \* the count of the semaphore
  queue,              \* lock |-> the threads that wait, in order of arrival
  signals             \* history: waits cut short since the module was loaded

loading == <<table, original, module, failed>>
locks == <<mmap_sem, sem, queue, signals>>
vars == <<loading, call, pc, got, vma, locks>>

Calls == {"malloc", "free", "fault", "munmap", "exit"}
Locked == Procs \cup {SEM}

Init ==
  /\ table = Original /\ original = NULL /\ module = "out" /\ failed = FALSE
  /\ call = [t \in Threads |-> "none"]
  /\ pc = [t \in Threads |-> "dead"]
  /\ got = [t \in Threads |-> 0]
  /\ vma = [p \in Procs |-> FALSE]
  /\ mmap_sem = [p \in Procs |-> {}]
  /\ sem = 0 /\ queue = [l \in Locked |-> <<>>]
  /\ signals = 0

ThreadsOf(p) == {t \in Threads : ProcOf[t] = p}

-----------------------------------------------------------------------------
(* Loading and unloading (src/run.sh): no program runs meanwhile.          *)

NoProgram == \A t \in Threads : pc[t] = "dead"

\* Mutant: the entry is saved when it has been replaced.
replace_syscall_late(s, entry, function) ==
  [table |-> [s.table EXCEPT ![entry] = function], original |-> function]

\* There is one original_syscall for both entries.
replace_syscall(s, entry, function) ==
  [table |-> [s.table EXCEPT ![entry] = function], original |-> s.table[entry]]

restore_syscall(t, entry) == [t EXCEPT ![entry] = original]

\* The entries are replaced first.  When the storage cannot be opened the load
\* fails and the memory of the module goes, its functions with it.
netmalloc_init_module ==
  /\ module = "out" /\ NoProgram
  /\ LET first  == replace_syscall([table |-> table, original |-> NULL], "NI1", "netmalloc")
         second == replace_syscall(first, "NI2", "netfree")
     IN  table' = second.table /\ original' = second.original
  /\ \/ /\ module' = "in" /\ sem' = 1 /\ signals' = 0
        /\ UNCHANGED failed
     \/ /\ failed' = TRUE
        /\ UNCHANGED <<module, sem, signals>>
  /\ UNCHANGED <<call, pc, got, vma, mmap_sem, queue>>

netmalloc_exit_module ==
  /\ module = "in" /\ NoProgram
  /\ table' = restore_syscall(restore_syscall(table, "NI2"), "NI1")
  /\ module' = "out"
  /\ UNCHANGED <<original, failed, call, pc, got, vma, locks>>

\* A program starts.
Start(p) ==
  /\ module = "in" /\ \A t \in ThreadsOf(p) : pc[t] = "dead"
  /\ pc' = [t \in Threads |-> IF ProcOf[t] = p THEN "run" ELSE pc[t]]
  /\ UNCHANGED <<loading, call, got, vma, locks>>

-----------------------------------------------------------------------------
(* The two locks.                                                          *)

\* Mutant: the module's semaphore first.
Locks_sem_first(t) ==
  CASE call[t] \in {"malloc", "free"} -> <<SEM, ProcOf[t]>>
    [] call[t] = "fault" -> <<ProcOf[t], SEM>>
    [] call[t] = "munmap" -> <<ProcOf[t]>>
    [] OTHER -> <<>>

\* Mutant: the close handler, which netfree and munmap call, takes the semaphore.
Locks_close(t) ==
  CASE call[t] \in {"malloc", "fault"} -> <<ProcOf[t], SEM>>
    [] call[t] = "free" -> <<ProcOf[t], SEM, SEM>>
    [] call[t] = "munmap" -> <<ProcOf[t], SEM>>
    [] OTHER -> <<>>

\* The locks that a call takes, in order.
Locks(t) ==
  CASE call[t] \in {"malloc", "free", "fault"} -> <<ProcOf[t], SEM>>
    [] call[t] = "munmap" -> <<ProcOf[t]>>
    [] OTHER -> <<>>

\* Mutant: netfree takes mmap_sem for reading.
Writes_no_free(t) == call[t] \in {"malloc", "munmap"}

\* The calls that take mmap_sem for writing.
Writes(t) == call[t] \in {"malloc", "free", "munmap"}

NextLock(t) == Locks(t)[got[t] + 1]

\* The step of a thread that has passed n locks.
Passed(t, n) == IF n = Len(Locks(t)) THEN "body" ELSE "lock"

\* The lock may be given to the thread.
Open(l, t) ==
  IF l = SEM THEN sem > 0
  ELSE IF Writes(t) THEN mmap_sem[l] = {}
  ELSE \A u \in mmap_sem[l] : ~Writes(u)

\* down_read, down_write, down_interruptible: the caller joins the queue.
down(t) ==
  /\ pc[t] = "lock"
  /\ pc' = [pc EXCEPT ![t] = "wait"]
  /\ queue' = [queue EXCEPT ![NextLock(t)] = Append(@, t)]
  /\ UNCHANGED <<loading, call, got, vma, mmap_sem, sem, signals>>

Pass(t) ==
  /\ got' = [got EXCEPT ![t] = @ + 1]
  /\ pc' = [pc EXCEPT ![t] = Passed(t, got[t] + 1)]

\* The first in the queue gets the lock.
Acquire(t) ==
  /\ pc[t] = "wait"
  /\ LET l == NextLock(t)
     IN  /\ t = Head(queue[l]) /\ Open(l, t)
         /\ queue' = [queue EXCEPT ![l] = Tail(@)]
         /\ IF l = SEM THEN sem' = sem - 1 /\ UNCHANGED mmap_sem
            ELSE mmap_sem' = [mmap_sem EXCEPT ![l] = @ \cup {t}] /\ UNCHANGED sem
  /\ Pass(t)
  /\ UNCHANGED <<loading, call, vma, signals>>

\* A signal ends the wait, unless up has chosen the thread.  The call does not
\* look at what down_interruptible returns, and goes on.
Interrupt(t) ==
  /\ pc[t] = "wait" /\ NextLock(t) = SEM
  /\ signals < MaxSignals
  /\ signals' = signals + 1
  /\ \E i \in DOMAIN queue[SEM] :
       /\ queue[SEM][i] = t /\ i > sem
       /\ queue' = [queue EXCEPT ![SEM] = RemoveAt(@, i)]
  /\ Pass(t)
  /\ UNCHANGED <<loading, call, vma, mmap_sem, sem>>

\* Mutant: the error path of the fault handler calls up and goes on to the other.
up_twice(t) == sem' = IF call[t] = "fault" THEN sem + 2 ELSE sem + 1

up(t) == sem' = sem + 1

\* up, up_read, up_write, in the reverse order.
Unlock(t) ==
  /\ pc[t] = "unlock"
  /\ LET l == Locks(t)[got[t]]
     IN  IF l = SEM THEN up(t) /\ UNCHANGED mmap_sem
         ELSE mmap_sem' = [mmap_sem EXCEPT ![l] = @ \ {t}] /\ UNCHANGED sem
  /\ got' = [got EXCEPT ![t] = @ - 1]
  /\ IF got[t] = 1
     THEN pc' = [pc EXCEPT ![t] = "run"] /\ call' = [call EXCEPT ![t] = "none"]
     ELSE UNCHANGED <<pc, call>>
  /\ UNCHANGED <<loading, vma, queue, signals>>

-----------------------------------------------------------------------------
(* generic_malloc.c, between the locks.                                    *)

Done(t) ==
  /\ pc[t] = "body"
  /\ pc' = [pc EXCEPT ![t] = IF call[t] = "exit" THEN "dead" ELSE "unlock"]
  /\ call' = [call EXCEPT ![t] = IF @ = "exit" THEN "none" ELSE @]
  /\ UNCHANGED <<loading, got, locks>>

\* Without memory there is no VMA.
generic_malloc(t) ==
  /\ call[t] = "malloc" /\ Done(t)
  /\ \E made \in BOOLEAN : vma' = [vma EXCEPT ![ProcOf[t]] = @ \/ made]

\* The last region takes its VMA with it.
generic_free(t) ==
  /\ call[t] = "free" /\ Done(t)
  /\ \E last \in BOOLEAN : vma' = [vma EXCEPT ![ProcOf[t]] = @ /\ ~last]

vm_fault(t) == call[t] = "fault" /\ Done(t) /\ UNCHANGED vma

\* The close handler, called by munmap and at the end of the process.
vm_close(t) ==
  /\ call[t] \in {"munmap", "exit"} /\ Done(t)
  /\ vma' = [vma EXCEPT ![ProcOf[t]] = FALSE]

-----------------------------------------------------------------------------
(* The programs.                                                           *)

\* An entry of the table that is not ours does nothing.
Reaches(c) ==
  CASE c = "malloc" -> table["NI1"] = "netmalloc"
    [] c = "free" -> table["NI2"] = "netfree"
    [] OTHER -> TRUE

Enter(t, c) ==
  /\ pc[t] = "run" /\ Reaches(c)
  /\ c \in {"fault", "munmap"} => vma[ProcOf[t]]
  /\ call' = [call EXCEPT ![t] = c]
  /\ pc' = [pc EXCEPT ![t] = "lock"]
  /\ UNCHANGED <<loading, got, vma, locks>>

\* The threads of a process end; the last one gives up the VMAs.
Exit(t) ==
  LET p == ProcOf[t]
  IN  /\ \A u \in ThreadsOf(p) : pc[u] = "run"
      /\ pc' = [u \in Threads |-> IF ProcOf[u] # p THEN pc[u]
                                  ELSE IF u = t /\ vma[p] THEN "body" ELSE "dead"]
      /\ call' = [call EXCEPT ![t] = IF vma[p] THEN "exit" ELSE @]
      /\ UNCHANGED <<loading, got, vma, locks>>

Body(t) == generic_malloc(t) \/ generic_free(t) \/ vm_fault(t) \/ vm_close(t)

\* What the kernel and the module do for a thread in a call.
Step(t) == down(t) \/ Acquire(t) \/ Body(t) \/ Unlock(t)

Next ==
  \/ netmalloc_init_module
  \/ netmalloc_exit_module
  \/ \E p \in Procs : Start(p)
  \/ \E t \in Threads :
       \/ \E c \in Calls \ {"exit"} : Enter(t, c)
       \/ Exit(t)
       \/ Interrupt(t)
       \/ Step(t)

\* A thread in a call goes on when the locks let it.
Spec == Init /\ [][Next]_vars /\ \A t \in Threads : WF_vars(Step(t))

-----------------------------------------------------------------------------
(* Properties.                                                             *)

\* Every variable has its type.
TypeOK ==
  /\ module \in {"out", "in"} /\ failed \in BOOLEAN /\ DOMAIN table = Entries
  /\ call \in [Threads -> Calls \cup {"none"}]
  /\ pc \in [Threads -> {"dead", "run", "lock", "wait", "body", "unlock"}]
  /\ got \in [Threads -> 0..2]
  /\ vma \in [Procs -> BOOLEAN]
  /\ mmap_sem \in [Procs -> SUBSET Threads]
  /\ sem \in Nat /\ queue \in [Locked -> Seq(Threads)] /\ signals \in Nat

\* A thread in a body that the semaphore protects.
Inside(t) == pc[t] = "body" /\ call[t] \in {"malloc", "free", "fault"}

\* Two calls never run at once (README.md:218-232).
Exclusive == \A t, u \in Threads : Inside(t) /\ Inside(u) => t = u

\* As long as no signal has ended a wait for the semaphore, two calls never run
\* at once, in one process or in two (generic_malloc.c:316, 362, 390).
ExclusiveQuiet == signals = 0 => Exclusive

\* While netmalloc, netfree or the close handler changes the VMAs of a process,
\* no other thread of the process is in a call of the module, signals or not
\* (generic_malloc.c:361, 389; README.md:212-262).
WriterAlone ==
  \A t, u \in Threads :
    pc[t] = "body" /\ call[t] # "fault" /\ pc[u] = "body" /\ ProcOf[t] = ProcOf[u] => t = u

Moves(t) ==
  \/ pc[t] \in {"lock", "body", "unlock"}
  \/ pc[t] = "wait" /\ t = Head(queue[NextLock(t)]) /\ Open(NextLock(t), t)

\* As long as some thread is in a call, one of them can go on: the two locks are
\* taken in the same order everywhere, and the close handler takes none
\* (README.md:158-264).
NoDeadlock == (\E t \in Threads : call[t] # "none") => \E t \in Threads : Moves(t)

\* Once it is unloaded, a module that never failed to load leaves the table of
\* system calls as it was (netmalloc.c:58-74, syscall.c:42-58).
TableRestored == module = "out" /\ ~failed => table = Original

\* Every call ends: no thread waits for the locks for ever, whatever the others
\* do (generic_malloc.c:316-416).
CallsEnd == \A t \in Threads : call[t] # "none" ~> call[t] = "none"
=============================================================================
