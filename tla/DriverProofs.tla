---------------------------- MODULE DriverProofs ----------------------------
(***************************************************************************)
(* Theorems about Driver, for any number of threads, processes and         *)
(* signals.                                                                *)
(***************************************************************************)
EXTENDS Driver, SequenceTheorems, TLAPS

-----------------------------------------------------------------------------
(* Queues.                                                                 *)

Distinct(s) == \A i, j \in DOMAIN s : s[i] = s[j] => i = j

Members(s) == {s[i] : i \in DOMAIN s}

LEMMA JoinQueue ==
  ASSUME NEW T, NEW s \in Seq(T), NEW e \in T, Distinct(s), e \notin Members(s)
  PROVE  /\ Append(s, e) \in Seq(T) /\ Distinct(Append(s, e))
         /\ Members(Append(s, e)) = Members(s) \cup {e}
  BY AppendProperties DEF Distinct, Members

LEMMA LeaveFront ==
  ASSUME NEW T, NEW s \in Seq(T), s # <<>>, Distinct(s)
  PROVE  /\ Tail(s) \in Seq(T) /\ Distinct(Tail(s)) /\ Head(s) \in Members(s)
         /\ Members(Tail(s)) = Members(s) \ {Head(s)}
<1>1. /\ Head(s) = s[1] /\ Tail(s) \in Seq(T) /\ Len(Tail(s)) = Len(s) - 1 /\ Len(s) \in Nat \ {0}
      /\ \A i \in 1..(Len(s) - 1) : Tail(s)[i] = s[i + 1]
  BY HeadTailProperties, LenProperties, EmptySeq
<1>2. DOMAIN s = 1..Len(s) /\ DOMAIN Tail(s) = 1..(Len(s) - 1)
  BY <1>1, LenProperties
<1>3. Distinct(Tail(s))
  BY <1>1, <1>2 DEF Distinct
<1>4. ASSUME NEW x \in Members(Tail(s)) PROVE x \in Members(s) /\ x # Head(s)
  <2>1. PICK i \in 1..(Len(s) - 1) : x = s[i + 1]
    BY <1>1, <1>2 DEF Members
  <2>2. i + 1 \in DOMAIN s /\ 1 \in DOMAIN s /\ i + 1 # 1
    BY <1>1, <1>2
  <2> QED BY <2>1, <2>2, <1>1 DEF Members, Distinct
<1>5. ASSUME NEW x \in Members(s), x # Head(s) PROVE x \in Members(Tail(s))
  <2>1. PICK i \in 1..Len(s) : x = s[i]
    BY <1>2 DEF Members
  <2>2. i - 1 \in 1..(Len(s) - 1) /\ Tail(s)[i - 1] = s[i]
    BY <2>1, <1>1, <1>5
  <2> QED BY <2>1, <2>2, <1>2 DEF Members
<1>6. Head(s) \in Members(s)
  BY <1>1, <1>2 DEF Members
<1> QED BY <1>1, <1>3, <1>4, <1>5, <1>6, Zenon

LEMMA LeaveAt ==
  ASSUME NEW T, NEW s \in Seq(T), NEW i \in DOMAIN s, Distinct(s)
  PROVE  /\ RemoveAt(s, i) \in Seq(T) /\ Distinct(RemoveAt(s, i))
         /\ Members(RemoveAt(s, i)) = Members(s) \ {s[i]}
<1> DEFINE n == Len(s)
           front == SubSeq(s, 1, i - 1)
           back == SubSeq(s, i + 1, n)
           r == RemoveAt(s, i)
<1>1. DOMAIN s = 1..n /\ n \in Nat /\ i \in 1..n
  BY LenProperties DEF n
<1>2. /\ front \in Seq(T) /\ Len(front) = i - 1
      /\ \A j \in 1..(i - 1) : front[j] = s[j]
  BY <1>1, SubSeqProperties DEF n
<1>3. /\ back \in Seq(T) /\ Len(back) = n - i
      /\ \A j \in 1..(n - i) : back[j] = s[i + j]
  BY <1>1, SubSeqProperties DEF n
<1> HIDE DEF n, front, back, r
<1>4. r = front \o back
  BY DEF RemoveAt, front, back, r, n
<1>12. /\ r \in Seq(T) /\ Len(r) = Len(front) + Len(back)
       /\ \A j \in 1..(Len(front) + Len(back)) :
            r[j] = IF j <= Len(front) THEN front[j] ELSE back[j - Len(front)]
  <2>1. front \in Seq(T) /\ back \in Seq(T)
    BY <1>2, <1>3
  <2> QED BY <2>1, <1>4, ConcatProperties, Zenon
<1>5. r \in Seq(T) /\ Len(r) = n - 1
  BY <1>1, <1>2, <1>3, <1>12
<1>6. DOMAIN r = 1..(n - 1)
  BY <1>5, LenProperties
<1>7. ASSUME NEW j \in 1..(n - 1) PROVE r[j] = IF j < i THEN s[j] ELSE s[j + 1]
  <2>1. CASE j < i
    BY <2>1, <1>1, <1>2, <1>3, <1>12
  <2>2. CASE ~(j < i)
    <3>1. j > Len(front) /\ j <= Len(front) + Len(back) /\ j - Len(front) \in 1..(n - i)
      BY <2>2, <1>1, <1>2, <1>3
    <3>2. r[j] = back[j - Len(front)]
      BY <3>1, <2>2, <1>1, <1>2, <1>12
    <3>3. back[j - Len(front)] = s[i + (j - Len(front))]
      BY <3>1, <1>3
    <3>4. i + (j - Len(front)) = j + 1
      BY <1>1, <1>2
    <3> QED BY <3>2, <3>3, <3>4, <2>2, Zenon
  <2> QED BY <2>1, <2>2
<1>8. Distinct(r)
  <2>1. SUFFICES ASSUME NEW j \in 1..(n - 1), NEW k \in 1..(n - 1), r[j] = r[k] PROVE j = k
    BY <1>6, Zenon DEF Distinct
  <2> DEFINE at(m) == IF m < i THEN m ELSE m + 1
  <2>2. at(j) \in DOMAIN s /\ at(k) \in DOMAIN s
    BY <1>1
  <2>3. s[at(j)] = s[at(k)]
    BY <2>1, <1>7
  <2>4. at(j) = at(k)
    BY <2>2, <2>3, Zenon DEF Distinct
  <2> QED BY <2>4, <1>1
<1>9. ASSUME NEW x \in Members(r) PROVE x \in Members(s) /\ x # s[i]
  <2>1. PICK j \in 1..(n - 1) : x = r[j]
    BY <1>6 DEF Members
  <2>2. PICK k \in 1..n : x = s[k] /\ k # i
    BY <2>1, <1>1, <1>7
  <2> QED BY <2>2, <1>1 DEF Members, Distinct
<1>10. ASSUME NEW x \in Members(s), x # s[i] PROVE x \in Members(r)
  <2>1. PICK k \in 1..n : x = s[k] /\ k # i
    BY <1>1, <1>10 DEF Members
  <2>2. PICK j \in 1..(n - 1) : r[j] = s[k]
    <3>1. CASE k < i
      <4>1. k \in 1..(n - 1) /\ r[k] = s[k]
        BY <3>1, <1>1, <1>7
      <4> QED BY <4>1
    <3>2. CASE k > i
      <4>1. k - 1 \in 1..(n - 1) /\ r[k - 1] = s[k]
        BY <3>2, <1>1, <1>7
      <4> QED BY <4>1
    <3> QED BY <3>1, <3>2, <2>1, <1>1
  <2> QED BY <2>1, <2>2, <1>6 DEF Members
<1>11. Members(r) = Members(s) \ {s[i]}
  BY <1>9, <1>10, Zenon
<1> QED BY <1>5, <1>8, <1>11 DEF r

-----------------------------------------------------------------------------
(* The steps of a thread.                                                  *)

\* The locks a call passes: mmap_sem first, the semaphore second.
Depth(c) ==
  CASE c \in {"malloc", "free", "fault"} -> 2
    [] c = "munmap" -> 1
    [] OTHER -> 0

\* What each step of a thread says of its call and of the locks it has passed.
StepInv ==
  \A t \in Threads :
    /\ pc[t] \in {"dead", "run"} => call[t] = "none" /\ got[t] = 0
    /\ pc[t] \in {"lock", "wait"} => got[t] < Depth(call[t])
    /\ pc[t] = "body" => call[t] # "none" /\ got[t] = Depth(call[t])
    /\ pc[t] = "unlock" => got[t] \in 1..Depth(call[t])

\* The threads that wait for a lock are those in its queue, each once.
QueueInv ==
  \A l \in Locked :
    /\ Distinct(queue[l])
    /\ Members(queue[l]) = {t \in Threads : pc[t] = "wait" /\ NextLock(t) = l}

CallInv == TypeOK /\ StepInv /\ QueueInv

LEMMA LocksDepth ==
  ASSUME NEW t \in Threads
  PROVE  /\ Len(Locks(t)) = Depth(call[t])
         /\ \A n \in 1..Depth(call[t]) : Locks(t)[n] = IF n = 1 THEN ProcOf[t] ELSE SEM
  BY DEF Locks, Depth

LEMMA NextLockIs ==
  ASSUME NEW t \in Threads, got[t] \in Nat, got[t] < Depth(call[t])
  PROVE  NextLock(t) = IF got[t] = 0 THEN ProcOf[t] ELSE SEM
<1>1. Depth(call[t]) \in Nat
  BY DEF Depth
<1>2. got[t] + 1 \in 1..Depth(call[t])
  BY <1>1
<1> QED BY <1>2, LocksDepth DEF NextLock

LEMMA NextLockKept ==
  ASSUME NEW t \in Threads, call'[t] = call[t], got'[t] = got[t]
  PROVE  NextLock(t)' = NextLock(t) /\ Locks(t)' = Locks(t)
  BY DEF NextLock, Locks

LEMMA CallInit == Init => CallInv
<1> SUFFICES ASSUME Init PROVE CallInv
  OBVIOUS
<1>1. TypeOK
  <2>1. DOMAIN table = Entries /\ queue \in [Locked -> Seq(Threads)]
    <3>1. DOMAIN Original = Entries
      BY NotImplemented, Zenon
    <3> QED BY <3>1, EmptySeq DEF Init
  <2>2. module \in {"out", "in"} /\ failed \in BOOLEAN /\ sem \in Nat /\ signals \in Nat
    BY DEF Init
  <2>3. /\ call \in [Threads -> Calls \cup {"none"}] /\ got \in [Threads -> 0..2]
        /\ pc \in [Threads -> {"dead", "run", "lock", "wait", "body", "unlock"}]
        /\ vma \in [Procs -> BOOLEAN] /\ mmap_sem \in [Procs -> SUBSET Threads]
    BY DEF Init
  <2> QED BY <2>1, <2>2, <2>3, Zenon DEF TypeOK
<1>2. StepInv
  BY DEF Init, StepInv
<1>3. QueueInv
  <2>1. ASSUME NEW l \in Locked
        PROVE  queue[l] = <<>> /\ {t \in Threads : pc[t] = "wait" /\ NextLock(t) = l} = {}
    BY DEF Init
  <2>2. Distinct(<<>>) /\ Members(<<>>) = {}
    BY DEF Distinct, Members
  <2> QED BY <2>1, <2>2, Zenon DEF QueueInv
<1> QED BY <1>1, <1>2, <1>3 DEF CallInv

\* A step of thread t that leaves the waiting threads and their queues alone.
LEMMA QueuesAlone ==
  ASSUME CallInv, NEW t \in Threads, queue' = queue,
         pc[t] # "wait", pc'[t] # "wait",
         \A u \in Threads \ {t} : /\ pc[u] = "wait" <=> pc'[u] = "wait"
                                  /\ pc[u] = "wait" => call'[u] = call[u] /\ got'[u] = got[u]
  PROVE  QueueInv'
<1>1. ASSUME NEW l \in Locked, NEW u \in Threads
      PROVE  (pc[u] = "wait" /\ NextLock(u) = l) <=> (pc'[u] = "wait" /\ NextLock(u)' = l)
  BY NextLockKept
<1> QED BY <1>1 DEF QueueInv, CallInv

\* A thread that leaves the queue of a lock has passed it.
LEMMA PassKeeps ==
  ASSUME CallInv, NEW t \in Threads, NEW l \in Locked, pc[t] = "wait", NextLock(t) = l, Pass(t),
         Distinct(queue'[l]), Members(queue'[l]) = Members(queue[l]) \ {t},
         \A m \in Locked \ {l} : queue'[m] = queue[m], queue' \in [Locked -> Seq(Threads)],
         UNCHANGED <<loading, call, vma>>,
         sem' \in Nat, signals' \in Nat, mmap_sem' \in [Procs -> SUBSET Threads]
  PROVE  CallInv'
<1>1. got[t] \in Nat /\ got[t] < Depth(call[t]) /\ Depth(call[t]) \in 0..2
  BY DEF CallInv, StepInv, TypeOK, Depth
<1>2. /\ got' = [got EXCEPT ![t] = @ + 1]
      /\ pc' = [pc EXCEPT ![t] = IF got[t] + 1 = Depth(call[t]) THEN "body" ELSE "lock"]
  BY LocksDepth DEF Pass, Passed
<1>3. TypeOK'
  BY <1>1, <1>2 DEF CallInv, TypeOK, loading
<1>4. StepInv'
  BY <1>1, <1>2 DEF CallInv, StepInv, TypeOK, Depth
<1>5. ASSUME NEW m \in Locked, NEW u \in Threads
      PROVE  (pc'[u] = "wait" /\ NextLock(u)' = m) <=> (pc[u] = "wait" /\ NextLock(u) = m /\ u # t)
  BY <1>2, NextLockKept DEF CallInv, TypeOK
<1>6. QueueInv'
  BY <1>5 DEF CallInv, QueueInv
<1> QED BY <1>3, <1>4, <1>6 DEF CallInv

LEMMA CallNext == CallInv /\ [Next]_vars => CallInv'
<1> SUFFICES ASSUME CallInv, [Next]_vars PROVE CallInv'
  OBVIOUS
<1> USE DEF CallInv
<1>1. CASE netmalloc_init_module
  <2>1. DOMAIN table' = Entries
    BY <1>1 DEF netmalloc_init_module, replace_syscall, TypeOK
  <2>4. TypeOK'
    <3>1. /\ UNCHANGED <<call, pc, got, vma, mmap_sem, queue>>
          /\ module' \in {"out", "in"} /\ failed' \in BOOLEAN /\ sem' \in Nat /\ signals' \in Nat
      <4>1. /\ UNCHANGED <<call, pc, got, vma, mmap_sem, queue>>
            /\ \/ module' = "in" /\ sem' = 1 /\ signals' = 0 /\ failed' = failed
               \/ failed' = TRUE /\ module' = module /\ sem' = sem /\ signals' = signals
        BY <1>1 DEF netmalloc_init_module
      <4>2. module' \in {"out", "in"} /\ sem' \in Nat /\ signals' \in Nat
        <5>1. module \in {"out", "in"} /\ sem \in Nat /\ signals \in Nat
          BY DEF TypeOK
        <5> QED BY <4>1, <5>1
      <4>3. failed' \in BOOLEAN
        BY <4>1, Zenon DEF TypeOK
      <4> QED BY <4>1, <4>2, <4>3, Zenon
    <3> QED BY <2>1, <3>1 DEF TypeOK
  <2>2. StepInv'
    BY <1>1 DEF netmalloc_init_module, StepInv
  <2>3. QueueInv'
    BY <1>1, NextLockKept DEF netmalloc_init_module, QueueInv
  <2> QED BY <2>2, <2>3, <2>4
<1>2. CASE netmalloc_exit_module
  <2>1. TypeOK'
    BY <1>2 DEF netmalloc_exit_module, restore_syscall, TypeOK, locks
  <2>2. StepInv'
    BY <1>2 DEF netmalloc_exit_module, StepInv
  <2>3. QueueInv'
    BY <1>2, NextLockKept DEF netmalloc_exit_module, QueueInv, locks
  <2> QED BY <2>1, <2>2, <2>3
<1>3. ASSUME NEW p \in Procs, Start(p) PROVE CallInv'
  <2> USE <1>3 DEF Start, loading, locks
  <2>1. TypeOK'
    BY DEF TypeOK
  <2>2. StepInv'
    BY DEF TypeOK, StepInv, ThreadsOf
  <2>3. ASSUME NEW u \in Threads PROVE pc[u] = "wait" <=> pc'[u] = "wait"
    BY DEF TypeOK, ThreadsOf
  <2>4. QueueInv'
    BY <2>3, NextLockKept DEF QueueInv
  <2> QED BY <2>1, <2>2, <2>4
<1>4. ASSUME NEW t \in Threads, NEW c \in Calls \ {"exit"}, Enter(t, c) PROVE CallInv'
  <2> USE <1>4 DEF Enter, loading, locks
  <2>1. TypeOK'
    BY DEF TypeOK
  <2>2. StepInv'
    BY DEF TypeOK, StepInv, Calls, Depth
  <2>3. QueueInv'
    BY QueuesAlone DEF TypeOK
  <2> QED BY <2>1, <2>2, <2>3
<1>5. ASSUME NEW t \in Threads, Exit(t) PROVE CallInv'
  <2> USE <1>5 DEF Exit, loading, locks
  <2>1. TypeOK'
    BY DEF TypeOK, Calls
  <2>2. StepInv'
    BY DEF TypeOK, StepInv, Depth, ThreadsOf
  <2>3. QueueInv'
    BY QueuesAlone DEF TypeOK, ThreadsOf
  <2> QED BY <2>1, <2>2, <2>3
<1>6. ASSUME NEW t \in Threads, Interrupt(t) PROVE CallInv'
  <2>1. PICK i \in DOMAIN queue[SEM] :
          queue[SEM][i] = t /\ queue' = [queue EXCEPT ![SEM] = RemoveAt(@, i)]
    BY <1>6 DEF Interrupt
  <2>2. SEM \in Locked /\ queue[SEM] \in Seq(Threads) /\ Distinct(queue[SEM])
    BY DEF Locked, TypeOK, QueueInv
  <2>3. /\ queue'[SEM] \in Seq(Threads) /\ Distinct(queue'[SEM])
        /\ Members(queue'[SEM]) = Members(queue[SEM]) \ {t}
        /\ \A l \in Locked \ {SEM} : queue'[l] = queue[l]
        /\ queue' \in [Locked -> Seq(Threads)]
    BY <2>1, <2>2, LeaveAt DEF TypeOK
  <2>4. pc[t] = "wait" /\ NextLock(t) = SEM /\ Pass(t)
    BY <1>6 DEF Interrupt
  <2>5. UNCHANGED <<loading, call, vma, mmap_sem, sem>> /\ signals' = signals + 1
    BY <1>6 DEF Interrupt
  <2>6. sem' \in Nat /\ signals' \in Nat /\ mmap_sem' \in [Procs -> SUBSET Threads]
    BY <2>5 DEF TypeOK
  <2> QED BY <2>2, <2>3, <2>4, <2>5, <2>6, PassKeeps
<1>7. ASSUME NEW t \in Threads, down(t) PROVE CallInv'
  <2> DEFINE l == NextLock(t)
  <2>1. l \in Locked /\ queue[l] \in Seq(Threads) /\ Distinct(queue[l]) /\ t \notin Members(queue[l])
    <3>1. got[t] \in Nat /\ got[t] < Depth(call[t])
      BY <1>7 DEF down, StepInv, TypeOK
    <3>2. l \in Locked
      BY <3>1, NextLockIs, DriverAssumption DEF Locked
    <3> QED BY <1>7, <3>2 DEF QueueInv, TypeOK, down
  <2> HIDE DEF l
  <2>2. /\ queue'[l] \in Seq(Threads) /\ Distinct(queue'[l])
        /\ Members(queue'[l]) = Members(queue[l]) \cup {t}
        /\ \A m \in Locked \ {l} : queue'[m] = queue[m]
        /\ queue' \in [Locked -> Seq(Threads)]
    BY <1>7, <2>1, JoinQueue DEF down, TypeOK, l
  <2>3. /\ UNCHANGED <<loading, call, got, vma, mmap_sem, sem, signals>>
        /\ pc[t] = "lock" /\ pc' = [pc EXCEPT ![t] = "wait"]
    BY <1>7 DEF down
  <2>4. TypeOK'
    BY <2>2, <2>3 DEF TypeOK, loading
  <2>5. StepInv'
    BY <2>3 DEF StepInv, TypeOK
  <2>6. ASSUME NEW m \in Locked, NEW u \in Threads
        PROVE  (pc'[u] = "wait" /\ NextLock(u)' = m) <=>
                  (pc[u] = "wait" /\ NextLock(u) = m) \/ (u = t /\ m = l)
    BY <2>3, NextLockKept DEF TypeOK, l
  <2>7. QueueInv'
    BY <2>1, <2>2, <2>6 DEF QueueInv
  <2> QED BY <2>4, <2>5, <2>7
<1>8. ASSUME NEW t \in Threads, Acquire(t) PROVE CallInv'
  <2> DEFINE l == NextLock(t)
  <2>1. l \in Locked
    <3>1. got[t] \in Nat /\ got[t] < Depth(call[t])
      BY <1>8 DEF Acquire, StepInv, TypeOK
    <3> QED BY <3>1, NextLockIs, DriverAssumption DEF Locked
  <2>2. /\ pc[t] = "wait" /\ t = Head(queue[l]) /\ Open(l, t) /\ Pass(t)
        /\ queue' = [queue EXCEPT ![l] = Tail(@)]
        /\ UNCHANGED <<loading, call, vma, signals>>
        /\ \/ l = SEM /\ sem' = sem - 1 /\ UNCHANGED mmap_sem
           \/ l # SEM /\ mmap_sem' = [mmap_sem EXCEPT ![l] = @ \cup {t}] /\ UNCHANGED sem
    BY <1>8 DEF Acquire
  <2> HIDE DEF l
  <2>3. queue[l] \in Seq(Threads) /\ Distinct(queue[l]) /\ queue[l] # <<>>
    <3>1. t \in Members(queue[l])
      BY <2>1, <2>2 DEF QueueInv, l
    <3> QED BY <3>1, <2>1 DEF QueueInv, TypeOK, Members
  <2>4. /\ queue'[l] \in Seq(Threads) /\ Distinct(queue'[l])
        /\ Members(queue'[l]) = Members(queue[l]) \ {t}
        /\ \A m \in Locked \ {l} : queue'[m] = queue[m]
        /\ queue' \in [Locked -> Seq(Threads)]
    BY <2>1, <2>2, <2>3, LeaveFront DEF TypeOK
  <2>5. sem' \in Nat /\ mmap_sem' \in [Procs -> SUBSET Threads]
    BY <2>2 DEF TypeOK, Open
  <2>6. signals' \in Nat /\ UNCHANGED <<loading, call, vma>>
    BY <2>2 DEF TypeOK
  <2> QED BY <2>1, <2>2, <2>4, <2>5, <2>6, PassKeeps DEF l
<1>9. ASSUME NEW t \in Threads, Body(t) PROVE CallInv'
  <2> USE <1>9 DEF Body, Done, loading, locks
  <2>1. TypeOK'
    BY DEF TypeOK, Calls, generic_malloc, generic_free, vm_fault, vm_close
  <2>2. StepInv'
    BY DEF TypeOK, StepInv, Depth, generic_malloc, generic_free, vm_fault, vm_close
  <2>3. QueueInv'
    BY QueuesAlone DEF TypeOK, generic_malloc, generic_free, vm_fault, vm_close
  <2> QED BY <2>1, <2>2, <2>3
<1>10. ASSUME NEW t \in Threads, Unlock(t) PROVE CallInv'
  <2>1. /\ pc[t] = "unlock" /\ got' = [got EXCEPT ![t] = @ - 1]
        /\ IF got[t] = 1
           THEN pc' = [pc EXCEPT ![t] = "run"] /\ call' = [call EXCEPT ![t] = "none"]
           ELSE UNCHANGED <<pc, call>>
        /\ UNCHANGED <<loading, vma, queue, signals>>
    BY <1>10 DEF Unlock
  <2>2. got[t] \in 1..2 /\ got[t] \in 1..Depth(call[t])
    BY <2>1 DEF StepInv, TypeOK
  <2>3. sem' \in Nat /\ mmap_sem' \in [Procs -> SUBSET Threads]
    <3> DEFINE l == Locks(t)[got[t]]
    <3>1. \/ sem' = sem + 1 /\ mmap_sem' = mmap_sem
          \/ mmap_sem' = [mmap_sem EXCEPT ![l] = @ \ {t}] /\ sem' = sem
      BY <1>10, Zenon DEF Unlock, up
    <3> HIDE DEF l
    <3> QED BY <3>1 DEF TypeOK
  <2>4. TypeOK'
    <3>1. /\ got' \in [Threads -> 0..2]
          /\ pc' \in [Threads -> {"dead", "run", "lock", "wait", "body", "unlock"}]
          /\ call' \in [Threads -> Calls \cup {"none"}]
      <4>1. /\ got \in [Threads -> 0..2]
            /\ pc \in [Threads -> {"dead", "run", "lock", "wait", "body", "unlock"}]
            /\ call \in [Threads -> Calls \cup {"none"}]
        BY DEF TypeOK
      <4>2. got' \in [Threads -> 0..2]
        BY <2>1, <2>2, <4>1
      <4>3. /\ pc' \in [Threads -> {"dead", "run", "lock", "wait", "body", "unlock"}]
            /\ call' \in [Threads -> Calls \cup {"none"}]
        BY <2>1, <4>1
      <4> QED BY <4>2, <4>3
    <3> QED BY <2>1, <2>3, <3>1, Zenon DEF TypeOK, loading
  <2>5. StepInv'
    BY <2>1, <2>2 DEF StepInv, TypeOK, Depth
  <2>6. QueueInv'
    BY <2>1, QueuesAlone DEF TypeOK
  <2> QED BY <2>4, <2>5, <2>6
<1>11. CASE UNCHANGED vars
  <2> USE <1>11 DEF vars, loading, locks
  <2>1. TypeOK' /\ StepInv'
    BY DEF TypeOK, StepInv
  <2>2. QueueInv'
    BY NextLockKept DEF QueueInv
  <2> QED BY <2>1, <2>2
<1> QED BY <1>1, <1>2, <1>3, <1>4, <1>5, <1>6, <1>7, <1>8, <1>9, <1>10, <1>11 DEF Next, Step

\* Every variable keeps its type, for any number of threads, processes and signals.
THEOREM CallsTyped == Spec => []TypeOK
<1>1. CallInv => TypeOK
  BY DEF CallInv
<1> QED BY CallInit, CallNext, <1>1, PTL DEF Spec

-----------------------------------------------------------------------------
(* What the steps do to the locks.                                         *)

LEMMA AcquireEffect ==
  ASSUME CallInv, NEW t \in Threads, Acquire(t)
  PROVE  /\ UNCHANGED <<loading, call, vma, signals>>
         /\ got' = [got EXCEPT ![t] = @ + 1]
         /\ \A u \in Threads \ {t} : pc'[u] = pc[u]
         /\ pc[t] = "wait" /\ pc'[t] # "dead"
         /\ \/ /\ got[t] = 0 /\ sem' = sem
               /\ mmap_sem' = [mmap_sem EXCEPT ![ProcOf[t]] = @ \cup {t}]
               /\ Writes(t) => mmap_sem[ProcOf[t]] = {}
               /\ \A u \in mmap_sem[ProcOf[t]] : ~Writes(u)
            \/ got[t] = 1 /\ sem > 0 /\ sem' = sem - 1 /\ mmap_sem' = mmap_sem
<1> DEFINE l == NextLock(t)
<1>1. got[t] \in 0..2 /\ got[t] < Depth(call[t]) /\ Depth(call[t]) \in 0..2
  BY DEF Acquire, CallInv, StepInv, TypeOK, Depth
<1>2. l = IF got[t] = 0 THEN ProcOf[t] ELSE SEM
  BY <1>1, NextLockIs
<1>3. ProcOf[t] # SEM
  BY DriverAssumption
<1>4. /\ pc[t] = "wait" /\ Open(l, t) /\ Pass(t)
      /\ UNCHANGED <<loading, call, vma, signals>>
      /\ \/ l = SEM /\ sem' = sem - 1 /\ UNCHANGED mmap_sem
         \/ l # SEM /\ mmap_sem' = [mmap_sem EXCEPT ![l] = @ \cup {t}] /\ UNCHANGED sem
  BY DEF Acquire
<1> HIDE DEF l
<1>5. /\ got' = [got EXCEPT ![t] = @ + 1]
      /\ \A u \in Threads \ {t} : pc'[u] = pc[u]
      /\ pc'[t] # "dead"
  BY <1>4 DEF Pass, Passed, CallInv, TypeOK
<1>6. CASE got[t] = 0
  <2>1. l = ProcOf[t] /\ l # SEM
    BY <1>2, <1>3, <1>6
  <2>2. (Writes(t) => mmap_sem[l] = {}) /\ \A u \in mmap_sem[l] : ~Writes(u)
    BY <1>4, <2>1 DEF Open
  <2> QED BY <1>4, <1>5, <1>6, <2>1, <2>2
<1>7. CASE got[t] # 0
  <2>1. l = SEM /\ got[t] = 1
    BY <1>1, <1>2, <1>7
  <2>2. sem > 0
    BY <1>4, <2>1 DEF Open
  <2> QED BY <1>4, <1>5, <2>1, <2>2
<1> QED BY <1>6, <1>7

LEMMA InterruptEffect ==
  ASSUME CallInv, NEW t \in Threads, Interrupt(t)
  PROVE  /\ UNCHANGED <<loading, call, vma, mmap_sem, sem>>
         /\ signals' = signals + 1
         /\ got[t] = 1 /\ got' = [got EXCEPT ![t] = 2]
         /\ \A u \in Threads \ {t} : pc'[u] = pc[u]
         /\ pc[t] = "wait" /\ pc'[t] # "dead"
<1>1. got[t] \in 0..2 /\ got[t] < Depth(call[t]) /\ Depth(call[t]) \in 0..2
  BY DEF Interrupt, CallInv, StepInv, TypeOK, Depth
<1>2. got[t] # 0
  BY <1>1, NextLockIs, DriverAssumption DEF Interrupt
<1>3. got' = [got EXCEPT ![t] = @ + 1] /\ got[t] = 1
  BY <1>1, <1>2 DEF Interrupt, Pass
<1> QED BY <1>3 DEF Interrupt, Pass, Passed, CallInv, TypeOK

LEMMA UnlockEffect ==
  ASSUME CallInv, NEW t \in Threads, Unlock(t)
  PROVE  /\ UNCHANGED <<loading, vma, queue, signals>>
         /\ pc[t] = "unlock"
         /\ \A u \in Threads \ {t} : pc'[u] = pc[u] /\ call'[u] = call[u]
         /\ got' = [got EXCEPT ![t] = @ - 1] /\ pc'[t] # "dead"
         /\ call[t] # "exit" /\ call'[t] # "exit"
         /\ \/ got[t] = 2 /\ sem' = sem + 1 /\ mmap_sem' = mmap_sem /\ call' = call
            \/ /\ got[t] = 1 /\ sem' = sem
               /\ mmap_sem' = [mmap_sem EXCEPT ![ProcOf[t]] = @ \ {t}]
<1> DEFINE l == Locks(t)[got[t]]
<1>1. /\ pc[t] = "unlock" /\ got' = [got EXCEPT ![t] = @ - 1]
      /\ IF got[t] = 1
         THEN pc' = [pc EXCEPT ![t] = "run"] /\ call' = [call EXCEPT ![t] = "none"]
         ELSE UNCHANGED <<pc, call>>
      /\ UNCHANGED <<loading, vma, queue, signals>>
  BY DEF Unlock
<1>2. IF l = SEM THEN sem' = sem + 1 /\ mmap_sem' = mmap_sem
      ELSE mmap_sem' = [mmap_sem EXCEPT ![l] = @ \ {t}] /\ sem' = sem
  BY DEF Unlock, up
<1>3. got[t] \in 1..2 /\ got[t] \in 1..Depth(call[t]) /\ call[t] # "exit"
  BY <1>1 DEF CallInv, StepInv, TypeOK, Depth
<1>4. l = IF got[t] = 1 THEN ProcOf[t] ELSE SEM
  BY <1>3, LocksDepth
<1>5. ProcOf[t] # SEM
  BY DriverAssumption
<1> HIDE DEF l
<1>6. /\ \A u \in Threads \ {t} : pc'[u] = pc[u] /\ call'[u] = call[u]
      /\ pc'[t] # "dead" /\ call'[t] # "exit"
  BY <1>1, <1>3 DEF CallInv, TypeOK
<1> QED BY <1>1, <1>2, <1>3, <1>4, <1>5, <1>6

LEMMA BodyEffect ==
  ASSUME CallInv, NEW t \in Threads, Body(t)
  PROVE  /\ UNCHANGED <<loading, got, locks>>
         /\ pc[t] = "body"
         /\ \A u \in Threads \ {t} : pc'[u] = pc[u] /\ call'[u] = call[u]
         /\ call[t] = "exit" => got[t] = 0 /\ call'[t] = "none" /\ pc'[t] = "dead"
         /\ call[t] # "exit" => call'[t] = call[t] /\ pc'[t] = "unlock"
<1>1. Done(t)
  BY DEF Body, generic_malloc, generic_free, vm_fault, vm_close
<1> QED BY <1>1 DEF Done, CallInv, TypeOK, StepInv, Depth

-----------------------------------------------------------------------------
(* mmap_sem: a writer is alone in its process.                             *)

\* The holders of an mmap_sem are the threads of its process that have passed
\* it; a writer holds it alone.
HoldInv ==
  /\ \A t \in Threads : got[t] >= 1 => t \in mmap_sem[ProcOf[t]]
  /\ \A p \in Procs : \A t \in mmap_sem[p] :
       /\ ProcOf[t] = p /\ got[t] >= 1
       /\ Writes(t) => mmap_sem[p] = {t}

\* The close handler of a process that ends runs after its threads have ended.
ExitInv ==
  \A t, u \in Threads : call[t] = "exit" /\ ProcOf[u] = ProcOf[t] /\ u # t => pc[u] = "dead"

WriterInv == CallInv /\ HoldInv /\ ExitInv

LEMMA WriterInit == Init => HoldInv /\ ExitInv
  BY DriverAssumption DEF Init, HoldInv, ExitInv

LEMMA HoldAlone ==
  ASSUME CallInv, HoldInv, UNCHANGED <<got, mmap_sem>>,
         \A u \in Threads : got[u] >= 1 => call'[u] = call[u]
  PROVE  HoldInv'
<1>1. ASSUME NEW p \in Procs, NEW u \in mmap_sem[p] PROVE u \in Threads /\ (Writes(u)' <=> Writes(u))
  BY DEF CallInv, TypeOK, HoldInv, Writes
<1> QED BY <1>1 DEF HoldInv

LEMMA HoldNext == WriterInv /\ [Next]_vars => HoldInv'
<1> SUFFICES ASSUME WriterInv, [Next]_vars PROVE HoldInv'
  OBVIOUS
<1>1. CASE netmalloc_init_module
  BY <1>1, HoldAlone DEF netmalloc_init_module, WriterInv
<1>2. CASE netmalloc_exit_module
  BY <1>2, HoldAlone DEF netmalloc_exit_module, WriterInv, locks
<1>3. ASSUME NEW p \in Procs, Start(p) PROVE HoldInv'
  BY <1>3, HoldAlone DEF Start, WriterInv, locks
<1>4. ASSUME NEW t \in Threads, NEW c \in Calls \ {"exit"}, Enter(t, c) PROVE HoldInv'
  <2>1. got[t] = 0 /\ \A u \in Threads \ {t} : call'[u] = call[u]
    BY <1>4 DEF Enter, WriterInv, CallInv, TypeOK, StepInv
  <2> QED BY <1>4, <2>1, HoldAlone DEF Enter, WriterInv, locks
<1>5. ASSUME NEW t \in Threads, Exit(t) PROVE HoldInv'
  <2>1. got[t] = 0 /\ \A u \in Threads \ {t} : call'[u] = call[u]
    BY <1>5 DEF Exit, WriterInv, CallInv, TypeOK, StepInv, ThreadsOf
  <2> QED BY <1>5, <2>1, HoldAlone DEF Exit, WriterInv, locks
<1>6. ASSUME NEW t \in Threads, Interrupt(t) PROVE HoldInv'
  <2>1. /\ mmap_sem' = mmap_sem /\ call' = call
        /\ got[t] = 1 /\ got' = [got EXCEPT ![t] = 2]
    BY <1>6, InterruptEffect DEF WriterInv
  <2> QED BY <2>1 DEF WriterInv, HoldInv, CallInv, TypeOK, Writes
<1>7. ASSUME NEW t \in Threads, down(t) PROVE HoldInv'
  BY <1>7, HoldAlone DEF down, WriterInv
<1>8. ASSUME NEW t \in Threads, Acquire(t) PROVE HoldInv'
  <2>1. /\ call' = call /\ got' = [got EXCEPT ![t] = @ + 1]
        /\ \/ /\ got[t] = 0
              /\ mmap_sem' = [mmap_sem EXCEPT ![ProcOf[t]] = @ \cup {t}]
              /\ Writes(t) => mmap_sem[ProcOf[t]] = {}
              /\ \A u \in mmap_sem[ProcOf[t]] : ~Writes(u)
           \/ got[t] = 1 /\ mmap_sem' = mmap_sem
    BY <1>8, AcquireEffect DEF WriterInv
  <2>2. got \in [Threads -> 0..2] /\ mmap_sem \in [Procs -> SUBSET Threads] /\ ProcOf[t] \in Procs
    BY DriverAssumption DEF WriterInv, CallInv, TypeOK
  <2>3. ASSUME NEW u \in Threads PROVE Writes(u)' <=> Writes(u)
    BY <2>1 DEF Writes
  <2>4. CASE got[t] = 0
    <3>1. mmap_sem' = [mmap_sem EXCEPT ![ProcOf[t]] = @ \cup {t}] /\ got' = [got EXCEPT ![t] = 1]
      BY <2>1, <2>4
    <3>2. \A u \in Threads : got'[u] >= 1 => u \in mmap_sem'[ProcOf[u]]
      BY <2>2, <3>1, DriverAssumption DEF WriterInv, HoldInv
    <3>3. ASSUME NEW p \in Procs, NEW u \in mmap_sem'[p]
          PROVE  ProcOf[u] = p /\ got'[u] >= 1 /\ (Writes(u)' => mmap_sem'[p] = {u})
      <4>1. CASE u = t /\ p = ProcOf[t]
        BY <2>1, <2>2, <2>3, <2>4, <3>1, <4>1
      <4>2. CASE ~(u = t /\ p = ProcOf[t])
        <5>1. u \in mmap_sem[p] /\ u # t
          BY <2>2, <2>4, <3>1, <4>2 DEF WriterInv, HoldInv
        <5>2. ProcOf[u] = p /\ got[u] >= 1 /\ (Writes(u) => mmap_sem[p] = {u})
          BY <5>1 DEF WriterInv, HoldInv
        <5>3. CASE p = ProcOf[t]
          <6>1. ~Writes(u)'
            BY <2>1, <2>2, <2>3, <2>4, <5>1, <5>3
          <6> QED BY <2>2, <3>1, <5>1, <5>2, <6>1
        <5>4. CASE p # ProcOf[t]
          <6>1. mmap_sem'[p] = mmap_sem[p] /\ got'[u] = got[u] /\ (Writes(u)' <=> Writes(u))
            BY <2>2, <2>3, <3>1, <5>1, <5>4
          <6> QED BY <5>2, <6>1
        <5> QED BY <5>3, <5>4
      <4> QED BY <4>1, <4>2
    <3> QED BY <3>2, <3>3 DEF HoldInv
  <2>5. CASE got[t] = 1
    BY <2>1, <2>2, <2>3, <2>5 DEF WriterInv, HoldInv
  <2> QED BY <2>1, <2>4, <2>5
<1>9. ASSUME NEW t \in Threads, Body(t) PROVE HoldInv'
  <2>1. got' = got /\ mmap_sem' = mmap_sem /\ \A u \in Threads : got[u] >= 1 => call'[u] = call[u]
    BY <1>9, BodyEffect DEF WriterInv, locks
  <2> QED BY <2>1, HoldAlone DEF WriterInv
<1>10. ASSUME NEW t \in Threads, Unlock(t) PROVE HoldInv'
  <2>1. /\ \A u \in Threads \ {t} : call'[u] = call[u]
        /\ got' = [got EXCEPT ![t] = @ - 1]
        /\ \/ got[t] = 2 /\ mmap_sem' = mmap_sem /\ call' = call
           \/ got[t] = 1 /\ mmap_sem' = [mmap_sem EXCEPT ![ProcOf[t]] = @ \ {t}]
    BY <1>10, UnlockEffect DEF WriterInv
  <2>2. got \in [Threads -> 0..2] /\ mmap_sem \in [Procs -> SUBSET Threads] /\ ProcOf[t] \in Procs
    BY DriverAssumption DEF WriterInv, CallInv, TypeOK
  <2>3. ASSUME NEW u \in Threads \ {t} PROVE Writes(u)' <=> Writes(u)
    BY <2>1 DEF Writes
  <2>4. CASE got[t] = 2
    <3>1. Writes(t)' <=> Writes(t)
      BY <2>1, <2>4 DEF Writes
    <3> QED BY <2>1, <2>2, <2>3, <2>4, <3>1 DEF WriterInv, HoldInv
  <2>5. CASE got[t] = 1
    <3>1. got' = [got EXCEPT ![t] = 0] /\ mmap_sem' = [mmap_sem EXCEPT ![ProcOf[t]] = @ \ {t}]
      BY <2>1, <2>5
    <3>2. \A u \in Threads : got'[u] >= 1 => u \in mmap_sem'[ProcOf[u]]
      BY <2>2, <3>1, DriverAssumption DEF WriterInv, HoldInv
    <3>3. ASSUME NEW p \in Procs, NEW u \in mmap_sem'[p]
          PROVE  ProcOf[u] = p /\ got'[u] >= 1 /\ (Writes(u)' => mmap_sem'[p] = {u})
      <4>1. u \in mmap_sem[p] /\ u # t /\ mmap_sem'[p] \subseteq mmap_sem[p]
        BY <2>2, <3>1 DEF WriterInv, HoldInv
      <4>2. ProcOf[u] = p /\ got[u] >= 1 /\ (Writes(u) => mmap_sem[p] = {u})
        BY <4>1 DEF WriterInv, HoldInv
      <4>3. got'[u] = got[u] /\ (Writes(u)' <=> Writes(u))
        BY <2>2, <2>3, <3>1, <4>1
      <4> QED BY <4>1, <4>2, <4>3
    <3> QED BY <3>2, <3>3 DEF HoldInv
  <2> QED BY <2>1, <2>4, <2>5
<1>11. CASE UNCHANGED vars
  BY <1>11, HoldAlone DEF vars, locks, WriterInv
<1> QED BY <1>1, <1>2, <1>3, <1>4, <1>5, <1>6, <1>7, <1>8, <1>9, <1>10, <1>11 DEF Next, Step

LEMMA ExitNext == WriterInv /\ [Next]_vars => ExitInv'
<1> SUFFICES ASSUME WriterInv, [Next]_vars PROVE ExitInv'
  OBVIOUS
<1> USE DEF WriterInv
<1>0. ASSUME NEW t \in Threads, call[t] = "exit" PROVE pc[t] = "body"
  BY <1>0 DEF CallInv, TypeOK, StepInv, Depth
<1>1. CASE netmalloc_init_module
  BY <1>1 DEF netmalloc_init_module, ExitInv
<1>2. CASE netmalloc_exit_module
  BY <1>2 DEF netmalloc_exit_module, ExitInv
<1>3. ASSUME NEW p \in Procs, Start(p) PROVE ExitInv'
  BY <1>0, <1>3 DEF Start, ExitInv, ThreadsOf, CallInv, TypeOK
<1>4. ASSUME NEW t \in Threads, NEW c \in Calls \ {"exit"}, Enter(t, c) PROVE ExitInv'
  BY <1>4 DEF Enter, ExitInv, CallInv, TypeOK
<1>5. ASSUME NEW t \in Threads, Exit(t) PROVE ExitInv'
  BY <1>0, <1>5 DEF Exit, ExitInv, ThreadsOf, CallInv, TypeOK
<1>6. ASSUME NEW t \in Threads, Interrupt(t) PROVE ExitInv'
  BY <1>6, InterruptEffect DEF ExitInv
<1>7. ASSUME NEW t \in Threads, down(t) PROVE ExitInv'
  BY <1>7 DEF down, ExitInv, CallInv, TypeOK
<1>8. ASSUME NEW t \in Threads, Acquire(t) PROVE ExitInv'
  BY <1>8, AcquireEffect DEF ExitInv
<1>9. ASSUME NEW t \in Threads, Body(t) PROVE ExitInv'
  BY <1>9, BodyEffect DEF ExitInv
<1>10. ASSUME NEW t \in Threads, Unlock(t) PROVE ExitInv'
  BY <1>10, UnlockEffect DEF ExitInv
<1>11. CASE UNCHANGED vars
  BY <1>11 DEF vars, ExitInv
<1> QED BY <1>1, <1>2, <1>3, <1>4, <1>5, <1>6, <1>7, <1>8, <1>9, <1>10, <1>11 DEF Next, Step

LEMMA WriterImplies == WriterInv => WriterAlone
<1> SUFFICES ASSUME WriterInv, NEW t \in Threads, NEW u \in Threads,
                    pc[t] = "body", call[t] # "fault", pc[u] = "body", ProcOf[t] = ProcOf[u]
             PROVE  t = u
  BY DEF WriterAlone
<1> USE DEF WriterInv
<1>1. CASE call[t] = "exit" \/ call[u] = "exit"
  BY <1>1 DEF ExitInv
<1>2. CASE call[t] # "exit" /\ call[u] # "exit"
  <2>1. got[t] >= 1 /\ got[u] >= 1 /\ Writes(t) /\ ProcOf[t] \in Procs
    BY <1>2, DriverAssumption DEF CallInv, StepInv, TypeOK, Calls, Depth, Writes
  <2> QED BY <2>1 DEF HoldInv
<1> QED BY <1>1, <1>2

\* While netmalloc, netfree or the close handler runs, no other thread of the
\* process is in a call of the module, whatever signals come.
THEOREM WritersRunAlone == Spec => []WriterAlone
<1>1. Init => WriterInv
  BY CallInit, WriterInit DEF WriterInv
<1>2. WriterInv /\ [Next]_vars => WriterInv'
  BY CallNext, HoldNext, ExitNext DEF WriterInv
<1> QED BY <1>1, <1>2, WriterImplies, PTL DEF Spec

-----------------------------------------------------------------------------
(* The semaphore.                                                          *)

\* Threads are about only while the module is loaded.
RunInv == \A t \in Threads : pc[t] # "dead" => module = "in"

\* The semaphore is not lost: if its count is zero, some thread has it.
SemInv == module = "in" => sem > 0 \/ \E t \in Threads : got[t] = 2

\* Nor, before a first signal, is it doubled.
QuietInv ==
  signals = 0 =>
    /\ sem \in {0, 1}
    /\ \A t \in Threads : got[t] = 2 => sem = 0 /\ \A u \in Threads : got[u] = 2 => u = t

LoneInv == CallInv /\ RunInv /\ SemInv /\ QuietInv

LEMMA LoneInit == Init => RunInv /\ SemInv /\ QuietInv
  BY DEF Init, RunInv, SemInv, QuietInv

LEMMA SemAlone ==
  ASSUME SemInv, QuietInv, UNCHANGED <<module, sem, signals, got>>
  PROVE  SemInv' /\ QuietInv'
  BY DEF SemInv, QuietInv

LEMMA LoneNext == LoneInv /\ [Next]_vars => RunInv' /\ SemInv' /\ QuietInv'
<1> SUFFICES ASSUME LoneInv, [Next]_vars PROVE RunInv' /\ SemInv' /\ QuietInv'
  OBVIOUS
<1> USE DEF LoneInv
<1>0. got \in [Threads -> 0..2] /\ sem \in Nat /\ signals \in Nat
  BY DEF CallInv, TypeOK
<1>1. CASE netmalloc_init_module
  <2>1. \A t \in Threads : pc[t] = "dead" /\ got[t] = 0
    BY <1>1 DEF netmalloc_init_module, NoProgram, CallInv, StepInv
  <2>2. /\ pc' = pc /\ got' = got /\ module = "out"
        /\ \/ module' = "in" /\ sem' = 1 /\ signals' = 0
           \/ UNCHANGED <<module, sem, signals>>
    BY <1>1 DEF netmalloc_init_module
  <2> QED BY <2>1, <2>2, <1>0 DEF RunInv, SemInv, QuietInv
<1>2. CASE netmalloc_exit_module
  <2>1. /\ UNCHANGED <<pc, got, sem, signals>> /\ module' = "out"
        /\ \A t \in Threads : pc[t] = "dead"
    BY <1>2 DEF netmalloc_exit_module, locks, NoProgram
  <2> QED BY <2>1 DEF RunInv, SemInv, QuietInv
<1>3. ASSUME NEW p \in Procs, Start(p) PROVE RunInv' /\ SemInv' /\ QuietInv'
  BY <1>3, SemAlone DEF Start, RunInv, loading, locks
<1>4. ASSUME NEW t \in Threads, NEW c \in Calls \ {"exit"}, Enter(t, c)
      PROVE  RunInv' /\ SemInv' /\ QuietInv'
  BY <1>4, SemAlone DEF Enter, RunInv, loading, locks, CallInv, TypeOK
<1>5. ASSUME NEW t \in Threads, Exit(t) PROVE RunInv' /\ SemInv' /\ QuietInv'
  BY <1>5, SemAlone DEF Exit, RunInv, loading, locks, CallInv, TypeOK, ThreadsOf
<1>6. ASSUME NEW t \in Threads, Interrupt(t) PROVE RunInv' /\ SemInv' /\ QuietInv'
  <2>1. /\ UNCHANGED <<module, sem>> /\ signals' = signals + 1
        /\ got' = [got EXCEPT ![t] = 2] /\ pc[t] = "wait"
        /\ \A u \in Threads \ {t} : pc'[u] = pc[u]
    BY <1>6, InterruptEffect DEF loading
  <2> QED BY <2>1, <1>0 DEF RunInv, SemInv, QuietInv
<1>7. ASSUME NEW t \in Threads, down(t) PROVE RunInv' /\ SemInv' /\ QuietInv'
  BY <1>7, SemAlone DEF down, RunInv, loading, CallInv, TypeOK
<1>8. ASSUME NEW t \in Threads, Acquire(t) PROVE RunInv' /\ SemInv' /\ QuietInv'
  <2>1. /\ UNCHANGED <<module, signals>>
        /\ got' = [got EXCEPT ![t] = @ + 1] /\ pc[t] = "wait"
        /\ \A u \in Threads \ {t} : pc'[u] = pc[u]
        /\ \/ got[t] = 0 /\ sem' = sem
           \/ got[t] = 1 /\ sem > 0 /\ sem' = sem - 1
    BY <1>8, AcquireEffect DEF loading
  <2>2. RunInv'
    BY <2>1 DEF RunInv
  <2>3. CASE got[t] = 0
    BY <2>1, <2>2, <2>3, <1>0 DEF SemInv, QuietInv
  <2>4. CASE got[t] = 1
    BY <2>1, <2>2, <2>4, <1>0 DEF SemInv, QuietInv
  <2> QED BY <2>1, <2>3, <2>4
<1>9. ASSUME NEW t \in Threads, Body(t) PROVE RunInv' /\ SemInv' /\ QuietInv'
  <2>1. UNCHANGED <<module, sem, signals, got>> /\ pc[t] = "body"
        /\ \A u \in Threads \ {t} : pc'[u] = pc[u]
    BY <1>9, BodyEffect DEF loading, locks
  <2> QED BY <2>1, SemAlone DEF RunInv
<1>10. ASSUME NEW t \in Threads, Unlock(t) PROVE RunInv' /\ SemInv' /\ QuietInv'
  <2>1. /\ UNCHANGED <<module, signals>>
        /\ got' = [got EXCEPT ![t] = @ - 1] /\ pc[t] = "unlock"
        /\ \A u \in Threads \ {t} : pc'[u] = pc[u]
        /\ \/ got[t] = 2 /\ sem' = sem + 1
           \/ got[t] = 1 /\ sem' = sem
    BY <1>10, UnlockEffect DEF loading
  <2>2. RunInv'
    BY <2>1 DEF RunInv
  <2>3. CASE got[t] = 2
    BY <2>1, <2>2, <2>3, <1>0 DEF SemInv, QuietInv
  <2>4. CASE got[t] = 1
    BY <2>1, <2>2, <2>4, <1>0 DEF SemInv, QuietInv
  <2> QED BY <2>1, <2>3, <2>4
<1>11. CASE UNCHANGED vars
  BY <1>11, SemAlone DEF vars, RunInv, loading, locks
<1> QED BY <1>1, <1>2, <1>3, <1>4, <1>5, <1>6, <1>7, <1>8, <1>9, <1>10, <1>11 DEF Next, Step

LEMMA LoneImplies == LoneInv => ExclusiveQuiet
<1> SUFFICES ASSUME LoneInv, signals = 0, NEW t \in Threads, NEW u \in Threads, Inside(t), Inside(u)
             PROVE  t = u
  BY DEF ExclusiveQuiet, Exclusive
<1>1. got[t] = 2 /\ got[u] = 2
  BY DEF LoneInv, CallInv, StepInv, Inside, Depth
<1> QED BY <1>1 DEF LoneInv, QuietInv

\* Two calls never run at once before a signal has ended a wait.
THEOREM CallsExclude == Spec => []ExclusiveQuiet
<1>1. Init => LoneInv
  BY CallInit, LoneInit DEF LoneInv
<1>2. LoneInv /\ [Next]_vars => LoneInv'
  BY CallNext, LoneNext DEF LoneInv
<1> QED BY <1>1, <1>2, LoneImplies, PTL DEF Spec

\* When every thread in a call waits, the first in one of the queues can have
\* its lock.
LEMMA SomeoneMoves == WriterInv /\ LoneInv => NoDeadlock
<1> SUFFICES ASSUME WriterInv, LoneInv, NEW t \in Threads, call[t] # "none",
                    \A u \in Threads : pc[u] \notin {"lock", "body", "unlock"}
             PROVE  \E u \in Threads : Moves(u)
  BY DEF NoDeadlock, Moves
<1> USE DEF WriterInv, CallInv
<1>1. ASSUME NEW u \in Threads PROVE pc[u] = "wait" \/ (got[u] = 0 /\ call[u] = "none")
  <2>1. pc[u] \in {"dead", "run", "lock", "wait", "body", "unlock"}
    BY DEF TypeOK
  <2> QED BY <2>1 DEF StepInv
<1>2. ASSUME NEW u \in Threads, pc[u] = "wait"
      PROVE  /\ got[u] \in {0, 1}
             /\ NextLock(u) = IF got[u] = 0 THEN ProcOf[u] ELSE SEM
             /\ NextLock(u) \in Locked
  <2>1. got[u] \in 0..2 /\ got[u] < Depth(call[u]) /\ Depth(call[u]) \in 0..2
    BY <1>2 DEF StepInv, TypeOK, Depth
  <2> QED BY <2>1, NextLockIs, DriverAssumption DEF Locked
<1>3. ASSUME NEW l \in Locked, NEW w \in Threads, pc[w] = "wait", NextLock(w) = l
      PROVE  LET u == Head(queue[l]) IN u \in Threads /\ pc[u] = "wait" /\ NextLock(u) = l
  <2>1. queue[l] \in Seq(Threads) /\ Distinct(queue[l]) /\ w \in Members(queue[l])
    BY <1>3 DEF TypeOK, QueueInv
  <2>2. queue[l] # <<>>
    BY <2>1 DEF Members
  <2>3. Head(queue[l]) \in Members(queue[l])
    BY <2>1, <2>2, LeaveFront
  <2> QED BY <2>3 DEF QueueInv
<1>4. CASE \E w \in Threads : pc[w] = "wait" /\ got[w] = 1
  <2>1. PICK w \in Threads : pc[w] = "wait" /\ got[w] = 1
    BY <1>4
  <2>2. NextLock(w) = SEM /\ SEM \in Locked
    BY <1>2, <2>1
  <2> DEFINE u == Head(queue[SEM])
  <2>3. u \in Threads /\ pc[u] = "wait" /\ NextLock(u) = SEM
    BY <1>3, <2>1, <2>2
  <2>4. sem > 0
    <3>1. module = "in"
      BY <2>1 DEF LoneInv, RunInv
    <3>2. \A v \in Threads : got[v] # 2
      BY <1>1, <1>2
    <3> QED BY <3>1, <3>2 DEF LoneInv, SemInv
  <2>5. Moves(u)
    BY <2>3, <2>4 DEF Moves, Open
  <2> QED BY <2>3, <2>5
<1>5. CASE \A w \in Threads : pc[w] = "wait" => got[w] # 1
  <2> DEFINE p == ProcOf[t]
             u == Head(queue[p])
  <2>1. pc[t] = "wait" /\ got[t] = 0 /\ NextLock(t) = p /\ p \in Locked
    BY <1>1, <1>2, <1>5
  <2>2. u \in Threads /\ pc[u] = "wait" /\ NextLock(u) = p
    BY <1>3, <2>1
  <2>3. mmap_sem[p] = {} /\ p # SEM
    <3>1. p \in Procs /\ p # SEM
      BY DriverAssumption
    <3>2. ASSUME NEW v \in mmap_sem[p] PROVE FALSE
      <4>1. v \in Threads /\ got[v] >= 1
        BY <3>1 DEF HoldInv, TypeOK
      <4> QED BY <4>1, <1>1, <1>2, <1>5
    <3> QED BY <3>1, <3>2
  <2>4. Moves(u)
    BY <2>2, <2>3 DEF Moves, Open
  <2> QED BY <2>2, <2>4
<1> QED BY <1>4, <1>5

\* The calls of all programs never wait for one another in a circle.
THEOREM NeverDeadlocked == Spec => []NoDeadlock
<1>1. Init => WriterInv /\ LoneInv
  BY CallInit, WriterInit, LoneInit DEF WriterInv, LoneInv
<1>2. WriterInv /\ LoneInv /\ [Next]_vars => (WriterInv /\ LoneInv)'
  BY CallNext, HoldNext, ExitNext, LoneNext DEF WriterInv, LoneInv
<1> QED BY <1>1, <1>2, SomeoneMoves, PTL DEF Spec

-----------------------------------------------------------------------------
(* The table of system calls.                                              *)

\* Until a load fails, the table is the first one with the two entries replaced
\* while the module is loaded, and original_syscall what both held.
TableInv ==
  ~failed =>
    IF module = "out" THEN table = Original
    ELSE /\ original = Original["NI2"]
         /\ DOMAIN table = Entries

LEMMA TableInit == Init => TableInv
  BY DEF Init, TableInv

LEMMA TableNext == CallInv /\ TableInv /\ [Next]_vars => TableInv'
<1> SUFFICES ASSUME CallInv, TableInv, [Next]_vars PROVE TableInv'
  OBVIOUS
<1>1. CASE netmalloc_init_module
  <2> DEFINE first  == replace_syscall([table |-> table, original |-> NULL], "NI1", "netmalloc")
             second == replace_syscall(first, "NI2", "netfree")
  <2>1. /\ module = "out" /\ table' = second.table /\ original' = second.original
        /\ \/ module' = "in" /\ failed' = failed
           \/ failed' = TRUE
    BY <1>1 DEF netmalloc_init_module
  <2>2. second = [table |-> [[table EXCEPT !["NI1"] = "netmalloc"] EXCEPT !["NI2"] = "netfree"],
                  original |-> [table EXCEPT !["NI1"] = "netmalloc"]["NI2"]]
    BY DEF replace_syscall
  <2>3. CASE failed' = TRUE
    BY <2>3 DEF TableInv
  <2>4. CASE failed' = failed /\ module' = "in"
    <3>1. failed \/ table = Original
      BY <2>1 DEF TableInv
    <3>2. DOMAIN table = Entries
      BY DEF CallInv, TypeOK
    <3>3. original' = table["NI2"] /\ DOMAIN table' = Entries
      BY <2>1, <2>2, <3>2 DEF Entries
    <3> QED BY <2>4, <3>1, <3>3 DEF TableInv
  <2> QED BY <2>1, <2>3, <2>4
<1>2. CASE netmalloc_exit_module
  <2>1. /\ module = "in" /\ failed' = failed
        /\ table' = [[table EXCEPT !["NI2"] = original] EXCEPT !["NI1"] = original]
        /\ module' = "out"
    BY <1>2 DEF netmalloc_exit_module, restore_syscall
  <2>2. ASSUME ~failed PROVE table' = Original
    <3>1. original = Original["NI2"] /\ DOMAIN table = Entries
      BY <2>1, <2>2 DEF TableInv
    <3>2. table' = [e \in Entries |-> original]
      BY <2>1, <3>1 DEF Entries
    <3>3. Original["NI2"] = Original["NI1"]
      BY NotImplemented DEF Entries
    <3> QED BY <3>1, <3>2, <3>3, NotImplemented, Zenon
  <2> QED BY <2>1, <2>2 DEF TableInv
<1>3. CASE UNCHANGED loading
  BY <1>3 DEF loading, TableInv
<1>4. ASSUME NEW t \in Threads, Interrupt(t) \/ Step(t) PROVE UNCHANGED loading
  BY <1>4, InterruptEffect, AcquireEffect, UnlockEffect, BodyEffect DEF Step, down
<1> QED BY <1>1, <1>2, <1>3, <1>4 DEF Next, Start, Enter, Exit, vars

\* After an unload the table is what it was before the first load.
THEOREM TableComesBack == Spec => []TableRestored
<1>1. Init => CallInv /\ TableInv
  BY CallInit, TableInit
<1>2. CallInv /\ TableInv /\ [Next]_vars => (CallInv /\ TableInv)'
  BY CallNext, TableNext
<1>3. TableInv => TableRestored
  BY DEF TableInv, TableRestored
<1> QED BY <1>1, <1>2, <1>3, PTL DEF Spec
=============================================================================
