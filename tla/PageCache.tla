----------------------------- MODULE PageCache ------------------------------
(***************************************************************************)
(* The paging of src/src/generic_malloc.c: each thread may have two pages  *)
(* mapped, filled in the two frames of its mapped_buffer; the others are   *)
(* in the storage, and the fault handler swaps them in and out.            *)
(*                                                                         *)
(* The threads of one process share its page tables.  A handler runs under *)
(* the module's semaphore, one at a time, but a thread that finds a page   *)
(* mapped reads and writes it without any handler, between any two steps   *)
(* of one.  A fault waits for the semaphore with mmap_sem held for         *)
(* reading; netmalloc, netfree and munmap hold it for writing.             *)
(*                                                                         *)
(* A region is a whole page here; how regions share pages is in            *)
(* AreaList and NetMalloc.  A VMA is named by its area.                    *)
(***************************************************************************)
EXTENDS StoredPage, Lists, Integers, FiniteSets, Functions, FiniteSetsExt, Sequences, SequencesExt

CONSTANTS
  Threads,   \* threads of the process
  Areas,     \* their areas
  Pages,     \* pages the areas may cover
  AreaOf,    \* page |-> area
  PidOf,     \* area |-> the thread that created it
  Values,    \* what a page may hold
  Zero,      \* what a new page holds
  Frames,    \* physical pages
  NONE,
  GONE,      \* a page in a VMA that was freed and whose address is not reused
  Faults,    \* what may fail: "save", "load", "stored", "buffer"
  Shared     \* whether threads touch and free each other's memory

\* A NULL vma is start = NONE.
Buffer == [buffer : Frames, start : Pages \cup {NONE, GONE},
           cache : Frames, cache_start : Pages \cup {NONE, GONE}]

\* todo tells which of the two pages netmalloc and netfree have still to unmap.
Handler == [pid : Threads, op : {"fault", "malloc", "free"}, page : Pages,
            step : {"save", "zap", "map", "end", "stuck"}, todo : {"both", "last"}]

\* Bound: frames never run out, as those in use are two for each thread and
\* the ones that outlive their mapped_buffer because a page maps them.
ASSUME PageCacheAssumption ==
  /\ AreaOf \in [Pages -> Areas] /\ PidOf \in [Areas -> Threads]
  /\ IsFiniteSet(Threads) /\ IsFiniteSet(Pages) /\ IsFiniteSet(Frames)
  /\ Zero \in Values /\ GONE \notin Pages
  /\ NONE \notin Pages \cup Frames \cup {GONE} /\ NONE \notin Buffer \cup Handler
  /\ Frames \subseteq Nat /\ Cardinality(Frames) >= 2 * Cardinality(Threads) + Cardinality(Pages)
  /\ Faults \subseteq {"save", "load", "stored", "buffer"} /\ Shared \in BOOLEAN

VARIABLES
  live,      \* pages the program holds
  used,      \* pages with a used region
  pte,       \* page tables: page |-> frame or NONE
  mem,       \* frame |-> value
  buffers,   \* the list of mapped_buffer: thread |-> buffer
  stored,    \* stored_pages
  storage,   \* what the storage holds: <<thread, page>> |-> value
  waiting,   \* thread |-> the page of its fault, or NONE
  handler,   \* the call that holds the semaphore, or NONE
  order,     \* history: thread |-> the pages it mapped, oldest first
  written,   \* history: live page |-> the value last written to it
  seen       \* history: thread |-> the value it read last

kernel == <<used, pte, buffers, stored, storage, waiting, handler, order>>
vars == <<kernel, live, mem, written, seen>>

Init ==
  /\ live = {} /\ used = {}
  /\ pte = [p \in Pages |-> NONE]
  /\ mem = [f \in Frames |-> Zero]
  /\ buffers = [t \in {} |-> NONE]
  /\ stored = {}
  /\ storage = [k \in {} |-> Zero]
  /\ waiting = [t \in Threads |-> NONE]
  /\ handler = NONE
  /\ order = [t \in Threads |-> <<>>]
  /\ written = [p \in {} |-> Zero]
  /\ seen = [t \in Threads |-> Zero]

Pid(p) == PidOf[AreaOf[p]]

\* The area has a region left, so it has its VMA.
HasVma(a, regions) == \E p \in regions : AreaOf[p] = a

\* It compares addresses, and takes a new VMA at the address of an old one for it.
is_existing_vma(p, regions) == p \in Pages /\ HasVma(AreaOf[p], regions)

\* What a frame holds is of no account once no page maps it: it is filled before
\* it is mapped again.
Mapped(m) == [f \in Frames |-> IF f \in Range(pte') THEN m[f] ELSE Zero]

\* What is left of s without the members of set.
Without(s, set) == Chosen(s, {i \in DOMAIN s : s[i] \notin set})

With(f, x, y) == [z \in DOMAIN f \cup {x} |-> IF z = x THEN y ELSE f[z]]

-----------------------------------------------------------------------------
(* mapped_buffer.c                                                         *)

\* Mutant: the addresses stay where they are.
swap_buffer_cache_frames(b) == [b EXCEPT !.buffer = b.cache, !.cache = b.buffer]

swap_buffer_cache(b) ==
  [buffer |-> b.cache, start |-> b.cache_start,
   cache |-> b.buffer, cache_start |-> b.start]

\* The frames of the buffers, and the first that is neither theirs nor mapped.
Buffered == UNION {{buffers[t].buffer, buffers[t].cache} : t \in DOMAIN buffers}

Unused == Min(Frames \ (Buffered \cup Range(pte)))

add_buffer ==
  LET two == Min(Frames \ (Buffered \cup Range(pte) \cup {Unused}))
  IN  [buffer |-> Unused, start |-> NONE, cache |-> two, cache_start |-> NONE]

\* Mutant: the buffer goes as soon as one area does.
remove_buffer_always(bufs, t, regions) == Restrict(bufs, DOMAIN bufs \ {t})

\* close_vma keeps the buffer of a thread that has another area.
remove_buffer(bufs, t, regions) ==
  IF \E a \in Areas : PidOf[a] = t /\ HasVma(a, regions) THEN bufs
  ELSE Restrict(bufs, DOMAIN bufs \ {t})

\* The buffers that point to the VMA of area a, freed for good.
Dangling(bufs, a) ==
  LET gone(p) == IF p \in Pages /\ AreaOf[p] = a THEN GONE ELSE p
  IN  [t \in DOMAIN bufs |-> [bufs[t] EXCEPT !.start = gone(@), !.cache_start = gone(@)]]

-----------------------------------------------------------------------------
(* The program.                                                            *)

Inside(t) == handler # NONE /\ handler.pid = t

\* A thread that is in no call.
Running(t) == ~Inside(t) /\ waiting[t] = NONE

\* mmap_sem can be had for reading, or for writing.
MayRead == handler # NONE => handler.op = "fault"

\* Mutant: the semaphore alone is taken.
MayWrite_sem == handler = NONE

MayWrite == handler = NONE /\ \A t \in Threads : waiting[t] = NONE

Touches(t, p) == p \in live /\ (Shared \/ Pid(p) = t)

\* The VMAs are not VM_SHARED (vma.c:50), so the first write to a page moves it
\* from the buffer it was filled in to a frame of its own, in a fault of the
\* kernel's that takes mmap_sem.
Write(t, p, v) ==
  /\ Running(t) /\ Touches(t, p) /\ pte[p] # NONE
  /\ pte[p] \in Buffered => MayRead
  /\ LET f == IF pte[p] \in Buffered THEN Unused ELSE pte[p]
     IN  /\ pte' = [pte EXCEPT ![p] = f]
         /\ mem' = Mapped([mem EXCEPT ![f] = v])
  /\ written' = [written EXCEPT ![p] = v]
  /\ UNCHANGED <<live, used, buffers, stored, storage, waiting, handler, order, seen>>

Read(t, p) ==
  /\ Running(t) /\ Touches(t, p) /\ pte[p] # NONE
  /\ seen' = [seen EXCEPT ![t] = mem[pte[p]]]
  /\ UNCHANGED <<kernel, live, mem, written>>

\* An access to a page that is not mapped.
Miss(t, p) ==
  /\ Running(t) /\ Touches(t, p) /\ pte[p] = NONE /\ MayRead
  /\ waiting' = [waiting EXCEPT ![t] = p]
  /\ UNCHANGED <<live, used, pte, mem, buffers, stored, storage, handler, order, written, seen>>

-----------------------------------------------------------------------------
(* unmap_page: which page goes next, if any.                               *)

\* Mutant: the VMA is not looked for.
UnmapFront_unchecked(h, b, regions, next) == [h EXCEPT !.step = "save"]

\* unmap_buffer does nothing to a page whose VMA is gone.
UnmapFront(h, b, regions, next) ==
  [h EXCEPT !.step = IF is_existing_vma(b.start, regions) THEN "save" ELSE next]

UnmapCache(h, b, regions) ==
  LET last == [h EXCEPT !.todo = "last"]
      s    == swap_buffer_cache(b)
  IN  IF b.cache_start = NONE THEN [b |-> b, h |-> [last EXCEPT !.step = "end"]]
      ELSE [b |-> s, h |-> UnmapFront(last, s, regions, "end")]

\* unmap_page(pid, 0), of netmalloc and netfree.
UnmapBoth(h, regions) ==
  LET b == buffers[h.pid]
  IN  IF h.pid \notin DOMAIN buffers THEN [b |-> NONE, h |-> [h EXCEPT !.step = "end"]]
      ELSE IF is_existing_vma(b.start, regions) THEN [b |-> b, h |-> [h EXCEPT !.step = "save"]]
      ELSE UnmapCache(h, b, regions)

\* Mutant: a third page is mapped over the older one.
UnmapOldest_never(h, regions) ==
  LET b == swap_buffer_cache(buffers[h.pid])
  IN  IF h.pid \notin DOMAIN buffers THEN [b |-> NONE, h |-> [h EXCEPT !.step = "map"]]
      ELSE [b |-> b, h |-> [h EXCEPT !.step = "map"]]

\* unmap_page(pid, 1), of the fault handler: the page in the cache is the older.
UnmapOldest(h, regions) ==
  LET b == swap_buffer_cache(buffers[h.pid])
  IN  IF h.pid \notin DOMAIN buffers THEN [b |-> NONE, h |-> [h EXCEPT !.step = "map"]]
      ELSE [b |-> b, h |-> UnmapFront(h, b, regions, "map")]

\* The state of the buffer of the thread and of the handler after such a choice.
Go(next) ==
  /\ handler' = next.h
  /\ buffers' = IF next.b = NONE THEN buffers ELSE With(buffers, next.h.pid, next.b)

Call(t, op, p) == [pid |-> t, op |-> op, page |-> p, step |-> "end", todo |-> "both"]

-----------------------------------------------------------------------------
(* The handlers.                                                           *)

\* The fault handler gets the semaphore.
FaultStart(t) ==
  /\ handler = NONE /\ waiting[t] # NONE
  /\ IF waiting[t] \in used
     THEN Go(UnmapOldest(Call(t, "fault", waiting[t]), used)) /\ UNCHANGED waiting
     ELSE waiting' = [waiting EXCEPT ![t] = NONE] /\ UNCHANGED <<handler, buffers>>
  /\ UNCHANGED <<live, used, pte, mem, stored, storage, order, written, seen>>

\* generic_malloc: create_region, then unmap_page.
MallocStart(t, p) ==
  /\ MayWrite /\ Running(t) /\ p \notin used /\ Pid(p) = t
  /\ used' = used \cup {p}
  /\ Go(UnmapBoth(Call(t, "malloc", p), used'))
  /\ UNCHANGED <<live, pte, mem, stored, storage, waiting, order, written, seen>>

\* The program gives pages up.
Release(pages) ==
  /\ live' = live \ pages
  /\ written' = [p \in live' |-> written[p]]
  /\ UNCHANGED seen

\* generic_free begins with unmap_page.
FreeStart(t, p) ==
  /\ MayWrite /\ Running(t) /\ Touches(t, p)
  /\ Release({p})
  /\ Go(UnmapBoth(Call(t, "free", p), used))
  /\ UNCHANGED <<used, pte, mem, stored, storage, waiting, order>>


\* An error of unmap_page: SIGBUS, NULL for netmalloc, nothing for netfree.
Fail ==
  /\ handler' = IF handler.op = "free" THEN [handler EXCEPT !.step = "end"] ELSE NONE
  /\ waiting' = IF handler.op = "fault" THEN [waiting EXCEPT ![handler.pid] = NONE] ELSE waiting
  /\ UNCHANGED <<live, used, pte, mem, buffers, order, written, seen>>

\* Mutant: what the storage already has is not written again.
Saved_once(k, v) == IF k \in stored THEN storage ELSE With(storage, k, v)

Saved(k, v) == With(storage, k, v)

\* copy_page_from_user.  On a page that is not mapped, get_user_pages faults
\* and waits for the semaphore that its own thread holds.
Save ==
  LET t == handler.pid
      p == buffers[t].start
      k == <<t, p>>
  IN  /\ handler # NONE /\ handler.step = "save"
      /\ IF pte[p] = NONE
         THEN handler' = [handler EXCEPT !.step = "stuck"]
              /\ UNCHANGED <<live, used, pte, mem, buffers, stored, storage, waiting, order, written, seen>>
         ELSE \/ /\ "save" \in Faults
                 /\ Fail /\ UNCHANGED <<stored, storage>>
              \/ /\ storage' = Saved(k, mem[pte[p]])
                 /\ \/ "stored" \in Faults /\ ~is_stored_page(t, p, stored) /\ Fail /\ UNCHANGED stored
                    \/ /\ stored' = add_stored_page(t, {p}, stored)
                       /\ handler' = [handler EXCEPT !.step = "zap"]
                       /\ UNCHANGED <<live, used, pte, mem, buffers, waiting, order, written, seen>>

\* Mutant: the buffer keeps the page it lost.
Zapped_kept(b) == b

Zapped(b) == [b EXCEPT !.start = NONE]

\* remove_user_page, and on to the next page.
Zap ==
  LET t == handler.pid
      p == buffers[t].start
      b == Zapped(buffers[t])
  IN  /\ handler # NONE /\ handler.step = "zap"
      /\ pte' = [pte EXCEPT ![p] = NONE]
      /\ Go(IF handler.op = "fault" THEN [b |-> b, h |-> [handler EXCEPT !.step = "map"]]
            ELSE IF handler.todo = "both" THEN UnmapCache(handler, b, used)
            ELSE [b |-> b, h |-> [handler EXCEPT !.step = "end"]])
      /\ mem' = Mapped(mem)
      /\ order' = [order EXCEPT ![t] = Without(@, {p})]
      /\ UNCHANGED <<live, used, stored, storage, waiting, written, seen>>

\* Mutant: a stored page comes back empty.
Loaded_zero(k) == Zero

\* map_page fills the frame from the storage, or with zeros.
Loaded(k) == IF is_stored_page(k[1], k[2], stored) /\ k \in DOMAIN storage THEN storage[k] ELSE Zero

\* map_page.  vm_insert_page refuses a page that is mapped already.
Map ==
  LET t == handler.pid
      p == handler.page
      b == IF t \in DOMAIN buffers THEN buffers[t] ELSE add_buffer
  IN  /\ handler # NONE /\ handler.step = "map"
      /\ handler' = NONE
      /\ waiting' = [waiting EXCEPT ![t] = NONE]
      /\ \/ /\ "buffer" \in Faults /\ t \notin DOMAIN buffers
            /\ UNCHANGED <<buffers, mem, pte, order>>
         \/ /\ "load" \in Faults /\ is_stored_page(t, p, stored)
            /\ buffers' = With(buffers, t, b)
            /\ UNCHANGED <<mem, pte, order>>
         \/ /\ IF pte[p] # NONE
               THEN buffers' = With(buffers, t, b) /\ UNCHANGED <<pte, order>>
               ELSE /\ buffers' = With(buffers, t, [b EXCEPT !.start = p])
                    /\ pte' = [pte EXCEPT ![p] = b.buffer]
                    /\ order' = [order EXCEPT ![t] = Append(@, p)]
            /\ mem' = Mapped([mem EXCEPT ![b.buffer] = Loaded(<<t, p>>)])
      /\ UNCHANGED <<live, used, stored, storage, written, seen>>

\* What thread Pid(p) finds, or will find after its fault, on page p.
View(p) ==
  IF pte[p] # NONE THEN mem[pte[p]] ELSE Loaded(<<Pid(p), p>>)

MallocEnd ==
  /\ handler # NONE /\ handler.op = "malloc" /\ handler.step = "end"
  /\ live' = live \cup {handler.page}
  /\ written' = With(written, handler.page, View(handler.page))
  /\ handler' = NONE
  /\ UNCHANGED <<used, pte, mem, buffers, stored, storage, waiting, order, seen>>

\* The pages of area a leave the page tables with its VMA, whose address the
\* next VMA of the area may get, or not; close_vma then drops the area.
do_munmap(a) ==
  /\ \E bufs \in {buffers, Dangling(buffers, a)} :
       buffers' = remove_buffer(bufs, PidOf[a], used')
  /\ pte' = [p \in Pages |-> IF AreaOf[p] = a THEN NONE ELSE pte[p]]
  /\ mem' = Mapped(mem)
  /\ order' = [t \in Threads |-> Without(order[t], {p \in Pages : AreaOf[p] = a})]

\* Mutant: the storage keeps the pages.
remove_storage_pages_none(t, pages) == UNCHANGED <<stored, storage>>

remove_storage_pages(t, pages) ==
  /\ stored' = remove_stored_page(t, pages, stored)
  /\ storage' = Restrict(storage, DOMAIN storage \ (stored \cap ({t} \X pages)))

\* remove_storage_pages and remove_region, which find nothing in the areas of
\* other threads.  The last region takes the VMA and the area with it.
FreeEnd ==
  LET t == handler.pid
      p == handler.page
      a == AreaOf[p]
  IN  /\ handler # NONE /\ handler.op = "free" /\ handler.step = "end"
      /\ handler' = NONE
      /\ IF p \notin used \/ Pid(p) # t
         THEN UNCHANGED <<used, pte, mem, buffers, stored, storage, order>>
         ELSE /\ remove_storage_pages(t, {p})
              /\ used' = used \ {p}
              /\ IF HasVma(a, used') THEN UNCHANGED <<pte, mem, buffers, order>>
                 ELSE do_munmap(a)
      /\ UNCHANGED <<live, waiting, written, seen>>

\* close_vma, when the program unmaps an area or exits.
Close(a) ==
  LET pages == {p \in Pages : AreaOf[p] = a}
  IN  /\ MayWrite /\ HasVma(a, used)
      /\ Release(pages)
      /\ used' = used \ pages
      /\ do_munmap(a)
      /\ remove_storage_pages(PidOf[a], pages \cap used)
      /\ UNCHANGED <<waiting, handler>>

Program ==
  \E t \in Threads, p \in Pages :
    \/ \E v \in Values \ {Zero} : Write(t, p, v)
    \/ Read(t, p)
    \/ Miss(t, p)
    \/ MallocStart(t, p)
    \/ FreeStart(t, p)

Module == (\E t \in Threads : FaultStart(t)) \/ Save \/ Zap \/ Map \/ MallocEnd \/ FreeEnd

Next == Program \/ Module \/ \E a \in Areas : Close(a)

\* A handler goes on; the semaphore is given in order of arrival (Driver), so no
\* fault is passed over for ever.
Fairness ==
  /\ WF_vars(Save \/ Zap \/ Map \/ MallocEnd \/ FreeEnd)
  /\ \A t \in Threads : SF_vars(FaultStart(t))

Spec == Init /\ [][Next]_vars /\ Fairness

\* Areas end by netfree alone.
FreeSpec == Init /\ [][Program \/ Module]_vars /\ Fairness

-----------------------------------------------------------------------------
(* Properties.                                                             *)

\* Every variable has its type.
TypeOK ==
  /\ live \subseteq used /\ used \subseteq Pages
  /\ pte \in [Pages -> Frames \cup {NONE}]
  /\ mem \in [Frames -> Values]
  /\ DOMAIN buffers \subseteq Threads /\ Range(buffers) \subseteq Buffer
  /\ stored \subseteq Threads \X Pages
  /\ DOMAIN storage \subseteq Threads \X Pages /\ Range(storage) \subseteq Values
  /\ waiting \in [Threads -> Pages \cup {NONE}]
  /\ handler \in Handler \cup {NONE}
  /\ order \in [Threads -> Seq(Pages)]
  /\ written \in [live -> Values] /\ seen \in [Threads -> Values]
  /\ handler # NONE /\ handler.step \in {"save", "zap"} =>
       handler.pid \in DOMAIN buffers /\ buffers[handler.pid].start \in Pages

\* No frame is mapped at two addresses: what a thread writes to one page never
\* shows in another (mapped_buffer.c:27-44, generic_malloc.c:199-262).
NoAlias == \A p, q \in Pages : pte[p] # NONE /\ pte[p] = pte[q] => p = q

\* A mapped page is in a mapped_buffer, so some later unmap_page will save it
\* (generic_malloc.c:199-262).
MappedKnown ==
  \A p \in Pages : pte[p] # NONE =>
    \E t \in DOMAIN buffers : p \in {buffers[t].start, buffers[t].cache_start}

\* The storage keeps no page of a region that was freed
\* (generic_malloc.c:82-136, 366-368).
StoredInUse == handler = NONE => \A k \in stored : k[2] \in used

\* No handler faults on a page itself: the fault would wait for the semaphore
\* that its own thread holds (generic_malloc.c:146, src/README.md:220-262).
NeverStuck == handler # NONE => handler.step # "stuck"

\* A fault ends with the page mapped by it; a program that touches its own
\* memory gets no SIGBUS (generic_malloc.c:257-258, 320-331).
FaultMaps ==
  [][\A t \in Threads : waiting[t] # NONE /\ waiting'[t] = NONE =>
        pte[waiting[t]] = NONE /\ pte'[waiting[t]] # NONE]_vars


\* A fault takes away a page only when two are mapped, and takes the one mapped
\* first (src/README.md:111).
OldestEvicted ==
  [][\A t \in Threads :
       handler # NONE /\ handler.pid = t /\ handler.op = "fault" /\ order'[t] # order[t]
         => \/ Len(order[t]) = 2 /\ order'[t] = Tail(order[t])
            \/ order[t] = Front(order'[t]) /\ Len(order[t]) < 2]_vars

\* What is written is what is read, through eviction, storage and reload.
M == INSTANCE Memory WITH content <- written
MemorySpec == M!Spec
=============================================================================
