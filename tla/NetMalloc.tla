----------------------------- MODULE NetMalloc ------------------------------
(***************************************************************************)
(* netmalloc and netfree as src/src/generic_malloc.c composes them: the    *)
(* regions of AreaList, the two mapped pages of each thread, and the       *)
(* stored pages, which regions share.  The paging itself is one step here; *)
(* PageCache has its steps and its errors.                                 *)
(***************************************************************************)
EXTENDS AreaList, StoredPage, Lists

VARIABLES
  mapped,    \* thread |-> its mapped pages, oldest first
  stored,    \* stored_pages, as <<thread, page>>
  precious   \* history: pages touched that some block has covered ever since

paging == <<mapped, stored, precious>>
allVars == <<vars, paging>>

\* No allocation of the kernel fails here.
ASSUME NoFaults == Faults = {} /\ HeadFree = {FALSE}

NetInit ==
  /\ Init
  /\ mapped = [t \in Pids |-> <<>>]
  /\ stored = {} /\ precious = {}

\* The pages, as addresses of their first bytes, that a region lies on.
PagesOf(r) ==
  {p \in align_floor(r.start, PAGE_SIZE) .. (align_ceil(EndOf(r), PAGE_SIZE) - 1) :
     p % PAGE_SIZE = 0}

\* The pages that thread t may touch: its blocks lie on them, its VMAs hold them.
Covered(t) ==
  UNION {VmaOf(i) \cap UNION {PagesOf(r) : r \in {r \in Range(areas[i].regions) : ~r.free}} :
           i \in {i \in DOMAIN areas : areas[i].pid = t}}

\* Pages stay precious as long as a block covers them.
Recall(touched) == precious' = {k \in touched : k[2] \in Covered(k[1])'}

-----------------------------------------------------------------------------
(* generic_malloc.c                                                        *)

\* The nearest used region behind region k, else the first region, free as it is.
prev_end(k, regions) ==
  LET used == {j \in 1..(k - 1) : ~regions[j].free}
  IN  align_ceil(EndOf(regions[IF used = {} THEN 1 ELSE Max(used)]), PAGE_SIZE)

\* Mutant: the region that follows is not looked at.
next_start_none(k, regions, address) == address + PAGE_SIZE

\* The nearest used region ahead of region k, else the last region.
next_start(k, regions, address) ==
  LET used == {j \in (k + 1)..Len(regions) : ~regions[j].free}
  IN  align_floor(regions[IF used = {} THEN Len(regions) ELSE Min(used)].start, PAGE_SIZE)

can_remove_page(address, k, regions) ==
  /\ k > 1 => prev_end(k, regions) <= address
  /\ k < Len(regions) => next_start(k, regions, address) >= address + PAGE_SIZE

\* The stored pages that go with region k of regions.
Removable(pid, kept, k, regions) ==
  {<<pid, p>> : p \in {p \in PagesOf(regions[k]) :
                         is_stored_page(pid, p, kept) /\ can_remove_page(p, k, regions)}}

\* The first area of list that get_area accepts, and the first region there.
Lookup(list, pid, address) ==
  {f \in {i \in DOMAIN list : get_area(list[i], pid, address)} \X (1..MaxRegions) :
     /\ \A j \in 1..(f[1] - 1) : ~get_area(list[j], pid, address)
     /\ f[2] \in get_region(list[f[1]], address)
     /\ \A m \in get_region(list[f[1]], address) : f[2] <= m}

remove_storage_pages(list, pid, address, kept) ==
  kept \ UNION {Removable(pid, kept, f[2], list[f[1]].regions) :
                  f \in Lookup(list, pid, address)}

\* Mutant: the pages stay mapped.
unmap_page_none(pid) == UNCHANGED mapped

unmap_page(pid) == mapped' = [mapped EXCEPT ![pid] = <<>>]

\* unmap_page(pid, 0) sends both pages to the storage.
Saved(pid) == add_stored_page(pid, Range(mapped[pid]), stored)

generic_malloc(pid, size) ==
  /\ create_region(pid, size)
  /\ unmap_page(pid) /\ stored' = Saved(pid)
  /\ Recall(precious)

\* The storage is cleared before the region goes.
generic_free(pid, address) ==
  /\ unmap_page(pid)
  /\ stored' = remove_storage_pages(areas, pid, address, Saved(pid))
  /\ IF Lookup(areas, pid, address) = {} THEN UNCHANGED vars
     ELSE remove_region(pid, address)
  /\ Recall(precious)

\* Mutant: no page leaves for the one that comes.
vm_fault_keeps(pid, p) ==
  mapped' = [mapped EXCEPT ![pid] = Append(@, p)] /\ UNCHANGED stored

\* The fault handler: the oldest of two pages leaves for the one that comes.
vm_fault(pid, p) ==
  IF Len(mapped[pid]) = 2
  THEN /\ mapped' = [mapped EXCEPT ![pid] = <<@[2], p>>]
       /\ stored' = add_stored_page(pid, {mapped[pid][1]}, stored)
  ELSE mapped' = [mapped EXCEPT ![pid] = Append(@, p)] /\ UNCHANGED stored

\* The program reads or writes page p of one of its blocks.
touch(pid, p) ==
  /\ p \in Covered(pid)
  /\ IF p \in Range(mapped[pid]) THEN UNCHANGED <<mapped, stored>>
     ELSE vm_fault(pid, p)
  /\ precious' = precious \cup {<<pid, p>>}
  /\ UNCHANGED vars

\* What is left of s without the members of set.
Without(s, set) == Chosen(s, {i \in DOMAIN s : s[i] \notin set})

\* The list when close_vma comes to the k-th region of area i.
Closing(i, k) == [areas EXCEPT ![i].regions = SubSeq(@, k, Len(@))]

\* The close handler: each region gives back its pages, then leaves the list.
close_handler(i) ==
  LET pid == areas[i].pid
  IN  /\ close_vma(i)
      /\ stored' = {s \in stored : \A k \in DOMAIN areas[i].regions :
                      s \in remove_storage_pages(Closing(i, k), pid,
                              areas[i].regions[k].start, stored)}
      /\ mapped' = [t \in Pids |-> Without(mapped[t], VmaOf(i))]
      /\ Recall(precious)

NetNext ==
  \E pid \in Pids :
    \/ \E size \in Sizes : generic_malloc(pid, size)
    \/ \E b \in Blocks : generic_free(pid, b.start)
    \/ \E p \in Covered(pid) : touch(pid, p)
    \/ \E i \in DOMAIN areas : areas[i].pid = pid /\ close_handler(i)

NetSpec == NetInit /\ [][NetNext]_allVars

-----------------------------------------------------------------------------
(* Properties.                                                             *)

\* Every variable has its type; a thread has two frames, so two pages at most
\* are mapped for it (mapped_buffer.h, src/README.md:107).
NetTypeOK ==
  /\ TypeOK
  /\ mapped \in [Pids -> Seq(Nat)] /\ \A t \in Pids : Len(mapped[t]) <= 2
  /\ stored \subseteq Pids \X Nat /\ precious \subseteq Pids \X Nat

\* A page that a thread touched is mapped or stored for as long as a block of
\* the thread lies on it: freeing a region loses no byte of its neighbours
\* (generic_malloc.c:38-79).
PagesKept ==
  \A k \in precious : k \in stored \/ k[2] \in Range(mapped[k[1]])

\* A thread reaches a mapped page only while it has a block there: netfree and
\* munmap leave no page behind in the page tables (generic_malloc.c:366-368).
MappedCovered == \A t \in Pids : Range(mapped[t]) \subseteq Covered(t)

\* The storage keeps a page only while a region needs it
\* (generic_malloc.c:38-40, 81).
StoredCovered == \A k \in stored : k[2] \in Covered(k[1])
=============================================================================
