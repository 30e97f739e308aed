------------------------------ MODULE AreaList ------------------------------
(***************************************************************************)
(* The allocator of netmalloc: src/src/area.c over src/src/vma.c, for the  *)
(* threads of one process.  Each call runs under mmap_sem and the module's *)
(* semaphore (generic_malloc.c:361, 389), so a call is one step here.      *)
(*                                                                         *)
(* An area belongs to the thread that created it (its pid_t is a thread    *)
(* id) and owns one VMA of the shared address space.  It cuts the VMA into *)
(* a list of regions, used or free, and counts its free bytes.             *)
(*                                                                         *)
(* The code's linked lists are sequences.  A VMA is named by its first     *)
(* address, which never changes, as the code names it by a pointer.        *)
(***************************************************************************)
EXTENDS Kutils, Sequences, SequencesExt

CONSTANTS
  Pids,          \* threads of the process
  PAGE_SIZE,     \* bytes in a page
  Sizes,         \* sizes asked of netmalloc
  ForeignVmas,   \* VMAs the program may map itself, as <<start, end>>
  Faults,        \* the allocations that may fail: "area", "vma", "split", "region"
  HeadFree,      \* values that the never initialised area->regions.free may hold
  MaxAreas,      \* bound: areas in the list
  MaxRegions,    \* bound: regions in an area
  MaxFreeSpace   \* bound: free_space, which the code lets drift upwards

NULL == 0

\* No VMA starts below PAGE_SIZE: get_free_space begins its scan there, and
\* mmap_min_addr keeps the program's own mappings above it.
ASSUME ConstantsAssumption ==
  /\ PAGE_SIZE \in Nat \ {0}
  /\ Sizes \subseteq Nat \ {0}
  /\ ForeignVmas \subseteq {v \in Nat \X Nat : PAGE_SIZE <= v[1] /\ v[1] < v[2]}
  /\ Faults \subseteq {"area", "vma", "split", "region"}
  /\ HeadFree \subseteq BOOLEAN /\ HeadFree # {}
  /\ MaxAreas \in Nat /\ MaxRegions \in Nat /\ MaxFreeSpace \in Nat

\* VMA_SHIFT is PAGE_SHIFT + 1.
VMA_SIZE == 2 * PAGE_SIZE

VARIABLES
  mmap,    \* mm->mmap, the list of VMAs: first address |-> end address
  areas,   \* area_list
  oops     \* the kernel followed a NULL pointer or freed a list head

vars == <<mmap, areas, oops>>

Region == [start : Nat, size : Nat, free : BOOLEAN]

\* headFree stands for area->regions.free, the flag of the list head.
Area == [pid : Pids, vma : Nat, size : Nat, free_space : Int,
         headFree : BOOLEAN, regions : Seq(Region)]

Init ==
  /\ mmap = [v \in {} |-> 0]
  /\ areas = <<>>
  /\ oops = FALSE

-----------------------------------------------------------------------------
(* Regions of an area.                                                     *)

EndOf(r) == r.start + r.size

\* Mutant: the size of the region itself instead of that of the one before.
NewRegion_size(regions, prev, size, vm_start) ==
  [start |-> IF prev = 0 THEN vm_start ELSE regions[prev].start + size,
   size  |-> size, free |-> FALSE]

\* A used region that starts where the prev-th one ends (0 is the list head).
NewRegion(regions, prev, size, vm_start) ==
  [start |-> IF prev = 0 THEN vm_start ELSE EndOf(regions[prev]),
   size  |-> size, free |-> FALSE]

add_region_after(regions, prev, size, vm_start) ==
  InsertAt(regions, prev + 1, NewRegion(regions, prev, size, vm_start))

\* Region i takes over its successor.
Absorb(regions, i) ==
  RemoveAt([regions EXCEPT ![i].size = @ + regions[i + 1].size], i + 1)

DropIfLast(regions, i) ==
  IF i = Len(regions) THEN RemoveAt(regions, i) ELSE regions

\* Mutant: the successor is absorbed be it used or free.
MergeNext_used(regions, i) ==
  IF i < Len(regions) THEN Absorb(regions, i) ELSE regions

MergeNext(regions, i) ==
  IF i < Len(regions) /\ regions[i + 1].free THEN Absorb(regions, i) ELSE regions

\* Mutant: no merge with the region before.
merge_neighbors_region_next_only(regions, i, headFree) ==
  DropIfLast(MergeNext(regions, i), i)

\* The test against the list head looks at region, not at prev: the first
\* region merges into the head when the head's flag happens to read 1.
merge_neighbors_region(regions, i, headFree) ==
  LET merged == MergeNext(regions, i)
  IN  IF i = 1 /\ headFree THEN RemoveAt(merged, 1)
      ELSE IF i > 1 /\ merged[i - 1].free THEN DropIfLast(Absorb(merged, i - 1), i - 1)
      ELSE DropIfLast(merged, i)

\* The head, left alone in the list by that merge, is unlinked and freed.
FreesListHead(regions, i, headFree) ==
  i = 1 /\ headFree /\ Len(MergeNext(regions, i)) = 1

\* Mutant: any free region will do.
FreeFits_any(regions, size) == {k \in DOMAIN regions : regions[k].free}

\* The free regions that hold size bytes; the code takes the first.
FreeFits(regions, size) ==
  {k \in DOMAIN regions : regions[k].free /\ regions[k].size >= size}

\* Region k cut to size bytes and used.
Cut(regions, k, size) == [regions EXCEPT ![k].free = FALSE, ![k].size = size]

\* Region k cut, and what is left of it free behind.
Split(regions, k, size, vm_start) ==
  LET both == add_region_after(Cut(regions, k, size), k, regions[k].size - size, vm_start)
  IN  merge_neighbors_region([both EXCEPT ![k + 1].free = TRUE], k + 1, FALSE)

-----------------------------------------------------------------------------
(* Areas and VMAs.                                                         *)

\* Mutant: free_space is not decremented.
AddLast_uncounted(a, size, failed) ==
  IF "region" \in failed THEN a
  ELSE [a EXCEPT !.regions = add_region_after(@, Len(@), size, a.vma)]

\* A region linked after the last one, wherever that ends.
AddLast(a, size, failed) ==
  IF "region" \in failed THEN a
  ELSE [a EXCEPT !.free_space = @ - size,
                 !.regions = add_region_after(@, Len(@), size, a.vma)]

\* Mutant: the part split off is taken from free_space and not given back.
add_region_twice(a, size, failed) ==
  LET fits == FreeFits(a.regions, size)
      k    == Min(fits)
  IN  IF fits = {} THEN AddLast(a, size, failed)
      ELSE IF a.regions[k].size = size THEN [a EXCEPT !.regions[k].free = FALSE]
      ELSE [a EXCEPT !.free_space = @ - a.regions[k].size,
                     !.regions = Split(@, k, size, a.vma)]

\* A free region reused as it is does not count in free_space; when the split
\* cannot be allocated, its region is left cut and another one is added.
add_region(a, size, failed) ==
  LET fits == FreeFits(a.regions, size)
      k    == Min(fits)
  IN  IF fits = {} THEN AddLast(a, size, failed)
      ELSE IF a.regions[k].size = size THEN [a EXCEPT !.regions[k].free = FALSE]
      ELSE IF "split" \in failed
        THEN AddLast([a EXCEPT !.free_space = @ - size, !.regions = Cut(@, k, size)],
                     size, failed)
      ELSE [a EXCEPT !.free_space = @ - size,
                     !.regions = Split(@, k, size, a.vma)]

\* The first gap that holds size bytes in the list of VMAs, or its end.
get_free_space(size) ==
  Min({e \in {PAGE_SIZE} \cup {mmap[v] : v \in DOMAIN mmap} :
         \A v \in DOMAIN mmap : mmap[v] > e => v - e >= size})

Mapped(s, e) ==
  [v \in DOMAIN mmap \cup {s} |-> IF v = s THEN e ELSE mmap[v]]

Unmapped(s) == [v \in DOMAIN mmap \ {s} |-> mmap[v]]

\* free_space is unsigned: below zero stands for a value close to the limit.
HasSpace(a, size) == a.free_space >= size \/ a.free_space < 0

Extra(a, size) == align_ceil(a.size + size - a.free_space, PAGE_SIZE) - a.size

\* Mutant: any byte behind the VMA will do.
CanExtend_any(a, size) ==
  \A v \in DOMAIN mmap : v > a.vma => v > mmap[a.vma]

\* Room behind the VMA, with a byte to spare, when another one follows.
CanExtend(a, size) ==
  \A v \in DOMAIN mmap : v > a.vma => v > mmap[a.vma] + Extra(a, size)

\* Mutant: the bytes gained are not counted as free.
extend_vma_free(a, size) == [a EXCEPT !.size = @ + Extra(a, size)]

\* Mutant: area->size stays what it was.
extend_vma_size(a, size) == [a EXCEPT !.free_space = @ + Extra(a, size)]

extend_vma(a, size) ==
  [a EXCEPT !.size = @ + Extra(a, size), !.free_space = @ + Extra(a, size)]

\* The scan for a container stops here, be it on a NULL vma.
Stops(a, pid, size) ==
  a.pid = pid /\ (a.vma # NULL => HasSpace(a, size) \/ CanExtend(a, size))

-----------------------------------------------------------------------------
(* create_region and remove_region.                                        *)

\* The area is extended when it must be, and the region added.
UseArea(i, size, failed) ==
  LET a    == IF HasSpace(areas[i], size) THEN areas[i] ELSE extend_vma(areas[i], size)
      used == add_region(a, size, failed)
  IN  /\ Len(used.regions) <= MaxRegions
      /\ IF HasSpace(areas[i], size) THEN UNCHANGED mmap
         ELSE mmap' = [mmap EXCEPT ![a.vma] = @ + Extra(areas[i], size)]
      /\ areas' = [areas EXCEPT ![i] = used]
      /\ UNCHANGED oops

\* A list entry whose VMA could not be created: its vm_start is read.
UseNullArea(i, size, failed) ==
  /\ oops' = (~HasSpace(areas[i], size) \/ "region" \notin failed)
  /\ UNCHANGED <<mmap, areas>>

\* The entry is linked before add_vma, and stays there when add_vma fails.
NewArea(pid, size, failed) ==
  LET bytes == align_ceil(size, VMA_SIZE)
      start == get_free_space(bytes)
  IN  /\ Len(areas) < MaxAreas
      /\ \E garbage \in HeadFree :
           LET a == [pid |-> pid, vma |-> start, size |-> bytes, free_space |-> bytes,
                     headFree |-> garbage, regions |-> <<>>]
           IN  IF "vma" \in failed
               THEN areas' = Append(areas, [a EXCEPT !.vma = NULL]) /\ UNCHANGED mmap
               ELSE /\ areas' = Append(areas, add_region(a, size, failed))
                    /\ mmap' = Mapped(start, start + bytes)
      /\ UNCHANGED oops

create_region(pid, size) ==
  /\ ~oops
  /\ \E failed \in SUBSET Faults :
       \/ \E i \in DOMAIN areas :
            /\ Stops(areas[i], pid, size)
            /\ \A j \in 1..(i - 1) : ~Stops(areas[j], pid, size)
            /\ IF areas[i].vma = NULL THEN UseNullArea(i, size, failed)
                                      ELSE UseArea(i, size, failed)
       \/ /\ \A j \in DOMAIN areas : ~Stops(areas[j], pid, size)
          /\ IF "area" \in failed THEN oops' = TRUE /\ UNCHANGED <<mmap, areas>>
                                   ELSE NewArea(pid, size, failed)

\* Mutant: the end of the VMA counts as inside.
get_area_end(a, pid, address) ==
  a.pid = pid /\ (a.vma # NULL => a.vma <= address /\ address <= mmap[a.vma])

\* get_area stops on the area that holds the address, or on a NULL vma.
get_area(a, pid, address) ==
  a.pid = pid /\ (a.vma # NULL => a.vma <= address /\ address < mmap[a.vma])

\* The regions get_region may return; it returns the first.
get_region(a, address) == {k \in DOMAIN a.regions : a.regions[k].start = address}

\* Mutant: an emptied area stays.
FreeRegion_keep(i, k) ==
  LET a  == areas[i]
      rs == merge_neighbors_region([a.regions EXCEPT ![k].free = TRUE], k, a.headFree)
  IN  /\ a.free_space + a.regions[k].size <= MaxFreeSpace
      /\ areas' = [areas EXCEPT ![i].regions = rs,
                               ![i].free_space = @ + a.regions[k].size]
      /\ UNCHANGED <<mmap, oops>>

\* An emptied area takes its VMA with it: do_munmap calls the close handler,
\* which unlinks the area.
FreeRegion(i, k) ==
  LET a  == areas[i]
      rs == merge_neighbors_region([a.regions EXCEPT ![k].free = TRUE], k, a.headFree)
  IN  /\ IF rs # <<>> \/ FreesListHead(a.regions, k, a.headFree)
         THEN /\ a.free_space + a.regions[k].size <= MaxFreeSpace
              /\ areas' = [areas EXCEPT ![i].regions = rs,
                                        ![i].free_space = @ + a.regions[k].size]
              /\ UNCHANGED mmap
         ELSE /\ areas' = RemoveAt(areas, i)
              /\ mmap' = Unmapped(a.vma)
      /\ oops' = FreesListHead(a.regions, k, a.headFree)

remove_region(pid, address) ==
  /\ ~oops
  /\ \E i \in DOMAIN areas :
       /\ get_area(areas[i], pid, address)
       /\ \A j \in 1..(i - 1) : ~get_area(areas[j], pid, address)
       /\ IF areas[i].vma = NULL THEN oops' = TRUE /\ UNCHANGED <<mmap, areas>>
          ELSE \E k \in get_region(areas[i], address) :
                 /\ \A m \in get_region(areas[i], address) : k <= m
                 /\ FreeRegion(i, k)

\* A VMA unmapped as a whole, by the program or by the exit of the process.
close_vma(i) ==
  /\ ~oops
  /\ areas[i].vma # NULL
  /\ areas' = RemoveAt(areas, i)
  /\ mmap' = Unmapped(areas[i].vma)
  /\ UNCHANGED oops

\* The program's own mmap and munmap.
ForeignMap(v) ==
  /\ ~oops
  /\ \A w \in DOMAIN mmap : mmap[w] <= v[1] \/ v[2] <= w
  /\ mmap' = Mapped(v[1], v[2])
  /\ UNCHANGED <<areas, oops>>

ForeignUnmap(v) ==
  /\ ~oops
  /\ v[1] \in DOMAIN mmap /\ \A i \in DOMAIN areas : areas[i].vma # v[1]
  /\ mmap' = Unmapped(v[1])
  /\ UNCHANGED <<areas, oops>>

-----------------------------------------------------------------------------
\* The regions handed out and not yet freed.
Blocks ==
  UNION {{[pid |-> areas[i].pid, start |-> areas[i].regions[k].start,
           size |-> areas[i].regions[k].size] :
             k \in {k \in DOMAIN areas[i].regions : ~areas[i].regions[k].free}} :
           i \in DOMAIN areas}

\* A program frees what it was given; any of its threads may.
Environment ==
  \/ \E i \in DOMAIN areas : close_vma(i)
  \/ \E v \in ForeignVmas : ForeignMap(v) \/ ForeignUnmap(v)

Next ==
  \/ \E pid \in Pids, size \in Sizes : create_region(pid, size)
  \/ \E pid \in Pids, b \in Blocks : remove_region(pid, b.start)
  \/ Environment

Spec == Init /\ [][Next]_vars

\* Programs that free in the reverse order of their allocations: each free is
\* of the last region of its area.
LifoFree(pid, i) ==
  LET regions == areas[i].regions
  IN  regions # <<>> /\ remove_region(pid, Last(regions).start)

LifoNext ==
  \/ \E pid \in Pids, size \in Sizes : create_region(pid, size)
  \/ \E i \in DOMAIN areas : LifoFree(areas[i].pid, i)
  \/ Environment

LifoSpec == Init /\ [][LifoNext]_vars

-----------------------------------------------------------------------------
(* Properties.                                                             *)

\* The bytes of the regions k in which: each as its region and its place there.
BytesOf(regions, which) == UNION {{k} \X (1..regions[k].size) : k \in which}

UsedIn(regions) == {k \in DOMAIN regions : ~regions[k].free}

UsedBytes(a) == Cardinality(BytesOf(a.regions, UsedIn(a.regions)))

VmaOf(i) == areas[i].vma .. (mmap[areas[i].vma] - 1)

\* Every variable has its type.
TypeOK ==
  /\ mmap \in [DOMAIN mmap -> Nat]
  /\ \A v \in DOMAIN mmap : v \in Nat \ {NULL} /\ v < mmap[v]
  /\ areas \in Seq(Area)
  /\ oops \in BOOLEAN

\* The regions of an area cover it without hole or overlap from vm_start on,
\* after any mix of splits, merges and reuse (area.c:38-125).
Tiled(regions, vm_start) ==
  \A k \in DOMAIN regions :
    /\ regions[k].size > 0
    /\ regions[k].start = IF k = 1 THEN vm_start ELSE EndOf(regions[k - 1])

RegionsTile == \A i \in DOMAIN areas : Tiled(areas[i].regions, areas[i].vma)

\* Free memory is kept in one piece: no two free regions follow each other,
\* and none ends the list (area.c:61-94).
Coalesced ==
  \A i \in DOMAIN areas :
    LET regions == areas[i].regions
    IN  \A k \in DOMAIN regions :
          regions[k].free => k < Len(regions) /\ ~regions[k + 1].free

\* An area has a VMA, of its size and in whole pages, and shares it with no
\* other area (area.c:145-190, src/README.md "always linked to a VMA").
AreaMatchesVma ==
  \A i \in DOMAIN areas :
    /\ areas[i].vma \in DOMAIN mmap
    /\ areas[i].size = mmap[areas[i].vma] - areas[i].vma
    /\ areas[i].size % PAGE_SIZE = 0
    /\ \A j \in DOMAIN areas : areas[i].vma = areas[j].vma => i = j

\* VMAs never overlap, the ones that grew in place and the ones squeezed into
\* a gap included (area.c:147-161, vma.c:20-34).
VmasDisjoint ==
  \A v, w \in DOMAIN mmap : v < w => mmap[v] <= w

\* free_space never says less than what is free, so no area refuses memory
\* that it has (area.c:49, 113, 119, 218).
FreeSpaceCovers ==
  \A i \in DOMAIN areas : areas[i].free_space >= areas[i].size - UsedBytes(areas[i])

\* An area lives as long as it has a region (area.c:223-226).
NoEmptyArea == \A i \in DOMAIN areas : areas[i].regions # <<>>

\* The lookups of netfree lead from the address of a region inside its VMA to
\* that region and to no other (area.c:274-298).
FreeFindsRegion ==
  \A i \in DOMAIN areas : \A k \in DOMAIN areas[i].regions :
    LET address == areas[i].regions[k].start
    IN  address \in VmaOf(i) =>
          /\ \A j \in DOMAIN areas : get_area(areas[j], areas[i].pid, address) <=> j = i
          /\ get_region(areas[i], address) = {k}

\* A malloc moves, resizes or takes back no used region; a free takes back one
\* (area.c:194-229).
LiveRegionsStable ==
  [][/\ (\E pid \in Pids, size \in Sizes : create_region(pid, size)) =>
           Blocks \subseteq Blocks'
     /\ \A pid \in Pids, b \in Blocks :
           remove_region(pid, b.start) =>
             \E c \in Blocks :
               c.start = b.start /\ Blocks' \subseteq Blocks /\ Blocks \ {c} \subseteq Blocks'
    ]_vars

\* Every used region lies inside the VMA of its area: an area said to have
\* enough free space has it (area.c:163, 173).
InBounds ==
  \A i \in DOMAIN areas : \A k \in DOMAIN areas[i].regions :
    ~areas[i].regions[k].free =>
      EndOf(areas[i].regions[k]) <= mmap[areas[i].vma]

\* Where frees come in reverse order, free_space is what lies behind the last
\* region (area.c:49, 157, 218).
FreeSpaceExact ==
  \A i \in DOMAIN areas :
    areas[i].free_space = areas[i].size - UsedBytes(areas[i])

\* The allocator implements the abstract heap.
H == INSTANCE Heap WITH blocks <- Blocks
HeapSpec == H!Spec
=============================================================================
