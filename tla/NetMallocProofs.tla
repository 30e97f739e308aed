-------------------------- MODULE NetMallocProofs --------------------------
(***************************************************************************)
(* Theorems about NetMalloc: what regions that share a page do to it.      *)
(***************************************************************************)
EXTENDS NetMalloc, RegionProofs, FiniteSetTheorems

-----------------------------------------------------------------------------
(* Numbers.                                                                *)

LEMMA MaxOfNats ==
  ASSUME NEW n \in Nat, NEW T, T \subseteq 0..n, T # {}
  PROVE  Max(T) \in T /\ \A y \in T : y <= Max(T)
<1> DEFINE U == {n - y : y \in T}
<1>1. U \subseteq Nat /\ U # {}
  <2>1. \A y \in T : n - y \in Nat
    OBVIOUS
  <2>2. PICK y : y \in T
    OBVIOUS
  <2> QED BY <2>1, <2>2
<1> HIDE DEF U
<1>2. PICK u \in U : \A y \in U : u <= y
  BY <1>1, MinOfNats
<1>3. PICK x \in T : u = n - x
  BY DEF U
<1>4. \A y \in T : n - y \in U
  BY DEF U
<1>5. \A y \in T : x >= y
  BY <1>2, <1>3, <1>4
<1>6. Max(T) \in T /\ \A y \in T : Max(T) >= y
  BY <1>5 DEF Max
<1> QED BY <1>6

LEMMA Quotient ==
  ASSUME NEW x \in Nat, NEW unit \in Nat \ {0}
  PROVE  \E q \in Nat : x = unit * q + (x % unit) /\ x % unit \in 0..(unit - 1)
<1> DEFINE q == x \div unit
<1>1. x = unit * q + (x % unit) /\ x % unit \in 0..(unit - 1) /\ q \in Int
  BY SMTT(30)
<1>2. q >= 0
  BY SMTT(30)
<1> HIDE DEF q
<1>3. q \in Nat
  BY <1>1, <1>2
<1> QED BY <1>1, <1>3, Zenon

LEMMA MultipleIs ==
  ASSUME NEW x \in Nat, NEW unit \in Nat \ {0}, x % unit = 0
  PROVE  \E q \in Nat : x = unit * q
<1>1. PICK q \in Nat : x = unit * q + (x % unit)
  BY Quotient
<1>2. unit * q \in Nat
  OBVIOUS
<1>3. x = unit * q
  BY <1>1, <1>2
<1> QED BY <1>3

LEMMA MultipleSum ==
  ASSUME NEW unit \in Nat \ {0}, NEW x \in Nat, NEW y \in Nat, x % unit = 0, y % unit = 0
  PROVE  (x + y) % unit = 0
<1>1. PICK p \in Nat : x = unit * p
  BY MultipleIs
<1>2. PICK q \in Nat : y = unit * q
  BY MultipleIs
<1>3. x + y = unit * (p + q)
  BY <1>1, <1>2
<1>4. (unit * (p + q)) % unit = 0
  OBVIOUS
<1> QED BY <1>3, <1>4, Zenon

LEMMA FloorBounds ==
  ASSUME NEW x \in Nat, NEW unit \in Nat \ {0}
  PROVE  align_floor(x, unit) \in Nat /\ align_floor(x, unit) <= x /\ x < align_floor(x, unit) + unit
BY Quotient DEF align_floor

\* align_floor is the last multiple up to x.
LEMMA FloorLast ==
  ASSUME NEW unit \in Nat \ {0}, NEW x \in Nat, NEW m \in Nat, m % unit = 0, m <= x
  PROVE  m <= align_floor(x, unit)
<1>1. PICK p \in Nat : m = unit * p
  BY MultipleIs
<1> DEFINE f == align_floor(x, unit)
<1>2. f \in Nat /\ f % unit = 0 /\ x < f + unit
  BY FloorBounds, FloorMultiple
<1> HIDE DEF f
<1>3. PICK q \in Nat : f = unit * q
  BY <1>2, MultipleIs
<1>4. unit * p < unit * (q + 1)
  <2>1. unit * (q + 1) = unit * q + unit
    OBVIOUS
  <2> QED BY <1>1, <1>2, <1>3, <2>1
<1>5. p < q + 1
  BY <1>4
<1>6. unit * p <= unit * q
  BY <1>5
<1> QED BY <1>1, <1>3, <1>6 DEF f

\* align_ceil is the first multiple from x on.
LEMMA CeilFirst ==
  ASSUME NEW unit \in Nat \ {0}, NEW x \in Nat, NEW m \in Nat, m % unit = 0, x <= m
  PROVE  align_ceil(x, unit) <= m
<1>1. CASE x % unit = 0
  BY <1>1 DEF align_ceil
<1>2. CASE x % unit # 0
  <2> DEFINE c == align_floor(x + unit, unit)
  <2>1. align_ceil(x, unit) = c
    BY <1>2 DEF align_ceil
  <2>2. c \in Nat /\ c % unit = 0 /\ c <= x + unit
    <3>1. x + unit \in Nat
      OBVIOUS
    <3> QED BY <3>1, FloorBounds, FloorMultiple
  <2>3. x # m
    BY <1>2
  <2> HIDE DEF c
  <2>4. PICK p \in Nat : m = unit * p
    BY MultipleIs
  <2>5. PICK q \in Nat : c = unit * q
    BY <2>2, MultipleIs
  <2>6. unit * (p + 1) = unit * p + unit
    OBVIOUS
  <2>7. unit * q < unit * (p + 1)
    BY <2>2, <2>3, <2>4, <2>5, <2>6
  <2>8. q < p + 1
    BY <2>7
  <2>9. unit * q <= unit * p
    BY <2>8
  <2> QED BY <2>1, <2>4, <2>5, <2>9
<1> QED BY <1>1, <1>2

-----------------------------------------------------------------------------
(* The address space of NetMalloc: no program maps VMAs of its own.        *)

\* VMAs are whole pages.
Pages == \A v \in DOMAIN mmap : v % PAGE_SIZE = 0 /\ mmap[v] % PAGE_SIZE = 0

OnePiece == \A i \in DOMAIN areas : CoalescedList(areas[i].regions)

\* What the allocator keeps.
AreasInv == TileInv /\ MatchInv /\ OnePiece /\ Pages

\* What a malloc does to the areas that there are.
LEMMA CreateKeepsAreas ==
  ASSUME MatchInv, NEW pid \in Pids, NEW size \in Sizes, create_region(pid, size)
  PROVE  /\ \A i \in DOMAIN areas : \E j \in DOMAIN areas' :
              /\ areas'[j].pid = areas[i].pid /\ areas'[j].vma = areas[i].vma
              /\ UsedOf(areas[i].regions) \subseteq UsedOf(areas'[j].regions)
         /\ \A v \in DOMAIN mmap : v \in DOMAIN mmap' /\ mmap[v] <= mmap'[v]
<1> DEFINE Kept == \A i \in DOMAIN areas : \E j \in DOMAIN areas' :
                     /\ areas'[j].pid = areas[i].pid /\ areas'[j].vma = areas[i].vma
                     /\ UsedOf(areas[i].regions) \subseteq UsedOf(areas'[j].regions)
           Grown == \A v \in DOMAIN mmap : v \in DOMAIN mmap' /\ mmap[v] <= mmap'[v]
<1> SUFFICES Kept /\ Grown
  OBVIOUS
<1>1. /\ size \in Nat \ {0} /\ VmaInv /\ MmapInv /\ areas \in Seq(Area)
      /\ mmap \in [DOMAIN mmap -> Nat]
  BY ConstantsAssumption DEF MatchInv, VmaInv, MmapInv
<1>2. PICK failed \in SUBSET Faults :
        \/ UNCHANGED <<mmap, areas>>
        \/ \E i \in DOMAIN areas : UseArea(i, size, failed)
        \/ NewArea(pid, size, failed)
  BY DEF create_region, UseNullArea
<1>3. CASE UNCHANGED <<mmap, areas>>
  BY <1>1, <1>3
<1>4. ASSUME NEW i \in DOMAIN areas, UseArea(i, size, failed)
      PROVE  Kept /\ Grown
  <2> DEFINE a == IF HasSpace(areas[i], size) THEN areas[i] ELSE extend_vma(areas[i], size)
             new == add_region(a, size, failed)
  <2>1. areas[i] \in Area
    BY <1>1, AreaListDomain
  <2>2. /\ a \in Area /\ a.vma = areas[i].vma /\ a.pid = areas[i].pid
        /\ a.regions = areas[i].regions
    BY <1>1, <2>1, ExtendKeeps DEF extend_vma, Area
  <2>3. areas' = [areas EXCEPT ![i] = new]
    BY <1>4 DEF UseArea
  <2> HIDE DEF a
  <2>4. new.vma = a.vma /\ new.pid = a.pid /\ UsedOf(a.regions) \subseteq UsedOf(new.regions)
    BY <1>1, <2>2, AddRegionKeeps, AddRegionGrows DEF Grows
  <2> HIDE DEF new
  <2>5. Kept
    BY <2>2, <2>3, <2>4
  <2>6. Grown
    <3>1. CASE HasSpace(areas[i], size)
      <4>1. mmap' = mmap
        BY <1>4, <3>1 DEF UseArea
      <4> QED BY <1>1, <4>1
    <3>2. CASE ~HasSpace(areas[i], size)
      <4>1. Extra(areas[i], size) \in Nat
        BY <1>1, <2>1, <3>2, ExtendKeeps
      <4>2. mmap' = [mmap EXCEPT ![a.vma] = @ + Extra(areas[i], size)]
        BY <1>4, <3>2 DEF UseArea, a
      <4> QED BY <1>1, <4>1, <4>2
    <3> QED BY <3>1, <3>2
  <2> QED BY <2>5, <2>6
<1>5. CASE NewArea(pid, size, failed)
  <2>1. PICK new \in Area : areas' = Append(areas, new)
    BY <1>1, <1>5, NewAreaLists
  <2>2. Kept
    BY <1>1, <2>1, AppendedIs
  <2>3. Grown
    <3> DEFINE bytes == align_ceil(size, VMA_SIZE)
               start == get_free_space(bytes)
    <3>1. VMA_SIZE \in Nat \ {0} /\ size \in Nat
      BY <1>1, ConstantsAssumption DEF VMA_SIZE
    <3>2. bytes \in Nat \ {0}
      BY <1>1, <3>1, AlignCeil
    <3> HIDE DEF bytes
    <3>3. start \notin DOMAIN mmap
      <4>1. start \in Nat /\ \A v \in DOMAIN mmap : mmap[v] > start => v - start >= bytes
        BY <1>1, <3>2, FreeSpaceProperties
      <4>2. \A v \in DOMAIN mmap : v \in Nat /\ mmap[v] \in Nat /\ v < mmap[v]
        BY <1>1 DEF MmapInv
      <4> HIDE DEF start
      <4> QED BY <3>2, <4>1, <4>2
    <3>4. mmap' = mmap \/ mmap' = Mapped(start, start + bytes)
      BY <1>5 DEF NewArea, bytes
    <3> HIDE DEF start
    <3> QED BY <1>1, <3>3, <3>4 DEF Mapped
  <2> QED BY <2>2, <2>3
<1> HIDE DEF Kept, Grown
<1> QED BY <1>2, <1>3, <1>4, <1>5

\* A VMA that a malloc makes or grows has whole pages.
LEMMA CreatePages ==
  ASSUME MatchInv, AreaMatchesVma', MmapInv', Pages, NEW pid \in Pids, NEW size \in Sizes,
         create_region(pid, size)
  PROVE  Pages'
<1>1. /\ size \in Nat \ {0} /\ VmaInv /\ MmapInv /\ areas \in Seq(Area)
      /\ mmap \in [DOMAIN mmap -> Nat] /\ PAGE_SIZE \in Nat \ {0}
  BY ConstantsAssumption DEF MatchInv, VmaInv, MmapInv
\* The VMA of an area has whole pages once its start is aligned.
<1>2. ASSUME NEW j \in DOMAIN areas', areas'[j].vma % PAGE_SIZE = 0
      PROVE  mmap'[areas'[j].vma] % PAGE_SIZE = 0
  <2> DEFINE v == areas'[j].vma
             s == areas'[j].size
             e == mmap'[v]
  <2>1. v \in DOMAIN mmap' /\ s = e - v /\ s % PAGE_SIZE = 0
    BY DEF AreaMatchesVma
  <2>2. v \in Nat /\ e \in Nat /\ v < e
    BY <2>1 DEF MmapInv
  <2>3. v % PAGE_SIZE = 0
    BY <1>2
  <2> HIDE DEF v, s, e
  <2>4. s \in Nat /\ e = v + s
    BY <2>1, <2>2
  <2>5. e % PAGE_SIZE = 0
    BY <1>1, <2>1, <2>2, <2>3, <2>4, MultipleSum
  <2> QED BY <2>5 DEF v, e
<1>3. PICK failed \in SUBSET Faults :
        \/ UNCHANGED mmap
        \/ \E i \in DOMAIN areas : UseArea(i, size, failed)
        \/ NewArea(pid, size, failed)
  BY DEF create_region, UseNullArea
<1>4. CASE UNCHANGED mmap
  BY <1>4 DEF Pages
<1>5. ASSUME NEW i \in DOMAIN areas, UseArea(i, size, failed)
      PROVE  Pages'
  <2> DEFINE a == IF HasSpace(areas[i], size) THEN areas[i] ELSE extend_vma(areas[i], size)
             vma == areas[i].vma
  <2>1. vma \in DOMAIN mmap /\ vma % PAGE_SIZE = 0 /\ areas[i] \in Area
    BY <1>1, AreaListDomain DEF MatchInv, AreaMatchesVma, Pages
  <2>2. a \in Area /\ a.vma = vma
    BY <1>1, <2>1, ExtendKeeps
  <2>3. areas' = [areas EXCEPT ![i] = add_region(a, size, failed)]
    BY <1>5 DEF UseArea
  <2>4. mmap' = mmap \/ mmap' = [mmap EXCEPT ![vma] = @ + Extra(areas[i], size)]
    <3>1. a.vma = vma
      BY <2>2
    <3> QED BY <1>5, <3>1 DEF UseArea
  <2> HIDE DEF a, vma
  <2>5. areas'[i].vma = vma /\ i \in DOMAIN areas'
    BY <1>1, <2>2, <2>3, AddRegionKeeps
  <2>6. mmap'[vma] % PAGE_SIZE = 0
    BY <1>2, <2>1, <2>5
  <2> QED BY <1>1, <2>1, <2>4, <2>6 DEF Pages
<1>6. CASE NewArea(pid, size, failed)
  <2> DEFINE bytes == align_ceil(size, VMA_SIZE)
             start == get_free_space(bytes)
  <2>1. VMA_SIZE \in Nat \ {0} /\ size \in Nat
    BY <1>1 DEF VMA_SIZE
  <2>2. bytes \in Nat \ {0} /\ bytes % PAGE_SIZE = 0
    BY <1>1, <2>1, AlignCeil, AlignCeilMultiple DEF VMA_SIZE
  <2>3. mmap' = mmap \/ mmap' = Mapped(start, start + bytes)
    BY <1>6 DEF NewArea
  <2> HIDE DEF bytes
  <2>4. start \in Nat /\ start % PAGE_SIZE = 0
    <3>1. /\ start \in Nat
          /\ start = PAGE_SIZE \/ \E v \in DOMAIN mmap : start = mmap[v]
      BY <1>1, <2>2, FreeSpaceProperties
    <3>2. PAGE_SIZE % PAGE_SIZE = 0
      BY <1>1
    <3> QED BY <3>1, <3>2 DEF Pages
  <2> HIDE DEF start
  <2>5. (start + bytes) % PAGE_SIZE = 0
    BY <1>1, <2>2, <2>4, MultipleSum
  <2> QED BY <2>3, <2>4, <2>5 DEF Pages, Mapped
<1> QED BY <1>3, <1>4, <1>5, <1>6

\* What the calls do to the areas.
LEMMA NetIsNext ==
  ASSUME [NetNext]_allVars
  PROVE  /\ [Next]_vars
         /\ \/ UNCHANGED mmap
            \/ \E pid \in Pids, size \in Sizes : create_region(pid, size)
            \/ \E v : mmap' = Unmapped(v)
<1>1. CASE UNCHANGED allVars
  BY <1>1 DEF allVars, vars
<1>2. ASSUME NEW pid \in Pids, NEW size \in Sizes, generic_malloc(pid, size)
      PROVE  create_region(pid, size) /\ Next
  BY <1>2 DEF generic_malloc, Next
<1>3. ASSUME NEW pid \in Pids, NEW b \in Blocks, generic_free(pid, b.start)
      PROVE  /\ [Next]_vars
             /\ UNCHANGED mmap \/ \E v : mmap' = Unmapped(v)
  <2>1. UNCHANGED vars \/ remove_region(pid, b.start)
    BY <1>3 DEF generic_free
  <2>2. remove_region(pid, b.start) => UNCHANGED mmap \/ \E v : mmap' = Unmapped(v)
    BY DEF remove_region, FreeRegion
  <2> QED BY <2>1, <2>2 DEF Next, vars
<1>4. ASSUME NEW pid \in Pids, NEW p \in Covered(pid), touch(pid, p)
      PROVE  UNCHANGED vars
  BY <1>4 DEF touch
<1>5. ASSUME NEW i \in DOMAIN areas, close_handler(i)
      PROVE  Next /\ \E v : mmap' = Unmapped(v)
  BY <1>5 DEF close_handler, close_vma, Next, Environment
<1> QED BY <1>1, <1>2, <1>3, <1>4, <1>5 DEF NetNext, vars

LEMMA AreasInvNext == AreasInv /\ [NetNext]_allVars => AreasInv'
<1> SUFFICES ASSUME AreasInv, [NetNext]_allVars PROVE AreasInv'
  OBVIOUS
<1>1. [Next]_vars
  BY NetIsNext
<1>2. /\ "split" \notin Faults /\ "vma" \notin Faults /\ TRUE \notin HeadFree
  BY NoFaults
<1>3. TileInv'
  BY <1>1, <1>2, TileInvNext DEF AreasInv
<1>4. MatchInv'
  BY <1>1, <1>2, MatchInvNext DEF AreasInv
<1>5. OnePiece'
  <2>1. CoalescedList(<<>>)
    BY DEF CoalescedList
  <2>2. ASSUME NEW j \in DOMAIN areas' PROVE CoalescedList(areas'[j].regions)
    BY <1>1, <2>1, StepLists DEF AreasInv, OnePiece, TileInv, Grows
  <2> QED BY <2>2 DEF OnePiece
<1>6. Pages'
  <2>1. ASSUME NEW v, mmap' = Unmapped(v) PROVE Pages'
    BY <2>1 DEF AreasInv, Pages, Unmapped
  <2>2. ASSUME NEW pid \in Pids, NEW size \in Sizes, create_region(pid, size) PROVE Pages'
    BY <1>4, <2>2, CreatePages DEF AreasInv, MatchInv, VmaInv
  <2> QED BY <2>1, <2>2, NetIsNext DEF AreasInv, Pages
<1> QED BY <1>3, <1>4, <1>5, <1>6 DEF AreasInv

LEMMA AreasInvInit == NetInit => AreasInv
<1> SUFFICES ASSUME NetInit PROVE AreasInv
  OBVIOUS
<1>1. Init
  BY DEF NetInit
<1> QED BY <1>1, VmaInvInit DEF Init, AreasInv, TileInv, MatchInv, AreaMatchesVma, OnePiece, Pages

-----------------------------------------------------------------------------
(* The mapped pages of a thread: two at most.                              *)

LEMMA CardUpTo2 ==
  /\ Cardinality({}) = 0
  /\ \A x : Cardinality({x}) = 1
  /\ Cardinality({1, 2}) = 2
<1>1. Cardinality({1} \cup {2}) = Cardinality({1}) + 1
  <2>1. IsFiniteSet({1})
    BY FS_Singleton
  <2>2. 2 \notin {1}
    OBVIOUS
  <2> QED BY <2>1, <2>2, FS_AddElement
<1>2. {1} \cup {2} = {1, 2}
  OBVIOUS
<1>3. \A x : Cardinality({x}) = 1
  BY FS_Singleton
<1>4. Cardinality({1, 2}) = Cardinality({1}) + 1
  BY <1>1, <1>2, Zenon
<1>5. Cardinality({1}) = 1
  BY <1>3
<1>6. Cardinality({1, 2}) = 2
  BY <1>4, <1>5
<1>7. Cardinality({}) = 0
  BY FS_EmptySet
<1> QED BY <1>3, <1>6, <1>7

LEMMA WithoutIs ==
  ASSUME NEW S, NEW s \in Seq(S), Len(s) <= 2, NEW set
  PROVE  /\ Without(s, set) \in Seq(S) /\ Len(Without(s, set)) <= 2
         /\ Range(Without(s, set)) = Range(s) \ set
<1> DEFINE left == {i \in DOMAIN s : s[i] \notin set}
           below(i) == {j \in left : j <= i}
           nth(n) == CHOOSE i \in left : Cardinality(below(i)) = n
           N == Cardinality(left)
<1>1. Len(s) \in 0..2 /\ DOMAIN s = 1..Len(s) /\ \A i \in DOMAIN s : s[i] \in S
  <2>1. Len(s) \in Nat /\ DOMAIN s = 1..Len(s)
    BY LenProperties
  <2>2. \A i \in 1..Len(s) : s[i] \in S
    BY ElementOfSeq
  <2> QED BY <2>1, <2>2
<1>2. left = {} \/ left = {1} \/ left = {2} \/ left = {1, 2}
  <2>1. left \subseteq {1, 2}
    BY <1>1
  <2> HIDE DEF left
  <2> QED BY <2>1
<1>3. N \in 0..2 /\ {nth(n) : n \in 1..N} = left
  <2> HIDE DEF left
  <2>1. CASE left = {}
    <3>1. N = 0
      BY <2>1, CardUpTo2
    <3> QED BY <2>1, <3>1
  <2>2. ASSUME NEW x \in {1, 2}, left = {x}
        PROVE  N \in 0..2 /\ {nth(n) : n \in 1..N} = left
    <3>1. N = 1
      BY <2>2, CardUpTo2
    <3>2. below(x) = {x}
      BY <2>2
    <3>3. Cardinality(below(x)) = 1
      BY <3>2, CardUpTo2
    <3>4. nth(1) = x
      <4> HIDE DEF below
      <4> QED BY <2>2, <3>3
    <3> HIDE DEF nth, N
    <3>5. 1..N = {1}
      BY <3>1
    <3> QED BY <2>2, <3>1, <3>4, <3>5
  <2>3. CASE left = {1, 2}
    <3>1. N = 2
      BY <2>3, CardUpTo2
    <3>2. below(1) = {1} /\ below(2) = {1, 2}
      BY <2>3
    <3>3. Cardinality(below(1)) = 1 /\ Cardinality(below(2)) = 2
      BY <3>2, CardUpTo2
    <3>4. nth(1) = 1 /\ nth(2) = 2
      <4> HIDE DEF below
      <4> QED BY <2>3, <3>3
    <3> HIDE DEF nth, N
    <3>5. 1..N = {1, 2}
      BY <3>1
    <3> QED BY <2>3, <3>1, <3>4, <3>5
  <2> QED BY <1>2, <2>1, <2>2, <2>3
<1>4. Without(s, set) = [n \in 1..N |-> s[nth(n)]]
  BY DEF Without, Chosen
<1> HIDE DEF N, nth
<1> DEFINE t == Without(s, set)
<1>5. t \in [1..N -> S]
  BY <1>1, <1>3, <1>4
<1>6. t \in Seq(S) /\ Len(t) = N /\ DOMAIN t = 1..N
  <2>1. N \in Nat
    BY <1>3
  <2> HIDE DEF t
  <2> QED BY <1>5, <2>1, SeqDef, LenProperties
<1>7. Range(t) = {s[i] : i \in left}
  BY <1>3, <1>4 DEF Range
<1>8. {s[i] : i \in left} = Range(s) \ set
  BY DEF Range
<1> QED BY <1>3, <1>6, <1>7, <1>8

-----------------------------------------------------------------------------
(* The pages that the blocks of a thread cover.                            *)

\* Area a, whose VMA m has, holds page p for one of its regions in use.
Covers(a, m, p) ==
  /\ p \in a.vma .. (m[a.vma] - 1)
  /\ \E r \in UsedOf(a.regions) : p \in PagesOf(r)

LEMMA CoveredOfList ==
  ASSUME NEW list \in Seq(Area), NEW m, NEW t, NEW p
  PROVE  p \in UNION {(list[i].vma .. (m[list[i].vma] - 1))
                        \cap UNION {PagesOf(r) : r \in {r \in Range(list[i].regions) : ~r.free}} :
                      i \in {i \in DOMAIN list : list[i].pid = t}}
           <=> \E i \in DOMAIN list : list[i].pid = t /\ Covers(list[i], m, p)
<1>1. ASSUME NEW i \in DOMAIN list
      PROVE  {r \in Range(list[i].regions) : ~r.free} = UsedOf(list[i].regions)
  <2>1. list[i].regions \in Seq(Region)
    <3>1. list[i] \in Area
      BY LenProperties, ElementOfSeq
    <3> QED BY <3>1 DEF Area
  <2>2. DOMAIN list[i].regions = 1..Len(list[i].regions)
    BY <2>1, RegionListDomain
  <2> QED BY <2>2 DEF Range, UsedOf
<1> QED BY <1>1 DEF Covers

LEMMA CoveredIs ==
  ASSUME VmaInv, NEW t, NEW p
  PROVE  p \in Covered(t) <=> \E i \in DOMAIN areas : areas[i].pid = t /\ Covers(areas[i], mmap, p)
<1>1. areas \in Seq(Area)
  BY DEF VmaInv
<1> QED BY <1>1, CoveredOfList DEF Covered, VmaOf

LEMMA CoveredNextIs ==
  ASSUME VmaInv', NEW t, NEW p
  PROVE  p \in Covered(t)' <=> \E i \in DOMAIN areas' : areas'[i].pid = t /\ Covers(areas'[i], mmap', p)
<1>1. areas' \in Seq(Area)
  BY DEF VmaInv
<1> QED BY <1>1, CoveredOfList DEF Covered, VmaOf

LEMMA CoveredNat ==
  ASSUME NEW t, NEW p \in Covered(t), VmaInv
  PROVE  p \in Nat /\ t \in Pids
<1>1. PICK i \in DOMAIN areas : areas[i].pid = t /\ Covers(areas[i], mmap, p)
  BY CoveredIs
<1>2. areas[i] \in Area /\ areas[i].vma \in Nat
  BY AreaListDomain DEF VmaInv
<1>3. p \in Int /\ areas[i].vma <= p
  BY <1>1 DEF Covers
<1>4. areas[i].pid \in Pids
  BY <1>2 DEF Area
<1> QED BY <1>1, <1>2, <1>3, <1>4

\* A malloc takes back no page.
LEMMA CreateCovers ==
  ASSUME AreasInv, AreasInv', NEW pid \in Pids, NEW size \in Sizes, create_region(pid, size),
         NEW t, NEW p \in Covered(t)
  PROVE  p \in Covered(t)'
<1>1. VmaInv /\ VmaInv' /\ MmapInv /\ MmapInv' /\ MatchInv
  BY DEF AreasInv, MatchInv, VmaInv
<1>2. PICK i \in DOMAIN areas : areas[i].pid = t /\ Covers(areas[i], mmap, p)
  BY <1>1, CoveredIs
<1>3. PICK j \in DOMAIN areas' :
        /\ areas'[j].pid = areas[i].pid /\ areas'[j].vma = areas[i].vma
        /\ UsedOf(areas[i].regions) \subseteq UsedOf(areas'[j].regions)
  BY <1>1, CreateKeepsAreas
<1> DEFINE v == areas[i].vma
<1>4. v \in DOMAIN mmap /\ v \in DOMAIN mmap' /\ mmap[v] <= mmap'[v]
  BY <1>1, CreateKeepsAreas DEF MatchInv, AreaMatchesVma
<1>5. mmap[v] \in Nat /\ mmap'[v] \in Nat /\ v \in Nat
  BY <1>1, <1>4 DEF MmapInv
<1>6. p \in v .. (mmap[v] - 1)
  BY <1>2 DEF Covers
<1> HIDE DEF v
<1>7. p \in v .. (mmap'[v] - 1)
  BY <1>4, <1>5, <1>6
<1>8. Covers(areas'[j], mmap', p)
  BY <1>2, <1>3, <1>7 DEF Covers, v
<1> QED BY <1>1, <1>2, <1>3, <1>8, CoveredNextIs

\* A region freed leaves what the other ones cover.
LEMMA FreeCovers ==
  ASSUME AreasInv, AreasInv', NEW i \in DOMAIN areas, NEW k \in DOMAIN areas[i].regions,
         FreeRegion(i, k), NEW t, NEW p
  PROVE  /\ t # areas[i].pid /\ p \in Covered(t) => p \in Covered(t)'
         /\ p \in Covered(t)' =>
              \E j \in DOMAIN areas :
                /\ areas[j].pid = t /\ p \in VmaOf(j)
                /\ \E r \in IF j = i THEN UsedBut(areas[i].regions, k) ELSE UsedOf(areas[j].regions) :
                     p \in PagesOf(r)
<1>1. VmaInv /\ VmaInv' /\ AreaMatchesVma
  BY DEF AreasInv, MatchInv
<1>2. /\ p \in Covered(t) <=>
           \E j \in DOMAIN areas : areas[j].pid = t /\ Covers(areas[j], mmap, p)
      /\ p \in Covered(t)' <=>
           \E j \in DOMAIN areas' : areas'[j].pid = t /\ Covers(areas'[j], mmap', p)
  BY <1>1, CoveredIs, CoveredNextIs
<1>3. CASE areas' = RemoveAt(areas, i) /\ mmap' = Unmapped(areas[i].vma)
  <2>1. \A j \in DOMAIN areas : j # i => mmap'[areas[j].vma] = mmap[areas[j].vma]
    BY <1>1, <1>3 DEF Unmapped, AreaMatchesVma
  <2>2. \A j \in DOMAIN areas : j # i => (Covers(areas[j], mmap', p) <=> Covers(areas[j], mmap, p))
    BY <2>1 DEF Covers
  <2>3. /\ \A j \in DOMAIN areas' : \E m \in DOMAIN areas : m # i /\ areas'[j] = areas[m]
        /\ \A m \in DOMAIN areas : m # i => \E j \in DOMAIN areas' : areas'[j] = areas[m]
    BY <1>1, <1>3, RemovedIs
  <2>4. t # areas[i].pid /\ p \in Covered(t) => p \in Covered(t)'
    BY <1>2, <2>2, <2>3
  <2>5. ASSUME p \in Covered(t)'
        PROVE  \E j \in DOMAIN areas : j # i /\ areas[j].pid = t /\ Covers(areas[j], mmap, p)
    BY <1>2, <2>2, <2>3, <2>5
  <2> QED BY <2>4, <2>5 DEF Covers, VmaOf
<1>4. CASE UNCHANGED mmap /\ \E new \in Area :
             /\ areas' = [areas EXCEPT ![i] = new] /\ new.pid = areas[i].pid
             /\ new.vma = areas[i].vma /\ UsedOf(new.regions) = UsedBut(areas[i].regions, k)
  <2>1. PICK new \in Area :
             /\ areas' = [areas EXCEPT ![i] = new] /\ new.pid = areas[i].pid
             /\ new.vma = areas[i].vma /\ UsedOf(new.regions) = UsedBut(areas[i].regions, k)
    BY <1>4
  <2>2. /\ DOMAIN areas' = DOMAIN areas /\ areas'[i] = new
        /\ \A j \in DOMAIN areas : j # i => areas'[j] = areas[j]
    BY <2>1
  <2>3. mmap' = mmap
    BY <1>4
  <2>4. t # areas[i].pid /\ p \in Covered(t) => p \in Covered(t)'
    BY <1>2, <2>1, <2>2, <2>3
  <2>5. ASSUME p \in Covered(t)'
        PROVE  \E j \in DOMAIN areas :
                /\ areas[j].pid = t /\ p \in VmaOf(j)
                /\ \E r \in IF j = i THEN UsedBut(areas[i].regions, k) ELSE UsedOf(areas[j].regions) :
                     p \in PagesOf(r)
    <3>1. PICK j \in DOMAIN areas : areas'[j].pid = t /\ Covers(areas'[j], mmap, p)
      BY <1>2, <2>2, <2>3, <2>5
    <3>2. areas[j].pid = t /\ areas'[j].vma = areas[j].vma
      BY <2>1, <2>2, <3>1
    <3>3. p \in VmaOf(j)
      BY <3>1, <3>2 DEF Covers, VmaOf
    <3>4. UsedOf(areas'[j].regions) =
            IF j = i THEN UsedBut(areas[i].regions, k) ELSE UsedOf(areas[j].regions)
      BY <2>1, <2>2
    <3>5. \E r \in UsedOf(areas'[j].regions) : p \in PagesOf(r)
      BY <3>1 DEF Covers
    <3> QED BY <3>2, <3>3, <3>4, <3>5
  <2> QED BY <2>4, <2>5
<1>5. QED
  <2> DEFINE rs == merge_neighbors_region([areas[i].regions EXCEPT ![k].free = TRUE], k,
                                          areas[i].headFree)
             space == areas[i].free_space + areas[i].regions[k].size
             b == [[areas[i] EXCEPT !.regions = rs] EXCEPT !.free_space = space]
  <2>1. areas[i] \in Area /\ areas[i].headFree \in BOOLEAN /\ areas[i].regions \in Seq(Region)
        /\ k \in 1..Len(areas[i].regions)
    BY <1>1, AreaListDomain, RegionListDomain DEF VmaInv
  <2>2. UsedOf(rs) = UsedBut(areas[i].regions, k)
    BY <2>1, FreedUsed
  <2>3. \/ areas' = RemoveAt(areas, i) /\ mmap' = Unmapped(areas[i].vma)
        \/ UNCHANGED mmap /\ areas' = [areas EXCEPT ![i].regions = rs, ![i].free_space = space]
    BY DEF FreeRegion
  <2> HIDE DEF rs, space
  <2>4. CASE UNCHANGED mmap /\ areas' = [areas EXCEPT ![i].regions = rs, ![i].free_space = space]
    <3>1. areas' = [areas EXCEPT ![i] = b]
      BY <2>1, <2>4 DEF Area
    <3>2. b.pid = areas[i].pid /\ b.vma = areas[i].vma /\ b.regions = rs
      BY <2>1 DEF Area
    <3> HIDE DEF b
    <3>3. b \in Area
      <4>1. areas' \in Seq(Area) /\ i \in DOMAIN areas'
        BY <1>1, <3>1 DEF VmaInv
      <4>2. areas'[i] \in Area
        BY <4>1, LenProperties, ElementOfSeq
      <4> QED BY <3>1, <4>2
    <3> QED BY <1>4, <2>2, <2>4, <3>1, <3>2, <3>3
  <2> QED BY <1>3, <2>3, <2>4

LEMMA VmasApart ==
  ASSUME MatchInv, NEW i \in DOMAIN areas, NEW j \in DOMAIN areas,
         NEW p, p \in VmaOf(i), p \in VmaOf(j)
  PROVE  i = j
<1>1. /\ areas[i].vma \in Nat /\ areas[j].vma \in Nat
      /\ mmap[areas[i].vma] \in Nat /\ mmap[areas[j].vma] \in Nat
  BY DEF MatchInv, AreaMatchesVma, VmaInv, MmapInv
<1>2. /\ p \in Nat /\ areas[i].vma <= p /\ p < mmap[areas[i].vma]
      /\ areas[j].vma <= p /\ p < mmap[areas[j].vma]
  BY <1>1 DEF VmaOf
<1> QED BY <1>2, OneAreaAt

\* A VMA unmapped leaves what the other ones cover.
LEMMA CloseCovers ==
  ASSUME AreasInv, AreasInv', NEW i \in DOMAIN areas, close_vma(i), NEW t, NEW p
  PROVE  /\ p \in Covered(t) /\ p \notin VmaOf(i) => p \in Covered(t)'
         /\ p \in Covered(t)' =>
              \E j \in DOMAIN areas : j # i /\ p \in VmaOf(j)
<1>1. VmaInv /\ VmaInv' /\ AreaMatchesVma
  BY DEF AreasInv, MatchInv
<1>2. /\ p \in Covered(t) <=>
           \E j \in DOMAIN areas : areas[j].pid = t /\ Covers(areas[j], mmap, p)
      /\ p \in Covered(t)' <=>
           \E j \in DOMAIN areas' : areas'[j].pid = t /\ Covers(areas'[j], mmap', p)
  BY <1>1, CoveredIs, CoveredNextIs
<1>3. areas' = RemoveAt(areas, i) /\ mmap' = Unmapped(areas[i].vma)
  BY DEF close_vma
<1>4. \A j \in DOMAIN areas : j # i => mmap'[areas[j].vma] = mmap[areas[j].vma]
  BY <1>1, <1>3 DEF Unmapped, AreaMatchesVma
<1>5. \A j \in DOMAIN areas : j # i => (Covers(areas[j], mmap', p) <=> Covers(areas[j], mmap, p))
  BY <1>4 DEF Covers
<1>6. /\ \A j \in DOMAIN areas' : \E m \in DOMAIN areas : m # i /\ areas'[j] = areas[m]
      /\ \A m \in DOMAIN areas : m # i => \E j \in DOMAIN areas' : areas'[j] = areas[m]
  BY <1>1, <1>3, RemovedIs
<1>7. p \in Covered(t) /\ p \notin VmaOf(i) => p \in Covered(t)'
  <2>1. \A j \in DOMAIN areas : Covers(areas[j], mmap, p) => p \in VmaOf(j)
    BY DEF Covers, VmaOf
  <2> QED BY <1>2, <1>5, <1>6, <2>1
<1>8. ASSUME p \in Covered(t)'
      PROVE  \E j \in DOMAIN areas : j # i /\ Covers(areas[j], mmap, p)
  BY <1>2, <1>5, <1>6, <1>8
<1> QED BY <1>7, <1>8 DEF Covers, VmaOf

-----------------------------------------------------------------------------
(* The pages that can_remove_page lets go.                                 *)

\* Every region lies inside the VMA of its area once the ones in use do: the
\* last one of a list is in use.
LEMMA RegionInVma ==
  ASSUME AreasInv, InBounds, NEW i \in DOMAIN areas, NEW k \in 1..Len(areas[i].regions)
  PROVE  /\ areas[i].regions[k].start \in Nat /\ EndOf(areas[i].regions[k]) \in Nat
         /\ areas[i].vma <= areas[i].regions[k].start
         /\ areas[i].regions[k].start < EndOf(areas[i].regions[k])
         /\ EndOf(areas[i].regions[k]) <= mmap[areas[i].vma]
<1> DEFINE regions == areas[i].regions
           vma == areas[i].vma
           L == Len(regions)
           S(j) == regions[j].start
           E(j) == EndOf(regions[j])
<1>1. /\ regions \in Seq(Region) /\ vma \in Nat /\ Tiled(regions, vma) /\ L \in Nat
      /\ DOMAIN regions = 1..L
  BY AreaListDomain, RegionListDomain DEF AreasInv, TileInv, VmaInv, TiledArea
<1>2. \A j \in 1..L : S(j) \in Nat /\ E(j) \in Nat /\ S(j) < E(j)
  BY <1>1, TiledEnds
<1>3. mmap[vma] \in Nat
  BY DEF AreasInv, MatchInv, AreaMatchesVma, VmaInv, MmapInv
<1>4. \A j \in 1..L : ~regions[j].free => E(j) <= mmap[vma]
  BY <1>1 DEF InBounds
<1>5. vma <= S(k)
  <2>1. 1 \in 1..L
    BY <1>1
  <2>2. S(1) = vma
    BY <1>1, <2>1 DEF Tiled
  <2>3. k # 1 => 1 \in 1..(k - 1)
    BY <1>1
  <2>4. k # 1 => E(1) <= S(k)
    BY <1>1, <2>3, TiledUpwards
  <2>5. S(1) < E(1) /\ S(1) \in Nat /\ E(1) \in Nat /\ S(k) \in Nat
    BY <1>2, <2>1
  <2> HIDE DEF S, E, vma
  <2> QED BY <1>1, <2>2, <2>4, <2>5
<1>6. E(k) <= mmap[vma]
  <2>1. CASE ~regions[k].free
    BY <1>4, <2>1
  <2>2. CASE regions[k].free
    <3>1. k < L /\ ~regions[k + 1].free
      BY <2>2 DEF AreasInv, OnePiece, CoalescedList
    <3>2. k + 1 \in 1..L /\ k \in 1..((k + 1) - 1)
      BY <1>1, <3>1
    <3>3. E(k) <= S(k + 1) /\ S(k + 1) < E(k + 1) /\ E(k + 1) <= mmap[vma]
      BY <1>1, <1>2, <1>4, <3>1, <3>2, TiledUpwards
    <3>4. E(k) \in Nat /\ S(k + 1) \in Nat /\ E(k + 1) \in Nat
      BY <1>2, <3>2
    <3> HIDE DEF S, E, vma
    <3> QED BY <1>3, <3>3, <3>4
  <2> QED BY <2>1, <2>2
<1> QED BY <1>2, <1>5, <1>6

\* The pages of a region inside a VMA of whole pages are in the VMA.
LEMMA PagesInVma ==
  ASSUME AreasInv, InBounds, NEW i \in DOMAIN areas, NEW k \in 1..Len(areas[i].regions),
         NEW p \in PagesOf(areas[i].regions[k])
  PROVE  p \in VmaOf(i)
<1> DEFINE r == areas[i].regions[k]
           vma == areas[i].vma
           end == mmap[vma]
           first == align_floor(r.start, PAGE_SIZE)
           last == align_ceil(EndOf(r), PAGE_SIZE)
<1>1. /\ r.start \in Nat /\ EndOf(r) \in Nat /\ vma <= r.start /\ EndOf(r) <= end
  BY RegionInVma
<1>2. vma \in Nat /\ end \in Nat /\ vma % PAGE_SIZE = 0 /\ end % PAGE_SIZE = 0
  BY DEF AreasInv, MatchInv, AreaMatchesVma, VmaInv, MmapInv, Pages
<1>3. PAGE_SIZE \in Nat \ {0}
  BY ConstantsAssumption
<1>4. vma <= first /\ first \in Nat
  BY <1>1, <1>2, <1>3, FloorLast, FloorBounds
<1>5. last <= end /\ last \in Nat
  BY <1>1, <1>2, <1>3, CeilFirst, AlignCeil
<1>6. p \in first .. (last - 1)
  BY DEF PagesOf
<1> HIDE DEF first, last, vma, end
<1>7. p \in vma .. (end - 1)
  BY <1>2, <1>4, <1>5, <1>6
<1> QED BY <1>7 DEF VmaOf, vma, end

\* No page of a region in use goes with another region.
LEMMA CanRemoveSound ==
  ASSUME NEW regions \in Seq(Region), NEW vm_start \in Nat, Tiled(regions, vm_start),
         NEW k \in 1..Len(regions), NEW m \in 1..Len(regions), m # k, ~regions[m].free,
         NEW p \in PagesOf(regions[m])
  PROVE  ~can_remove_page(p, k, regions)
<1> DEFINE L == Len(regions)
           S(j) == regions[j].start
           E(j) == EndOf(regions[j])
           first == align_floor(S(m), PAGE_SIZE)
           last == align_ceil(E(m), PAGE_SIZE)
<1>1. L \in Nat /\ PAGE_SIZE \in Nat \ {0}
  BY RegionListDomain, ConstantsAssumption
<1>2. \A j \in 1..L : S(j) \in Nat /\ E(j) \in Nat /\ S(j) < E(j)
  BY TiledEnds
<1>3. \A j \in 1..L : \A n \in 1..(j - 1) : E(n) <= S(j)
  BY TiledUpwards
<1>4. p \in first .. (last - 1)
  BY DEF PagesOf
<1>5. first \in Nat /\ last \in Nat
  BY <1>1, <1>2, FloorBounds, AlignCeil
<1>6. CASE m < k
  <2> DEFINE used == {j \in 1..(k - 1) : ~regions[j].free}
             x == Max(used)
             far == align_ceil(E(x), PAGE_SIZE)
  <2>1. m \in used /\ used \subseteq 0..L
    BY <1>1, <1>6
  <2>2. x \in used /\ m <= x
    <3>1. used # {}
      BY <2>1
    <3> HIDE DEF used
    <3> QED BY <1>1, <2>1, <3>1, MaxOfNats
  <2>3. x \in 1..L /\ (m # x => m \in 1..(x - 1))
    <3> HIDE DEF x
    <3> QED BY <1>1, <2>2
  <2>4. E(m) <= E(x)
    <3>1. m # x => E(m) <= S(x)
      BY <1>3, <2>3
    <3>2. S(x) < E(x) /\ S(x) \in Nat /\ E(x) \in Nat /\ E(m) \in Nat
      BY <1>2, <2>3
    <3> HIDE DEF E, S, x
    <3> QED BY <3>1, <3>2
  <2>5. E(x) \in Nat /\ E(m) \in Nat
    BY <1>2, <2>3
  <2> HIDE DEF E, x
  <2>6. far \in Nat /\ far % PAGE_SIZE = 0 /\ E(x) <= far
    BY <1>1, <2>5, AlignCeil, AlignCeilMultiple
  <2>7. last <= far
    <3> HIDE DEF far
    <3>1. E(m) <= far
      BY <2>4, <2>5, <2>6
    <3> QED BY <1>1, <2>5, <2>6, <3>1, CeilFirst
  <2>8. prev_end(k, regions) = far
    <3>1. used # {}
      BY <2>1
    <3> QED BY <3>1 DEF prev_end, E, x
  <2> HIDE DEF far, last, first
  <2>9. ~(prev_end(k, regions) <= p)
    BY <1>4, <1>5, <2>6, <2>7, <2>8
  <2>10. k > 1
    BY <1>1, <1>6
  <2> QED BY <2>9, <2>10 DEF can_remove_page
<1>7. CASE m > k
  <2> DEFINE used == {j \in (k + 1)..L : ~regions[j].free}
             x == Min(used)
             near == align_floor(S(x), PAGE_SIZE)
  <2>1. m \in used /\ used \subseteq Nat
    BY <1>1, <1>7
  <2>2. x \in used /\ x <= m
    <3>1. used # {}
      BY <2>1
    <3> HIDE DEF used
    <3> QED BY <2>1, <3>1, MinOfNats
  <2>3. x \in 1..L /\ (m # x => x \in 1..(m - 1))
    <3> HIDE DEF x
    <3> QED BY <1>1, <2>2
  <2>4. S(x) <= S(m)
    <3>1. m # x => E(x) <= S(m)
      BY <1>3, <2>3
    <3>2. S(x) < E(x) /\ S(x) \in Nat /\ E(x) \in Nat /\ S(m) \in Nat
      BY <1>2, <2>3
    <3> HIDE DEF E, S, x
    <3> QED BY <3>1, <3>2
  <2>5. S(x) \in Nat /\ S(m) \in Nat
    BY <1>2, <2>3
  <2> HIDE DEF S, x
  <2>6. near \in Nat /\ near % PAGE_SIZE = 0 /\ near <= S(x)
    BY <1>1, <2>5, FloorBounds, FloorMultiple
  <2>7. near <= first
    <3> HIDE DEF near
    <3>1. near <= S(m)
      BY <2>4, <2>5, <2>6
    <3> QED BY <1>1, <2>5, <2>6, <3>1, FloorLast
  <2>8. next_start(k, regions, p) = near
    <3>1. used # {}
      BY <2>1
    <3> QED BY <3>1 DEF next_start, S, x
  <2> HIDE DEF near, last, first
  <2>9. ~(next_start(k, regions, p) >= p + PAGE_SIZE)
    BY <1>1, <1>4, <1>5, <2>6, <2>7, <2>8
  <2>10. k < L
    BY <1>1, <1>7
  <2> QED BY <2>9, <2>10 DEF can_remove_page
<1>8. m < k \/ m > k
  BY <1>1
<1> QED BY <1>6, <1>7, <1>8

-----------------------------------------------------------------------------
(* Types.                                                                  *)

PagingTypes ==
  /\ mapped \in [Pids -> Seq(Nat)] /\ \A t \in Pids : Len(mapped[t]) <= 2
  /\ stored \subseteq Pids \X Nat /\ precious \subseteq Pids \X Nat

\* What the fault handler makes of the mapped pages.
LEMMA FaultIs ==
  ASSUME NEW s \in Seq(Nat), Len(s) <= 2, NEW p \in Nat
  PROVE  /\ Range(s) \subseteq Nat
         /\ Len(s) = 2 => /\ <<s[2], p>> \in Seq(Nat) /\ Len(<<s[2], p>>) <= 2
                          /\ Range(<<s[2], p>>) = {s[2], p} /\ Range(s) = {s[1], s[2]}
         /\ Len(s) # 2 => /\ Append(s, p) \in Seq(Nat) /\ Len(Append(s, p)) <= 2
                          /\ Range(Append(s, p)) = Range(s) \cup {p}
<1>1. Len(s) \in Nat /\ DOMAIN s = 1..Len(s) /\ \A i \in 1..Len(s) : s[i] \in Nat
  BY LenProperties, ElementOfSeq
<1>2. CASE Len(s) = 2
  <2>1. DOMAIN s = {1, 2} /\ s[2] \in Nat
    BY <1>1, <1>2
  <2>2. Range(s) = {s[1], s[2]}
    BY <2>1 DEF Range
  <2>3. <<s[2], p>> \in Seq(Nat) /\ Len(<<s[2], p>>) = 2
    BY <2>1
  <2>4. Range(<<s[2], p>>) = {s[2], p}
    <3>1. DOMAIN <<s[2], p>> = {1, 2}
      OBVIOUS
    <3> QED BY <3>1 DEF Range
  <2> QED BY <1>1, <1>2, <2>2, <2>3, <2>4 DEF Range
<1>3. CASE Len(s) # 2
  <2> DEFINE n == Append(s, p)
  <2>1. /\ n \in Seq(Nat) /\ Len(n) = Len(s) + 1 /\ n[Len(s) + 1] = p
        /\ \A i \in 1..Len(s) : n[i] = s[i]
    BY AppendProperties
  <2>2. DOMAIN n = 1..(Len(s) + 1)
    BY <2>1, LenProperties
  <2> HIDE DEF n
  <2>3. Range(n) = Range(s) \cup {p}
    <3>1. \A i : i \in DOMAIN n <=> i \in DOMAIN s \/ i = Len(s) + 1
      BY <1>1, <2>2
    <3> QED BY <1>1, <2>1, <3>1 DEF Range
  <2>4. Len(n) <= 2 /\ Range(s) \subseteq Nat
    <3>1. Range(s) \subseteq Nat
      BY <1>1 DEF Range
    <3> QED BY <1>1, <1>3, <2>1, <3>1
  <2> QED BY <1>3, <2>1, <2>3, <2>4 DEF n
<1> QED BY <1>2, <1>3

LEMMA TypesNext ==
  ASSUME AreasInv, AreasInv', PagingTypes, [NetNext]_allVars
  PROVE  PagingTypes'
<1>1. /\ VmaInv /\ VmaInv' /\ <<>> \in Seq(Nat) /\ Len(<<>>) <= 2
      /\ \A t \in Pids : mapped[t] \in Seq(Nat) /\ Range(mapped[t]) \subseteq Nat
  <2>1. \A t \in Pids : mapped[t] \in Seq(Nat) /\ Len(mapped[t]) <= 2
    BY DEF PagingTypes
  <2>2. \A t \in Pids : Range(mapped[t]) \subseteq Nat
    BY <2>1, FaultIs
  <2> QED BY <2>1, <2>2, EmptySeq DEF AreasInv, MatchInv
<1>2. CASE UNCHANGED allVars
  BY <1>2 DEF PagingTypes, allVars, paging
<1>3. ASSUME NEW pid \in Pids, unmap_page(pid)
      PROVE  /\ mapped' \in [Pids -> Seq(Nat)] /\ \A t \in Pids : Len(mapped'[t]) <= 2
             /\ Saved(pid) \subseteq Pids \X Nat
  BY <1>1, <1>3 DEF unmap_page, Saved, add_stored_page, PagingTypes
<1>4. ASSUME NEW pid \in Pids, NEW size \in Sizes, generic_malloc(pid, size)
      PROVE  PagingTypes'
  <2>1. /\ unmap_page(pid) /\ stored' = Saved(pid) /\ precious' \subseteq precious
    BY <1>4 DEF generic_malloc, Recall
  <2> QED BY <1>3, <2>1 DEF PagingTypes
<1>5. ASSUME NEW pid \in Pids, NEW b \in Blocks, generic_free(pid, b.start)
      PROVE  PagingTypes'
  <2>1. /\ unmap_page(pid) /\ stored' \subseteq Saved(pid) /\ precious' \subseteq precious
    BY <1>5 DEF generic_free, Recall, remove_storage_pages
  <2> QED BY <1>3, <2>1 DEF PagingTypes
<1>6. ASSUME NEW pid \in Pids, NEW p \in Covered(pid), touch(pid, p)
      PROVE  PagingTypes'
  <2>1. p \in Nat
    BY <1>1, CoveredNat
  <2>2. precious' \subseteq Pids \X Nat
    BY <1>6, <2>1 DEF touch, PagingTypes
  <2> DEFINE s == mapped[pid]
  <2>3. s \in Seq(Nat) /\ Len(s) <= 2
    BY DEF PagingTypes
  <2>4. /\ Range(s) \subseteq Nat
        /\ Len(s) = 2 => /\ <<s[2], p>> \in Seq(Nat) /\ Len(<<s[2], p>>) <= 2
                         /\ Range(s) = {s[1], s[2]}
        /\ Len(s) # 2 => Append(s, p) \in Seq(Nat) /\ Len(Append(s, p)) <= 2
    <3> HIDE DEF s
    <3> QED BY <2>1, <2>3, FaultIs
  <2>5. CASE UNCHANGED <<mapped, stored>>
    BY <2>2, <2>5 DEF PagingTypes
  <2>6. CASE Len(s) = 2 /\ vm_fault(pid, p)
    <3>1. /\ mapped' = [mapped EXCEPT ![pid] = <<s[2], p>>]
          /\ stored' = stored \cup ({pid} \X {s[1]})
      BY <2>6 DEF vm_fault, add_stored_page
    <3>2. s[1] \in Nat
      BY <2>4, <2>6
    <3>3. <<s[2], p>> \in Seq(Nat) /\ Len(<<s[2], p>>) <= 2
      BY <2>4, <2>6
    <3> DEFINE new == <<s[2], p>>
    <3> HIDE DEF new
    <3>4. mapped' = [mapped EXCEPT ![pid] = new] /\ new \in Seq(Nat) /\ Len(new) <= 2
      BY <3>1, <3>3 DEF new
    <3> HIDE DEF s
    <3> QED BY <2>2, <3>1, <3>2, <3>4 DEF PagingTypes
  <2>7. CASE Len(s) # 2 /\ vm_fault(pid, p)
    <3>1. mapped' = [mapped EXCEPT ![pid] = Append(s, p)] /\ stored' = stored
      BY <2>7 DEF vm_fault
    <3> DEFINE new == Append(s, p)
    <3> HIDE DEF new
    <3>2. mapped' = [mapped EXCEPT ![pid] = new] /\ new \in Seq(Nat) /\ Len(new) <= 2
      BY <2>4, <2>7, <3>1 DEF new
    <3> QED BY <2>2, <3>1, <3>2 DEF PagingTypes
  <2> QED BY <1>6, <2>5, <2>6, <2>7 DEF touch
<1>7. ASSUME NEW i \in DOMAIN areas, close_handler(i)
      PROVE  PagingTypes'
  <2>1. \A t \in Pids : /\ Without(mapped[t], VmaOf(i)) \in Seq(Nat)
                        /\ Len(Without(mapped[t], VmaOf(i))) <= 2
    BY WithoutIs DEF PagingTypes
  <2>2. /\ mapped' = [t \in Pids |-> Without(mapped[t], VmaOf(i))]
        /\ stored' \subseteq stored /\ precious' \subseteq precious
    BY <1>7 DEF close_handler, Recall
  <2> QED BY <2>1, <2>2 DEF PagingTypes
<1> QED BY <1>2, <1>4, <1>5, <1>6, <1>7 DEF NetNext

NetInv == AreasInv /\ PagingTypes

LEMMA NetInvHolds == NetSpec => []NetInv
<1>1. NetInit => NetInv
  <2> SUFFICES ASSUME NetInit PROVE PagingTypes
    BY AreasInvInit DEF NetInv
  <2>1. <<>> \in Seq(Nat) /\ Len(<<>>) = 0
    BY EmptySeq
  <2> QED BY <2>1 DEF NetInit, PagingTypes
<1>2. NetInv /\ [NetNext]_allVars => NetInv'
  BY AreasInvNext, TypesNext DEF NetInv
<1> QED BY <1>1, <1>2, PTL DEF NetSpec

\* Every variable keeps its type, and a thread never has more than the two
\* pages mapped that its frames hold (mapped_buffer.h, src/README.md:107).
THEOREM PagesTyped == NetSpec => []NetTypeOK
<1>1. NetInv => NetTypeOK
  BY DEF NetInv, AreasInv, MatchInv, VmaInv, MmapInv, PagingTypes, NetTypeOK, TypeOK
<1> QED BY <1>1, NetInvHolds, PTL

-----------------------------------------------------------------------------
(* Mapped pages are covered.                                               *)

\* What a free does: nothing, or to one region of the thread.
LEMMA FreeIs ==
  ASSUME AreasInv, NEW pid \in Pids, NEW b \in Blocks, generic_free(pid, b.start)
  PROVE  /\ unmap_page(pid) /\ Recall(precious)
         /\ \/ UNCHANGED vars /\ stored' = Saved(pid)
            \/ \E i \in DOMAIN areas : \E k \in 1..Len(areas[i].regions) :
                 /\ areas[i].pid = pid /\ FreeRegion(i, k) /\ k \in DOMAIN areas[i].regions
                 /\ stored' = Saved(pid) \ Removable(pid, Saved(pid), k, areas[i].regions)
<1> DEFINE address == b.start
<1>1. /\ unmap_page(pid) /\ Recall(precious)
      /\ stored' = remove_storage_pages(areas, pid, address, Saved(pid))
      /\ IF Lookup(areas, pid, address) = {} THEN UNCHANGED vars
         ELSE remove_region(pid, address)
  BY DEF generic_free
<1>2. /\ MatchInv /\ areas \in Seq(Area) /\ MmapInv /\ AreaMatchesVma
  BY DEF AreasInv, MatchInv, VmaInv
<1>3. address \in Nat
  <2>1. Blocks = BlocksIn(areas)
    BY <1>2, BlocksOfList DEF Blocks
  <2>2. PICK j \in DOMAIN areas : b \in BlocksOf(areas[j])
    BY <2>1 DEF BlocksIn
  <2>3. PICK m \in 1..Len(areas[j].regions) : b = BlockOf(areas[j], areas[j].regions[m])
    BY <2>2 DEF BlocksOf, UsedOf
  <2>4. areas[j].regions \in Seq(Region)
    BY <1>2, AreaListDomain
  <2> QED BY <2>3, <2>4, RegionListDomain DEF BlockOf
<1> HIDE DEF address
<1>4. CASE Lookup(areas, pid, address) = {}
  <2>1. stored' = Saved(pid)
    BY <1>1, <1>4 DEF remove_storage_pages
  <2> QED BY <1>1, <1>4, <2>1
<1>5. CASE Lookup(areas, pid, address) # {}
  <2>1. /\ \A j \in DOMAIN areas : areas[j].vma # NULL /\ mmap[areas[j].vma] \in Nat
    BY <1>2 DEF MmapInv, AreaMatchesVma
  <2>2. PICK i \in DOMAIN areas : \E k \in get_region(areas[i], address) :
          get_area(areas[i], pid, address) /\ FreeRegion(i, k)
    BY <1>1, <1>5, <2>1 DEF remove_region
  <2>3. PICK k \in get_region(areas[i], address) : FreeRegion(i, k)
    BY <2>2
  <2>4. /\ areas[i].pid = pid /\ areas[i].vma <= address /\ address < mmap[areas[i].vma]
    BY <2>1, <2>2 DEF get_area
  <2>5. /\ areas[i].regions \in Seq(Region) /\ areas[i].vma \in Nat
        /\ Tiled(areas[i].regions, areas[i].vma)
        /\ DOMAIN areas[i].regions = 1..Len(areas[i].regions)
    BY <1>2, AreaListDomain, RegionListDomain DEF AreasInv, TileInv, TiledArea
  <2>6. k \in 1..Len(areas[i].regions) /\ areas[i].regions[k].start = address
    BY <2>3, <2>5 DEF get_region
  <2>7. \A f \in Lookup(areas, pid, address) : f[1] = i /\ f[2] = k
    <3> SUFFICES ASSUME NEW f \in Lookup(areas, pid, address) PROVE f[1] = i /\ f[2] = k
      OBVIOUS
    <3>1. /\ f[1] \in DOMAIN areas /\ get_area(areas[f[1]], pid, address)
          /\ f[2] \in get_region(areas[f[1]], address)
      BY DEF Lookup
    <3>2. f[1] = i
      <4> DEFINE j == f[1]
      <4> HIDE DEF j
      <4>1. j \in DOMAIN areas /\ get_area(areas[j], pid, address)
        BY <3>1 DEF j
      <4>2. areas[j].vma <= address /\ address < mmap[areas[j].vma]
        BY <2>1, <4>1 DEF get_area
      <4>3. j = i
        BY <1>2, <1>3, <2>4, <4>1, <4>2, OneAreaAt
      <4> QED BY <4>3 DEF j
    <3>3. f[2] \in 1..Len(areas[i].regions) /\ areas[i].regions[f[2]].start = address
      BY <2>5, <3>1, <3>2 DEF get_region
    <3>4. f[2] = k
      BY <2>5, <2>6, <3>3, TiledStarts
    <3> QED BY <3>2, <3>4
  <2>8. stored' = Saved(pid) \ Removable(pid, Saved(pid), k, areas[i].regions)
    BY <1>1, <1>5, <2>7 DEF remove_storage_pages
  <2> QED BY <1>1, <2>3, <2>4, <2>5, <2>6, <2>8
<1> QED BY <1>4, <1>5

LEMMA CoveredNext ==
  ASSUME NetInv, NetInv', MappedCovered, [NetNext]_allVars
  PROVE  MappedCovered'
<1>1. /\ AreasInv /\ AreasInv' /\ PagingTypes /\ PagingTypes'
  BY DEF NetInv
<1>2. mapped \in [Pids -> Seq(Nat)] /\ Range(<<>>) = {}
  BY <1>1 DEF PagingTypes, Range
<1> SUFFICES ASSUME NEW t \in Pids, NEW p \in Range(mapped'[t])
             PROVE  p \in Covered(t)'
  BY DEF MappedCovered
<1>3. ASSUME UNCHANGED vars, p \in Covered(t) PROVE p \in Covered(t)'
  BY <1>3 DEF vars, Covered, VmaOf
<1>4. ASSUME NEW pid \in Pids, unmap_page(pid)
      PROVE  t # pid /\ p \in Covered(t)
  <2>1. mapped'[t] = IF t = pid THEN <<>> ELSE mapped[t]
    BY <1>2, <1>4 DEF unmap_page
  <2> QED BY <1>2, <2>1 DEF MappedCovered
<1>5. CASE UNCHANGED allVars
  BY <1>3, <1>5 DEF allVars, paging, MappedCovered
<1>6. ASSUME NEW pid \in Pids, NEW size \in Sizes, generic_malloc(pid, size)
      PROVE  p \in Covered(t)'
  <2>1. unmap_page(pid) /\ create_region(pid, size)
    BY <1>6 DEF generic_malloc
  <2> QED BY <1>1, <1>4, <2>1, CreateCovers
<1>7. ASSUME NEW pid \in Pids, NEW b \in Blocks, generic_free(pid, b.start)
      PROVE  p \in Covered(t)'
  <2>1. unmap_page(pid)
    BY <1>1, <1>7, FreeIs
  <2>2. t # pid /\ p \in Covered(t)
    BY <1>4, <2>1
  <2>3. \/ UNCHANGED vars
        \/ \E i \in DOMAIN areas : \E k \in DOMAIN areas[i].regions :
             areas[i].pid = pid /\ FreeRegion(i, k)
    BY <1>1, <1>7, FreeIs
  <2> QED BY <1>1, <1>3, <2>2, <2>3, FreeCovers
<1>8. ASSUME NEW pid \in Pids, NEW q \in Covered(pid), touch(pid, q)
      PROVE  p \in Covered(t)'
  <2> DEFINE s == mapped[pid]
  <2>1. q \in Nat /\ s \in Seq(Nat) /\ Len(s) <= 2
    BY <1>1, CoveredNat DEF PagingTypes, AreasInv, MatchInv
  <2>2. /\ Len(s) = 2 => Range(<<s[2], q>>) = {s[2], q} /\ Range(s) = {s[1], s[2]}
        /\ Len(s) # 2 => Range(Append(s, q)) = Range(s) \cup {q}
    <3> HIDE DEF s
    <3> QED BY <2>1, FaultIs
  <2>3. \/ mapped' = mapped
        \/ Len(s) = 2 /\ mapped' = [mapped EXCEPT ![pid] = <<s[2], q>>]
        \/ Len(s) # 2 /\ mapped' = [mapped EXCEPT ![pid] = Append(s, q)]
    BY <1>8 DEF touch, vm_fault
  <2>4. p \in Range(mapped[t]) \/ (t = pid /\ p \in Range(s) \cup {q})
    <3>1. CASE mapped' = mapped
      BY <3>1
    <3>2. CASE Len(s) = 2 /\ mapped' = [mapped EXCEPT ![pid] = <<s[2], q>>]
      <4> DEFINE new == <<s[2], q>>
      <4>1. Range(new) \subseteq Range(s) \cup {q}
        BY <2>2, <3>2
      <4> HIDE DEF new, s
      <4>2. mapped'[t] = IF t = pid THEN new ELSE mapped[t]
        BY <1>2, <3>2 DEF new
      <4> QED BY <4>1, <4>2
    <3>3. CASE Len(s) # 2 /\ mapped' = [mapped EXCEPT ![pid] = Append(s, q)]
      <4> DEFINE new == Append(s, q)
      <4>1. Range(new) \subseteq Range(s) \cup {q}
        BY <2>2, <3>3
      <4> HIDE DEF new, s
      <4>2. mapped'[t] = IF t = pid THEN new ELSE mapped[t]
        BY <1>2, <3>3 DEF new
      <4> QED BY <4>1, <4>2
    <3> QED BY <2>3, <3>1, <3>2, <3>3
  <2>5. p \in Covered(t)
    BY <2>4 DEF MappedCovered
  <2>6. UNCHANGED vars
    BY <1>8 DEF touch
  <2> QED BY <1>3, <2>5, <2>6
<1>9. ASSUME NEW i \in DOMAIN areas, close_handler(i)
      PROVE  p \in Covered(t)'
  <2>1. close_vma(i) /\ mapped'[t] = Without(mapped[t], VmaOf(i))
    BY <1>9 DEF close_handler
  <2>2. mapped[t] \in Seq(Nat) /\ Len(mapped[t]) <= 2
    BY <1>1 DEF PagingTypes
  <2>3. p \in Range(mapped[t]) /\ p \notin VmaOf(i)
    BY <2>1, <2>2, WithoutIs
  <2>4. p \in Covered(t)
    BY <2>3 DEF MappedCovered
  <2> QED BY <1>1, <2>1, <2>3, <2>4, CloseCovers
<1> QED BY <1>5, <1>6, <1>7, <1>8, <1>9 DEF NetNext

\* A thread reaches a mapped page only while it has a block on it, whatever it
\* frees and unmaps (generic_malloc.c:366-368).
THEOREM MappedIsCovered == NetSpec => []MappedCovered
<1>1. NetInit => MappedCovered
  <2>1. Range(<<>>) = {}
    BY DEF Range
  <2> QED BY <2>1 DEF NetInit, MappedCovered
<1>2. NetInv /\ NetInv' /\ MappedCovered /\ [NetNext]_allVars => MappedCovered'
  BY CoveredNext
<1> QED BY <1>1, <1>2, NetInvHolds, PTL DEF NetSpec

-----------------------------------------------------------------------------
(* Touched pages are kept.                                                 *)

KeptInv == PagesKept /\ \A s \in precious : s[2] \in Covered(s[1])

\* No region in use lies on the pages of another area.
NoStray == InBounds \/ Len(areas) <= 1

LEMMA OneArea ==
  ASSUME MatchInv, Len(areas) <= 1, NEW i \in DOMAIN areas, NEW j \in DOMAIN areas
  PROVE  i = j
<1>1. areas \in Seq(Area) /\ Len(areas) \in Nat /\ DOMAIN areas = 1..Len(areas)
  BY AreaListDomain, LenProperties DEF MatchInv, VmaInv
<1> QED BY <1>1

\* A page under some other block stays in the storage when region k is freed.
LEMMA FreeKeeps ==
  ASSUME NetInv, NetInv', NoStray, NEW i \in DOMAIN areas, NEW k \in 1..Len(areas[i].regions),
         k \in DOMAIN areas[i].regions, FreeRegion(i, k),
         NEW pid, NEW kept, NEW s, s[2] \in Covered(s[1])'
  PROVE  s \notin Removable(pid, kept, k, areas[i].regions)
<1> DEFINE regions == areas[i].regions
<1> SUFFICES ASSUME NEW p \in PagesOf(regions[k]), s = <<pid, p>>, can_remove_page(p, k, regions)
             PROVE  FALSE
  BY DEF Removable
<1>1. /\ AreasInv /\ AreasInv' /\ MatchInv
      /\ regions \in Seq(Region) /\ areas[i].vma \in Nat /\ Tiled(regions, areas[i].vma)
  BY AreaListDomain DEF NetInv, AreasInv, TileInv, VmaInv, TiledArea
<1>2. p \in Covered(pid)'
  BY DEF NetInv
<1>3. PICK j \in DOMAIN areas :
        /\ p \in VmaOf(j)
        /\ \E r \in IF j = i THEN UsedBut(regions, k) ELSE UsedOf(areas[j].regions) :
             p \in PagesOf(r)
  BY <1>1, <1>2, FreeCovers
<1>4. InBounds => p \in VmaOf(i)
  BY <1>1, PagesInVma
<1>5. j = i
  BY <1>1, <1>3, <1>4, VmasApart, OneArea DEF NoStray
<1>6. PICK m \in 1..Len(regions) : m # k /\ ~regions[m].free /\ p \in PagesOf(regions[m])
  BY <1>3, <1>5 DEF UsedBut
<1> HIDE DEF regions
<1> QED BY <1>1, <1>6, CanRemoveSound DEF regions

\* A page under a block of another area stays in the storage when an area goes.
LEMMA CloseKeeps ==
  ASSUME NetInv, NoStray, NEW i \in DOMAIN areas, NEW k \in DOMAIN areas[i].regions,
         NEW kept, NEW s, NEW j \in DOMAIN areas, j # i, s[2] \in VmaOf(j), s \in kept
  PROVE  s \in remove_storage_pages(Closing(i, k), areas[i].pid, areas[i].regions[k].start, kept)
<1> DEFINE regions == areas[i].regions
           address == regions[k].start
           list == Closing(i, k)
           rest == SubSeq(regions, k, Len(regions))
<1>1. /\ AreasInv /\ MatchInv /\ areas \in Seq(Area) /\ areas[i] \in Area
      /\ regions \in Seq(Region) /\ k \in 1..Len(regions) /\ Len(regions) \in Nat
  BY AreaListDomain, RegionListDomain DEF NetInv, AreasInv, MatchInv, VmaInv
<1>0. InBounds
  BY <1>1, OneArea DEF NoStray
<1>2. /\ address \in Nat /\ areas[i].vma <= address /\ address < mmap[areas[i].vma]
  <2>1. /\ address \in Nat /\ EndOf(regions[k]) \in Nat /\ areas[i].vma <= address
        /\ address < EndOf(regions[k]) /\ EndOf(regions[k]) <= mmap[areas[i].vma]
    BY <1>0, <1>1, RegionInVma
  <2>2. mmap[areas[i].vma] \in Nat
    BY <1>1 DEF MatchInv, AreaMatchesVma, VmaInv, MmapInv
  <2> HIDE DEF address, regions
  <2> QED BY <2>1, <2>2
<1>3. /\ DOMAIN list = DOMAIN areas /\ list[i].regions = rest
      /\ \A n \in DOMAIN areas : list[n].vma = areas[n].vma /\ list[n].pid = areas[n].pid
  BY <1>1 DEF Closing, Area
<1>4. /\ DOMAIN rest = 1..(Len(regions) - k + 1)
      /\ \A n \in 1..(Len(regions) - k + 1) : rest[n] = regions[k + n - 1]
  <2>1. /\ rest \in Seq(Region)
        /\ Len(rest) = IF k <= Len(regions) THEN Len(regions) - k + 1 ELSE 0
        /\ \A n \in 1..(Len(regions) - k + 1) : rest[n] = regions[k + n - 1]
    <3> HIDE DEF regions
    <3>1. k \in 1..(Len(regions) + 1) /\ Len(regions) \in (k - 1)..Len(regions)
      BY <1>1
    <3> QED BY <1>1, <3>1, SubSeqProperties
  <2>2. DOMAIN rest = 1..Len(rest)
    BY <2>1, LenProperties
  <2> HIDE DEF rest, regions
  <2> QED BY <1>1, <2>1, <2>2
<1> HIDE DEF list, rest
<1> SUFFICES ASSUME NEW f \in Lookup(list, areas[i].pid, address),
                    s \in Removable(areas[i].pid, kept, f[2], list[f[1]].regions)
             PROVE  FALSE
  BY DEF remove_storage_pages, list
<1>5. /\ f[1] \in DOMAIN areas /\ get_area(list[f[1]], areas[i].pid, address)
      /\ f[2] \in get_region(list[f[1]], address)
  BY <1>3 DEF Lookup
<1>6. f[1] = i
  <2> DEFINE n == f[1]
  <2>1. areas[n].vma # NULL
    BY <1>1, <1>5 DEF MatchInv, AreaMatchesVma, VmaInv, MmapInv
  <2>2. areas[n].vma <= address /\ address < mmap[areas[n].vma]
    BY <1>3, <1>5, <2>1 DEF get_area
  <2>3. n \in DOMAIN areas
    BY <1>5
  <2> HIDE DEF n, address
  <2>4. n = i
    BY <1>1, <1>2, <2>2, <2>3, OneAreaAt
  <2> QED BY <2>4 DEF n
<1>7. PICK m \in 1..Len(regions) : list[f[1]].regions[f[2]] = regions[m]
  <2>1. f[2] \in 1..(Len(regions) - k + 1)
    BY <1>3, <1>4, <1>5, <1>6 DEF get_region
  <2> DEFINE m == k + f[2] - 1
  <2>2. m \in 1..Len(regions)
    <3> HIDE DEF regions
    <3> QED BY <1>1, <2>1
  <2> HIDE DEF m
  <2>3. rest[f[2]] = regions[m]
    BY <1>4, <2>1 DEF m
  <2> QED BY <1>3, <1>6, <2>2, <2>3
<1>8. PICK p \in PagesOf(list[f[1]].regions[f[2]]) : s = <<areas[i].pid, p>>
  BY DEF Removable
<1>9. p \in VmaOf(i)
  BY <1>0, <1>1, <1>7, <1>8, PagesInVma
<1>10. p \in VmaOf(j)
  BY <1>8
<1> QED BY <1>1, <1>9, <1>10, VmasApart

LEMMA KeptNext ==
  ASSUME NetInv, NetInv', NoStray, KeptInv, [NetNext]_allVars
  PROVE  KeptInv'
<1>1. /\ AreasInv /\ AreasInv' /\ PagingTypes /\ PagingTypes'
  BY DEF NetInv
<1>2. /\ mapped \in [Pids -> Seq(Nat)] /\ precious \subseteq Pids \X Nat
      /\ \A t \in Pids : mapped[t] \in Seq(Nat) /\ Len(mapped[t]) <= 2
  BY <1>1 DEF PagingTypes
<1> DEFINE Kept(s) == (s \in stored \/ s[2] \in Range(mapped[s[1]]))'
<1>3. CASE UNCHANGED allVars
  BY <1>3 DEF allVars, vars, paging, KeptInv, PagesKept, Covered, VmaOf
\* One block less or one more: what counts is each page still covered.
<1>4. ASSUME Recall(precious), \A s \in precious : s[2] \in Covered(s[1])' => Kept(s)
      PROVE  KeptInv'
  <2>1. /\ \A s \in precious' : s \in precious /\ s[2] \in Covered(s[1])'
    BY <1>4 DEF Recall
  <2> QED BY <1>4, <2>1 DEF KeptInv, PagesKept
\* Both pages of a thread go to the storage.
<1>5. ASSUME NEW pid \in Pids, unmap_page(pid), NEW s \in precious
      PROVE  s \in Saved(pid) \/ (s[1] # pid /\ s[2] \in Range(mapped'[s[1]]))
  <2>1. s = <<s[1], s[2]>> /\ s[1] \in Pids
    BY <1>2
  <2>2. s \in stored \/ s[2] \in Range(mapped[s[1]])
    BY DEF KeptInv, PagesKept
  <2>3. s[1] # pid => mapped'[s[1]] = mapped[s[1]]
    BY <1>2, <1>5, <2>1 DEF unmap_page
  <2>4. s[1] = pid /\ s[2] \in Range(mapped[s[1]]) => s \in {pid} \X Range(mapped[pid])
    BY <2>1
  <2> QED BY <2>2, <2>3, <2>4 DEF Saved, add_stored_page
<1>6. ASSUME NEW pid \in Pids, NEW size \in Sizes, generic_malloc(pid, size)
      PROVE  KeptInv'
  BY <1>4, <1>5, <1>6 DEF generic_malloc
<1>7. ASSUME NEW pid \in Pids, NEW b \in Blocks, generic_free(pid, b.start)
      PROVE  KeptInv'
  <2>1. unmap_page(pid) /\ Recall(precious)
    BY <1>1, <1>7, FreeIs
  <2>2. CASE stored' = Saved(pid)
    BY <1>4, <1>5, <2>1, <2>2
  <2>3. ASSUME NEW i \in DOMAIN areas, NEW k \in 1..Len(areas[i].regions),
               FreeRegion(i, k), k \in DOMAIN areas[i].regions,
               stored' = Saved(pid) \ Removable(pid, Saved(pid), k, areas[i].regions)
        PROVE  KeptInv'
    <3>1. \A s \in precious : s[2] \in Covered(s[1])' => Kept(s)
      <4> SUFFICES ASSUME NEW s \in precious, s[2] \in Covered(s[1])' PROVE Kept(s)
        OBVIOUS
      <4>1. s \notin Removable(pid, Saved(pid), k, areas[i].regions)
        BY <2>3, FreeKeeps
      <4> QED BY <1>5, <2>1, <2>3, <4>1
    <3> HIDE DEF Kept
    <3> QED BY <1>4, <2>1, <3>1
  <2> QED BY <1>1, <1>7, <2>2, <2>3, FreeIs
<1>8. ASSUME NEW pid \in Pids, NEW q \in Covered(pid), touch(pid, q)
      PROVE  KeptInv'
  <2> DEFINE s == mapped[pid]
  <2>1. q \in Nat /\ s \in Seq(Nat) /\ Len(s) <= 2
    BY <1>1, <1>2, CoveredNat DEF AreasInv, MatchInv
  <2>2. /\ Len(s) = 2 => Range(<<s[2], q>>) = {s[2], q} /\ Range(s) = {s[1], s[2]}
        /\ Len(s) # 2 => Range(Append(s, q)) = Range(s) \cup {q}
    <3> HIDE DEF s
    <3> QED BY <2>1, FaultIs
  <2>3. /\ precious' = precious \cup {<<pid, q>>}
        /\ \/ mapped' = mapped /\ stored' = stored /\ q \in Range(s)
           \/ /\ Len(s) = 2 /\ mapped' = [mapped EXCEPT ![pid] = <<s[2], q>>]
              /\ stored' = stored \cup ({pid} \X {s[1]})
           \/ /\ Len(s) # 2 /\ mapped' = [mapped EXCEPT ![pid] = Append(s, q)]
              /\ stored' = stored
    BY <1>8 DEF touch, vm_fault, add_stored_page
  <2>4. \E new :
          /\ mapped' = [mapped EXCEPT ![pid] = new] /\ q \in Range(new)
          /\ stored \subseteq stored'
          /\ \A p \in Range(s) : p \in Range(new) \/ <<pid, p>> \in stored'
    <3>1. CASE mapped' = mapped /\ stored' = stored /\ q \in Range(s)
      <4>1. mapped' = [mapped EXCEPT ![pid] = s]
        BY <1>2, <3>1
      <4> HIDE DEF s
      <4> QED BY <3>1, <4>1
    <3>2. CASE /\ Len(s) = 2 /\ mapped' = [mapped EXCEPT ![pid] = <<s[2], q>>]
               /\ stored' = stored \cup ({pid} \X {s[1]})
      <4> DEFINE new == <<s[2], q>>
      <4>1. Range(new) = {s[2], q} /\ Range(s) = {s[1], s[2]}
        BY <2>2, <3>2
      <4>2. mapped' = [mapped EXCEPT ![pid] = new]
        BY <3>2
      <4> HIDE DEF new, s
      <4> QED BY <3>2, <4>1, <4>2
    <3>3. CASE /\ Len(s) # 2 /\ mapped' = [mapped EXCEPT ![pid] = Append(s, q)]
               /\ stored' = stored
      <4> DEFINE new == Append(s, q)
      <4>1. Range(new) = Range(s) \cup {q}
        BY <2>2, <3>3
      <4>2. mapped' = [mapped EXCEPT ![pid] = new]
        BY <3>3
      <4> HIDE DEF new, s
      <4> QED BY <3>3, <4>1, <4>2
    <3> QED BY <2>3, <3>1, <3>2, <3>3
  <2>5. PICK new :
          /\ mapped' = [mapped EXCEPT ![pid] = new] /\ q \in Range(new)
          /\ stored \subseteq stored'
          /\ \A p \in Range(s) : p \in Range(new) \/ <<pid, p>> \in stored'
    BY <2>4
  <2>6. ASSUME NEW e \in precious PROVE e \in stored' \/ e[2] \in Range(mapped'[e[1]])
    <3>1. e = <<e[1], e[2]>> /\ e[1] \in Pids
      BY <1>2
    <3>2. e \in stored \/ e[2] \in Range(mapped[e[1]])
      BY DEF KeptInv, PagesKept
    <3>3. mapped'[e[1]] = IF e[1] = pid THEN new ELSE mapped[e[1]]
      BY <1>2, <2>5, <3>1
    <3> QED BY <2>5, <3>1, <3>2, <3>3
  <2>7. <<pid, q>>[2] \in Range(mapped'[<<pid, q>>[1]])
    BY <1>2, <2>5
  <2>8. \A t : Covered(t)' = Covered(t)
    BY <1>8 DEF touch, vars, Covered, VmaOf
  <2>9. \A e \in precious' : e \in precious \/ e = <<pid, q>>
    BY <2>3
  <2>10. PagesKept'
    BY <2>6, <2>7, <2>9 DEF PagesKept
  <2>11. \A e \in precious' : e[2] \in Covered(e[1])
    BY <2>9 DEF KeptInv
  <2> QED BY <2>8, <2>10, <2>11 DEF KeptInv
<1>9. ASSUME NEW i \in DOMAIN areas, close_handler(i)
      PROVE  KeptInv'
  <2>1. /\ close_vma(i) /\ Recall(precious)
        /\ mapped' = [t \in Pids |-> Without(mapped[t], VmaOf(i))]
        /\ stored' = {s \in stored : \A k \in DOMAIN areas[i].regions :
                        s \in remove_storage_pages(Closing(i, k), areas[i].pid,
                                areas[i].regions[k].start, stored)}
    BY <1>9 DEF close_handler
  <2>2. \A s \in precious : s[2] \in Covered(s[1])' => Kept(s)
    <3> SUFFICES ASSUME NEW s \in precious, s[2] \in Covered(s[1])' PROVE Kept(s)
      OBVIOUS
    <3>1. s[1] \in Pids
      BY <1>2
    <3>2. PICK j \in DOMAIN areas : j # i /\ s[2] \in VmaOf(j)
      BY <1>1, <2>1, CloseCovers
    <3>3. s[2] \notin VmaOf(i)
      BY <1>1, <3>2, VmasApart DEF AreasInv
    <3>4. s \in stored \/ s[2] \in Range(mapped[s[1]])
      BY DEF KeptInv, PagesKept
    <3>5. CASE s \in stored
      <4>1. s \in stored'
        BY <2>1, <3>2, <3>5, CloseKeeps
      <4> QED BY <4>1
    <3>6. CASE s[2] \in Range(mapped[s[1]])
      <4>1. mapped'[s[1]] = Without(mapped[s[1]], VmaOf(i))
        BY <2>1, <3>1
      <4>2. s[2] \in Range(mapped'[s[1]])
        BY <1>2, <3>1, <3>3, <3>6, <4>1, WithoutIs
      <4> QED BY <4>2
    <3> QED BY <3>4, <3>5, <3>6
  <2> HIDE DEF Kept
  <2> QED BY <1>4, <2>1, <2>2
<1> QED BY <1>3, <1>6, <1>7, <1>8, <1>9 DEF NetNext

LEMMA KeptHolds == NetSpec /\ []NoStray => []PagesKept
<1>1. NetInit => KeptInv
  BY DEF NetInit, KeptInv, PagesKept
<1>2. NetInv /\ NetInv' /\ NoStray /\ KeptInv /\ [NetNext]_allVars => KeptInv'
  BY KeptNext
<1>3. KeptInv => PagesKept
  BY DEF KeptInv
<1> QED BY <1>1, <1>2, <1>3, NetInvHolds, PTL DEF NetSpec

\* As long as the regions in use lie inside the VMAs of their areas, a page that
\* a thread touched is mapped or stored until no block of the thread is left on
\* it: can_remove_page never gives up a page of a neighbour
\* (generic_malloc.c:38-79, 81-136).
THEOREM TouchedIsKept == NetSpec /\ []InBounds => []PagesKept
<1>1. InBounds => NoStray
  BY DEF NoStray
<1> QED BY <1>1, KeptHolds, PTL

-----------------------------------------------------------------------------
(* One thread.                                                             *)

\* The VMA of the one area is the only one.
Lone ==
  /\ Len(areas) <= 1
  /\ \A v \in DOMAIN mmap : \E i \in DOMAIN areas : v = areas[i].vma

\* An area with nothing behind it can be extended, so the scan stops there.
LEMMA LoneStops ==
  ASSUME MatchInv, Lone, NEW i \in DOMAIN areas, NEW size
  PROVE  Stops(areas[i], areas[i].pid, size)
<1>1. \A v \in DOMAIN mmap : v = areas[i].vma
  BY OneArea DEF Lone
<1>2. areas[i].vma \in Nat
  BY AreaListDomain DEF MatchInv, VmaInv
<1>3. CanExtend(areas[i], size)
  BY <1>1, <1>2 DEF CanExtend
<1> QED BY <1>3 DEF Stops

\* The area goes with its VMA.
LEMMA LoneGone ==
  ASSUME MatchInv, Lone, NEW i \in DOMAIN areas,
         areas' = RemoveAt(areas, i), mmap' = Unmapped(areas[i].vma)
  PROVE  Lone'
<1>1. areas \in Seq(Area) /\ i \in 1..Len(areas) /\ Len(areas) \in Nat
  BY AreaListDomain DEF MatchInv, VmaInv
<1>2. Len(areas') = Len(areas) - 1
  BY <1>1, RemoveAtProperties
<1>3. \A v \in DOMAIN mmap : v = areas[i].vma
  BY OneArea DEF Lone
<1>4. DOMAIN mmap' = {}
  BY <1>3 DEF Unmapped
<1> QED BY <1>1, <1>2, <1>4 DEF Lone

\* The area changes, and keeps its VMA.
LEMMA LoneKept ==
  ASSUME MatchInv, Lone, NEW i \in DOMAIN areas, NEW new \in Area,
         areas' = [areas EXCEPT ![i] = new], new.vma = areas[i].vma,
         DOMAIN mmap' = DOMAIN mmap
  PROVE  Lone'
<1>1. areas \in Seq(Area) /\ i \in 1..Len(areas) /\ Len(areas) \in Nat /\ DOMAIN areas = 1..Len(areas)
  BY AreaListDomain, LenProperties DEF MatchInv, VmaInv
<1>2. Len(areas') = Len(areas) /\ DOMAIN areas' = DOMAIN areas
  <2>1. areas' \in Seq(Area) /\ Len(areas') = Len(areas)
    BY <1>1, ExceptSeq
  <2> QED BY <1>1, <2>1, LenProperties
<1>3. areas'[i].vma = areas[i].vma /\ i \in DOMAIN areas'
  BY <1>1, <1>2
<1>4. \A v \in DOMAIN mmap' : v = areas[i].vma
  BY OneArea DEF Lone
<1>5. Len(areas') <= 1
  BY <1>2 DEF Lone
<1> QED BY <1>3, <1>4, <1>5 DEF Lone

LEMMA LoneCreate ==
  ASSUME \A t, u \in Pids : t = u, MatchInv, Lone,
         NEW pid \in Pids, NEW size \in Sizes, create_region(pid, size)
  PROVE  Lone'
<1>1. /\ size \in Nat \ {0} /\ VmaInv /\ areas \in Seq(Area)
      /\ \A i \in DOMAIN areas : areas[i] \in Area /\ areas[i].pid = pid
  <2>1. size \in Nat \ {0} /\ VmaInv /\ areas \in Seq(Area)
    BY ConstantsAssumption DEF MatchInv, VmaInv
  <2>2. ASSUME NEW i \in DOMAIN areas PROVE areas[i] \in Area /\ areas[i].pid = pid
    <3>1. areas[i] \in Area
      BY <2>1, AreaListDomain
    <3>2. areas[i].pid \in Pids
      BY <3>1 DEF Area
    <3> QED BY <3>1, <3>2
  <2> QED BY <2>1, <2>2
<1>2. PICK failed \in SUBSET Faults :
        \/ UNCHANGED <<mmap, areas>>
        \/ \E i \in DOMAIN areas : UseArea(i, size, failed)
        \/ /\ \A j \in DOMAIN areas : ~Stops(areas[j], pid, size)
           /\ NewArea(pid, size, failed)
  BY DEF create_region, UseNullArea
<1>3. CASE UNCHANGED <<mmap, areas>>
  BY <1>3 DEF Lone
<1>4. ASSUME NEW i \in DOMAIN areas, UseArea(i, size, failed) PROVE Lone'
  <2> DEFINE a == IF HasSpace(areas[i], size) THEN areas[i] ELSE extend_vma(areas[i], size)
             new == add_region(a, size, failed)
  <2>1. a \in Area /\ a.vma = areas[i].vma
    BY <1>1, ExtendKeeps
  <2>2. areas' = [areas EXCEPT ![i] = new]
    BY <1>4 DEF UseArea
  <2>3. DOMAIN mmap' = DOMAIN mmap
    BY <1>4 DEF UseArea
  <2> HIDE DEF a
  <2>4. new \in Area /\ new.vma = areas[i].vma
    BY <1>1, <2>1, AddRegionKeeps
  <2> HIDE DEF new
  <2> QED BY <2>2, <2>3, <2>4, LoneKept
<1>5. CASE /\ \A j \in DOMAIN areas : ~Stops(areas[j], pid, size)
           /\ NewArea(pid, size, failed)
  <2>1. DOMAIN areas = {}
    BY <1>1, <1>5, LoneStops
  <2>2. Len(areas) = 0 /\ DOMAIN mmap = {}
    <3>1. DOMAIN areas = 1..Len(areas) /\ Len(areas) \in Nat
      BY <1>1, LenProperties
    <3> QED BY <2>1, <3>1 DEF Lone
  <2> DEFINE bytes == align_ceil(size, VMA_SIZE)
             start == get_free_space(bytes)
             Fresh(garbage) ==
               [pid |-> pid, vma |-> start, size |-> bytes, free_space |-> bytes,
                headFree |-> garbage, regions |-> <<>>]
  <2>3. "vma" \notin failed
    BY <1>2, NoFaults
  <2>4. PICK garbage \in HeadFree :
          /\ areas' = Append(areas, add_region(Fresh(garbage), size, failed))
          /\ mmap' = Mapped(start, start + bytes)
    BY <1>5, <2>3 DEF NewArea
  <2>5. bytes \in Nat \ {0} /\ start \in Nat
    <3>1. VMA_SIZE \in Nat \ {0} /\ size \in Nat
      BY <1>1, ConstantsAssumption DEF VMA_SIZE
    <3>2. align_ceil(size, VMA_SIZE) \in Nat /\ align_ceil(size, VMA_SIZE) >= size
      BY <3>1, AlignCeil
    <3>3. size >= 1
      BY ConstantsAssumption
    <3> HIDE DEF start
    <3>4. bytes \in Nat \ {0}
      BY <3>1, <3>2, <3>3
    <3> USE DEF start
    <3> QED BY <1>1, <3>4, FreeSpaceProperties DEF VmaInv
  <2> HIDE DEF bytes, start
  <2> DEFINE a == Fresh(garbage)
             new == add_region(a, size, failed)
  <2>6. a \in Area /\ a.vma = start
    <3>1. <<>> \in Seq(Region) /\ garbage \in BOOLEAN
      BY EmptySeq, ConstantsAssumption
    <3> QED BY <2>5, <3>1 DEF Area
  <2> HIDE DEF a
  <2>7. new \in Area /\ new.vma = start
    BY <1>1, <2>6, AddRegionKeeps
  <2>8. areas' = Append(areas, new)
    BY <2>4 DEF a
  <2> HIDE DEF new
  <2>9. DOMAIN mmap' = {start}
    BY <2>2, <2>4 DEF Mapped
  <2>10. Len(areas') = 1 /\ areas'[1] = new /\ 1 \in DOMAIN areas'
    <3>1. /\ areas' \in Seq(Area) /\ Len(areas') = 1 /\ areas'[1] = new
      BY <1>1, <2>2, <2>7, <2>8, AppendProperties
    <3> QED BY <3>1, LenProperties
  <2> QED BY <2>7, <2>9, <2>10 DEF Lone
<1> QED BY <1>2, <1>3, <1>4, <1>5

LEMMA LoneNext ==
  ASSUME \A t, u \in Pids : t = u, NetInv, Lone, [NetNext]_allVars
  PROVE  Lone'
<1>1. AreasInv /\ MatchInv
  BY DEF NetInv, AreasInv
<1>2. CASE UNCHANGED vars
  BY <1>2 DEF vars, Lone
<1>3. ASSUME NEW pid \in Pids, NEW size \in Sizes, generic_malloc(pid, size) PROVE Lone'
  BY <1>1, <1>3, LoneCreate DEF generic_malloc
<1>4. ASSUME NEW pid \in Pids, NEW b \in Blocks, generic_free(pid, b.start) PROVE Lone'
  <2>1. ASSUME NEW i \in DOMAIN areas, NEW k \in DOMAIN areas[i].regions, FreeRegion(i, k)
        PROVE  Lone'
    <3>1. CASE areas' = RemoveAt(areas, i) /\ mmap' = Unmapped(areas[i].vma)
      BY <1>1, <3>1, LoneGone
    <3>2. ASSUME NEW rs, NEW space,
                 areas' = [areas EXCEPT ![i].regions = rs, ![i].free_space = space], mmap' = mmap,
                 areas' \in Seq(Area)
          PROVE  Lone'
      <4> DEFINE new == [[areas[i] EXCEPT !.regions = rs] EXCEPT !.free_space = space]
      <4>1. areas[i] \in Area /\ new.vma = areas[i].vma
        BY <1>1, AreaListDomain DEF MatchInv, VmaInv, Area
      <4>2. areas' = [areas EXCEPT ![i] = new]
        BY <3>2
      <4> HIDE DEF new
      <4>3. new \in Area
        <5>1. areas \in Seq(Area)
          BY <1>1 DEF MatchInv, VmaInv
        <5>2. i \in DOMAIN areas' /\ areas'[i] = new
          BY <4>2, <5>1
        <5> QED BY <3>2, <5>2, LenProperties
      <4> QED BY <1>1, <3>2, <4>1, <4>2, <4>3, LoneKept
    <3>3. areas' \in Seq(Area)
      <4>1. VmaInv
        BY <1>1 DEF MatchInv
      <4> QED BY <2>1, <4>1, FreeRegionKeeps DEF VmaInv
    <3> QED BY <2>1, <3>1, <3>2, <3>3 DEF FreeRegion
  <2> QED BY <1>1, <1>2, <1>4, <2>1, FreeIs
<1>5. ASSUME NEW pid \in Pids, NEW p, touch(pid, p) PROVE Lone'
  BY <1>2, <1>5 DEF touch
<1>6. ASSUME NEW i \in DOMAIN areas, close_handler(i) PROVE Lone'
  BY <1>1, <1>6, LoneGone DEF close_handler, close_vma
<1> QED BY <1>2, <1>3, <1>4, <1>5, <1>6 DEF NetNext, allVars

\* In a program of one thread nothing more is needed: its area can always be
\* extended, so it has one at a time, and a region out of bounds lies on no
\* page of another (area.c:146-191, generic_malloc.c:38-79).
THEOREM LoneThreadKept ==
  ASSUME \A t, u \in Pids : t = u
  PROVE  NetSpec => []PagesKept
<1>1. NetInit => Lone
  BY DEF NetInit, Init, Lone
<1>2. NetInv /\ Lone /\ [NetNext]_allVars => Lone'
  BY LoneNext
<1>3. Lone => NoStray
  BY DEF Lone, NoStray
<1> QED BY <1>1, <1>2, <1>3, NetInvHolds, KeptHolds, PTL DEF NetSpec
=============================================================================
