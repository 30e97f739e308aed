----------------------------- MODULE LifoProofs -----------------------------
(***************************************************************************)
(* Where frees come in the reverse order of the mallocs, the allocator is  *)
(* right: every region in use lies inside the VMA of its area, and the     *)
(* allocator implements the abstract heap.                                 *)
(***************************************************************************)
EXTENDS RegionProofs

\* Where the last region of an area ends.
Top(a) == IF a.regions = <<>> THEN a.vma ELSE EndOf(a.regions[Len(a.regions)])

\* No region is free, and free_space is what lies behind the last one.
LifoArea(a) ==
  /\ Tiled(a.regions, a.vma)
  /\ \A k \in 1..Len(a.regions) : ~a.regions[k].free
  /\ a.free_space \in Nat
  /\ Top(a) + a.free_space = a.vma + a.size

\* The inductive invariant.
LifoInv == MatchInv /\ \A i \in DOMAIN areas : LifoArea(areas[i])

LEMMA AreaTyped ==
  ASSUME NEW a \in Area
  PROVE  /\ a.vma \in Nat /\ a.size \in Nat /\ a.free_space \in Int /\ a.regions \in Seq(Region)
         /\ a.headFree \in BOOLEAN /\ Len(a.regions) \in Nat
         /\ DOMAIN a.regions = 1..Len(a.regions) /\ Top(a) \in Nat
<1>1. /\ a.vma \in Nat /\ a.size \in Nat /\ a.free_space \in Int /\ a.regions \in Seq(Region)
      /\ a.headFree \in BOOLEAN
  BY DEF Area
<1>2. Len(a.regions) \in Nat /\ DOMAIN a.regions = 1..Len(a.regions)
  BY <1>1, RegionListDomain
<1>3. a.regions # <<>> => Len(a.regions) \in 1..Len(a.regions)
  BY <1>1, <1>2, EmptySeq
<1>4. a.regions # <<>> => EndOf(a.regions[Len(a.regions)]) \in Nat
  BY <1>1, <1>3, RegionListDomain
<1> QED BY <1>1, <1>2, <1>4 DEF Top

\* A region in use ends where the last one does, or before.
LEMMA BelowTop ==
  ASSUME NEW a \in Area, LifoArea(a), NEW k \in 1..Len(a.regions)
  PROVE  /\ a.vma <= a.regions[k].start /\ a.regions[k].start < EndOf(a.regions[k])
         /\ EndOf(a.regions[k]) <= Top(a) /\ Top(a) <= a.vma + a.size
         /\ a.regions[k].start \in Nat /\ EndOf(a.regions[k]) \in Nat
<1> DEFINE L == Len(a.regions)
           E(j) == EndOf(a.regions[j])
           S(j) == a.regions[j].start
<1>1. /\ a.vma \in Nat /\ a.size \in Nat /\ a.regions \in Seq(Region) /\ L \in Nat
      /\ a.free_space \in Nat /\ Top(a) \in Nat /\ Tiled(a.regions, a.vma)
  BY AreaTyped DEF LifoArea
<1>2. L \in 1..L /\ 1 \in 1..L /\ Top(a) = E(L)
  BY <1>1 DEF Top
<1>3. \A j \in 1..L : S(j) \in Nat /\ E(j) \in Nat /\ S(j) < E(j)
  BY <1>1, TiledEnds
<1>4. k # L => E(k) <= S(L)
  <2>1. k # L => k \in 1..(L - 1)
    BY <1>1
  <2> QED BY <1>1, <1>2, <2>1, TiledUpwards
<1>5. S(1) = a.vma
  BY <1>1, <1>2, AreaTyped DEF Tiled
<1>6. k # 1 => E(1) <= S(k)
  <2>1. k # 1 => 1 \in 1..(k - 1)
    BY <1>1
  <2> QED BY <1>1, <2>1, TiledUpwards
<1>7. Top(a) + a.free_space = a.vma + a.size
  BY DEF LifoArea
<1> HIDE DEF E, S, L
<1>8. /\ a.vma <= S(k) /\ S(k) < E(k) /\ E(k) <= Top(a) /\ S(k) \in Nat /\ E(k) \in Nat
  <2>1. k \in 1..L
    BY DEF L
  <2> QED BY <1>1, <1>2, <1>3, <1>4, <1>5, <1>6, <2>1
<1>9. Top(a) <= a.vma + a.size
  BY <1>1, <1>7
<1> QED BY <1>8, <1>9 DEF E, S

\* A region linked behind the last one.
LEMMA LastAdded ==
  ASSUME NEW a \in Area, LifoArea(a), NEW size \in Nat \ {0}, a.free_space >= size, NEW failed
  PROVE  LET new == AddLast(a, size, failed)
         IN  /\ LifoArea(new)
             /\ \/ UsedOf(new.regions) = UsedOf(a.regions)
                \/ \E r : UsedOf(new.regions) = UsedOf(a.regions) \cup {r}
<1> DEFINE rs  == add_region_after(a.regions, Len(a.regions), size, a.vma)
           L   == Len(a.regions)
           new == AddLast(a, size, failed)
<1>1. /\ a.vma \in Nat /\ a.size \in Nat /\ a.regions \in Seq(Region) /\ L \in Nat /\ size \in Nat
      /\ a.free_space \in Nat /\ a.free_space - size \in Nat /\ Top(a) \in Nat
      /\ Tiled(a.regions, a.vma) /\ DOMAIN a.regions = 1..L
  BY AreaTyped DEF LifoArea
<1>2. CASE "region" \in failed
  BY <1>2 DEF AddLast
<1>3. CASE "region" \notin failed
  <2>1. new = [a EXCEPT !.free_space = @ - size, !.regions = rs]
    BY <1>3 DEF AddLast
  <2>2. Tiled(rs, a.vma)
    BY <1>1, LastRegionTiles
  <2>3. Inserted(rs, a.regions, L, NewRegion(a.regions, L, size, a.vma))
    <3>1. L \in 0..L
      BY <1>1
    <3> QED BY <1>1, <3>1, RegionAfter
  <2> HIDE DEF rs
  <2>4. /\ rs \in Seq(Region) /\ Len(rs) = L + 1
        /\ \A j \in 1..L : rs[j] = a.regions[j]
        /\ rs[L + 1] = NewRegion(a.regions, L, size, a.vma)
    <3>1. /\ rs \in Seq(Region) /\ Len(rs) = L + 1
          /\ \A j \in 1..(L + 1) :
               rs[j] = IF j < L + 1 THEN a.regions[j]
                       ELSE IF j = L + 1 THEN NewRegion(a.regions, L, size, a.vma)
                       ELSE a.regions[j - 1]
      BY <2>3 DEF Inserted
    <3> HIDE DEF L
    <3> QED BY <1>1, <3>1
  <2>5. /\ new.regions = rs /\ new.vma = a.vma /\ new.size = a.size
        /\ new.free_space = a.free_space - size
    <3> HIDE DEF new
    <3> QED BY <2>1 DEF Area
  <2> HIDE DEF new
  <2>6. ~rs[L + 1].free /\ rs[L + 1].size = size /\ rs[L + 1].start = Top(a)
    <3>1. L = 0 <=> a.regions = <<>>
      BY <1>1, EmptySeq
    <3>2. rs[L + 1].start = IF L = 0 THEN a.vma ELSE EndOf(a.regions[L])
      BY <2>4 DEF NewRegion
    <3>3. ~rs[L + 1].free /\ rs[L + 1].size = size
      BY <2>4 DEF NewRegion
    <3> QED BY <3>1, <3>2, <3>3 DEF Top
  <2>7. Top(new) = Top(a) + size
    <3>1. rs # <<>>
      BY <1>1, <2>4
    <3>2. Top(new) = EndOf(rs[L + 1])
      BY <2>4, <2>5, <3>1 DEF Top
    <3> QED BY <2>6, <3>2 DEF EndOf
  <2>8. \A k \in 1..Len(rs) : ~rs[k].free
    <3>1. \A k \in 1..Len(rs) : k \in 1..L \/ k = L + 1
      BY <1>1, <2>4
    <3> QED BY <2>4, <2>6, <3>1 DEF LifoArea
  <2>9. Top(new) + new.free_space = new.vma + new.size
    <3>1. Top(a) + a.free_space = a.vma + a.size
      BY DEF LifoArea
    <3> QED BY <1>1, <2>5, <2>7, <3>1
  <2>10. LifoArea(new)
    BY <1>1, <2>2, <2>5, <2>8, <2>9 DEF LifoArea
  <2>11. UsedOf(rs) = UsedOf(a.regions) \cup {rs[L + 1]}
    <3>1. \A k : k \in 1..Len(rs) <=> k \in 1..L \/ k = L + 1
      BY <1>1, <2>4
    <3>2. UsedOf(rs) = {rs[k] : k \in 1..Len(rs)}
      BY <2>8 DEF UsedOf
    <3>3. UsedOf(a.regions) = {a.regions[k] : k \in 1..L}
      BY DEF LifoArea, UsedOf
    <3> QED BY <2>4, <3>1, <3>2, <3>3
  <2> QED BY <2>5, <2>10, <2>11 DEF new
<1> QED BY <1>2, <1>3

\* No region is free, so a malloc adds one behind the last.
LEMMA RegionAdded ==
  ASSUME NEW a \in Area, LifoArea(a), NEW size \in Nat, NEW failed
  PROVE  add_region(a, size, failed) = AddLast(a, size, failed)
<1>1. FreeFits(a.regions, size) = {}
  BY AreaTyped DEF FreeFits, LifoArea
<1> QED BY <1>1 DEF add_region

-----------------------------------------------------------------------------
(* The steps.                                                              *)

LEMMA UseAreaLifo ==
  ASSUME LifoInv, NEW i \in DOMAIN areas, NEW size \in Nat \ {0}, NEW failed,
         UseArea(i, size, failed)
  PROVE  \E new \in Area :
           /\ areas' = [areas EXCEPT ![i] = new] /\ LifoArea(new) /\ new.pid = areas[i].pid
           /\ \/ UsedOf(new.regions) = UsedOf(areas[i].regions)
              \/ \E r : UsedOf(new.regions) = UsedOf(areas[i].regions) \cup {r}
<1> DEFINE a == IF HasSpace(areas[i], size) THEN areas[i] ELSE extend_vma(areas[i], size)
           extra == Extra(areas[i], size)
<1>1. areas[i] \in Area /\ LifoArea(areas[i]) /\ areas[i].free_space \in Nat
  BY AreaListDomain DEF LifoInv, MatchInv, VmaInv, LifoArea
<1>2. /\ a \in Area /\ a.regions = areas[i].regions /\ a.vma = areas[i].vma /\ a.pid = areas[i].pid
      /\ LifoArea(a) /\ a.free_space >= size
  <2>1. CASE HasSpace(areas[i], size)
    BY <1>1, <2>1 DEF HasSpace
  <2>2. CASE ~HasSpace(areas[i], size)
    <3>1. a = extend_vma(areas[i], size)
      BY <2>2
    <3>2. /\ extra \in Nat /\ a \in Area /\ a.vma = areas[i].vma
          /\ a.size = areas[i].size + extra /\ a.regions = areas[i].regions
      BY <1>1, <2>2, ExtendKeeps
    <3>3. a.free_space = areas[i].free_space + extra /\ a.pid = areas[i].pid
      BY <1>1, <3>1 DEF extend_vma, Area
    <3>4. areas[i].size \in Nat /\ areas[i].vma \in Nat /\ Top(areas[i]) \in Nat
      BY <1>1, AreaTyped
    <3>5. extra >= size - areas[i].free_space
      <4> DEFINE wanted == areas[i].size + size - areas[i].free_space
      <4>1. wanted \in Nat /\ PAGE_SIZE \in Nat \ {0}
        BY <1>1, <2>2, <3>4, ConstantsAssumption DEF HasSpace
      <4>2. extra = align_ceil(wanted, PAGE_SIZE) - areas[i].size
        BY DEF Extra
      <4> HIDE DEF wanted, extra
      <4>3. align_ceil(wanted, PAGE_SIZE) \in Nat /\ align_ceil(wanted, PAGE_SIZE) >= wanted
        BY <4>1, AlignCeil
      <4> QED BY <1>1, <3>4, <4>1, <4>2, <4>3 DEF wanted
    <3> HIDE DEF a, extra
    <3>6. Top(a) = Top(areas[i])
      BY <3>2 DEF Top
    <3>7. a.free_space \in Nat /\ a.free_space >= size
      BY <1>1, <3>2, <3>3, <3>5
    <3>8. Top(a) + a.free_space = a.vma + a.size
      <4>1. Top(areas[i]) + areas[i].free_space = areas[i].vma + areas[i].size
        BY <1>1 DEF LifoArea
      <4> QED BY <1>1, <3>2, <3>3, <3>4, <3>6, <4>1
    <3>9. LifoArea(a)
      BY <1>1, <3>2, <3>7, <3>8 DEF LifoArea
    <3> QED BY <3>2, <3>3, <3>7, <3>9
  <2> QED BY <2>1, <2>2
<1>3. areas' = [areas EXCEPT ![i] = add_region(a, size, failed)]
  BY DEF UseArea
<1> HIDE DEF a
<1> DEFINE new == AddLast(a, size, failed)
<1>4. add_region(a, size, failed) = new
  BY <1>2, RegionAdded
<1>5. new \in Area /\ new.pid = a.pid
  BY <1>2, AddLastKeeps, AddLastGrows
<1>6. /\ LifoArea(new)
      /\ \/ UsedOf(new.regions) = UsedOf(a.regions)
         \/ \E r : UsedOf(new.regions) = UsedOf(a.regions) \cup {r}
  BY <1>2, LastAdded
<1> HIDE DEF new
<1> QED BY <1>2, <1>3, <1>4, <1>5, <1>6

LEMMA NewAreaLifo ==
  ASSUME LifoInv, NEW pid \in Pids, NEW size \in Nat \ {0}, NEW failed,
         "vma" \notin failed, NewArea(pid, size, failed)
  PROVE  \E new \in Area :
           /\ areas' = Append(areas, new) /\ LifoArea(new)
           /\ UsedOf(new.regions) = {} \/ \E r : UsedOf(new.regions) = {r}
<1> DEFINE bytes == align_ceil(size, VMA_SIZE)
           start == get_free_space(bytes)
           Fresh(garbage) ==
             [pid |-> pid, vma |-> start, size |-> bytes, free_space |-> bytes,
              headFree |-> garbage, regions |-> <<>>]
<1>1. bytes \in Nat \ {0} /\ bytes >= size /\ start \in Nat
  <2>1. VMA_SIZE \in Nat \ {0} /\ size \in Nat
    BY ConstantsAssumption DEF VMA_SIZE
  <2>2. bytes \in Nat \ {0} /\ bytes >= size
    BY <2>1, AlignCeil
  <2> QED BY <2>2, FreeSpaceProperties DEF LifoInv, MatchInv, VmaInv
<1>2. PICK garbage \in HeadFree : areas' = Append(areas, add_region(Fresh(garbage), size, failed))
  BY DEF NewArea
<1> HIDE DEF bytes, start
<1> DEFINE a == Fresh(garbage)
<1>3. /\ a \in Area /\ a.regions = <<>> /\ a.vma = start /\ a.size = bytes /\ a.free_space = bytes
  <2>1. <<>> \in Seq(Region) /\ garbage \in BOOLEAN
    BY <1>2, EmptySeq, ConstantsAssumption
  <2> QED BY <1>1, <2>1 DEF Area
<1>4. areas' = Append(areas, add_region(a, size, failed))
  BY <1>2
<1> HIDE DEF a
<1>5. LifoArea(a) /\ a.free_space >= size /\ UsedOf(a.regions) = {}
  <2>1. Top(a) = start
    BY <1>3 DEF Top
  <2>2. Tiled(<<>>, start)
    BY DEF Tiled
  <2> QED BY <1>1, <1>3, <2>1, <2>2 DEF LifoArea, UsedOf
<1> DEFINE new == AddLast(a, size, failed)
<1>6. add_region(a, size, failed) = new
  BY <1>3, <1>5, RegionAdded
<1>7. new \in Area
  BY <1>3, AddLastKeeps
<1>8. /\ LifoArea(new)
      /\ \/ UsedOf(new.regions) = UsedOf(a.regions)
         \/ \E r : UsedOf(new.regions) = UsedOf(a.regions) \cup {r}
  BY <1>3, <1>5, LastAdded
<1> HIDE DEF new
<1> QED BY <1>4, <1>5, <1>6, <1>7, <1>8

\* The last region freed goes, and nothing merges.
LEMMA LastFreed ==
  ASSUME LifoInv, NEW i \in DOMAIN areas, areas[i].regions # <<>>,
         FreeRegion(i, Len(areas[i].regions))
  PROVE  \/ areas' = RemoveAt(areas, i)
         \/ \E new \in Area :
              /\ areas' = [areas EXCEPT ![i] = new] /\ LifoArea(new) /\ new.pid = areas[i].pid
              /\ UsedOf(new.regions) \subseteq UsedOf(areas[i].regions)
<1> DEFINE a  == areas[i]
           L  == Len(a.regions)
           freed == [a.regions EXCEPT ![L].free = TRUE]
           rs == merge_neighbors_region(freed, L, a.headFree)
           space == a.free_space + a.regions[L].size
           b  == [[a EXCEPT !.regions = rs] EXCEPT !.free_space = space]
<1>1. /\ a \in Area /\ LifoArea(a) /\ a.regions \in Seq(Region) /\ a.headFree \in BOOLEAN
      /\ a.vma \in Nat /\ a.size \in Nat /\ a.free_space \in Nat
      /\ L \in Nat /\ DOMAIN a.regions = 1..L
  BY AreaListDomain, AreaTyped DEF LifoInv, MatchInv, VmaInv, LifoArea
<1>2. L \in 1..L /\ L >= 1 /\ Top(a) = EndOf(a.regions[L])
  <2>1. L # 0
    BY <1>1, EmptySeq
  <2> QED BY <1>1, <2>1 DEF Top
<1>3. /\ freed \in Seq(Region) /\ Len(freed) = L
      /\ \A j \in 1..L : j # L => freed[j] = a.regions[j]
      /\ freed[L].free
  BY <1>1, <1>2, FreedIs
<1> HIDE DEF freed
<1>4. PICK lo \in {L - 1, L}, hi \in {L, L + 1}, n \in {0, 1} :
        /\ Merged(rs, freed, lo, hi, n)
        /\ n = 0 <=> hi = Len(freed) \/ (L = 1 /\ a.headFree)
  <2>1. L \in 1..Len(freed) /\ a.headFree \in BOOLEAN
    BY <1>1, <1>2, <1>3
  <2> HIDE DEF L, a
  <2> QED BY <1>3, <2>1, MergeIs
<1>5. areas' = IF rs # <<>> \/ FreesListHead(a.regions, L, a.headFree)
               THEN [areas EXCEPT ![i].regions = rs, ![i].free_space = space]
               ELSE RemoveAt(areas, i)
  BY DEF FreeRegion, freed
<1> HIDE DEF rs
<1>6. lo = L /\ hi = L /\ n = 0
  <2>1. lo \in 1..L /\ hi \in lo..L /\ \A j \in lo..hi : freed[j].free
    BY <1>3, <1>4 DEF Merged
  <2>2. hi = L
    BY <1>1, <1>4, <2>1
  <2>3. lo # L - 1
    <3> SUFFICES ASSUME lo = L - 1 PROVE FALSE
      OBVIOUS
    <3>1. lo \in 1..L /\ lo # L /\ lo \in lo..hi
      BY <1>1, <2>1, <2>2
    <3>2. freed[lo].free /\ freed[lo] = a.regions[lo]
      BY <1>3, <2>1, <3>1
    <3> QED BY <1>1, <3>1, <3>2 DEF LifoArea
  <2> QED BY <1>3, <1>4, <2>2, <2>3
<1>7. /\ rs \in Seq(Region) /\ Len(rs) = L - 1
      /\ \A j \in 1..(L - 1) : rs[j] = a.regions[j]
  <2>1. Len(rs) = Len(freed) - (L - L + 1) + 0 /\ rs \in Seq(Region) /\ \A j \in 1..(L - 1) : rs[j] = freed[j]
    BY <1>4, <1>6, Zenon DEF Merged
  <2>2. \A j \in 1..(L - 1) : j \in 1..L /\ j # L
    BY <1>1
  <2> QED BY <1>1, <1>3, <2>1, <2>2
<1>8. /\ a.regions[L].start \in Nat /\ a.regions[L].size \in Nat /\ space \in Nat
      /\ Top(a) = a.regions[L].start + a.regions[L].size
      /\ a.regions[L].start = IF L = 1 THEN a.vma ELSE EndOf(a.regions[L - 1])
  <2>1. a.regions[L].start \in Nat /\ a.regions[L].size \in Nat
    BY <1>1, <1>2, RegionListDomain
  <2>2. Tiled(a.regions, a.vma) /\ L \in DOMAIN a.regions
    BY <1>1, <1>2 DEF LifoArea
  <2>3. a.regions[L].start = IF L = 1 THEN a.vma ELSE EndOf(a.regions[L - 1])
    BY <2>2 DEF Tiled
  <2> QED BY <1>1, <1>2, <2>1, <2>3 DEF EndOf
<1>9. DOMAIN rs = 1..(L - 1)
  BY <1>7, RegionListDomain
<1> HIDE DEF space, L
<1>10. /\ b \in Area /\ b.regions = rs /\ b.free_space = space /\ b.vma = a.vma
       /\ b.size = a.size /\ b.pid = a.pid
  <2>1. a \in Area /\ rs \in Seq(Region) /\ space \in Int
    BY <1>1, <1>7, <1>8
  <2> HIDE DEF a
  <2> QED BY <2>1 DEF Area
<1>11. CASE areas' = RemoveAt(areas, i)
  BY <1>11
<1>12. CASE areas' # RemoveAt(areas, i)
  <2>1. areas' = [areas EXCEPT ![i] = b]
    BY <1>1, <1>5, <1>12 DEF Area
  <2> HIDE DEF b
  <2>2. Tiled(rs, a.vma)
    <3>1. \A j \in 1..(L - 1) : j \in 1..L /\ (j # 1 => j - 1 \in 1..(L - 1))
      BY <1>1
    <3>2. Tiled(a.regions, a.vma)
      BY <1>1 DEF LifoArea
    <3> QED BY <1>1, <1>7, <1>9, <3>1, <3>2 DEF Tiled
  <2>3. \A j \in 1..Len(rs) : ~rs[j].free
    <3>1. \A j \in 1..(L - 1) : j \in 1..L
      BY <1>1
    <3> QED BY <1>1, <1>7, <3>1 DEF LifoArea, L
  <2>4. Top(b) = a.regions[L].start
    <3>1. CASE L = 1
      <4>1. rs = <<>>
        BY <1>7, <3>1, EmptySeq
      <4> QED BY <1>8, <1>10, <3>1, <4>1 DEF Top
    <3>2. CASE L # 1
      <4>1. L - 1 \in 1..(L - 1) /\ Len(rs) # 0
        BY <1>1, <1>2, <1>7, <3>2
      <4>2. rs # <<>>
        BY <4>1
      <4>3. rs[Len(rs)] = a.regions[L - 1]
        BY <1>7, <4>1
      <4> QED BY <1>8, <1>10, <3>2, <4>2, <4>3 DEF Top
    <3> QED BY <3>1, <3>2
  <2>5. space = a.free_space + a.regions[L].size
    BY DEF space
  <2>6. Top(a) + a.free_space = a.vma + a.size
    BY <1>1 DEF LifoArea
  <2>7. Top(b) + space = a.vma + a.size
    BY <1>1, <1>8, <2>4, <2>5, <2>6
  <2>8. LifoArea(b)
    BY <1>8, <1>10, <2>2, <2>3, <2>7 DEF LifoArea
  <2>9. UsedOf(rs) \subseteq UsedOf(a.regions)
    <3>1. \A j \in 1..(L - 1) : j \in 1..L
      BY <1>1
    <3> QED BY <1>7, <3>1 DEF UsedOf, L
  <2> QED BY <1>10, <2>1, <2>8, <2>9
<1> QED BY <1>11, <1>12

\* The lookups of netfree find the last region where it is.
LEMMA LifoFreeIs ==
  ASSUME LifoInv, NEW i \in DOMAIN areas, LifoFree(areas[i].pid, i)
  PROVE  /\ areas[i].regions # <<>> /\ FreeRegion(i, Len(areas[i].regions))
         /\ \E pid \in Pids, b \in Blocks : remove_region(pid, b.start)
<1> DEFINE a == areas[i]
           L == Len(a.regions)
           address == a.regions[L].start
<1>1. a.regions # <<>> /\ remove_region(a.pid, address)
  BY DEF LifoFree, Last
<1>2. /\ a \in Area /\ LifoArea(a) /\ a.regions \in Seq(Region) /\ L \in Nat
      /\ a.vma \in Nat /\ DOMAIN a.regions = 1..L /\ a.pid \in Pids
  <2>1. a \in Area /\ LifoArea(a)
    BY AreaListDomain DEF LifoInv, MatchInv, VmaInv
  <2> QED BY <2>1, AreaTyped DEF Area
<1>3. L \in 1..L
  <2>1. L # 0
    BY <1>1, <1>2, EmptySeq
  <2> QED BY <1>2, <2>1
<1>4. address \in Nat /\ a.vma <= address /\ address < mmap[a.vma]
  <2>1. /\ a.vma <= address /\ address < EndOf(a.regions[L]) /\ EndOf(a.regions[L]) <= Top(a)
        /\ Top(a) <= a.vma + a.size /\ address \in Nat /\ EndOf(a.regions[L]) \in Nat
    BY <1>2, <1>3, BelowTop
  <2>2. a.size = mmap[a.vma] - a.vma /\ mmap[a.vma] \in Nat /\ a.size \in Nat /\ Top(a) \in Nat
    BY <1>2, AreaTyped DEF LifoInv, MatchInv, AreaMatchesVma, VmaInv, MmapInv
  <2> HIDE DEF address, L, a
  <2> QED BY <1>2, <2>1, <2>2
<1>5. a.vma # NULL /\ \A j \in DOMAIN areas : areas[j].vma # NULL
  BY DEF LifoInv, MatchInv, AreaMatchesVma, VmaInv, MmapInv
<1>6. PICK j \in DOMAIN areas :
        /\ get_area(areas[j], a.pid, address)
        /\ \E k \in get_region(areas[j], address) : FreeRegion(j, k)
  BY <1>1, <1>5 DEF remove_region
<1>7. j = i
  <2> HIDE DEF address
  <2> QED BY <1>4, <1>5, <1>6, OneAreaAt DEF get_area, LifoInv
<1>8. FreeRegion(i, L)
  <2>1. PICK k \in get_region(a, address) : FreeRegion(i, k)
    BY <1>6, <1>7
  <2>2. k \in 1..L /\ a.regions[k].start = address
    BY <1>2, <2>1 DEF get_region
  <2>3. k = L
    BY <1>2, <1>3, <2>2, TiledStarts DEF LifoArea
  <2> QED BY <2>1, <2>3
<1>9. \E b \in Blocks : b.start = address
  <2>1. ~a.regions[L].free
    BY <1>2, <1>3 DEF LifoArea
  <2>2. BlockOf(a, a.regions[L]) \in BlocksOf(a)
    BY <1>3, <2>1 DEF BlocksOf, UsedOf
  <2>3. Blocks = BlocksIn(areas)
    BY BlocksOfList DEF Blocks, LifoInv, MatchInv, VmaInv
  <2> QED BY <2>2, <2>3 DEF BlocksIn, BlockOf
<1> QED BY <1>1, <1>2, <1>8, <1>9

\* What a step makes of the list of areas.
LEMMA LifoStep ==
  ASSUME "vma" \notin Faults, LifoInv, [LifoNext]_vars
  PROVE  /\ [Next]_vars
         /\ \/ UNCHANGED areas
            \/ \E i \in DOMAIN areas : areas' = RemoveAt(areas, i)
            \/ \E i \in DOMAIN areas, new \in Area :
                 /\ areas' = [areas EXCEPT ![i] = new] /\ LifoArea(new) /\ new.pid = areas[i].pid
                 /\ \/ UsedOf(new.regions) \subseteq UsedOf(areas[i].regions)
                    \/ \E r : UsedOf(new.regions) = UsedOf(areas[i].regions) \cup {r}
            \/ \E new \in Area :
                 /\ areas' = Append(areas, new) /\ LifoArea(new)
                 /\ UsedOf(new.regions) = {} \/ \E r : UsedOf(new.regions) = {r}
<1> DEFINE Same == UNCHANGED areas
           Gone == \E i \in DOMAIN areas : areas' = RemoveAt(areas, i)
           Changed ==
             \E i \in DOMAIN areas, new \in Area :
               /\ areas' = [areas EXCEPT ![i] = new] /\ LifoArea(new) /\ new.pid = areas[i].pid
               /\ \/ UsedOf(new.regions) \subseteq UsedOf(areas[i].regions)
                  \/ \E r : UsedOf(new.regions) = UsedOf(areas[i].regions) \cup {r}
           Added ==
             \E new \in Area :
               /\ areas' = Append(areas, new) /\ LifoArea(new)
               /\ UsedOf(new.regions) = {} \/ \E r : UsedOf(new.regions) = {r}
<1> SUFFICES [Next]_vars /\ (Same \/ Gone \/ Changed \/ Added)
  OBVIOUS
<1>1. CASE UNCHANGED vars
  BY <1>1 DEF vars
<1>2. ASSUME NEW pid \in Pids, NEW size \in Sizes, create_region(pid, size)
      PROVE  Next /\ (Same \/ Gone \/ Changed \/ Added)
  <2>1. size \in Nat \ {0}
    BY ConstantsAssumption
  <2>2. PICK failed \in SUBSET Faults :
          \/ UNCHANGED areas
          \/ \E i \in DOMAIN areas : UseArea(i, size, failed)
          \/ NewArea(pid, size, failed)
    BY <1>2 DEF create_region, UseNullArea
  <2>3. ASSUME NEW i \in DOMAIN areas, UseArea(i, size, failed) PROVE Changed
    <3>1. PICK new \in Area :
            /\ areas' = [areas EXCEPT ![i] = new] /\ LifoArea(new) /\ new.pid = areas[i].pid
            /\ \/ UsedOf(new.regions) = UsedOf(areas[i].regions)
               \/ \E r : UsedOf(new.regions) = UsedOf(areas[i].regions) \cup {r}
      BY <2>1, <2>3, UseAreaLifo
    <3> QED BY <3>1
  <2>4. CASE NewArea(pid, size, failed)
    <3>1. "vma" \notin failed
      BY <2>2
    <3>2. Added
      BY <2>1, <2>4, <3>1, NewAreaLifo
    <3> QED BY <1>2, <3>2 DEF Next
  <2> HIDE DEF Same, Gone, Changed, Added
  <2>5. Next
    BY <1>2 DEF Next
  <2> QED BY <2>2, <2>3, <2>4, <2>5 DEF Same
<1>3. ASSUME NEW i \in DOMAIN areas, LifoFree(areas[i].pid, i)
      PROVE  Next /\ (Same \/ Gone \/ Changed \/ Added)
  <2>1. /\ areas[i].regions # <<>> /\ FreeRegion(i, Len(areas[i].regions))
        /\ \E pid \in Pids, b \in Blocks : remove_region(pid, b.start)
    BY <1>3, LifoFreeIs
  <2>2. Gone \/ Changed
    BY <2>1, LastFreed
  <2> QED BY <2>1, <2>2 DEF Next
<1>4. ASSUME Environment
      PROVE  Next /\ (Same \/ Gone \/ Changed \/ Added)
  BY <1>4 DEF Next, Environment, close_vma, ForeignMap, ForeignUnmap
<1> HIDE DEF Same, Gone, Changed, Added
<1> QED BY <1>1, <1>2, <1>3, <1>4 DEF LifoNext

LEMMA LifoInvNext ==
  ASSUME "vma" \notin Faults
  PROVE  LifoInv /\ [LifoNext]_vars => LifoInv'
<1> SUFFICES ASSUME LifoInv, [LifoNext]_vars PROVE LifoInv'
  OBVIOUS
<1>1. MatchInv'
  BY LifoStep, MatchInvNext DEF LifoInv
<1>2. ASSUME NEW j \in DOMAIN areas' PROVE LifoArea(areas'[j])
  <2>1. VmaInv /\ \A i \in DOMAIN areas : LifoArea(areas[i])
    BY DEF LifoInv, MatchInv
  <2>2. CASE UNCHANGED areas
    BY <2>1, <2>2
  <2>3. ASSUME NEW i \in DOMAIN areas, areas' = RemoveAt(areas, i) PROVE LifoArea(areas'[j])
    BY <2>1, <2>3, RemovedIs
  <2>4. ASSUME NEW i \in DOMAIN areas, NEW new \in Area, areas' = [areas EXCEPT ![i] = new],
               LifoArea(new)
        PROVE  LifoArea(areas'[j])
    <3>1. areas'[j] \in {new, areas[j]} /\ j \in DOMAIN areas
      BY <2>4
    <3> QED BY <2>1, <2>4, <3>1
  <2>5. ASSUME NEW new \in Area, areas' = Append(areas, new), LifoArea(new)
        PROVE  LifoArea(areas'[j])
    BY <2>1, <2>5, AppendedIs
  <2> QED BY <2>2, <2>3, <2>4, <2>5, LifoStep
<1> QED BY <1>1, <1>2 DEF LifoInv

LEMMA LifoInvHolds ==
  ASSUME "vma" \notin Faults
  PROVE  LifoSpec => []LifoInv
<1>1. Init => LifoInv
  BY VmaInvInit DEF Init, LifoInv, MatchInv, AreaMatchesVma
<1> QED BY <1>1, LifoInvNext, PTL DEF LifoSpec

\* Every used region lies inside the VMA of its area: what free_space counts is
\* there, behind the last region, when the program frees in reverse order
\* (area.c:163, 173).
THEOREM LifoInBounds ==
  ASSUME "vma" \notin Faults
  PROVE  LifoSpec => []InBounds
<1>1. LifoInv => InBounds
  <2> SUFFICES ASSUME LifoInv, NEW i \in DOMAIN areas, NEW k \in DOMAIN areas[i].regions
               PROVE  EndOf(areas[i].regions[k]) <= mmap[areas[i].vma]
    BY DEF InBounds
  <2> DEFINE a == areas[i]
  <2>1. a \in Area /\ LifoArea(a)
    BY AreaListDomain DEF LifoInv, MatchInv, VmaInv
  <2>2. k \in 1..Len(a.regions)
    BY <2>1, AreaTyped
  <2>3. /\ EndOf(a.regions[k]) <= Top(a) /\ Top(a) <= a.vma + a.size /\ EndOf(a.regions[k]) \in Nat
        /\ a.vma \in Nat /\ a.size \in Nat /\ Top(a) \in Nat
    BY <2>1, <2>2, BelowTop, AreaTyped
  <2>4. a.size = mmap[a.vma] - a.vma /\ mmap[a.vma] \in Nat
    BY DEF LifoInv, MatchInv, AreaMatchesVma, VmaInv, MmapInv
  <2> HIDE DEF a
  <2>5. EndOf(a.regions[k]) <= mmap[a.vma]
    BY <2>3, <2>4
  <2> QED BY <2>5 DEF a
<1> QED BY <1>1, LifoInvHolds, PTL

\* Under LIFO frees free_space is exact: no region is free when netmalloc comes, so
\* none is reused uncounted (area.c:105-107, 113).
THEOREM LifoExact ==
  ASSUME "vma" \notin Faults
  PROVE  LifoSpec => []FreeSpaceExact
<1> DEFINE Inv == \A i \in DOMAIN areas : Slack(areas[i]) = 0
<1>1. Init => Inv
  BY DEF Init
<1>2. LifoInv /\ Inv /\ [LifoNext]_vars => Inv'
  <2> SUFFICES ASSUME LifoInv, Inv, [LifoNext]_vars, NEW j \in DOMAIN areas'
               PROVE  Slack(areas'[j]) = 0
    OBVIOUS
  <2>1. VmaInv /\ [Next]_vars
    BY LifoStep DEF LifoInv, MatchInv
  <2>2. \A i \in DOMAIN areas : Slack(areas[i]) = 0 /\ AllUsed(areas[i])
    BY DEF LifoInv, LifoArea, AllUsed
  <2> QED BY <2>1, <2>2, StepSlack DEF Follows
<1>3. LifoInv /\ Inv => FreeSpaceExact
  <2>1. LifoInv => VmaInv
    BY DEF LifoInv, MatchInv
  <2> QED BY <2>1, SlackOf DEF FreeSpaceExact
<1> HIDE DEF Inv
<1> QED BY <1>1, <1>2, <1>3, LifoInvHolds, PTL DEF LifoSpec

-----------------------------------------------------------------------------
(* The abstract heap.                                                      *)

Apart == \A b, c \in Blocks : b # c => ~H!Overlap(b, c)

\* Two regions of one area, or of two, do not overlap.
LEMMA LifoApart == LifoInv => Apart
<1> SUFFICES ASSUME LifoInv, NEW b \in Blocks, NEW c \in Blocks, b # c
             PROVE  ~H!Overlap(b, c)
  BY DEF Apart
<1>1. /\ areas \in Seq(Area) /\ MmapInv /\ Blocks = BlocksIn(areas)
      /\ \A i \in DOMAIN areas : areas[i] \in Area /\ LifoArea(areas[i])
  BY AreaListDomain, BlocksOfList DEF Blocks, LifoInv, MatchInv, VmaInv
<1>2. PICK i \in DOMAIN areas : b \in BlocksOf(areas[i])
  BY <1>1 DEF BlocksIn
<1>3. PICK j \in DOMAIN areas : c \in BlocksOf(areas[j])
  BY <1>1 DEF BlocksIn
<1> DEFINE x == areas[i]
           y == areas[j]
<1>4. PICK k \in 1..Len(x.regions) : b = BlockOf(x, x.regions[k])
  BY <1>2 DEF BlocksOf, UsedOf
<1>5. PICK m \in 1..Len(y.regions) : c = BlockOf(y, y.regions[m])
  BY <1>3 DEF BlocksOf, UsedOf
<1> DEFINE r == x.regions[k]
           s == y.regions[m]
<1>6. /\ x \in Area /\ LifoArea(x) /\ x.vma \in Nat /\ x.size \in Nat /\ Top(x) \in Nat
      /\ x.regions \in Seq(Region) /\ Len(x.regions) \in Nat
  BY <1>1, AreaTyped
<1>7. /\ y \in Area /\ LifoArea(y) /\ y.vma \in Nat /\ y.size \in Nat /\ Top(y) \in Nat
      /\ y.regions \in Seq(Region)
  BY <1>1, AreaTyped
<1>8. /\ x.vma <= r.start /\ EndOf(r) <= Top(x) /\ Top(x) <= x.vma + x.size
      /\ r.start \in Nat /\ EndOf(r) \in Nat
  BY <1>6, BelowTop
<1>9. /\ y.vma <= s.start /\ EndOf(s) <= Top(y) /\ Top(y) <= y.vma + y.size
      /\ s.start \in Nat /\ EndOf(s) \in Nat
  BY <1>7, BelowTop
<1>10. /\ b.start = r.start /\ b.start + b.size = EndOf(r)
       /\ c.start = s.start /\ c.start + c.size = EndOf(s)
  BY <1>4, <1>5 DEF BlockOf, EndOf
<1>11. EndOf(r) <= s.start \/ EndOf(s) <= r.start
  <2>1. CASE i = j
    <3>1. k # m
      BY <1>4, <1>5, <2>1
    <3>2. Tiled(x.regions, x.vma) /\ m \in 1..Len(x.regions)
      BY <1>6, <2>1 DEF LifoArea
    <3>3. m \in 1..(k - 1) \/ k \in 1..(m - 1)
      <4> HIDE DEF x
      <4> QED BY <1>6, <3>1, <3>2
    <3>4. \/ EndOf(x.regions[m]) <= x.regions[k].start
          \/ EndOf(x.regions[k]) <= x.regions[m].start
      <4> HIDE DEF x
      <4> QED BY <1>6, <3>2, <3>3, TiledUpwards
    <3> QED BY <2>1, <3>4
  <2>2. CASE i # j
    <3>1. /\ x.vma \in DOMAIN mmap /\ x.size = mmap[x.vma] - x.vma
          /\ y.vma \in DOMAIN mmap /\ y.size = mmap[y.vma] - y.vma
          /\ x.vma # y.vma
      BY <2>2 DEF LifoInv, MatchInv, AreaMatchesVma
    <3>2. mmap[x.vma] \in Nat /\ mmap[y.vma] \in Nat
      BY <1>1, <3>1 DEF MmapInv
    <3>3. \/ x.vma < y.vma /\ mmap[x.vma] <= y.vma
          \/ y.vma < x.vma /\ mmap[y.vma] <= x.vma
      <4>1. VmasDisjoint
        BY <1>1 DEF MmapInv
      <4>2. x.vma < y.vma \/ y.vma < x.vma
        BY <1>6, <1>7, <3>1
      <4> QED BY <3>1, <4>1, <4>2 DEF VmasDisjoint
    <3> HIDE DEF x, y, r, s
    <3>4. EndOf(r) <= mmap[x.vma] /\ x.vma <= r.start
      BY <1>6, <1>8, <3>1, <3>2
    <3>5. EndOf(s) <= mmap[y.vma] /\ y.vma <= s.start
      BY <1>7, <1>9, <3>1, <3>2
    <3>6. \A p, q, u, v \in Nat : p <= q /\ q <= u /\ u <= v => p <= v
      OBVIOUS
    <3>7. /\ r.start \in Nat /\ EndOf(r) \in Nat /\ s.start \in Nat /\ EndOf(s) \in Nat
          /\ x.vma \in Nat /\ y.vma \in Nat
      BY <1>6, <1>7, <1>8, <1>9
    <3>8. CASE mmap[x.vma] <= y.vma
      BY <3>2, <3>4, <3>5, <3>6, <3>7, <3>8
    <3>9. CASE mmap[y.vma] <= x.vma
      BY <3>2, <3>4, <3>5, <3>6, <3>7, <3>9
    <3> QED BY <3>3, <3>8, <3>9
  <2> QED BY <2>1, <2>2
<1> HIDE DEF r, s
<1>12. ~(b.start < c.start + c.size /\ c.start < b.start + b.size)
  BY <1>8, <1>9, <1>10, <1>11
<1> QED BY <1>12 DEF H!Overlap

\* The blocks of an area that changes.
LEMMA BlocksChange ==
  ASSUME NEW old, NEW new, new.pid = old.pid
  PROVE  /\ UsedOf(new.regions) \subseteq UsedOf(old.regions) =>
              BlocksOf(new) \subseteq BlocksOf(old)
         /\ \A r : UsedOf(new.regions) = UsedOf(old.regions) \cup {r} =>
              BlocksOf(new) = BlocksOf(old) \cup {BlockOf(new, r)}
BY DEF BlocksOf, BlockOf

\* A step takes blocks back or hands one out.
LEMMA LifoBlocks ==
  ASSUME "vma" \notin Faults, LifoInv, LifoInv', [LifoNext]_vars
  PROVE  Blocks' \subseteq Blocks \/ \E b : Blocks' = Blocks \cup {b}
<1>1. VmaInv /\ VmaInv'
  BY DEF LifoInv, MatchInv
<1>2. /\ Blocks = UNION {BlocksOf(areas[i]) : i \in DOMAIN areas}
      /\ Blocks' = UNION {BlocksOf(areas'[i]) : i \in DOMAIN areas'}
  BY <1>1, BlocksAre DEF BlocksIn
<1>3. CASE UNCHANGED areas
  BY <1>2, <1>3
<1>4. ASSUME NEW i \in DOMAIN areas, areas' = RemoveAt(areas, i)
      PROVE  Blocks' \subseteq Blocks
  <2>1. \A j \in DOMAIN areas' : \E m \in DOMAIN areas : areas'[j] = areas[m]
    BY <1>1, <1>4, RemovedIs
  <2> QED BY <1>2, <2>1
<1>5. ASSUME NEW i \in DOMAIN areas, NEW new \in Area, areas' = [areas EXCEPT ![i] = new],
             new.pid = areas[i].pid,
             \/ UsedOf(new.regions) \subseteq UsedOf(areas[i].regions)
             \/ \E r : UsedOf(new.regions) = UsedOf(areas[i].regions) \cup {r}
      PROVE  Blocks' \subseteq Blocks \/ \E b : Blocks' = Blocks \cup {b}
  <2>1. \/ BlocksOf(new) \subseteq BlocksOf(areas[i])
        \/ \E b : BlocksOf(new) = BlocksOf(areas[i]) \cup {b}
    <3> DEFINE old == areas[i]
    <3>1. new.pid = old.pid
      BY <1>5
    <3>2. /\ UsedOf(new.regions) \subseteq UsedOf(old.regions) =>
               BlocksOf(new) \subseteq BlocksOf(old)
          /\ \A r : UsedOf(new.regions) = UsedOf(old.regions) \cup {r} =>
               BlocksOf(new) = BlocksOf(old) \cup {BlockOf(new, r)}
      <4> HIDE DEF old
      <4> QED BY <3>1, BlocksChange
    <3> QED BY <1>5, <3>2
  <2>2. /\ DOMAIN areas' = DOMAIN areas /\ areas'[i] = new
        /\ \A j \in DOMAIN areas : j # i => areas'[j] = areas[j]
    <3>1. areas \in [DOMAIN areas -> Area]
      BY <1>1, AreaListDomain DEF VmaInv
    <3> QED BY <1>5, <3>1
  <2> QED BY <1>2, <2>1, <2>2
<1>6. ASSUME NEW new \in Area, areas' = Append(areas, new),
             UsedOf(new.regions) = {} \/ \E r : UsedOf(new.regions) = {r}
      PROVE  Blocks' \subseteq Blocks \/ \E b : Blocks' = Blocks \cup {b}
  <2>1. BlocksOf(new) = {} \/ \E b : BlocksOf(new) = {b}
    BY <1>6 DEF BlocksOf
  <2>2. /\ DOMAIN areas \subseteq DOMAIN areas'
        /\ \A j \in DOMAIN areas : areas'[j] = areas[j]
        /\ \A j \in DOMAIN areas' : j \in DOMAIN areas \/ areas'[j] = new
        /\ \E j \in DOMAIN areas' : areas'[j] = new
    <3>1. areas \in Seq(Area)
      BY <1>1 DEF VmaInv
    <3>2. Len(areas) + 1 \in DOMAIN areas' /\ areas'[Len(areas) + 1] = new
      BY <1>6, <3>1, AppendProperties, LenProperties
    <3> QED BY <1>1, <1>6, <3>2, AppendedIs
  <2> QED BY <1>2, <2>1, <2>2
<1> QED BY <1>3, <1>4, <1>5, <1>6, LifoStep

\* The allocator implements the abstract heap for the programs that free in
\* reverse order: a region handed out overlaps none in use, and a region in use
\* stays as it is (area.c:194-269).
THEOREM LifoHeap ==
  ASSUME "vma" \notin Faults
  PROVE  LifoSpec => HeapSpec
<1>1. Init => H!Init
  BY EmptySeq DEF Init, H!Init, Blocks
<1>2. LifoInv /\ LifoInv' /\ Apart' /\ [LifoNext]_vars => [H!Next]_Blocks
  <2> SUFFICES ASSUME LifoInv, LifoInv', Apart', [LifoNext]_vars PROVE H!Next
    OBVIOUS
  <2>1. CASE Blocks' \subseteq Blocks
    BY <2>1 DEF H!Next, H!Release
  <2>2. CASE ~(Blocks' \subseteq Blocks)
    <3>1. PICK b : Blocks' = Blocks \cup {b}
      BY <2>2, LifoBlocks
    <3>2. b \in Blocks' \ Blocks
      BY <2>2, <3>1
    <3>3. \A c \in Blocks : c \in Blocks' /\ c # b
      BY <3>1, <3>2
    <3>4. \A c \in Blocks : ~H!Overlap(b, c)
      BY <3>2, <3>3 DEF Apart, H!Overlap
    <3> QED BY <3>1, <3>2, <3>4 DEF H!Next, H!Allocate
  <2> QED BY <2>1, <2>2
<1>3. LifoSpec => []LifoInv
  BY LifoInvHolds
<1>4. LifoInv => Apart
  BY LifoApart
<1> QED BY <1>1, <1>2, <1>3, <1>4, PTL DEF LifoSpec, HeapSpec, H!Spec
=============================================================================
