---------------------------- MODULE RegionProofs ----------------------------
(***************************************************************************)
(* What a free does to the list of regions of an area, for every value of  *)
(* the constants of AreaList: free memory in one piece, the regions in use *)
(* where they were, and lookups that find them.                            *)
(***************************************************************************)
EXTENDS AreaListProofs, FiniteSetTheorems, FunctionTheorems

\* The list new is regions whose run of free regions lo..hi became n regions,
\* one free region at the place of the run, or none.
Merged(new, regions, lo, hi, n) ==
  /\ new \in Seq(Region) /\ n \in {0, 1}
  /\ lo \in 1..Len(regions) /\ hi \in lo..Len(regions)
  /\ Len(new) = Len(regions) - (hi - lo + 1) + n
  /\ \A j \in lo..hi : regions[j].free
  /\ \A j \in 1..(lo - 1) : new[j] = regions[j]
  /\ n = 1 => new[lo].free
  /\ \A j \in (hi + 1)..Len(regions) : new[j - (hi - lo + 1) + n] = regions[j]

LEMMA MergedItself ==
  ASSUME NEW regions \in Seq(Region), NEW i \in 1..Len(regions), regions[i].free
  PROVE  Merged(regions, regions, i, i, 1)
<1>1. Len(regions) \in Nat
  BY RegionListDomain
<1> QED BY <1>1 DEF Merged

\* The run takes over its successor.
LEMMA MergedNext ==
  ASSUME NEW regions \in Seq(Region), NEW i \in 1..Len(regions), regions[i].free,
         i < Len(regions), regions[i + 1].free
  PROVE  Merged(Absorb(regions, i), regions, i, i + 1, 1)
<1> DEFINE new == Absorb(regions, i)
<1>1. Len(regions) \in Nat /\ i \in 1..(Len(regions) - 1)
  BY RegionListDomain
<1>2. /\ new \in Seq(Region) /\ Len(new) = Len(regions) - 1
      /\ \A j \in 1..(Len(regions) - 1) : new[j] =
            IF j < i THEN regions[j]
            ELSE IF j = i THEN [regions[i] EXCEPT !.size = @ + regions[i + 1].size]
            ELSE regions[j + 1]
  BY <1>1, AbsorbProperties
<1> HIDE DEF new
<1>3. new[i].free
  <2>1. regions[i] \in Region
    BY <1>1, RegionListDomain
  <2> QED BY <1>1, <1>2, <2>1 DEF Region
<1>4. \A j \in i..(i + 1) : regions[j].free
  OBVIOUS
<1>5. \A j \in 1..(i - 1) : new[j] = regions[j]
  BY <1>1, <1>2
<1>6. ASSUME NEW j \in ((i + 1) + 1)..Len(regions)
      PROVE  new[j - ((i + 1) - i + 1) + 1] = regions[j]
  <2>1. /\ j - 1 \in 1..(Len(regions) - 1) /\ ~(j - 1 < i) /\ j - 1 # i /\ (j - 1) + 1 = j
        /\ j - ((i + 1) - i + 1) + 1 = j - 1
    BY <1>1
  <2> QED BY <1>2, <2>1
<1>7. /\ i \in 1..Len(regions) /\ i + 1 \in i..Len(regions)
      /\ Len(new) = Len(regions) - ((i + 1) - i + 1) + 1
  BY <1>1, <1>2
<1> QED BY <1>2, <1>3, <1>4, <1>5, <1>6, <1>7 DEF Merged, new

\* The run is taken over by its predecessor.
LEMMA MergedPrev ==
  ASSUME NEW regions \in Seq(Region), NEW m, NEW i, NEW hi, Merged(m, regions, i, hi, 1),
         i > 1, regions[i - 1].free
  PROVE  Merged(Absorb(m, i - 1), regions, i - 1, hi, 1)
<1> DEFINE lo == i - 1
           new == Absorb(m, lo)
<1>1. /\ Len(regions) \in Nat /\ m \in Seq(Region) /\ i \in 1..Len(regions) /\ hi \in i..Len(regions)
      /\ Len(m) = Len(regions) - (hi - i + 1) + 1 /\ lo \in 1..(Len(m) - 1) /\ lo \in Nat \ {0}
  BY RegionListDomain DEF Merged
<1>2. /\ \A j \in i..hi : regions[j].free
      /\ \A j \in 1..(i - 1) : m[j] = regions[j]
      /\ \A j \in (hi + 1)..Len(regions) : m[j - (hi - i + 1) + 1] = regions[j]
  BY DEF Merged
<1>3. /\ new \in Seq(Region) /\ Len(new) = Len(m) - 1
      /\ \A j \in 1..(Len(m) - 1) : new[j] =
            IF j < lo THEN m[j]
            ELSE IF j = lo THEN [m[lo] EXCEPT !.size = @ + m[lo + 1].size]
            ELSE m[j + 1]
  BY <1>1, AbsorbProperties
<1> HIDE DEF new
<1>4. new[lo].free
  <2>1. m[lo] = regions[lo]
    BY <1>1, <1>2
  <2>2. lo \in 1..Len(regions)
    BY <1>1
  <2>3. m[lo] \in Region
    BY <2>1, <2>2, RegionListDomain
  <2>4. new[lo] = [m[lo] EXCEPT !.size = @ + m[lo + 1].size]
    <3> HIDE DEF lo
    <3> QED BY <1>1, <1>3
  <2> HIDE DEF lo
  <2> QED BY <2>1, <2>3, <2>4 DEF Region, lo
<1>5. \A j \in lo..hi : regions[j].free
  <2>1. \A j \in lo..hi : j = lo \/ j \in i..hi
    BY <1>1
  <2> QED BY <1>2, <2>1
<1>6. \A j \in 1..(lo - 1) : new[j] = regions[j]
  <2> SUFFICES ASSUME NEW j \in 1..(lo - 1) PROVE new[j] = regions[j]
    OBVIOUS
  <2>1. j \in 1..(Len(m) - 1) /\ j < lo /\ j \in 1..(i - 1)
    BY <1>1
  <2> QED BY <1>2, <1>3, <2>1
<1>7. \A j \in (hi + 1)..Len(regions) : new[j - (hi - lo + 1) + 1] = regions[j]
  <2> SUFFICES ASSUME NEW j \in (hi + 1)..Len(regions)
               PROVE  new[j - (hi - lo + 1) + 1] = regions[j]
    OBVIOUS
  <2> DEFINE k == j - (hi - lo + 1) + 1
  <2>1. /\ k \in 1..(Len(m) - 1) /\ ~(k < lo) /\ k # lo
        /\ k + 1 = j - (hi - i + 1) + 1
    BY <1>1
  <2> HIDE DEF k
  <2>2. new[k] = m[k + 1]
    BY <1>3, <2>1
  <2> QED BY <1>2, <2>1, <2>2 DEF k
<1>8. lo \in 1..Len(regions) /\ hi \in lo..Len(regions)
  BY <1>1
<1>9. Len(new) = Len(regions) - (hi - lo + 1) + 1
  <2>1. Len(new) = Len(regions) - (hi - i + 1) + 1 - 1
    BY <1>1, <1>3
  <2> QED BY <1>1, <2>1
<1> HIDE DEF lo
<1> QED BY <1>3, <1>4, <1>5, <1>6, <1>7, <1>8, <1>9 DEF Merged, new, lo

\* The region of the run goes.
LEMMA MergedGone ==
  ASSUME NEW regions \in Seq(Region), NEW m, NEW lo, NEW hi, Merged(m, regions, lo, hi, 1)
  PROVE  Merged(RemoveAt(m, lo), regions, lo, hi, 0)
<1> DEFINE new == RemoveAt(m, lo)
<1>1. /\ Len(regions) \in Nat /\ m \in Seq(Region) /\ lo \in 1..Len(regions) /\ hi \in lo..Len(regions)
      /\ Len(m) = Len(regions) - (hi - lo + 1) + 1 /\ lo \in 1..Len(m)
  BY RegionListDomain DEF Merged
<1>2. /\ \A j \in lo..hi : regions[j].free
      /\ \A j \in 1..(lo - 1) : m[j] = regions[j]
      /\ \A j \in (hi + 1)..Len(regions) : m[j - (hi - lo + 1) + 1] = regions[j]
  BY DEF Merged
<1>3. /\ new \in Seq(Region) /\ Len(new) = Len(m) - 1
      /\ \A j \in 1..(Len(m) - 1) : new[j] = IF j < lo THEN m[j] ELSE m[j + 1]
  BY <1>1, RemoveAtProperties
<1> HIDE DEF new
<1>4. ASSUME NEW j \in 1..(lo - 1) PROVE new[j] = regions[j]
  <2>1. j \in 1..(Len(m) - 1) /\ j < lo
    BY <1>1
  <2> QED BY <1>2, <1>3, <2>1
<1>5. \A j \in (hi + 1)..Len(regions) : new[j - (hi - lo + 1) + 0] = regions[j]
  <2> SUFFICES ASSUME NEW j \in (hi + 1)..Len(regions)
               PROVE  new[j - (hi - lo + 1) + 0] = regions[j]
    OBVIOUS
  <2> DEFINE k == j - (hi - lo + 1) + 0
  <2>1. k \in 1..(Len(m) - 1) /\ ~(k < lo) /\ k + 1 = j - (hi - lo + 1) + 1
    BY <1>1
  <2> HIDE DEF k
  <2>2. new[k] = m[k + 1]
    BY <1>3, <2>1
  <2> QED BY <1>2, <2>1, <2>2 DEF k
<1>6. Len(new) = Len(regions) - (hi - lo + 1) + 0
  BY <1>1, <1>3
<1> QED BY <1>1, <1>2, <1>3, <1>4, <1>5, <1>6 DEF Merged, new

\* What merge_neighbors_region does around a region just freed: the whole run of
\* free regions it is in becomes one, and goes where it ends the list.
LEMMA MergeIs ==
  ASSUME NEW regions \in Seq(Region), NEW i \in 1..Len(regions), NEW headFree \in BOOLEAN,
         regions[i].free
  PROVE  \E lo \in {i - 1, i}, hi \in {i, i + 1}, n \in {0, 1} :
           /\ Merged(merge_neighbors_region(regions, i, headFree), regions, lo, hi, n)
           /\ hi = i => i = Len(regions) \/ ~regions[i + 1].free
           /\ lo = i => i = 1 \/ ~regions[i - 1].free
           /\ n = 0 <=> hi = Len(regions) \/ (i = 1 /\ headFree)
<1> DEFINE m == MergeNext(regions, i)
           new == merge_neighbors_region(regions, i, headFree)
<1>1. Len(regions) \in Nat /\ \A j \in 1..Len(regions) : regions[j].free \in BOOLEAN
  BY RegionListDomain
<1>2. PICK hi \in {i, i + 1} : Merged(m, regions, i, hi, 1) /\ (hi = i => i = Len(regions) \/ ~regions[i + 1].free)
  <2>1. CASE i < Len(regions) /\ regions[i + 1].free
    <3>1. Merged(m, regions, i, i + 1, 1) /\ i + 1 # i
      BY <2>1, MergedNext DEF MergeNext
    <3> QED BY <3>1
  <2>2. CASE ~(i < Len(regions) /\ regions[i + 1].free)
    <3>1. Merged(m, regions, i, i, 1) /\ (i = Len(regions) \/ ~regions[i + 1].free)
      BY <1>1, <2>2, MergedItself DEF MergeNext
    <3> QED BY <3>1
  <2> QED BY <2>1, <2>2
<1>3. /\ m \in Seq(Region) /\ hi \in i..Len(regions) /\ Len(m) = Len(regions) - (hi - i + 1) + 1
      /\ \A j \in 1..(i - 1) : m[j] = regions[j]
  BY <1>2 DEF Merged
<1>4. i > 1 => i - 1 \in 1..(i - 1) /\ m[i - 1] = regions[i - 1] /\ i - 1 \in Nat
  BY <1>3
<1>5. CASE i = 1 /\ headFree
  <2>1. new = RemoveAt(m, i)
    BY <1>5 DEF merge_neighbors_region
  <2> HIDE DEF m, new
  <2>2. Merged(new, regions, i, hi, 0)
    BY <1>2, <2>1, MergedGone
  <2> QED BY <1>2, <1>5, <2>2 DEF new
<1>6. CASE ~(i = 1 /\ headFree) /\ i > 1 /\ regions[i - 1].free
  <2> DEFINE b == Absorb(m, i - 1)
  <2>1. new = IF i - 1 = Len(b) THEN RemoveAt(b, i - 1) ELSE b
    BY <1>4, <1>6 DEF merge_neighbors_region, DropIfLast
  <2> HIDE DEF m, new
  <2>2. Merged(b, regions, i - 1, hi, 1)
    BY <1>2, <1>6, MergedPrev
  <2> HIDE DEF b
  <2>3. Len(b) = Len(regions) - (hi - (i - 1) + 1) + 1
    BY <2>2 DEF Merged
  <2>4. i - 1 = Len(b) <=> hi = Len(regions)
    BY <1>1, <1>3, <2>3
  <2>5. CASE hi = Len(regions)
    <3>1. Merged(new, regions, i - 1, hi, 0)
      BY <2>1, <2>2, <2>4, <2>5, MergedGone
    <3> QED BY <1>2, <1>6, <2>5, <3>1 DEF new
  <2>6. CASE hi # Len(regions)
    <3>1. Merged(new, regions, i - 1, hi, 1)
      BY <2>1, <2>2, <2>4, <2>6
    <3> QED BY <1>2, <1>6, <2>6, <3>1 DEF new
  <2> QED BY <2>5, <2>6
<1>7. CASE ~(i = 1 /\ headFree) /\ ~(i > 1 /\ regions[i - 1].free)
  <2>1. new = IF i = Len(m) THEN RemoveAt(m, i) ELSE m
    BY <1>4, <1>7 DEF merge_neighbors_region, DropIfLast
  <2> HIDE DEF m, new
  <2>2. i = Len(m) <=> hi = Len(regions)
    BY <1>1, <1>3
  <2>3. i = 1 \/ ~regions[i - 1].free
    BY <1>7
  <2>4. CASE hi = Len(regions)
    <3>1. Merged(new, regions, i, hi, 0)
      BY <1>2, <2>1, <2>2, <2>4, MergedGone
    <3> QED BY <1>2, <1>7, <2>3, <2>4, <3>1 DEF new
  <2>5. CASE hi # Len(regions)
    <3>1. Merged(new, regions, i, hi, 1)
      BY <1>2, <2>1, <2>2, <2>5
    <3> QED BY <1>2, <1>7, <2>3, <2>5, <3>1 DEF new
  <2> QED BY <2>4, <2>5
<1> QED BY <1>5, <1>6, <1>7

LEMMA FreedIs ==
  ASSUME NEW regions \in Seq(Region), NEW k \in 1..Len(regions)
  PROVE  LET new == [regions EXCEPT ![k].free = TRUE]
         IN  /\ new \in Seq(Region) /\ Len(new) = Len(regions)
             /\ \A j \in 1..Len(regions) : j # k => new[j] = regions[j]
             /\ new[k].free
<1> DEFINE new == [regions EXCEPT ![k].free = TRUE]
           r   == [regions[k] EXCEPT !.free = TRUE]
<1>1. regions[k] \in Region
  BY RegionListDomain
<1>2. r \in Region /\ r.free
  BY <1>1 DEF Region
<1>3. new = [regions EXCEPT ![k] = r]
  OBVIOUS
<1> HIDE DEF r
<1>4. /\ [regions EXCEPT ![k] = r] \in Seq(Region)
      /\ Len([regions EXCEPT ![k] = r]) = Len(regions)
      /\ \A j \in 1..Len(regions) :
           [regions EXCEPT ![k] = r][j] = IF j = k THEN r ELSE regions[j]
  BY <1>2, ExceptSeq
<1> HIDE DEF new
<1>5. /\ new \in Seq(Region) /\ Len(new) = Len(regions)
      /\ \A j \in 1..Len(regions) : new[j] = IF j = k THEN r ELSE regions[j]
  BY <1>3, <1>4
<1>6. new[k].free
  BY <1>2, <1>5
<1> QED BY <1>5, <1>6 DEF new

LEMMA TakenIs ==
  ASSUME NEW regions \in Seq(Region), NEW k \in 1..Len(regions)
  PROVE  LET new == [regions EXCEPT ![k].free = FALSE]
         IN  /\ new \in Seq(Region) /\ Len(new) = Len(regions)
             /\ \A j \in 1..Len(regions) : j # k => new[j] = regions[j]
             /\ ~new[k].free
<1> DEFINE new == [regions EXCEPT ![k].free = FALSE]
           r   == [regions[k] EXCEPT !.free = FALSE]
<1>1. regions[k] \in Region
  BY RegionListDomain
<1>2. r \in Region /\ ~r.free
  BY <1>1 DEF Region
<1>3. new = [regions EXCEPT ![k] = r]
  OBVIOUS
<1> HIDE DEF r
<1>4. /\ [regions EXCEPT ![k] = r] \in Seq(Region)
      /\ Len([regions EXCEPT ![k] = r]) = Len(regions)
      /\ \A j \in 1..Len(regions) :
           [regions EXCEPT ![k] = r][j] = IF j = k THEN r ELSE regions[j]
  BY <1>2, ExceptSeq
<1> HIDE DEF new
<1>5. /\ new \in Seq(Region) /\ Len(new) = Len(regions)
      /\ \A j \in 1..Len(regions) : new[j] = IF j = k THEN r ELSE regions[j]
  BY <1>3, <1>4
<1>6. ~new[k].free
  BY <1>2, <1>5
<1> QED BY <1>5, <1>6 DEF new

-----------------------------------------------------------------------------
(* Free memory in one piece.                                               *)

CoalescedList(regions) ==
  \A k \in 1..Len(regions) : regions[k].free => k < Len(regions) /\ ~regions[k + 1].free

LEMMA FreedCoalesced ==
  ASSUME NEW regions \in Seq(Region), CoalescedList(regions),
         NEW k \in 1..Len(regions), NEW headFree \in BOOLEAN
  PROVE  CoalescedList(merge_neighbors_region([regions EXCEPT ![k].free = TRUE], k, headFree))
<1> DEFINE freed == [regions EXCEPT ![k].free = TRUE]
           new == merge_neighbors_region(freed, k, headFree)
<1>1. /\ freed \in Seq(Region) /\ Len(freed) = Len(regions) /\ Len(regions) \in Nat
      /\ \A j \in 1..Len(regions) : j # k => freed[j] = regions[j]
      /\ freed[k].free
  <2>1. Len(regions) \in Nat
    BY RegionListDomain
  <2> QED BY <2>1, FreedIs
<1> HIDE DEF freed
<1>2. PICK lo \in {k - 1, k}, hi \in {k, k + 1}, n \in {0, 1} :
        /\ Merged(new, freed, lo, hi, n)
        /\ hi = k => k = Len(freed) \/ ~freed[k + 1].free
        /\ lo = k => k = 1 \/ ~freed[k - 1].free
        /\ n = 0 <=> hi = Len(freed) \/ (k = 1 /\ headFree)
  BY <1>1, MergeIs
<1> HIDE DEF new
<1> DEFINE L == Len(regions)
           d == hi - lo + 1 - n
<1>3. /\ lo \in 1..L /\ hi \in lo..L /\ Len(new) = L - d /\ d \in Nat
      /\ \A j \in 1..(lo - 1) : new[j] = freed[j]
      /\ n = 1 => new[lo].free
      /\ \A j \in (hi + 1)..L : new[j - d] = freed[j]
  <2>1. /\ lo \in 1..L /\ hi \in lo..L /\ Len(new) = L - (hi - lo + 1) + n
        /\ \A j \in 1..(lo - 1) : new[j] = freed[j]
        /\ n = 1 => new[lo].free
        /\ \A j \in (hi + 1)..L : new[j - (hi - lo + 1) + n] = freed[j]
    BY <1>1, <1>2 DEF Merged
  <2>2. d \in Nat /\ Len(new) = L - d
    BY <2>1, <1>1
  <2>3. ASSUME NEW j \in (hi + 1)..L PROVE new[j - d] = freed[j]
    <3>1. j - d = j - (hi - lo + 1) + n
      BY <2>1, <1>1
    <3> HIDE DEF d
    <3> QED BY <2>1, <3>1
  <2> QED BY <2>1, <2>2, <2>3
<1> HIDE DEF d
\* The regions on both sides of the run are used.
<1>a. \A j \in lo..hi : freed[j].free
  BY <1>2 DEF Merged
<1>b. ASSUME hi < L
      PROVE  ~freed[hi + 1].free
  <2>1. CASE hi = k
    BY <1>1, <1>2, <1>b, <2>1
  <2>2. CASE hi = k + 1
    <3>1. hi \in 1..L /\ hi \in lo..hi /\ hi # k /\ hi + 1 \in 1..L /\ hi + 1 # k
      BY <1>1, <1>3, <1>b, <2>2
    <3>2. regions[hi].free /\ freed[hi + 1] = regions[hi + 1]
      BY <1>1, <1>a, <3>1
    <3> QED BY <3>1, <3>2 DEF CoalescedList
  <2> QED BY <1>2, <2>1, <2>2
<1>c. ASSUME lo > 1
      PROVE  ~freed[lo - 1].free
  <2>1. CASE lo = k
    BY <1>1, <1>2, <1>c, <2>1
  <2>2. CASE lo = k - 1
    <3>1. /\ lo \in 1..L /\ lo \in lo..hi /\ lo # k /\ lo - 1 \in 1..L /\ lo - 1 # k
          /\ (lo - 1) + 1 = lo
      BY <1>1, <1>3, <1>c, <2>2
    <3>2. regions[lo].free /\ freed[lo - 1] = regions[lo - 1]
      BY <1>1, <1>a, <3>1
    <3> QED BY <3>1, <3>2 DEF CoalescedList
  <2> QED BY <1>2, <2>1, <2>2
<1>4. d = hi - lo + 1 - n
  BY DEF d
<1>5. ASSUME NEW j \in 1..Len(new), new[j].free
      PROVE  j < Len(new) /\ ~new[j + 1].free
  <2>1. CASE j < lo - 1
    <3>1. /\ j \in 1..L /\ j + 1 \in 1..(lo - 1) /\ j # k /\ j + 1 # k
          /\ j + 1 \in 1..L /\ j \in 1..(lo - 1)
      <4>1. lo \in 1..L /\ L \in Nat /\ lo <= k /\ j \in Nat /\ j >= 1 /\ k \in Nat
        BY <1>1, <1>2, <1>3
      <4> HIDE DEF L
      <4> QED BY <2>1, <4>1
    <3>2. new[j] = regions[j] /\ new[j + 1] = regions[j + 1]
      BY <1>1, <1>3, <3>1
    <3>3. lo - 1 <= Len(new)
      BY <1>1, <1>2, <1>3, <1>4
    <3>4. j < Len(new)
      BY <1>1, <1>3, <2>1, <3>3
    <3> QED BY <1>5, <3>1, <3>2, <3>4 DEF CoalescedList
  <2>2. CASE j = lo - 1
    <3>1. j \in 1..(lo - 1) /\ lo > 1
      BY <2>2, <1>3
    <3>2. new[j] = freed[lo - 1]
      BY <1>3, <2>2, <3>1
    <3> QED BY <1>c, <1>5, <3>1, <3>2
  <2>3. CASE j = lo /\ n = 1
    <3>1. hi < L
      BY <1>1, <1>2, <1>3, <2>3
    <3>2. hi + 1 \in (hi + 1)..L /\ hi + 1 - d = j + 1 /\ j < Len(new)
      BY <1>1, <1>2, <1>3, <1>4, <2>3, <3>1
    <3>3. new[hi + 1 - d] = freed[hi + 1]
      BY <1>3, <3>2
    <3> QED BY <1>b, <3>1, <3>2, <3>3
  <2>4. CASE j > lo \/ (j = lo /\ n = 0)
    <3> DEFINE o == j + d
    <3>1. o \in (hi + 1)..L /\ o - d = j /\ o # k /\ o \in 1..L
      BY <1>1, <1>2, <1>3, <1>4, <2>4
    <3>2. o \in Int /\ (o + 1) - d = j + 1 /\ Len(new) = L - d /\ j = o - d /\ L \in Nat /\ d \in Nat
      BY <1>1, <1>3
    <3> HIDE DEF o, L
    <3>3. new[j] = freed[o] /\ freed[o] = regions[o]
      <4>1. new[o - d] = freed[o]
        BY <1>3, <3>1
      <4>2. freed[o] = regions[o]
        BY <1>1, <3>1 DEF L
      <4> QED BY <3>1, <4>1, <4>2
    <3>4. o < L /\ ~regions[o + 1].free
      BY <1>5, <3>1, <3>3 DEF CoalescedList, L
    <3>5. o + 1 \in (hi + 1)..L /\ o + 1 # k /\ j < Len(new) /\ o + 1 \in 1..L
      BY <1>2, <1>3, <3>1, <3>2, <3>4
    <3>6. new[(o + 1) - d] = freed[o + 1] /\ freed[o + 1] = regions[o + 1]
      <4>1. new[(o + 1) - d] = freed[o + 1]
        BY <1>3, <3>5
      <4>2. freed[o + 1] = regions[o + 1]
        BY <1>1, <3>5 DEF L
      <4> QED BY <4>1, <4>2
    <3> QED BY <3>2, <3>4, <3>5, <3>6
  <2> QED BY <1>2, <1>3, <2>1, <2>2, <2>3, <2>4
<1> QED BY <1>5 DEF CoalescedList, new, freed

-----------------------------------------------------------------------------
(* The regions in use.                                                     *)

UsedOf(regions) == {regions[j] : j \in {j \in 1..Len(regions) : ~regions[j].free}}

\* The ones a free of region k leaves alone.
UsedBut(regions, k) == {regions[j] : j \in {j \in 1..Len(regions) : j # k /\ ~regions[j].free}}

LEMMA FreedUsed ==
  ASSUME NEW regions \in Seq(Region), NEW k \in 1..Len(regions), NEW headFree \in BOOLEAN
  PROVE  UsedOf(merge_neighbors_region([regions EXCEPT ![k].free = TRUE], k, headFree))
           = UsedBut(regions, k)
<1> DEFINE freed == [regions EXCEPT ![k].free = TRUE]
           new == merge_neighbors_region(freed, k, headFree)
<1>1. /\ freed \in Seq(Region) /\ Len(freed) = Len(regions) /\ Len(regions) \in Nat
      /\ \A j \in 1..Len(regions) : j # k => freed[j] = regions[j]
      /\ freed[k].free
  <2>1. Len(regions) \in Nat
    BY RegionListDomain
  <2> QED BY <2>1, FreedIs
<1> HIDE DEF freed
<1>2. PICK lo \in {k - 1, k}, hi \in {k, k + 1}, n \in {0, 1} : Merged(new, freed, lo, hi, n)
  BY <1>1, MergeIs
<1> HIDE DEF new
<1>3. /\ lo \in 1..Len(regions) /\ hi \in lo..Len(regions) /\ k \in lo..hi
      /\ Len(new) = Len(regions) - (hi - lo + 1) + n
      /\ \A j \in lo..hi : freed[j].free
      /\ \A j \in 1..(lo - 1) : new[j] = freed[j]
      /\ n = 1 => new[lo].free
      /\ \A j \in (hi + 1)..Len(regions) : new[j - (hi - lo + 1) + n] = freed[j]
  BY <1>1, <1>2 DEF Merged
<1>4. ASSUME NEW j \in 1..Len(new), ~new[j].free
      PROVE  \E o \in 1..Len(regions) : o # k /\ ~regions[o].free /\ new[j] = regions[o]
  <2>1. CASE j < lo
    <3>1. j \in 1..(lo - 1) /\ j \in 1..Len(regions) /\ j # k
      BY <1>3, <2>1
    <3> QED BY <1>1, <1>3, <1>4, <3>1
  <2>2. CASE ~(j < lo)
    <3>1. j # lo \/ n = 0
      BY <1>2, <1>3, <1>4
    <3> DEFINE o == j + (hi - lo + 1) - n
    <3>2. o \in (hi + 1)..Len(regions) /\ o \in 1..Len(regions) /\ o # k /\ o - (hi - lo + 1) + n = j
      BY <1>1, <1>2, <1>3, <2>2, <3>1
    <3> HIDE DEF o
    <3>3. new[o - (hi - lo + 1) + n] = freed[o]
      BY <1>3, <3>2
    <3> QED BY <1>1, <1>4, <3>2, <3>3
  <2> QED BY <2>1, <2>2
<1>5. ASSUME NEW o \in 1..Len(regions), o # k, ~regions[o].free
      PROVE  \E j \in 1..Len(new) : ~new[j].free /\ new[j] = regions[o]
  <2>1. freed[o] = regions[o] /\ o \notin lo..hi
    BY <1>1, <1>3, <1>5
  <2>2. CASE o < lo
    <3>1. o \in 1..(lo - 1) /\ o \in 1..Len(new)
      BY <1>1, <1>2, <1>3, <2>2
    <3> QED BY <1>3, <1>5, <2>1, <3>1
  <2>3. CASE o > hi
    <3> DEFINE j == o - (hi - lo + 1) + n
    <3>1. o \in (hi + 1)..Len(regions) /\ j \in 1..Len(new)
      BY <1>1, <1>2, <1>3, <2>3
    <3>2. new[j] = freed[o]
      BY <1>3, <3>1
    <3> QED BY <1>5, <2>1, <3>1, <3>2
  <2> QED BY <1>3, <2>1, <2>2, <2>3
<1>6. UsedOf(new) \subseteq UsedBut(regions, k)
  BY <1>4 DEF UsedOf, UsedBut
<1>7. UsedBut(regions, k) \subseteq UsedOf(new)
  BY <1>5 DEF UsedOf, UsedBut
<1> QED BY <1>6, <1>7 DEF new, freed

-----------------------------------------------------------------------------
(* What a malloc does to the regions of an area: the ones in use stay, and *)
(* free memory stays in one piece.                                         *)

Grows(new, regions) ==
  /\ new \in Seq(Region)
  /\ CoalescedList(regions) => CoalescedList(new)
  /\ UsedOf(regions) \subseteq UsedOf(new)

LEMMA AppendedGrows ==
  ASSUME NEW regions \in Seq(Region), NEW size \in Nat, NEW vm_start \in Nat
  PROVE  LET new == add_region_after(regions, Len(regions), size, vm_start)
         IN  Grows(new, regions) /\ new # <<>>
<1> DEFINE new == add_region_after(regions, Len(regions), size, vm_start)
           L == Len(regions)
<1>1. L \in Nat /\ L \in 0..L
  BY RegionListDomain
<1>2. Inserted(new, regions, L, NewRegion(regions, L, size, vm_start))
  BY <1>1, RegionAfter
<1> HIDE DEF new
<1>3. /\ new \in Seq(Region) /\ Len(new) = L + 1
      /\ \A j \in 1..L : new[j] = regions[j]
      /\ new[L + 1] = NewRegion(regions, L, size, vm_start)
  <2>1. /\ new \in Seq(Region) /\ Len(new) = L + 1
        /\ \A j \in 1..(L + 1) :
             new[j] = IF j < L + 1 THEN regions[j]
                      ELSE IF j = L + 1 THEN NewRegion(regions, L, size, vm_start) ELSE regions[j - 1]
    BY <1>2 DEF Inserted
  <2> HIDE DEF L
  <2> QED BY <1>1, <2>1
<1>4. ~new[L + 1].free
  BY <1>3 DEF NewRegion
<1> HIDE DEF L
<1>5. CoalescedList(regions) => CoalescedList(new)
  <2> SUFFICES ASSUME CoalescedList(regions), NEW j \in 1..Len(new), new[j].free
               PROVE  j < Len(new) /\ ~new[j + 1].free
    BY DEF CoalescedList
  <2>1. j \in 1..L
    BY <1>1, <1>3, <1>4
  <2>2. j < L /\ ~regions[j + 1].free /\ j + 1 \in 1..L
    BY <1>1, <1>3, <2>1 DEF CoalescedList, L
  <2> QED BY <1>1, <1>3, <2>2
<1>6. UsedOf(regions) \subseteq UsedOf(new)
  BY <1>1, <1>3 DEF UsedOf, L
<1>7. new # <<>>
  BY <1>1, <1>3
<1> QED BY <1>3, <1>5, <1>6, <1>7 DEF Grows, new

\* The free region k taken, whatever is made of it.
LEMMA TakenGrows ==
  ASSUME NEW regions \in Seq(Region), NEW k \in 1..Len(regions), regions[k].free,
         NEW new \in Seq(Region), Len(new) = Len(regions),
         \A j \in 1..Len(regions) : j # k => new[j] = regions[j], ~new[k].free
  PROVE  Grows(new, regions)
<1>1. Len(regions) \in Nat
  BY RegionListDomain
<1>2. CoalescedList(regions) => CoalescedList(new)
  <2> SUFFICES ASSUME CoalescedList(regions), NEW j \in 1..Len(new), new[j].free
               PROVE  j < Len(new) /\ ~new[j + 1].free
    BY DEF CoalescedList
  <2>1. j # k /\ new[j] = regions[j]
    OBVIOUS
  <2>2. j < Len(regions) /\ ~regions[j + 1].free /\ j + 1 \in 1..Len(regions)
    BY <1>1, <2>1 DEF CoalescedList
  <2> QED BY <2>2
<1>3. UsedOf(regions) \subseteq UsedOf(new)
  BY DEF UsedOf
<1> QED BY <1>2, <1>3 DEF Grows

LEMMA CutTaken ==
  ASSUME NEW regions \in Seq(Region), NEW k \in 1..Len(regions), NEW size \in Nat
  PROVE  ~Cut(regions, k, size)[k].free
<1> DEFINE r == [[regions[k] EXCEPT !.free = FALSE] EXCEPT !.size = size]
<1>1. regions[k] \in Region /\ k \in DOMAIN regions
  BY RegionListDomain
<1>2. ~r.free
  BY <1>1 DEF Region
<1>3. Cut(regions, k, size)[k] = r
  BY <1>1 DEF Cut
<1> QED BY <1>2, <1>3

LEMMA SplitGrows ==
  ASSUME NEW regions \in Seq(Region), NEW k \in 1..Len(regions), NEW size \in Nat,
         NEW vm_start \in Nat, regions[k].free, regions[k].size >= size
  PROVE  /\ Grows(Split(regions, k, size, vm_start), regions)
         /\ Split(regions, k, size, vm_start) # <<>>
<1> DEFINE cut  == Cut(regions, k, size)
           rest == regions[k].size - size
           both == add_region_after(cut, k, rest, vm_start)
           new  == merge_neighbors_region([both EXCEPT ![k + 1].free = TRUE], k + 1, FALSE)
<1>1. Split(regions, k, size, vm_start) = new
  BY DEF Split
<1>2. Split(regions, k, size, vm_start) \in Seq(Region)
  BY SplitKeeps
<1>3. /\ Len(regions) \in Nat /\ rest \in Nat
      /\ cut \in Seq(Region) /\ Len(cut) = Len(regions)
      /\ \A j \in 1..Len(regions) : j # k => cut[j] = regions[j]
      /\ ~cut[k].free
  <2>1. Len(regions) \in Nat /\ rest \in Nat
    BY RegionListDomain
  <2>2. /\ cut \in Seq(Region) /\ Len(cut) = Len(regions)
        /\ \A j \in 1..Len(regions) : j # k => cut[j] = regions[j]
    BY CutProperties
  <2>3. ~cut[k].free
    BY CutTaken
  <2> QED BY <2>1, <2>2, <2>3
<1> HIDE DEF cut, rest
<1>4. Inserted(both, cut, k, NewRegion(cut, k, rest, vm_start))
  <2>1. k \in 0..Len(cut)
    BY <1>3
  <2> QED BY <1>3, <2>1, RegionAfter
<1> HIDE DEF both
<1>5. /\ both \in Seq(Region) /\ Len(both) = Len(regions) + 1
      /\ \A j \in 1..k : both[j] = cut[j]
      /\ both[k + 1] = NewRegion(cut, k, rest, vm_start)
      /\ \A j \in (k + 1)..Len(regions) : both[j + 1] = cut[j]
  <2>1. /\ both \in Seq(Region) /\ Len(both) = Len(regions) + 1
        /\ \A j \in 1..(Len(regions) + 1) :
             both[j] = IF j < k + 1 THEN cut[j]
                       ELSE IF j = k + 1 THEN NewRegion(cut, k, rest, vm_start) ELSE cut[j - 1]
    BY <1>3, <1>4 DEF Inserted
  <2>2. ASSUME NEW j \in (k + 1)..Len(regions) PROVE both[j + 1] = cut[j]
    <3>1. j + 1 \in 1..(Len(regions) + 1) /\ ~(j + 1 < k + 1) /\ j + 1 # k + 1 /\ (j + 1) - 1 = j
      BY <1>3
    <3> QED BY <2>1, <3>1
  <2>3. \A j \in 1..k : j \in 1..(Len(regions) + 1) /\ j < k + 1
    BY <1>3
  <2>4. k + 1 \in 1..(Len(regions) + 1) /\ ~(k + 1 < k + 1)
    BY <1>3
  <2> QED BY <2>1, <2>2, <2>3, <2>4
<1>6. ~both[k].free /\ ~both[k + 1].free
  BY <1>3, <1>5 DEF NewRegion
<1>7. /\ \A j \in 1..(k - 1) : both[j] = regions[j]
      /\ \A j \in (k + 1)..Len(regions) : both[j + 1] = regions[j]
  BY <1>3, <1>5
<1>8. k + 1 \in 1..Len(both)
  BY <1>3, <1>5
<1>9. UsedOf(new) = UsedBut(both, k + 1)
  BY <1>5, <1>8, FreedUsed
<1>10. CoalescedList(both) => CoalescedList(new)
  BY <1>5, <1>8, FreedCoalesced
<1> HIDE DEF new
<1>11. CoalescedList(regions) => CoalescedList(both)
  <2> SUFFICES ASSUME CoalescedList(regions), NEW j \in 1..Len(both), both[j].free
               PROVE  j < Len(both) /\ ~both[j + 1].free
    BY DEF CoalescedList
  <2>1. CASE j < k
    <3>1. j \in 1..(k - 1) /\ j \in 1..Len(regions) /\ j + 1 \in 1..k
      BY <1>3, <1>5, <2>1
    <3>2. ~regions[j + 1].free
      BY <1>7, <3>1 DEF CoalescedList
    <3>3. j + 1 # k => both[j + 1] = regions[j + 1]
      BY <1>7, <3>1
    <3> QED BY <1>3, <1>5, <1>6, <3>1, <3>2, <3>3
  <2>2. CASE j > k + 1
    <3>1. j - 1 \in (k + 1)..Len(regions) /\ j - 1 \in 1..Len(regions) /\ (j - 1) + 1 = j
      BY <1>3, <1>5, <2>2
    <3>2. j - 1 < Len(regions) /\ ~regions[j].free
      BY <1>7, <3>1 DEF CoalescedList
    <3>3. j \in (k + 1)..Len(regions)
      BY <1>3, <3>1, <3>2
    <3> QED BY <1>3, <1>5, <1>7, <3>2, <3>3
  <2> QED BY <1>3, <1>5, <1>6, <2>1, <2>2
<1>12. ASSUME NEW j \in 1..Len(regions), ~regions[j].free
       PROVE  \E o \in 1..Len(both) : o # k + 1 /\ ~both[o].free /\ both[o] = regions[j]
  <2>1. j # k
    BY <1>12
  <2>2. CASE j < k
    <3>1. j \in 1..(k - 1) /\ j \in 1..Len(both) /\ j # k + 1
      BY <1>3, <1>5, <2>2
    <3> QED BY <1>7, <1>12, <3>1
  <2>3. CASE j > k
    <3>1. j \in (k + 1)..Len(regions) /\ j + 1 \in 1..Len(both) /\ j + 1 # k + 1
      BY <1>3, <1>5, <2>3
    <3> QED BY <1>7, <1>12, <3>1
  <2> QED BY <2>1, <2>2, <2>3
<1>13. UsedOf(regions) \subseteq UsedBut(both, k + 1)
  BY <1>12 DEF UsedOf, UsedBut
<1>14. new # <<>>
  <2>1. both[k] \in UsedBut(both, k + 1)
    <3>1. k \in 1..Len(both) /\ k # k + 1
      BY <1>3, <1>5
    <3> QED BY <1>6, <3>1 DEF UsedBut
  <2>2. UsedOf(<<>>) = {}
    BY DEF UsedOf
  <2> QED BY <1>9, <2>1, <2>2
<1> QED BY <1>1, <1>2, <1>9, <1>10, <1>11, <1>13, <1>14 DEF Grows

LEMMA AddLastGrows ==
  ASSUME NEW a \in Area, NEW size \in Nat \ {0}, NEW failed
  PROVE  /\ Grows(AddLast(a, size, failed).regions, a.regions)
         /\ AddLast(a, size, failed).pid = a.pid
         /\ "region" \notin failed \/ a.regions # <<>> => AddLast(a, size, failed).regions # <<>>
<1> DEFINE new == add_region_after(a.regions, Len(a.regions), size, a.vma)
<1>1. a.regions \in Seq(Region) /\ a.vma \in Nat /\ size \in Nat
  BY DEF Area
<1>2. Grows(new, a.regions) /\ new # <<>>
  BY <1>1, AppendedGrows
<1>3. CASE "region" \in failed
  BY <1>1, <1>3 DEF AddLast, Grows
<1>4. CASE "region" \notin failed
  <2>1. AddLast(a, size, failed) = [a EXCEPT !.free_space = @ - size, !.regions = new]
    BY <1>4 DEF AddLast
  <2> HIDE DEF new
  <2> QED BY <1>2, <2>1 DEF Area
<1> QED BY <1>3, <1>4

LEMMA AddRegionGrows ==
  ASSUME NEW a \in Area, NEW size \in Nat \ {0}, NEW failed
  PROVE  /\ Grows(add_region(a, size, failed).regions, a.regions)
         /\ add_region(a, size, failed).pid = a.pid
         /\ "region" \notin failed \/ a.regions # <<>> => add_region(a, size, failed).regions # <<>>
<1> DEFINE fits == FreeFits(a.regions, size)
           k    == Min(fits)
<1>1. /\ a.regions \in Seq(Region) /\ a.vma \in Nat /\ a.free_space - size \in Int
      /\ DOMAIN a.regions = 1..Len(a.regions) /\ size \in Nat
  BY RegionListDomain DEF Area
<1>2. CASE fits = {}
  BY <1>2, AddLastGrows DEF add_region
<1>3. CASE fits # {}
  <2>1. k \in 1..Len(a.regions) /\ a.regions[k].size >= size /\ a.regions[k].free
    <3>1. fits \subseteq Nat
      BY <1>1 DEF FreeFits
    <3>2. k \in fits
      BY <1>3, <3>1, MinOfNats
    <3> QED BY <1>1, <3>2 DEF FreeFits
  <2>2. CASE a.regions[k].size = size
    <3> DEFINE new == [a.regions EXCEPT ![k].free = FALSE]
    <3>1. add_region(a, size, failed) = [a EXCEPT !.regions = new]
      BY <1>3, <2>2 DEF add_region
    <3>2. /\ new \in Seq(Region) /\ Len(new) = Len(a.regions)
          /\ \A j \in 1..Len(a.regions) : j # k => new[j] = a.regions[j]
          /\ ~new[k].free
      BY <1>1, <2>1, TakenIs
    <3> HIDE DEF new, k, fits
    <3>3. Grows(new, a.regions)
      BY <1>1, <2>1, <3>2, TakenGrows
    <3>4. new # <<>>
      BY <2>1, <3>2
    <3> QED BY <3>1, <3>3, <3>4 DEF Area
  <2>3. CASE a.regions[k].size # size /\ "split" \in failed
    <3> DEFINE cut == Cut(a.regions, k, size)
               b   == [a EXCEPT !.free_space = @ - size, !.regions = cut]
    <3>1. add_region(a, size, failed) = AddLast(b, size, failed)
      BY <1>3, <2>3 DEF add_region
    <3> HIDE DEF k, fits
    <3>2. /\ cut \in Seq(Region) /\ Len(cut) = Len(a.regions)
          /\ \A j \in 1..Len(a.regions) : j # k => cut[j] = a.regions[j]
          /\ ~cut[k].free
      <4>1. /\ cut \in Seq(Region) /\ Len(cut) = Len(a.regions)
            /\ \A j \in 1..Len(a.regions) : j # k => cut[j] = a.regions[j]
        BY <1>1, <2>1, CutProperties
      <4>2. ~cut[k].free
        BY <1>1, <2>1, CutTaken
      <4> QED BY <4>1, <4>2
    <3> HIDE DEF cut
    <3>3. b \in Area /\ b.regions = cut /\ b.pid = a.pid
      BY <1>1, <3>2 DEF Area
    <3>4. Grows(cut, a.regions)
      BY <1>1, <2>1, <3>2, TakenGrows
    <3>5. cut # <<>>
      BY <2>1, <3>2
    <3> HIDE DEF b
    <3>6. /\ Grows(AddLast(b, size, failed).regions, cut) /\ AddLast(b, size, failed).pid = a.pid
          /\ AddLast(b, size, failed).regions # <<>>
      BY <3>3, <3>5, AddLastGrows
    <3> QED BY <3>1, <3>4, <3>6 DEF Grows
  <2>4. CASE a.regions[k].size # size /\ "split" \notin failed
    <3> DEFINE new == Split(a.regions, k, size, a.vma)
    <3>1. add_region(a, size, failed) = [a EXCEPT !.free_space = @ - size, !.regions = new]
      BY <1>3, <2>4 DEF add_region
    <3> HIDE DEF k, fits
    <3>2. Grows(new, a.regions) /\ new # <<>>
      BY <1>1, <2>1, SplitGrows
    <3> HIDE DEF new
    <3> QED BY <1>1, <3>1, <3>2 DEF Area
  <2> QED BY <2>2, <2>3, <2>4
<1> QED BY <1>2, <1>3

-----------------------------------------------------------------------------
(* The steps.                                                              *)

LEMMA UseAreaLists ==
  ASSUME VmaInv, NEW i \in DOMAIN areas, NEW size \in Nat \ {0}, NEW failed,
         UseArea(i, size, failed)
  PROVE  \E new \in Area :
           /\ areas' = [areas EXCEPT ![i] = new]
           /\ Grows(new.regions, areas[i].regions)
           /\ new.pid = areas[i].pid /\ new.headFree = areas[i].headFree
           /\ areas[i].regions # <<>> => new.regions # <<>>
<1> DEFINE a == IF HasSpace(areas[i], size) THEN areas[i] ELSE extend_vma(areas[i], size)
<1>1. areas[i] \in Area
  BY AreaListDomain DEF VmaInv
<1>2. /\ a \in Area /\ a.regions = areas[i].regions
      /\ a.pid = areas[i].pid /\ a.headFree = areas[i].headFree
  BY <1>1, ExtendKeeps DEF extend_vma, Area
<1>3. areas' = [areas EXCEPT ![i] = add_region(a, size, failed)]
  BY DEF UseArea
<1> HIDE DEF a
<1>4. add_region(a, size, failed) \in Area /\ add_region(a, size, failed).headFree = a.headFree
  BY <1>2, AddRegionKeeps
<1> DEFINE new == add_region(a, size, failed)
<1>5. /\ Grows(new.regions, areas[i].regions) /\ new.pid = areas[i].pid
      /\ areas[i].regions # <<>> => new.regions # <<>>
  BY <1>2, AddRegionGrows
<1> HIDE DEF new
<1> QED BY <1>2, <1>3, <1>4, <1>5 DEF new

LEMMA NewAreaLists ==
  ASSUME VmaInv, NEW pid \in Pids, NEW size \in Nat \ {0}, NEW failed,
         NewArea(pid, size, failed)
  PROVE  \E new \in Area :
           /\ areas' = Append(areas, new)
           /\ Grows(new.regions, <<>>) /\ new.headFree \in HeadFree
           /\ "vma" \notin failed /\ "region" \notin failed => new.regions # <<>>
<1> DEFINE bytes == align_ceil(size, VMA_SIZE)
           start == get_free_space(bytes)
           Fresh(garbage) ==
             [pid |-> pid, vma |-> start, size |-> bytes, free_space |-> bytes,
              headFree |-> garbage, regions |-> <<>>]
<1>1. bytes \in Nat \ {0} /\ start \in Nat
  <2>1. VMA_SIZE \in Nat \ {0} /\ size \in Nat
    BY ConstantsAssumption DEF VMA_SIZE
  <2>2. bytes \in Nat \ {0}
    BY <2>1, AlignCeil
  <2> QED BY <2>2, FreeSpaceProperties DEF VmaInv
<1>2. PICK garbage \in HeadFree :
        areas' = Append(areas, IF "vma" \in failed THEN [Fresh(garbage) EXCEPT !.vma = NULL]
                                                   ELSE add_region(Fresh(garbage), size, failed))
  BY DEF NewArea
<1> HIDE DEF bytes, start
<1>3. /\ Fresh(garbage) \in Area /\ Fresh(garbage).regions = <<>>
      /\ Fresh(garbage).headFree = garbage
      /\ [Fresh(garbage) EXCEPT !.vma = NULL] \in Area
      /\ [Fresh(garbage) EXCEPT !.vma = NULL].regions = <<>>
      /\ [Fresh(garbage) EXCEPT !.vma = NULL].headFree = garbage
  <2>1. <<>> \in Seq(Region) /\ garbage \in BOOLEAN
    BY <1>2, EmptySeq, ConstantsAssumption
  <2>2. bytes \in Int /\ start \in Nat /\ NULL \in Nat
    BY <1>1 DEF NULL
  <2> QED BY <1>1, <2>1, <2>2 DEF Area
<1> HIDE DEF Fresh
<1>4. Grows(<<>>, <<>>)
  BY EmptySeq DEF Grows
<1>5. CASE "vma" \in failed
  BY <1>2, <1>3, <1>4, <1>5
<1>6. CASE "vma" \notin failed
  <2> DEFINE new == add_region(Fresh(garbage), size, failed)
  <2>1. new \in Area /\ new.headFree = garbage
    BY <1>3, AddRegionKeeps
  <2>2. Grows(new.regions, <<>>) /\ ("region" \notin failed => new.regions # <<>>)
    BY <1>3, AddRegionGrows
  <2>3. areas' = Append(areas, new)
    BY <1>2, <1>6
  <2> HIDE DEF new
  <2> QED BY <2>1, <2>2, <2>3
<1> QED BY <1>5, <1>6

LEMMA FreeRegionLists ==
  ASSUME VmaInv, NEW i \in DOMAIN areas, NEW k \in DOMAIN areas[i].regions,
         FreeRegion(i, k)
  PROVE  /\ k \in 1..Len(areas[i].regions) /\ areas[i] \in Area
         /\ \E rs \in Seq(Region) :
              /\ CoalescedList(areas[i].regions) => CoalescedList(rs)
              /\ UsedOf(rs) = UsedBut(areas[i].regions, k)
              /\ \/ areas' = RemoveAt(areas, i) /\ rs = <<>>
                 \/ /\ \E new \in Area : /\ areas' = [areas EXCEPT ![i] = new]
                                         /\ new.regions = rs /\ new.pid = areas[i].pid
                                         /\ new.headFree = areas[i].headFree
                    /\ rs # <<>> \/ areas[i].headFree
<1> DEFINE a  == areas[i]
           rs == merge_neighbors_region([a.regions EXCEPT ![k].free = TRUE], k, a.headFree)
           space == a.free_space + a.regions[k].size
           b  == [[a EXCEPT !.regions = rs] EXCEPT !.free_space = space]
<1>1. /\ a \in Area /\ a.regions \in Seq(Region) /\ a.headFree \in BOOLEAN
      /\ k \in 1..Len(a.regions) /\ space \in Int
  <2>1. a \in Area /\ a.regions \in Seq(Region) /\ a.headFree \in BOOLEAN /\ a.free_space \in Int
    BY AreaListDomain DEF VmaInv
  <2>2. k \in 1..Len(a.regions) /\ a.regions[k].size \in Nat
    BY <2>1, RegionListDomain
  <2> QED BY <2>1, <2>2
<1>2. rs \in Seq(Region)
  <2> DEFINE freed == [a.regions EXCEPT ![k].free = TRUE]
  <2>1. freed \in Seq(Region) /\ Len(freed) = Len(a.regions)
    BY <1>1, FreedIs
  <2> HIDE DEF freed
  <2> QED BY <1>1, <2>1, MergeKeeps DEF freed
<1>3. UsedOf(rs) = UsedBut(a.regions, k)
  BY <1>1, FreedUsed
<1>4. CoalescedList(a.regions) => CoalescedList(rs)
  BY <1>1, FreedCoalesced
<1>5. IF rs # <<>> \/ FreesListHead(a.regions, k, a.headFree)
      THEN areas' = [areas EXCEPT ![i].regions = rs, ![i].free_space = space]
      ELSE areas' = RemoveAt(areas, i)
  BY DEF FreeRegion
<1>6. FreesListHead(a.regions, k, a.headFree) => a.headFree
  BY DEF FreesListHead
<1> HIDE DEF rs, space
<1>7. b \in Area /\ b.regions = rs /\ b.pid = a.pid /\ b.headFree = a.headFree
  BY <1>1, <1>2 DEF Area
<1>8. CASE rs # <<>> \/ FreesListHead(a.regions, k, a.headFree)
  <2>1. areas' = [areas EXCEPT ![i] = b]
    BY <1>1, <1>5, <1>8 DEF Area
  <2> HIDE DEF b
  <2> QED BY <1>1, <1>2, <1>3, <1>4, <1>6, <1>7, <1>8, <2>1
<1>9. CASE ~(rs # <<>> \/ FreesListHead(a.regions, k, a.headFree))
  BY <1>1, <1>2, <1>3, <1>4, <1>5, <1>9
<1> QED BY <1>8, <1>9

\* A list entry that goes.
LEMMA RemovedIs ==
  ASSUME VmaInv, NEW i \in DOMAIN areas, areas' = RemoveAt(areas, i)
  PROVE  /\ \A j \in DOMAIN areas' : \E m \in DOMAIN areas : m # i /\ areas'[j] = areas[m]
         /\ \A m \in DOMAIN areas : m # i => \E j \in DOMAIN areas' : areas'[j] = areas[m]
<1>1. areas \in Seq(Area) /\ i \in 1..Len(areas) /\ Len(areas) \in Nat /\ DOMAIN areas = 1..Len(areas)
  BY AreaListDomain, LenProperties DEF VmaInv
<1>2. /\ areas' \in Seq(Area) /\ Len(areas') = Len(areas) - 1
      /\ \A j \in 1..(Len(areas) - 1) :
           areas'[j] = IF j < i THEN areas[j] ELSE areas[j + 1]
  BY <1>1, RemoveAtProperties
<1>3. DOMAIN areas' = 1..(Len(areas) - 1)
  BY <1>2, LenProperties
<1>4. ASSUME NEW j \in DOMAIN areas'
      PROVE  \E m \in DOMAIN areas : m # i /\ areas'[j] = areas[m]
  <2>1. CASE j < i
    BY <1>1, <1>2, <1>3, <2>1
  <2>2. CASE ~(j < i)
    <3>1. j + 1 \in DOMAIN areas /\ j + 1 # i
      BY <1>1, <1>3, <2>2
    <3> QED BY <1>2, <1>3, <2>2, <3>1
  <2> QED BY <2>1, <2>2
<1>5. ASSUME NEW m \in DOMAIN areas, m # i
      PROVE  \E j \in DOMAIN areas' : areas'[j] = areas[m]
  <2>1. CASE m < i
    <3>1. m \in DOMAIN areas'
      BY <1>1, <1>3, <2>1
    <3> QED BY <1>2, <1>3, <2>1, <3>1
  <2>2. CASE m > i
    <3>1. m - 1 \in DOMAIN areas' /\ ~(m - 1 < i) /\ (m - 1) + 1 = m
      BY <1>1, <1>3, <2>2
    <3> QED BY <1>2, <1>3, <3>1
  <2> QED BY <1>1, <1>5, <2>1, <2>2
<1> QED BY <1>4, <1>5

LEMMA AppendedIs ==
  ASSUME VmaInv, NEW new \in Area, areas' = Append(areas, new)
  PROVE  /\ DOMAIN areas \subseteq DOMAIN areas'
         /\ \A j \in DOMAIN areas : areas'[j] = areas[j]
         /\ \A j \in DOMAIN areas' : j \in DOMAIN areas \/ areas'[j] = new
<1>1. areas \in Seq(Area)
  BY DEF VmaInv
<1> QED BY <1>1, AppendProperties, LenProperties

\* What a step may make of the regions of an area.
LEMMA StepLists ==
  ASSUME VmaInv, [Next]_vars, NEW j \in DOMAIN areas'
  PROVE  \/ \E i \in DOMAIN areas : areas'[j] = areas[i]
         \/ \E i \in DOMAIN areas : /\ Grows(areas'[j].regions, areas[i].regions)
                                    /\ areas'[j].headFree = areas[i].headFree
                                    /\ areas[i].regions # <<>> => areas'[j].regions # <<>>
         \/ /\ Grows(areas'[j].regions, <<>>) /\ areas'[j].headFree \in HeadFree
            /\ "vma" \notin Faults /\ "region" \notin Faults => areas'[j].regions # <<>>
         \/ \E i \in DOMAIN areas :
              /\ areas'[j].regions \in Seq(Region)
              /\ CoalescedList(areas[i].regions) => CoalescedList(areas'[j].regions)
              /\ areas'[j].regions # <<>> \/ areas[i].headFree
              /\ areas'[j].headFree = areas[i].headFree
<1> DEFINE Goal ==
         \/ \E i \in DOMAIN areas : areas'[j] = areas[i]
         \/ \E i \in DOMAIN areas : /\ Grows(areas'[j].regions, areas[i].regions)
                                    /\ areas'[j].headFree = areas[i].headFree
                                    /\ areas[i].regions # <<>> => areas'[j].regions # <<>>
         \/ /\ Grows(areas'[j].regions, <<>>) /\ areas'[j].headFree \in HeadFree
            /\ "vma" \notin Faults /\ "region" \notin Faults => areas'[j].regions # <<>>
         \/ \E i \in DOMAIN areas :
              /\ areas'[j].regions \in Seq(Region)
              /\ CoalescedList(areas[i].regions) => CoalescedList(areas'[j].regions)
              /\ areas'[j].regions # <<>> \/ areas[i].headFree
              /\ areas'[j].headFree = areas[i].headFree
<1> SUFFICES Goal
  OBVIOUS
<1>1. CASE UNCHANGED areas
  BY <1>1
<1>2. ASSUME NEW pid \in Pids, NEW size \in Sizes, create_region(pid, size)
      PROVE  Goal
  <2>1. size \in Nat \ {0}
    BY ConstantsAssumption
  <2>2. PICK failed \in SUBSET Faults :
          \/ UNCHANGED areas
          \/ \E i \in DOMAIN areas : UseArea(i, size, failed)
          \/ NewArea(pid, size, failed)
    BY <1>2 DEF create_region, UseNullArea
  <2>3. ASSUME NEW i \in DOMAIN areas, UseArea(i, size, failed)
        PROVE  Goal
    <3>1. PICK new \in Area :
            /\ areas' = [areas EXCEPT ![i] = new]
            /\ Grows(new.regions, areas[i].regions) /\ new.headFree = areas[i].headFree
            /\ areas[i].regions # <<>> => new.regions # <<>>
      BY <2>1, <2>3, UseAreaLists
    <3>2. CASE j = i
      BY <3>1, <3>2
    <3>3. CASE j # i
      BY <3>1, <3>3
    <3> QED BY <3>2, <3>3
  <2>4. CASE NewArea(pid, size, failed)
    <3>1. PICK new \in Area :
            /\ areas' = Append(areas, new)
            /\ Grows(new.regions, <<>>) /\ new.headFree \in HeadFree
            /\ "vma" \notin failed /\ "region" \notin failed => new.regions # <<>>
      BY <2>1, <2>4, NewAreaLists
    <3>2. CASE j \in DOMAIN areas
      BY <3>1, <3>2, AppendedIs
    <3>3. CASE areas'[j] = new
      BY <2>2, <3>1, <3>3
    <3> QED BY <3>1, <3>2, <3>3, AppendedIs
  <2> QED BY <1>1, <2>2, <2>3, <2>4
<1>3. ASSUME NEW pid \in Pids, NEW b \in Blocks, remove_region(pid, b.start)
      PROVE  Goal
  <2>1. \/ UNCHANGED areas
        \/ \E i \in DOMAIN areas : \E k \in DOMAIN areas[i].regions : FreeRegion(i, k)
    BY <1>3 DEF remove_region, get_region
  <2>2. ASSUME NEW i \in DOMAIN areas, NEW k \in DOMAIN areas[i].regions, FreeRegion(i, k)
        PROVE  Goal
    <3>1. CASE areas' = RemoveAt(areas, i)
      BY <3>1, RemovedIs
    <3>2. CASE \E new \in Area :
                 /\ areas' = [areas EXCEPT ![i] = new] /\ new.regions \in Seq(Region)
                 /\ CoalescedList(areas[i].regions) => CoalescedList(new.regions)
                 /\ new.regions # <<>> \/ areas[i].headFree
                 /\ new.headFree = areas[i].headFree
      <4>1. PICK new \in Area :
              /\ areas' = [areas EXCEPT ![i] = new] /\ new.regions \in Seq(Region)
              /\ CoalescedList(areas[i].regions) => CoalescedList(new.regions)
              /\ new.regions # <<>> \/ areas[i].headFree
              /\ new.headFree = areas[i].headFree
        BY <3>2
      <4>2. CASE j = i
        BY <4>1, <4>2
      <4>3. CASE j # i
        BY <4>1, <4>3
      <4> QED BY <4>2, <4>3
    <3> HIDE DEF Goal
    <3> QED BY <2>2, <3>1, <3>2, FreeRegionLists
  <2> HIDE DEF Goal
  <2> QED BY <1>1, <2>1, <2>2
<1>4. ASSUME Environment
      PROVE  Goal
  <2>1. ASSUME NEW i \in DOMAIN areas, close_vma(i) PROVE Goal
    BY <2>1, RemovedIs DEF close_vma
  <2> HIDE DEF Goal
  <2> QED BY <1>1, <1>4, <2>1 DEF Environment, ForeignMap, ForeignUnmap
<1> HIDE DEF Goal
<1> QED BY <1>1, <1>2, <1>3, <1>4 DEF Next, vars

\* Free memory is kept in one piece, whichever allocations fail: after a free,
\* merge_neighbors_region leaves no free region beside another one, and none at
\* the end (area.c:61-94).
THEOREM AlwaysCoalesced == Spec => []Coalesced
<1> DEFINE Lists == \A i \in DOMAIN areas : CoalescedList(areas[i].regions)
<1>1. Init => Lists
  BY DEF Init
<1>2. VmaInv /\ Lists /\ [Next]_vars => Lists'
  <2> SUFFICES ASSUME VmaInv, Lists, [Next]_vars, NEW j \in DOMAIN areas'
               PROVE  CoalescedList(areas'[j].regions)
    BY DEF CoalescedList
  <2>1. CoalescedList(<<>>)
    BY DEF CoalescedList
  <2> QED BY <2>1, StepLists DEF Grows
<1>3. VmaInv /\ Lists => Coalesced
  <2> SUFFICES ASSUME VmaInv, Lists, NEW i \in DOMAIN areas, NEW k \in DOMAIN areas[i].regions,
                      areas[i].regions[k].free
               PROVE  k < Len(areas[i].regions) /\ ~areas[i].regions[k + 1].free
    BY DEF Coalesced
  <2>1. DOMAIN areas[i].regions = 1..Len(areas[i].regions)
    BY AreaListDomain, RegionListDomain DEF VmaInv
  <2> QED BY <2>1 DEF CoalescedList
<1> HIDE DEF Lists
<1>4. VmaInv /\ Lists /\ [Next]_vars => (VmaInv /\ Lists)'
  BY <1>2, VmaInvNext
<1>5. Init => VmaInv /\ Lists
  BY <1>1, VmaInvInit
<1> QED BY <1>3, <1>4, <1>5, PTL DEF Spec

\* An area lives as long as it has a region, and goes with the last one
\* (area.c:223-226), unless a new area gets no region or no VMA.
THEOREM NeverEmptyArea ==
  ASSUME "region" \notin Faults, "vma" \notin Faults, TRUE \notin HeadFree
  PROVE  Spec => []NoEmptyArea
<1> DEFINE Heads == \A i \in DOMAIN areas : ~areas[i].headFree
           Lists == Heads /\ NoEmptyArea
<1>1. Init => VmaInv /\ Lists
  BY VmaInvInit DEF Init, NoEmptyArea
<1>2. VmaInv /\ Lists /\ [Next]_vars => (VmaInv /\ Lists)'
  <2> SUFFICES ASSUME VmaInv, Lists, [Next]_vars, NEW j \in DOMAIN areas'
               PROVE  ~areas'[j].headFree /\ areas'[j].regions # <<>>
    BY VmaInvNext DEF NoEmptyArea
  <2>1. \A garbage \in HeadFree : ~garbage
    BY ConstantsAssumption
  <2> QED BY <2>1, StepLists DEF NoEmptyArea
<1>3. Lists => NoEmptyArea
  OBVIOUS
<1> QED BY <1>1, <1>2, <1>3, PTL DEF Spec

-----------------------------------------------------------------------------
(* The blocks of the program.                                              *)

BlockOf(a, r) == [pid |-> a.pid, start |-> r.start, size |-> r.size]

BlocksOf(a) == {BlockOf(a, r) : r \in UsedOf(a.regions)}

BlocksIn(list) == UNION {BlocksOf(list[i]) : i \in DOMAIN list}

LEMMA BlocksOfList ==
  ASSUME NEW list \in Seq(Area)
  PROVE  UNION {{[pid |-> list[i].pid, start |-> list[i].regions[k].start,
                  size |-> list[i].regions[k].size] :
                    k \in {k \in DOMAIN list[i].regions : ~list[i].regions[k].free}} :
                  i \in DOMAIN list}
           = BlocksIn(list)
<1>1. ASSUME NEW i \in DOMAIN list
      PROVE  DOMAIN list[i].regions = 1..Len(list[i].regions)
  <2>1. list[i] \in Area
    BY LenProperties, ElementOfSeq
  <2>2. list[i].regions \in Seq(Region)
    BY <2>1 DEF Area
  <2> QED BY <2>2, RegionListDomain
<1>2. ASSUME NEW i \in DOMAIN list
      PROVE  {[pid |-> list[i].pid, start |-> list[i].regions[k].start,
               size |-> list[i].regions[k].size] :
                 k \in {k \in DOMAIN list[i].regions : ~list[i].regions[k].free}}
               = BlocksOf(list[i])
  BY <1>1 DEF BlocksOf, BlockOf, UsedOf
<1> QED BY <1>2 DEF BlocksIn

LEMMA BlocksAre ==
  ASSUME VmaInv, VmaInv'
  PROVE  Blocks = BlocksIn(areas) /\ Blocks' = BlocksIn(areas')
<1>1. areas \in Seq(Area) /\ areas' \in Seq(Area)
  BY DEF VmaInv
<1>2. Blocks = BlocksIn(areas)
  BY <1>1, BlocksOfList DEF Blocks
<1>3. Blocks' = BlocksIn(areas')
  BY <1>1, BlocksOfList DEF Blocks
<1> QED BY <1>2, <1>3

LEMMA GrownBlocks ==
  ASSUME NEW a, NEW b, Grows(b.regions, a.regions), b.pid = a.pid
  PROVE  BlocksOf(a) \subseteq BlocksOf(b)
BY DEF BlocksOf, BlockOf, Grows

\* A malloc keeps every block.
LEMMA CreateBlocks ==
  ASSUME VmaInv, VmaInv', NEW pid \in Pids, NEW size \in Sizes, create_region(pid, size)
  PROVE  Blocks \subseteq Blocks'
<1>1. size \in Nat \ {0}
  BY ConstantsAssumption
<1>2. PICK failed \in SUBSET Faults :
        \/ UNCHANGED areas
        \/ \E i \in DOMAIN areas : UseArea(i, size, failed)
        \/ NewArea(pid, size, failed)
  BY DEF create_region, UseNullArea
<1>3. SUFFICES \A i \in DOMAIN areas : \E j \in DOMAIN areas' : BlocksOf(areas[i]) \subseteq BlocksOf(areas'[j])
  BY <1>3, BlocksAre DEF BlocksIn
<1>4. CASE UNCHANGED areas
  BY <1>4
<1>5. ASSUME NEW i \in DOMAIN areas, UseArea(i, size, failed)
      PROVE  \A m \in DOMAIN areas : \E j \in DOMAIN areas' : BlocksOf(areas[m]) \subseteq BlocksOf(areas'[j])
  <2>1. PICK new \in Area :
          /\ areas' = [areas EXCEPT ![i] = new]
          /\ Grows(new.regions, areas[i].regions) /\ new.pid = areas[i].pid
    BY <1>1, <1>5, UseAreaLists
  <2>2. BlocksOf(areas[i]) \subseteq BlocksOf(new)
    BY <2>1, GrownBlocks
  <2> QED BY <2>1, <2>2
<1>6. CASE NewArea(pid, size, failed)
  <2>1. PICK new \in Area : areas' = Append(areas, new)
    BY <1>1, <1>6, NewAreaLists
  <2> QED BY <2>1, AppendedIs
<1> QED BY <1>2, <1>4, <1>5, <1>6

\* A free takes back the one block at its address, and touches no other.
LEMMA RemoveBlocks ==
  ASSUME VmaInv, VmaInv', NEW pid, NEW b \in Blocks, remove_region(pid, b.start)
  PROVE  \E c \in Blocks :
           c.start = b.start /\ Blocks' \subseteq Blocks /\ Blocks \ {c} \subseteq Blocks'
<1>1. Blocks = UNION {BlocksOf(areas[i]) : i \in DOMAIN areas}
  BY BlocksAre DEF BlocksIn
<1>2. Blocks' = UNION {BlocksOf(areas'[j]) : j \in DOMAIN areas'}
  BY BlocksAre DEF BlocksIn
<1>3. CASE UNCHANGED areas
  <2>1. Blocks' = Blocks
    BY <1>3 DEF Blocks
  <2> QED BY <2>1
<1>4. ASSUME NEW i \in DOMAIN areas, NEW k \in DOMAIN areas[i].regions,
             areas[i].regions[k].start = b.start, FreeRegion(i, k)
      PROVE  \E c \in Blocks :
               c.start = b.start /\ Blocks' \subseteq Blocks /\ Blocks \ {c} \subseteq Blocks'
  <2> DEFINE r == areas[i].regions[k]
             But == {BlockOf(areas[i], q) : q \in UsedBut(areas[i].regions, k)}
             c == IF r.free THEN b ELSE BlockOf(areas[i], r)
  <2>1. /\ k \in 1..Len(areas[i].regions) /\ areas[i] \in Area
        /\ \/ areas' = RemoveAt(areas, i) /\ UsedBut(areas[i].regions, k) = {}
           \/ \E new \in Area : /\ areas' = [areas EXCEPT ![i] = new]
                                /\ UsedOf(new.regions) = UsedBut(areas[i].regions, k)
                                /\ new.pid = areas[i].pid
    <3>1. UsedOf(<<>>) = {}
      BY DEF UsedOf
    <3> QED BY <1>4, <3>1, FreeRegionLists
  <2>2. /\ UsedBut(areas[i].regions, k) \subseteq UsedOf(areas[i].regions)
        /\ \A q \in UsedOf(areas[i].regions) : q \in UsedBut(areas[i].regions, k) \/ (q = r /\ ~r.free)
        /\ ~r.free => r \in UsedOf(areas[i].regions)
    BY <2>1 DEF UsedOf, UsedBut
  <2>3. c \in Blocks /\ c.start = b.start
    <3>1. CASE r.free
      BY <3>1
    <3>2. CASE ~r.free
      <4>1. c = BlockOf(areas[i], r) /\ c \in BlocksOf(areas[i])
        BY <2>2, <3>2 DEF BlocksOf
      <4>2. c.start = b.start
        BY <1>4, <4>1 DEF BlockOf
      <4> QED BY <1>1, <4>1, <4>2
    <3> QED BY <3>1, <3>2
  <2>4. But \subseteq BlocksOf(areas[i]) /\ BlocksOf(areas[i]) \ {c} \subseteq But
    BY <2>2 DEF BlocksOf
  <2> HIDE DEF c, But, r
  <2>5. CASE areas' = RemoveAt(areas, i) /\ UsedBut(areas[i].regions, k) = {}
    <3>1. But = {}
      BY <2>5 DEF But
    <3>2. Blocks' \subseteq Blocks
      BY <1>1, <1>2, <2>5, RemovedIs
    <3>3. Blocks \ {c} \subseteq Blocks'
      <4> SUFFICES ASSUME NEW m \in DOMAIN areas, NEW d \in BlocksOf(areas[m]), d # c
                   PROVE  d \in Blocks'
        BY <1>1
      <4>1. m # i
        BY <2>4, <3>1
      <4> QED BY <1>2, <2>5, <4>1, RemovedIs
    <3> QED BY <2>3, <3>2, <3>3
  <2>6. ASSUME NEW new \in Area, areas' = [areas EXCEPT ![i] = new],
               UsedOf(new.regions) = UsedBut(areas[i].regions, k), new.pid = areas[i].pid
        PROVE  Blocks' \subseteq Blocks /\ Blocks \ {c} \subseteq Blocks'
    <3>1. BlocksOf(new) = But
      BY <2>6 DEF BlocksOf, BlockOf, But
    <3>2. /\ DOMAIN areas' = DOMAIN areas /\ areas'[i] = new
          /\ \A m \in DOMAIN areas : m # i => areas'[m] = areas[m]
      BY <2>6
    <3> QED BY <1>1, <1>2, <2>4, <3>1, <3>2
  <2> QED BY <2>1, <2>3, <2>5, <2>6
<1> QED BY <1>3, <1>4 DEF remove_region, get_region

\* A malloc moves, resizes and takes back no block, and a free takes back one, at
\* the address it was given: in every order of calls, with every failure, and
\* however the flag of a list head reads (area.c:194-229).
THEOREM BlocksStable == Spec => LiveRegionsStable
<1> DEFINE Keeps ==
      /\ (\E pid \in Pids, size \in Sizes : create_region(pid, size)) => Blocks \subseteq Blocks'
      /\ \A pid \in Pids, b \in Blocks :
           remove_region(pid, b.start) =>
             \E c \in Blocks :
               c.start = b.start /\ Blocks' \subseteq Blocks /\ Blocks \ {c} \subseteq Blocks'
<1>1. VmaInv /\ [Next]_vars => [Keeps]_vars
  BY VmaInvNext, CreateBlocks, RemoveBlocks
<1> HIDE DEF Keeps
<1>2. VmaInv /\ VmaInv' /\ [Next]_vars => [Keeps]_vars
  BY <1>1
<1>3. Spec => [][Keeps]_vars
  BY <1>2, VmaInvHolds, PTL DEF Spec
<1> QED BY <1>3 DEF Keeps, LiveRegionsStable

-----------------------------------------------------------------------------
(* The lookups.                                                            *)

LEMMA TiledEnds ==
  ASSUME NEW regions \in Seq(Region), NEW vm_start \in Nat, Tiled(regions, vm_start),
         NEW k \in 1..Len(regions)
  PROVE  /\ regions[k].start \in Nat /\ EndOf(regions[k]) \in Nat
         /\ regions[k].start < EndOf(regions[k])
<1>1. regions[k].start \in Nat /\ regions[k].size \in Nat
  BY RegionListDomain
<1>2. regions[k].size > 0
  <2>1. k \in DOMAIN regions
    BY RegionListDomain
  <2> QED BY <2>1 DEF Tiled
<1> QED BY <1>1, <1>2 DEF EndOf

\* A tiled list goes upwards: no region starts before the end of an earlier one.
LEMMA TiledUpwards ==
  ASSUME NEW regions \in Seq(Region), NEW vm_start \in Nat, Tiled(regions, vm_start)
  PROVE  \A k \in 1..Len(regions) : \A j \in 1..(k - 1) : EndOf(regions[j]) <= regions[k].start
<1> DEFINE Late(k) == \A j \in 1..(k - 1) : EndOf(regions[j]) <= regions[k].start
           Bad == {k \in 1..Len(regions) : ~Late(k)}
<1>1. /\ DOMAIN regions = 1..Len(regions) /\ Len(regions) \in Nat
      /\ \A k \in 1..Len(regions) :
           regions[k].start = IF k = 1 THEN vm_start ELSE EndOf(regions[k - 1])
  BY RegionListDomain DEF Tiled
<1>2. Bad = {}
  <2> SUFFICES ASSUME Bad # {} PROVE FALSE
    OBVIOUS
  <2> DEFINE m == Min(Bad)
  <2>1. m \in Bad /\ \A k \in Bad : m <= k
    <3>1. Bad \subseteq Nat
      OBVIOUS
    <3> HIDE DEF Bad
    <3> QED BY <3>1, MinOfNats
  <2> HIDE DEF m
  <2>2. m \in 1..Len(regions) /\ ~Late(m)
    BY <2>1
  <2>3. PICK j \in 1..(m - 1) : ~(EndOf(regions[j]) <= regions[m].start)
    BY <2>2
  <2>4. m - 1 \in 1..Len(regions) /\ m # 1 /\ j \in 1..Len(regions)
    BY <1>1, <2>2, <2>3
  <2>5. Late(m - 1)
    <3>1. m - 1 \notin Bad
      <4>1. ~(m <= m - 1)
        BY <2>2
      <4> HIDE DEF Bad
      <4> QED BY <2>1, <4>1
    <3> QED BY <2>4, <3>1
  <2>6. regions[m].start = EndOf(regions[m - 1])
    BY <1>1, <2>2, <2>4
  <2>7. CASE j = m - 1
    <3>1. EndOf(regions[m - 1]) \in Nat
      BY <2>4, TiledEnds
    <3> QED BY <2>3, <2>6, <2>7, <3>1
  <2>8. CASE j # m - 1
    <3>1. j \in 1..((m - 1) - 1)
      BY <2>3, <2>4, <2>8
    <3>2. EndOf(regions[j]) <= regions[m - 1].start
      BY <2>5, <3>1
    <3>3. /\ EndOf(regions[j]) \in Nat /\ regions[m - 1].start \in Nat
          /\ EndOf(regions[m - 1]) \in Nat /\ regions[m - 1].start < EndOf(regions[m - 1])
      BY <2>4, TiledEnds
    <3> QED BY <2>3, <2>6, <3>2, <3>3
  <2> QED BY <2>7, <2>8
<1> QED BY <1>2

\* So an address is the start of one region at most.
LEMMA TiledStarts ==
  ASSUME NEW regions \in Seq(Region), NEW vm_start \in Nat, Tiled(regions, vm_start),
         NEW j \in 1..Len(regions), NEW k \in 1..Len(regions), regions[j].start = regions[k].start
  PROVE  j = k
<1>1. /\ Len(regions) \in Nat
      /\ \A i \in 1..Len(regions) :
           /\ regions[i].start \in Nat /\ EndOf(regions[i]) \in Nat
           /\ regions[i].start < EndOf(regions[i])
  BY RegionListDomain, TiledEnds
<1>2. CASE j < k
  <2>1. j \in 1..(k - 1)
    BY <1>1, <1>2
  <2>2. EndOf(regions[j]) <= regions[k].start
    BY <2>1, TiledUpwards
  <2> QED BY <1>1, <2>2
<1>3. CASE k < j
  <2>1. k \in 1..(j - 1)
    BY <1>1, <1>3
  <2>2. EndOf(regions[k]) <= regions[j].start
    BY <2>1, TiledUpwards
  <2> QED BY <1>1, <2>2
<1> QED BY <1>1, <1>2, <1>3

\* The VMAs of two areas have no address in common.
LEMMA OneAreaAt ==
  ASSUME MatchInv, NEW i \in DOMAIN areas, NEW j \in DOMAIN areas, NEW address \in Nat,
         areas[i].vma <= address, address < mmap[areas[i].vma],
         areas[j].vma <= address, address < mmap[areas[j].vma]
  PROVE  i = j
<1> DEFINE v == areas[i].vma
           w == areas[j].vma
<1>1. /\ v \in DOMAIN mmap /\ w \in DOMAIN mmap /\ v \in Nat /\ w \in Nat
      /\ mmap[v] \in Nat /\ mmap[w] \in Nat
  BY DEF MatchInv, AreaMatchesVma, VmaInv, MmapInv
<1>2. (v < w => mmap[v] <= w) /\ (w < v => mmap[w] <= v)
  BY <1>1 DEF MatchInv, VmaInv, MmapInv, VmasDisjoint
<1>3. v = w
  <2> HIDE DEF v, w
  <2>1. v <= address /\ address < mmap[v] /\ w <= address /\ address < mmap[w]
    BY DEF v, w
  <2> QED BY <1>1, <1>2, <2>1
<1> QED BY <1>3 DEF MatchInv, AreaMatchesVma

\* The address of a region inside its VMA leads netfree to that region: one area
\* holds the address, and one region of it starts there (area.c:274-298).
THEOREM FreeFinds ==
  ASSUME "split" \notin Faults, "vma" \notin Faults, TRUE \notin HeadFree
  PROVE  Spec => []FreeFindsRegion
<1>1. Init => TileInv /\ MatchInv
  BY VmaInvInit DEF Init, TileInv, MatchInv, AreaMatchesVma
<1>2. TileInv /\ MatchInv /\ [Next]_vars => (TileInv /\ MatchInv)'
  BY TileInvNext, MatchInvNext
<1>3. TileInv /\ MatchInv => FreeFindsRegion
  <2> SUFFICES ASSUME TileInv, MatchInv, NEW i \in DOMAIN areas, NEW k \in DOMAIN areas[i].regions,
                      areas[i].regions[k].start \in VmaOf(i)
               PROVE  /\ \A j \in DOMAIN areas :
                           get_area(areas[j], areas[i].pid, areas[i].regions[k].start) <=> j = i
                      /\ get_region(areas[i], areas[i].regions[k].start) = {k}
    BY DEF FreeFindsRegion
  <2> DEFINE address == areas[i].regions[k].start
             regions == areas[i].regions
  <2>1. /\ regions \in Seq(Region) /\ areas[i].vma \in Nat /\ Tiled(regions, areas[i].vma)
        /\ DOMAIN regions = 1..Len(regions) /\ address \in Nat
    BY AreaListDomain, RegionListDomain DEF TileInv, VmaInv, TiledArea
  <2>2. \A j \in DOMAIN areas : areas[j].vma # NULL /\ mmap[areas[j].vma] \in Nat
    BY DEF MatchInv, AreaMatchesVma, VmaInv, MmapInv
  <2>3. areas[i].vma <= address /\ address < mmap[areas[i].vma]
    BY <2>1, <2>2 DEF VmaOf
  <2>4. get_region(areas[i], address) = {k}
    <3>1. \A m \in 1..Len(regions) : regions[m].start = address => m = k
      BY <2>1, TiledStarts
    <3> QED BY <2>1, <3>1 DEF get_region
  <2> HIDE DEF address
  <2>5. \A j \in DOMAIN areas : get_area(areas[j], areas[i].pid, address) => j = i
    BY <2>1, <2>2, <2>3, OneAreaAt DEF get_area
  <2>6. get_area(areas[i], areas[i].pid, address)
    BY <2>3 DEF get_area
  <2> QED BY <2>4, <2>5, <2>6 DEF address
<1> QED BY <1>1, <1>2, <1>3, PTL DEF Spec

-----------------------------------------------------------------------------
(* How many bytes are in use.                                              *)

LEMMA BytesFinite ==
  ASSUME NEW regions \in Seq(Region), NEW which \in SUBSET (1..Len(regions))
  PROVE  /\ IsFiniteSet(BytesOf(regions, which))
         /\ Cardinality(BytesOf(regions, which)) \in Nat
<1> DEFINE part == [k \in which |-> {k} \X (1..regions[k].size)]
           parts == {{k} \X (1..regions[k].size) : k \in which}
<1>1. Len(regions) \in Nat /\ \A k \in which : regions[k].size \in Nat
  BY RegionListDomain
<1>2. IsFiniteSet(which)
  <2>1. IsFiniteSet(1..Len(regions))
    BY <1>1, FS_Interval
  <2> QED BY <2>1, FS_Subset
<1>3. IsFiniteSet(parts)
  <2>1. part \in Surjection(which, parts)
    BY Fun_IsSurj
  <2> HIDE DEF part, parts
  <2> QED BY <1>2, <2>1, FS_Surjection
<1>4. ASSUME NEW p \in parts PROVE IsFiniteSet(p)
  <2>1. PICK k \in which : p = {k} \X (1..regions[k].size)
    OBVIOUS
  <2> HIDE DEF parts, part
  <2>2. IsFiniteSet({k})
    BY FS_Singleton
  <2>3. IsFiniteSet(1..regions[k].size)
    <3> DEFINE n == regions[k].size
    <3>1. n \in Nat
      BY <1>1
    <3> HIDE DEF n
    <3>2. IsFiniteSet(1..n)
      BY <3>1, FS_Interval
    <3> QED BY <3>2 DEF n
  <2> QED BY <2>1, <2>2, <2>3, FS_Product
<1>5. BytesOf(regions, which) = UNION parts
  BY DEF BytesOf
<1> HIDE DEF parts
<1>6. IsFiniteSet(BytesOf(regions, which))
  BY <1>3, <1>4, <1>5, FS_UNION
<1> QED BY <1>6, FS_CardinalityType

\* One region more.
LEMMA BytesMore ==
  ASSUME NEW regions \in Seq(Region), NEW which \in SUBSET (1..Len(regions)),
         NEW k \in 1..Len(regions), k \notin which
  PROVE  Cardinality(BytesOf(regions, which \cup {k}))
           = Cardinality(BytesOf(regions, which)) + regions[k].size
<1> DEFINE own == {k} \X (1..regions[k].size)
           old == BytesOf(regions, which)
<1>1. regions[k].size \in Nat
  BY RegionListDomain
<1>2. IsFiniteSet(own) /\ Cardinality(own) = regions[k].size
  <2> DEFINE n == regions[k].size
             places == 1..n
  <2>1. IsFiniteSet({k}) /\ Cardinality({k}) = 1
    BY FS_Singleton
  <2>2. IsFiniteSet(places) /\ Cardinality(places) = n
    <3> HIDE DEF n
    <3>1. n \in Nat
      BY <1>1 DEF n
    <3> QED BY <3>1, FS_Interval
  <2>3. own = {k} \X places
    OBVIOUS
  <2> HIDE DEF own, places
  <2>4. IsFiniteSet(own) /\ Cardinality(own) = 1 * n
    BY <2>1, <2>2, <2>3, FS_Product
  <2> QED BY <1>1, <2>4
<1>3. IsFiniteSet(old) /\ Cardinality(old) \in Nat
  BY BytesFinite
<1>4. BytesOf(regions, which \cup {k}) = old \cup own /\ old \cap own = {}
  BY DEF BytesOf
<1> HIDE DEF own, old
<1>5. Cardinality(old \cup own) = Cardinality(old) + Cardinality(own) - Cardinality({})
  BY <1>2, <1>3, <1>4, FS_Union
<1>6. Cardinality({}) = 0
  BY FS_EmptySet
<1>7. Cardinality(old \cup own) = Cardinality(old) + regions[k].size
  BY <1>1, <1>2, <1>3, <1>5, <1>6
<1> QED BY <1>4, <1>7 DEF old

\* The same regions at other places.
LEMMA BytesMoved ==
  ASSUME NEW regions \in Seq(Region), NEW which \in SUBSET (1..Len(regions)),
         NEW new \in Seq(Region), NEW there \in SUBSET (1..Len(new)),
         NEW to \in Bijection(which, there),
         \A k \in which : new[to[k]].size = regions[k].size
  PROVE  Cardinality(BytesOf(new, there)) = Cardinality(BytesOf(regions, which))
<1> DEFINE from == BytesOf(regions, which)
           onto == BytesOf(new, there)
           move == [x \in from |-> <<to[x[1]], x[2]>>]
<1>1. /\ \A k \in which : to[k] \in there
      /\ \A j, k \in which : to[j] = to[k] => j = k
      /\ \A m \in there : \E k \in which : to[k] = m
  BY Fun_BijectionProperties
<1>2. ASSUME NEW x \in from PROVE move[x] \in onto
  <2>1. PICK k \in which : \E b \in 1..regions[k].size : x = <<k, b>>
    BY DEF BytesOf
  <2>2. PICK b \in 1..regions[k].size : x = <<k, b>>
    BY <2>1
  <2>3. <<to[k], b>> \in onto
    BY <1>1, <2>2 DEF BytesOf
  <2> QED BY <2>2, <2>3
<1>3. ASSUME NEW x \in from, NEW y \in from, move[x] = move[y] PROVE x = y
  <2>1. PICK j \in which : \E b \in 1..regions[j].size : x = <<j, b>>
    BY DEF BytesOf
  <2>2. PICK k \in which : \E c \in 1..regions[k].size : y = <<k, c>>
    BY DEF BytesOf
  <2>3. PICK b \in 1..regions[j].size : x = <<j, b>>
    BY <2>1
  <2>4. PICK c \in 1..regions[k].size : y = <<k, c>>
    BY <2>2
  <2>5. to[j] = to[k] /\ b = c
    BY <1>3, <2>3, <2>4
  <2> QED BY <1>1, <2>3, <2>4, <2>5
<1>4. ASSUME NEW z \in onto PROVE \E x \in from : move[x] = z
  <2>1. PICK m \in there : \E b \in 1..new[m].size : z = <<m, b>>
    BY DEF BytesOf
  <2>2. PICK k \in which : to[k] = m
    BY <1>1
  <2>3. PICK b \in 1..new[m].size : z = <<m, b>>
    BY <2>1
  <2>4. <<k, b>> \in from
    BY <2>2, <2>3 DEF BytesOf
  <2> QED BY <2>2, <2>3, <2>4
<1>5. move \in Bijection(from, onto)
  <2>1. move \in [from -> onto]
    BY <1>2
  <2> HIDE DEF move, from, onto
  <2> QED BY <1>3, <1>4, <2>1, Fun_IsBij
<1>6. IsFiniteSet(from) /\ ExistsBijection(from, onto)
  BY <1>5, BytesFinite DEF ExistsBijection
<1> HIDE DEF move, from, onto
<1>7. Cardinality(onto) = Cardinality(from)
  BY <1>6, FS_Bijection
<1> QED BY <1>7 DEF from, onto

\* How many bytes the regions in use of a list have.
Weight(regions) == Cardinality(BytesOf(regions, UsedIn(regions)))

LEMMA WeightIs ==
  ASSUME NEW regions \in Seq(Region)
  PROVE  Weight(regions) \in Nat /\ UsedIn(regions) \in SUBSET (1..Len(regions))
<1>1. UsedIn(regions) \in SUBSET (1..Len(regions))
  BY RegionListDomain DEF UsedIn
<1> QED BY <1>1, BytesFinite DEF Weight

LEMMA BytesSame ==
  ASSUME NEW regions, NEW new, NEW which, \A k \in which : new[k].size = regions[k].size
  PROVE  BytesOf(new, which) = BytesOf(regions, which)
BY DEF BytesOf

\* The free region k taken, whatever is made of it.
LEMMA TakenWeight ==
  ASSUME NEW regions \in Seq(Region), NEW k \in 1..Len(regions), regions[k].free,
         NEW new \in Seq(Region), Len(new) = Len(regions),
         \A j \in 1..Len(regions) : j # k => new[j] = regions[j], ~new[k].free
  PROVE  Weight(new) = Weight(regions) + new[k].size
<1> DEFINE used == UsedIn(regions)
<1>1. used \in SUBSET (1..Len(new)) /\ k \notin used /\ k \in 1..Len(new)
  BY WeightIs DEF UsedIn
<1>2. UsedIn(new) = used \cup {k}
  BY RegionListDomain DEF UsedIn
<1>3. \A j \in used : new[j].size = regions[j].size
  BY <1>1
<1> HIDE DEF used
<1>4. Cardinality(BytesOf(new, used \cup {k})) = Cardinality(BytesOf(new, used)) + new[k].size
  BY <1>1, BytesMore
<1>5. BytesOf(new, used) = BytesOf(regions, used)
  BY <1>3, BytesSame
<1> QED BY <1>2, <1>4, <1>5 DEF Weight, used

\* Region k given up, be it used or not.
LEMMA GivenWeight ==
  ASSUME NEW regions \in Seq(Region), NEW k \in 1..Len(regions),
         NEW new \in Seq(Region), Len(new) = Len(regions),
         \A j \in 1..Len(regions) : j # k => new[j] = regions[j], new[k].free
  PROVE  Weight(regions) = Weight(new) + IF regions[k].free THEN 0 ELSE regions[k].size
<1>1. CASE ~regions[k].free
  BY <1>1, TakenWeight
<1>2. CASE regions[k].free
  <2>1. UsedIn(new) = UsedIn(regions)
    BY <1>2, RegionListDomain DEF UsedIn
  <2>2. \A j \in UsedIn(regions) : new[j].size = regions[j].size
    BY <1>2, RegionListDomain DEF UsedIn
  <2>3. Weight(new) = Weight(regions)
    BY <2>1, <2>2, BytesSame DEF Weight
  <2> QED BY <1>2, <2>3, WeightIs
<1> QED BY <1>1, <1>2

LEMMA MergedWeight ==
  ASSUME NEW regions \in Seq(Region), NEW new, NEW lo, NEW hi, NEW n,
         Merged(new, regions, lo, hi, n)
  PROVE  Weight(new) = Weight(regions)
<1> DEFINE L == Len(regions)
           d == hi - lo + 1 - n
           to == [j \in UsedIn(regions) |-> IF j < lo THEN j ELSE j - d]
<1>1. /\ L \in Nat /\ new \in Seq(Region) /\ n \in {0, 1} /\ lo \in 1..L /\ hi \in lo..L
      /\ d \in Nat /\ Len(new) = L - d
      /\ \A j \in lo..hi : regions[j].free
      /\ \A j \in 1..(lo - 1) : new[j] = regions[j]
      /\ n = 1 => new[lo].free
  BY RegionListDomain DEF Merged
<1>2. ASSUME NEW j \in (hi + 1)..L PROVE new[j - d] = regions[j]
  <2>1. j - d = j - (hi - lo + 1) + n
    BY <1>1
  <2>2. new[j - (hi - lo + 1) + n] = regions[j]
    BY DEF Merged
  <2> HIDE DEF d
  <2> QED BY <2>1, <2>2
<1>3. hi - d = lo + n - 1
  BY <1>1
<1> HIDE DEF d
<1>4. /\ UsedIn(regions) = {j \in 1..L : ~regions[j].free}
      /\ UsedIn(new) = {j \in 1..(L - d) : ~new[j].free}
  BY <1>1, RegionListDomain DEF UsedIn
<1> HIDE DEF L
<1>5. ASSUME NEW j \in UsedIn(regions)
      PROVE  /\ to[j] \in UsedIn(new) /\ new[to[j]] = regions[j]
             /\ j < lo \/ j > hi
             /\ j < lo => to[j] = j
             /\ j > hi => to[j] = j - d
  <2>1. j \in 1..L /\ ~regions[j].free
    BY <1>4
  <2>2. j < lo \/ j > hi
    BY <1>1, <2>1
  <2>3. CASE j < lo
    <3>1. j \in 1..(lo - 1) /\ j \in 1..(L - d)
      BY <1>1, <1>3, <2>1, <2>3
    <3> QED BY <1>1, <1>4, <2>1, <2>3, <3>1
  <2>4. CASE j > hi
    <3>1. j \in (hi + 1)..L /\ j - d \in 1..(L - d) /\ ~(j < lo)
      BY <1>1, <1>3, <2>1, <2>4
    <3> QED BY <1>2, <1>4, <2>1, <2>4, <3>1
  <2> QED BY <2>2, <2>3, <2>4
<1>6. ASSUME NEW m \in UsedIn(new) PROVE \E j \in UsedIn(regions) : to[j] = m
  <2>1. m \in 1..(L - d) /\ ~new[m].free
    BY <1>4
  <2>2. CASE m < lo
    <3>1. m \in 1..(lo - 1) /\ m \in 1..L
      BY <1>1, <2>1, <2>2
    <3>2. m \in UsedIn(regions)
      BY <1>1, <1>4, <2>1, <3>1
    <3> QED BY <1>5, <2>2, <3>2
  <2>3. CASE ~(m < lo)
    <3>1. n = 1 => m # lo
      BY <1>1, <2>1
    <3>2. m + d \in (hi + 1)..L /\ (m + d) - d = m /\ m + d > hi
      BY <1>1, <1>3, <2>1, <2>3, <3>1
    <3>3. m + d \in UsedIn(regions)
      <4>1. m + d \in 1..L
        BY <1>1, <3>2
      <4>2. regions[m + d] = new[m]
        BY <1>2, <3>2
      <4> QED BY <1>4, <2>1, <4>1, <4>2
    <3>4. to[m + d] = m
      BY <1>5, <3>2, <3>3
    <3> QED BY <3>3, <3>4
  <2> QED BY <2>2, <2>3
<1>7. to \in Bijection(UsedIn(regions), UsedIn(new))
  <2>1. to \in [UsedIn(regions) -> UsedIn(new)]
    BY <1>5
  <2>2. ASSUME NEW i \in UsedIn(regions), NEW j \in UsedIn(regions), to[i] = to[j] PROVE i = j
    <3> HIDE DEF to
    <3>1. i \in 1..L /\ j \in 1..L
      BY <1>4
    <3>2. /\ i < lo \/ i > hi
          /\ i < lo => to[i] = i
          /\ i > hi => to[i] = i - d
          /\ j < lo \/ j > hi
          /\ j < lo => to[j] = j
          /\ j > hi => to[j] = j - d
      BY <1>5
    <3> QED BY <1>1, <1>3, <2>2, <3>1, <3>2
  <2> HIDE DEF to
  <2> QED BY <1>6, <2>1, <2>2, Fun_IsBij
<1>8. \A j \in UsedIn(regions) : new[to[j]].size = regions[j].size
  BY <1>5
<1>9. UsedIn(regions) \in SUBSET (1..Len(regions)) /\ UsedIn(new) \in SUBSET (1..Len(new))
  BY <1>1, WeightIs
<1> HIDE DEF to
<1>10. Cardinality(BytesOf(new, UsedIn(new))) = Cardinality(BytesOf(regions, UsedIn(regions)))
  BY <1>1, <1>7, <1>8, <1>9, BytesMoved
<1> QED BY <1>10 DEF Weight

\* A region that is freed takes its bytes with it.
LEMMA FreedWeight ==
  ASSUME NEW regions \in Seq(Region), NEW k \in 1..Len(regions), NEW headFree \in BOOLEAN
  PROVE  Weight(regions)
           = Weight(merge_neighbors_region([regions EXCEPT ![k].free = TRUE], k, headFree))
               + IF regions[k].free THEN 0 ELSE regions[k].size
<1> DEFINE freed == [regions EXCEPT ![k].free = TRUE]
           new == merge_neighbors_region(freed, k, headFree)
<1>1. /\ freed \in Seq(Region) /\ Len(freed) = Len(regions)
      /\ \A j \in 1..Len(regions) : j # k => freed[j] = regions[j]
      /\ freed[k].free
  BY FreedIs
<1> HIDE DEF freed
<1>2. \E lo, hi, n : Merged(new, freed, lo, hi, n)
  BY <1>1, MergeIs
<1> HIDE DEF new
<1>3. Weight(new) = Weight(freed)
  BY <1>1, <1>2, MergedWeight
<1>4. Weight(regions) = Weight(freed) + IF regions[k].free THEN 0 ELSE regions[k].size
  BY <1>1, GivenWeight
<1> QED BY <1>3, <1>4 DEF new, freed

LEMMA InsertedWeight ==
  ASSUME NEW regions \in Seq(Region), NEW new, NEW prev \in 0..Len(regions), NEW r,
         Inserted(new, regions, prev, r), ~r.free
  PROVE  Weight(new) = Weight(regions) + r.size
<1> DEFINE L == Len(regions)
           rest == UsedIn(new) \ {prev + 1}
           to == [j \in UsedIn(regions) |-> IF j <= prev THEN j ELSE j + 1]
<1>1. /\ L \in Nat /\ new \in Seq(Region) /\ Len(new) = L + 1 /\ prev \in 0..L
      /\ \A j \in 1..prev : new[j] = regions[j]
      /\ new[prev + 1] = r
      /\ \A j \in (prev + 1)..L : new[j + 1] = regions[j]
  <2>1. /\ L \in Nat /\ new \in Seq(Region) /\ Len(new) = L + 1
        /\ \A j \in 1..(L + 1) :
             new[j] = IF j < prev + 1 THEN regions[j]
                      ELSE IF j = prev + 1 THEN r ELSE regions[j - 1]
    BY RegionListDomain DEF Inserted
  <2> HIDE DEF L
  <2>2. prev \in 0..L
    BY DEF L
  <2>3. ASSUME NEW j \in (prev + 1)..L PROVE new[j + 1] = regions[j]
    <3>1. j + 1 \in 1..(L + 1) /\ ~(j + 1 < prev + 1) /\ j + 1 # prev + 1 /\ (j + 1) - 1 = j
      BY <2>1, <2>2
    <3> QED BY <2>1, <3>1
  <2>4. \A j \in 1..prev : j \in 1..(L + 1) /\ j < prev + 1
    BY <2>1, <2>2
  <2>5. prev + 1 \in 1..(L + 1) /\ ~(prev + 1 < prev + 1)
    BY <2>1, <2>2
  <2> QED BY <2>1, <2>2, <2>3, <2>4, <2>5
<1>2. /\ UsedIn(regions) = {j \in 1..L : ~regions[j].free}
      /\ UsedIn(new) = {j \in 1..(L + 1) : ~new[j].free}
  BY <1>1, RegionListDomain DEF UsedIn
<1> HIDE DEF L
<1>3. ASSUME NEW j \in UsedIn(regions)
      PROVE  /\ to[j] \in rest /\ new[to[j]] = regions[j]
             /\ j <= prev => to[j] = j
             /\ j > prev => to[j] = j + 1
  <2>1. j \in 1..L /\ ~regions[j].free
    BY <1>2
  <2>2. CASE j <= prev
    <3>1. j \in 1..prev /\ j \in 1..(L + 1) /\ j # prev + 1
      BY <1>1, <2>1, <2>2
    <3> QED BY <1>1, <1>2, <2>1, <2>2, <3>1
  <2>3. CASE j > prev
    <3>1. j \in (prev + 1)..L /\ j + 1 \in 1..(L + 1) /\ j + 1 # prev + 1 /\ ~(j <= prev)
      BY <1>1, <2>1, <2>3
    <3> QED BY <1>1, <1>2, <2>1, <2>3, <3>1
  <2> QED BY <1>1, <2>1, <2>2, <2>3
<1>4. ASSUME NEW m \in rest PROVE \E j \in UsedIn(regions) : to[j] = m
  <2>1. m \in 1..(L + 1) /\ ~new[m].free /\ m # prev + 1
    BY <1>2
  <2>2. CASE m <= prev
    <3>1. m \in 1..prev /\ m \in 1..L
      BY <1>1, <2>1, <2>2
    <3>2. m \in UsedIn(regions)
      BY <1>1, <1>2, <2>1, <3>1
    <3> QED BY <1>3, <2>2, <3>2
  <2>3. CASE ~(m <= prev)
    <3>1. m - 1 \in (prev + 1)..L /\ m - 1 \in 1..L /\ (m - 1) + 1 = m /\ m - 1 > prev
      BY <1>1, <2>1, <2>3
    <3>2. m - 1 \in UsedIn(regions)
      <4>1. regions[m - 1] = new[m]
        BY <1>1, <3>1
      <4> QED BY <1>2, <2>1, <3>1, <4>1
    <3>3. to[m - 1] = m
      BY <1>3, <3>1, <3>2
    <3> QED BY <3>2, <3>3
  <2> QED BY <2>2, <2>3
<1>5. to \in Bijection(UsedIn(regions), rest)
  <2>1. to \in [UsedIn(regions) -> rest]
    BY <1>3
  <2>2. ASSUME NEW i \in UsedIn(regions), NEW j \in UsedIn(regions), to[i] = to[j] PROVE i = j
    <3> HIDE DEF to
    <3>1. i \in 1..L /\ j \in 1..L
      BY <1>2
    <3>2. /\ i <= prev => to[i] = i
          /\ i > prev => to[i] = i + 1
          /\ j <= prev => to[j] = j
          /\ j > prev => to[j] = j + 1
      BY <1>3
    <3> QED BY <1>1, <2>2, <3>1, <3>2
  <2> HIDE DEF to, rest
  <2> QED BY <1>4, <2>1, <2>2, Fun_IsBij
<1>6. \A j \in UsedIn(regions) : new[to[j]].size = regions[j].size
  BY <1>3
<1>7. UsedIn(new) = rest \cup {prev + 1} /\ prev + 1 \in 1..Len(new)
  <2>1. prev + 1 \in 1..(L + 1) /\ ~new[prev + 1].free
    BY <1>1
  <2> QED BY <1>1, <1>2, <2>1
<1>8. UsedIn(regions) \in SUBSET (1..Len(regions)) /\ rest \in SUBSET (1..Len(new))
  BY <1>1, WeightIs
<1>9. prev + 1 \notin rest
  OBVIOUS
<1> HIDE DEF to, rest
<1>10. Cardinality(BytesOf(new, rest)) = Weight(regions)
  <2>1. Cardinality(BytesOf(new, rest)) = Cardinality(BytesOf(regions, UsedIn(regions)))
    BY <1>1, <1>5, <1>6, <1>8, BytesMoved
  <2> QED BY <2>1 DEF Weight
<1>11. Cardinality(BytesOf(new, rest \cup {prev + 1}))
         = Cardinality(BytesOf(new, rest)) + new[prev + 1].size
  BY <1>1, <1>7, <1>8, <1>9, BytesMore
<1> QED BY <1>1, <1>7, <1>10, <1>11 DEF Weight

LEMMA AppendedWeight ==
  ASSUME NEW regions \in Seq(Region), NEW size \in Nat, NEW vm_start \in Nat
  PROVE  Weight(add_region_after(regions, Len(regions), size, vm_start)) = Weight(regions) + size
<1> DEFINE L == Len(regions)
           r == NewRegion(regions, L, size, vm_start)
           new == add_region_after(regions, L, size, vm_start)
<1>1. L \in 0..L
  BY RegionListDomain
<1>2. Inserted(new, regions, L, r)
  BY <1>1, RegionAfter
<1>3. ~r.free /\ r.size = size
  BY DEF NewRegion
<1> HIDE DEF r, new
<1>4. Weight(new) = Weight(regions) + r.size
  BY <1>1, <1>2, <1>3, InsertedWeight
<1> QED BY <1>3, <1>4 DEF new

LEMMA CutWeight ==
  ASSUME NEW regions \in Seq(Region), NEW k \in 1..Len(regions), NEW size \in Nat, regions[k].free
  PROVE  Weight(Cut(regions, k, size)) = Weight(regions) + size
<1> DEFINE cut == Cut(regions, k, size)
<1>1. /\ cut \in Seq(Region) /\ Len(cut) = Len(regions)
      /\ \A j \in 1..Len(regions) : j # k => cut[j] = regions[j]
      /\ cut[k].size = size
  BY CutProperties
<1>2. ~cut[k].free
  BY CutTaken
<1> HIDE DEF cut
<1>3. Weight(cut) = Weight(regions) + cut[k].size
  BY <1>1, <1>2, TakenWeight
<1> QED BY <1>1, <1>3 DEF cut

LEMMA SplitWeight ==
  ASSUME NEW regions \in Seq(Region), NEW k \in 1..Len(regions), NEW size \in Nat,
         NEW vm_start \in Nat, regions[k].free, regions[k].size >= size
  PROVE  Weight(Split(regions, k, size, vm_start)) = Weight(regions) + size
<1> DEFINE cut  == Cut(regions, k, size)
           rest == regions[k].size - size
           r    == NewRegion(cut, k, rest, vm_start)
           both == add_region_after(cut, k, rest, vm_start)
           new  == merge_neighbors_region([both EXCEPT ![k + 1].free = TRUE], k + 1, FALSE)
<1>1. Split(regions, k, size, vm_start) = new
  BY DEF Split
<1>2. /\ Len(regions) \in Nat /\ rest \in Nat
      /\ cut \in Seq(Region) /\ Len(cut) = Len(regions)
  BY RegionListDomain, CutProperties
<1>3. Weight(cut) = Weight(regions) + size
  BY CutWeight
<1> HIDE DEF cut, rest
<1>4. k \in 0..Len(cut)
  BY <1>2
<1>5. Inserted(both, cut, k, r)
  BY <1>2, <1>4, RegionAfter
<1>6. ~r.free /\ r.size = rest
  BY DEF NewRegion
<1> HIDE DEF r, both
<1>7. Weight(both) = Weight(cut) + rest
  BY <1>2, <1>4, <1>5, <1>6, InsertedWeight
<1>8. both \in Seq(Region) /\ k + 1 \in 1..Len(both) /\ both[k + 1] = r
  <2>1. /\ both \in Seq(Region) /\ Len(both) = Len(cut) + 1
        /\ \A j \in 1..(Len(cut) + 1) :
             both[j] = IF j < k + 1 THEN cut[j] ELSE IF j = k + 1 THEN r ELSE cut[j - 1]
    BY <1>5 DEF Inserted
  <2>2. k + 1 \in 1..(Len(cut) + 1) /\ ~(k + 1 < k + 1)
    BY <1>2
  <2> QED BY <2>1, <2>2
<1>9. Weight(both) = Weight(new) + IF both[k + 1].free THEN 0 ELSE both[k + 1].size
  BY <1>8, FreedWeight
<1>10. new \in Seq(Region)
  BY <1>1, SplitKeeps
<1> HIDE DEF new
<1>11. Weight(new) \in Nat /\ Weight(cut) \in Nat
  BY <1>2, <1>10, WeightIs
<1>12. Weight(both) = Weight(new) + rest
  BY <1>6, <1>8, <1>9
<1> QED BY <1>1, <1>2, <1>3, <1>7, <1>11, <1>12

-----------------------------------------------------------------------------
(* What free_space says beyond the bytes that are not in use.              *)

Slack(a) == a.free_space - a.size + Weight(a.regions)

AllUsed(a) == \A k \in 1..Len(a.regions) : ~a.regions[k].free

LEMMA SlackInt ==
  ASSUME NEW a \in Area
  PROVE  Slack(a) \in Int /\ Weight(a.regions) \in Nat /\ a.free_space \in Int /\ a.size \in Nat
<1>1. a.regions \in Seq(Region) /\ a.free_space \in Int /\ a.size \in Nat
  BY DEF Area
<1>2. Weight(a.regions) \in Nat
  BY <1>1, WeightIs
<1> QED BY <1>1, <1>2 DEF Slack

LEMMA AddLastSlack ==
  ASSUME NEW a \in Area, NEW size \in Nat, NEW failed
  PROVE  Slack(AddLast(a, size, failed)) = Slack(a)
<1> DEFINE new == add_region_after(a.regions, Len(a.regions), size, a.vma)
<1>1. a.regions \in Seq(Region) /\ a.vma \in Nat
  BY DEF Area
<1>2. Weight(new) = Weight(a.regions) + size
  BY <1>1, AppendedWeight
<1>3. CASE "region" \in failed
  BY <1>3 DEF AddLast
<1>4. CASE "region" \notin failed
  <2> DEFINE b == [a EXCEPT !.free_space = @ - size, !.regions = new]
  <2>1. AddLast(a, size, failed) = b
    BY <1>4 DEF AddLast
  <2> HIDE DEF new
  <2>2. b.free_space = a.free_space - size /\ b.size = a.size /\ b.regions = new
    BY DEF Area
  <2> HIDE DEF b
  <2> QED BY <1>2, <2>1, <2>2, SlackInt DEF Slack
<1> QED BY <1>3, <1>4

LEMMA AddRegionSlack ==
  ASSUME NEW a \in Area, NEW size \in Nat \ {0}, NEW failed
  PROVE  /\ Slack(add_region(a, size, failed)) >= Slack(a)
         /\ AllUsed(a) => Slack(add_region(a, size, failed)) = Slack(a)
<1> DEFINE fits == FreeFits(a.regions, size)
           k    == Min(fits)
<1>1. /\ a.regions \in Seq(Region) /\ a.vma \in Nat /\ a.free_space - size \in Int
      /\ DOMAIN a.regions = 1..Len(a.regions) /\ size \in Nat
  BY RegionListDomain DEF Area
<1>2. CASE fits = {}
  <2>1. add_region(a, size, failed) = AddLast(a, size, failed)
    BY <1>2 DEF add_region
  <2>2. Slack(AddLast(a, size, failed)) = Slack(a)
    BY AddLastSlack
  <2> QED BY <2>1, <2>2, SlackInt
<1>3. CASE fits # {}
  <2>1. k \in 1..Len(a.regions) /\ a.regions[k].size >= size /\ a.regions[k].free
    <3>1. fits \subseteq Nat
      BY <1>1 DEF FreeFits
    <3>2. k \in fits
      BY <1>3, <3>1, MinOfNats
    <3> QED BY <1>1, <3>2 DEF FreeFits
  <2>2. ~AllUsed(a)
    BY <2>1 DEF AllUsed
  <2>3. CASE a.regions[k].size = size
    <3> DEFINE new == [a.regions EXCEPT ![k].free = FALSE]
               b == [a EXCEPT !.regions = new]
    <3>1. add_region(a, size, failed) = b
      BY <1>3, <2>3 DEF add_region
    <3>2. /\ new \in Seq(Region) /\ Len(new) = Len(a.regions)
          /\ \A j \in 1..Len(a.regions) : j # k => new[j] = a.regions[j]
          /\ ~new[k].free
      BY <1>1, <2>1, TakenIs
    <3> HIDE DEF new, k, fits
    <3>3. Weight(new) = Weight(a.regions) + new[k].size /\ new[k].size \in Nat
      BY <1>1, <2>1, <3>2, TakenWeight, RegionListDomain
    <3>4. b.free_space = a.free_space /\ b.size = a.size /\ b.regions = new
      BY DEF Area
    <3> HIDE DEF b
    <3>5. Slack(b) = Slack(a) + new[k].size
      BY <3>3, <3>4, SlackInt DEF Slack
    <3> QED BY <2>2, <3>1, <3>3, <3>5, SlackInt
  <2>4. CASE a.regions[k].size # size /\ "split" \in failed
    <3> DEFINE cut == Cut(a.regions, k, size)
               b   == [a EXCEPT !.free_space = @ - size, !.regions = cut]
    <3>1. add_region(a, size, failed) = AddLast(b, size, failed)
      BY <1>3, <2>4 DEF add_region
    <3> HIDE DEF k, fits
    <3>2. cut \in Seq(Region) /\ Weight(cut) = Weight(a.regions) + size
      BY <1>1, <2>1, CutProperties, CutWeight
    <3> HIDE DEF cut
    <3>3. /\ b \in Area /\ b.free_space = a.free_space - size /\ b.size = a.size
          /\ b.regions = cut
      BY <1>1, <3>2 DEF Area
    <3> HIDE DEF b
    <3>4. Slack(b) = Slack(a)
      BY <3>2, <3>3, SlackInt DEF Slack
    <3>5. Slack(AddLast(b, size, failed)) = Slack(b)
      BY <1>1, <3>3, AddLastSlack
    <3> QED BY <2>2, <3>1, <3>4, <3>5, SlackInt
  <2>5. CASE a.regions[k].size # size /\ "split" \notin failed
    <3> DEFINE new == Split(a.regions, k, size, a.vma)
               b   == [a EXCEPT !.free_space = @ - size, !.regions = new]
    <3>1. add_region(a, size, failed) = b
      BY <1>3, <2>5 DEF add_region
    <3> HIDE DEF k, fits
    <3>2. Weight(new) = Weight(a.regions) + size
      BY <1>1, <2>1, SplitWeight
    <3> HIDE DEF new
    <3>3. b.free_space = a.free_space - size /\ b.size = a.size /\ b.regions = new
      BY DEF Area
    <3> HIDE DEF b
    <3>4. Slack(b) = Slack(a)
      BY <3>2, <3>3, SlackInt DEF Slack
    <3> QED BY <2>2, <3>1, <3>4, SlackInt
  <2> QED BY <2>3, <2>4, <2>5
<1> QED BY <1>2, <1>3

\* What a step does to the slack of an area.
Follows(new, old) ==
  /\ Slack(new) \in Int /\ Slack(new) >= Slack(old)
  /\ AllUsed(old) => Slack(new) = Slack(old)

LEMMA UseAreaSlack ==
  ASSUME VmaInv, NEW i \in DOMAIN areas, NEW size \in Nat \ {0}, NEW failed,
         UseArea(i, size, failed)
  PROVE  \E new \in Area : areas' = [areas EXCEPT ![i] = new] /\ Follows(new, areas[i])
<1> DEFINE a == IF HasSpace(areas[i], size) THEN areas[i] ELSE extend_vma(areas[i], size)
<1>1. areas[i] \in Area
  BY AreaListDomain DEF VmaInv
<1>2. a \in Area /\ a.regions = areas[i].regions /\ Slack(a) = Slack(areas[i])
  <2>1. CASE HasSpace(areas[i], size)
    BY <1>1, <2>1
  <2>2. CASE ~HasSpace(areas[i], size)
    <3> DEFINE b == extend_vma(areas[i], size)
               x == Extra(areas[i], size)
    <3>1. /\ x \in Nat /\ b \in Area /\ b.regions = areas[i].regions
          /\ b.size = areas[i].size + x /\ b.free_space = areas[i].free_space + x
      BY <1>1, <2>2, ExtendKeeps DEF extend_vma, Area
    <3> HIDE DEF b, x
    <3>2. Slack(b) = Slack(areas[i])
      BY <1>1, <3>1, SlackInt DEF Slack
    <3> QED BY <2>2, <3>1, <3>2 DEF b
  <2> QED BY <2>1, <2>2
<1>3. areas' = [areas EXCEPT ![i] = add_region(a, size, failed)]
  BY DEF UseArea
<1>4. AllUsed(areas[i]) => AllUsed(a)
  BY <1>2 DEF AllUsed
<1> HIDE DEF a
<1>5. add_region(a, size, failed) \in Area
  BY <1>2, AddRegionKeeps
<1> DEFINE new == add_region(a, size, failed)
<1>6. Slack(new) >= Slack(a) /\ (AllUsed(a) => Slack(new) = Slack(a)) /\ Slack(new) \in Int
  BY <1>2, <1>5, AddRegionSlack, SlackInt
<1> HIDE DEF new
<1> QED BY <1>2, <1>3, <1>4, <1>5, <1>6 DEF new, Follows

LEMMA NewAreaSlack ==
  ASSUME VmaInv, NEW pid \in Pids, NEW size \in Nat \ {0}, NEW failed,
         NewArea(pid, size, failed)
  PROVE  \E new \in Area : areas' = Append(areas, new) /\ Slack(new) = 0
<1> DEFINE bytes == align_ceil(size, VMA_SIZE)
           start == get_free_space(bytes)
           Fresh(garbage) ==
             [pid |-> pid, vma |-> start, size |-> bytes, free_space |-> bytes,
              headFree |-> garbage, regions |-> <<>>]
<1>1. bytes \in Nat \ {0} /\ start \in Nat
  <2>1. VMA_SIZE \in Nat \ {0} /\ size \in Nat
    BY ConstantsAssumption DEF VMA_SIZE
  <2>2. bytes \in Nat \ {0}
    BY <2>1, AlignCeil
  <2> QED BY <2>2, FreeSpaceProperties DEF VmaInv
<1>2. PICK garbage \in HeadFree :
        areas' = Append(areas, IF "vma" \in failed THEN [Fresh(garbage) EXCEPT !.vma = NULL]
                                                   ELSE add_region(Fresh(garbage), size, failed))
  BY DEF NewArea
<1> HIDE DEF bytes, start
<1> DEFINE a == Fresh(garbage)
           null == [a EXCEPT !.vma = NULL]
<1>3. /\ a \in Area /\ null \in Area
      /\ a.free_space = bytes /\ a.size = bytes /\ a.regions = <<>>
      /\ null.free_space = bytes /\ null.size = bytes /\ null.regions = <<>>
  <2>1. <<>> \in Seq(Region) /\ garbage \in BOOLEAN
    BY <1>2, EmptySeq, ConstantsAssumption
  <2>2. bytes \in Int /\ start \in Nat /\ NULL \in Nat
    BY <1>1 DEF NULL
  <2> QED BY <1>1, <2>1, <2>2 DEF Area
<1>4. Weight(<<>>) = 0
  <2>1. BytesOf(<<>>, UsedIn(<<>>)) = {}
    BY DEF BytesOf, UsedIn
  <2> QED BY <2>1, FS_EmptySet DEF Weight
<1>5. areas' = Append(areas, IF "vma" \in failed THEN null ELSE add_region(a, size, failed))
  BY <1>2
<1> HIDE DEF a, null
<1>6. Slack(a) = 0 /\ Slack(null) = 0 /\ AllUsed(a)
  BY <1>1, <1>3, <1>4 DEF Slack, AllUsed
<1>7. add_region(a, size, failed) \in Area
  BY <1>3, AddRegionKeeps
<1>8. Slack(add_region(a, size, failed)) = 0
  BY <1>3, <1>6, AddRegionSlack
<1> QED BY <1>3, <1>5, <1>6, <1>7, <1>8

LEMMA FreeRegionSlack ==
  ASSUME VmaInv, NEW i \in DOMAIN areas, NEW k \in DOMAIN areas[i].regions,
         FreeRegion(i, k)
  PROVE  \/ areas' = RemoveAt(areas, i)
         \/ \E new \in Area : areas' = [areas EXCEPT ![i] = new] /\ Follows(new, areas[i])
<1> DEFINE a  == areas[i]
           rs == merge_neighbors_region([a.regions EXCEPT ![k].free = TRUE], k, a.headFree)
           space == a.free_space + a.regions[k].size
           b  == [[a EXCEPT !.regions = rs] EXCEPT !.free_space = space]
<1>1. /\ a \in Area /\ a.regions \in Seq(Region) /\ a.headFree \in BOOLEAN
      /\ k \in 1..Len(a.regions) /\ space \in Int /\ a.regions[k].size \in Nat
      /\ a.regions[k].free \in BOOLEAN
  <2>1. a \in Area /\ a.regions \in Seq(Region) /\ a.headFree \in BOOLEAN /\ a.free_space \in Int
    BY AreaListDomain DEF VmaInv
  <2>2. k \in 1..Len(a.regions) /\ a.regions[k].size \in Nat /\ a.regions[k].free \in BOOLEAN
    BY <2>1, RegionListDomain
  <2> QED BY <2>1, <2>2
<1>2. rs \in Seq(Region)
  <2> DEFINE freed == [a.regions EXCEPT ![k].free = TRUE]
  <2>1. freed \in Seq(Region) /\ Len(freed) = Len(a.regions)
    BY <1>1, FreedIs
  <2> HIDE DEF freed
  <2> QED BY <1>1, <2>1, MergeKeeps DEF freed
<1>3. Weight(a.regions) = Weight(rs) + IF a.regions[k].free THEN 0 ELSE a.regions[k].size
  BY <1>1, FreedWeight
<1>4. areas' = [areas EXCEPT ![i].regions = rs, ![i].free_space = space]
      \/ areas' = RemoveAt(areas, i)
  BY DEF FreeRegion
<1> HIDE DEF rs
<1>5. /\ b \in Area /\ b.regions = rs /\ b.size = a.size
      /\ b.free_space = a.free_space + a.regions[k].size
  BY <1>1, <1>2 DEF Area
<1>6. areas' = [areas EXCEPT ![i].regions = rs, ![i].free_space = space]
        => areas' = [areas EXCEPT ![i] = b]
  BY <1>1 DEF Area
<1> HIDE DEF b, space
<1>7. Follows(b, a)
  <2>1. AllUsed(a) => ~a.regions[k].free
    BY <1>1 DEF AllUsed
  <2>2. /\ Weight(rs) \in Nat /\ Weight(a.regions) \in Nat
        /\ a.free_space \in Int /\ a.size \in Nat /\ Slack(b) \in Int
    BY <1>1, <1>2, <1>5, WeightIs, SlackInt
  <2>3. Slack(b) = (a.free_space + a.regions[k].size) - a.size + Weight(rs)
    BY <1>5 DEF Slack
  <2>4. Slack(a) = a.free_space - a.size + Weight(a.regions)
    BY DEF Slack
  <2>5. /\ a.regions[k].size \in Nat
        /\ Weight(a.regions) = Weight(rs) + IF a.regions[k].free THEN 0 ELSE a.regions[k].size
    BY <1>1, <1>3
  <2> HIDE DEF a
  <2>6. Slack(b) >= Slack(a) /\ (~a.regions[k].free => Slack(b) = Slack(a))
    BY <2>2, <2>3, <2>4, <2>5
  <2> QED BY <2>1, <2>2, <2>6 DEF Follows
<1> QED BY <1>4, <1>5, <1>6, <1>7

\* What a step may make of the slack of an area.
LEMMA StepSlack ==
  ASSUME VmaInv, [Next]_vars, NEW j \in DOMAIN areas'
  PROVE  \/ \E i \in DOMAIN areas : areas'[j] = areas[i] \/ Follows(areas'[j], areas[i])
         \/ Slack(areas'[j]) = 0
<1> DEFINE Goal ==
         \/ \E i \in DOMAIN areas : areas'[j] = areas[i] \/ Follows(areas'[j], areas[i])
         \/ Slack(areas'[j]) = 0
<1> SUFFICES Goal
  OBVIOUS
<1>1. CASE UNCHANGED areas
  BY <1>1
<1>2. ASSUME NEW i \in DOMAIN areas, NEW new \in Area,
             areas' = [areas EXCEPT ![i] = new], Follows(new, areas[i])
      PROVE  Goal
  <2>1. CASE j = i
    BY <1>2, <2>1
  <2>2. CASE j # i
    BY <1>2, <2>2
  <2> QED BY <2>1, <2>2
<1>3. ASSUME NEW i \in DOMAIN areas, areas' = RemoveAt(areas, i) PROVE Goal
  BY <1>3, RemovedIs
<1>4. ASSUME NEW pid \in Pids, NEW size \in Sizes, create_region(pid, size)
      PROVE  Goal
  <2>1. size \in Nat \ {0}
    BY ConstantsAssumption
  <2>2. PICK failed \in SUBSET Faults :
          \/ UNCHANGED areas
          \/ \E i \in DOMAIN areas : UseArea(i, size, failed)
          \/ NewArea(pid, size, failed)
    BY <1>4 DEF create_region, UseNullArea
  <2>3. CASE NewArea(pid, size, failed)
    <3>1. PICK new \in Area : areas' = Append(areas, new) /\ Slack(new) = 0
      BY <2>1, <2>3, NewAreaSlack
    <3>2. CASE j \in DOMAIN areas
      BY <3>1, <3>2, AppendedIs
    <3>3. CASE areas'[j] = new
      BY <3>1, <3>3
    <3> QED BY <3>1, <3>2, <3>3, AppendedIs
  <2> HIDE DEF Goal
  <2> QED BY <1>1, <1>2, <2>1, <2>2, <2>3, UseAreaSlack
<1>5. ASSUME NEW pid \in Pids, NEW b \in Blocks, remove_region(pid, b.start)
      PROVE  Goal
  <2>1. \/ UNCHANGED areas
        \/ \E i \in DOMAIN areas : \E k \in DOMAIN areas[i].regions : FreeRegion(i, k)
    BY <1>5 DEF remove_region, get_region
  <2> HIDE DEF Goal
  <2> QED BY <1>1, <1>2, <1>3, <2>1, FreeRegionSlack
<1> HIDE DEF Goal
<1>6. ASSUME Environment
      PROVE  Goal
  BY <1>1, <1>3, <1>6 DEF Environment, close_vma, ForeignMap, ForeignUnmap
<1> QED BY <1>1, <1>4, <1>5, <1>6 DEF Next, vars

LEMMA SlackOf ==
  ASSUME VmaInv, NEW i \in DOMAIN areas
  PROVE  /\ Slack(areas[i]) \in Int
         /\ Slack(areas[i]) >= 0 <=> areas[i].free_space >= areas[i].size - UsedBytes(areas[i])
         /\ Slack(areas[i]) = 0 <=> areas[i].free_space = areas[i].size - UsedBytes(areas[i])
<1>1. areas[i] \in Area
  BY AreaListDomain DEF VmaInv
<1>2. UsedBytes(areas[i]) = Weight(areas[i].regions)
  BY DEF UsedBytes, Weight
<1> QED BY <1>1, <1>2, SlackInt DEF Slack

\* free_space counts at least the bytes that no region in use has, whichever
\* allocations fail and whatever the list head reads (area.c:49, 113-119, 157, 218).
THEOREM FreeSpaceSuffices == Spec => []FreeSpaceCovers
<1> DEFINE Inv == \A i \in DOMAIN areas : Slack(areas[i]) >= 0
<1>1. Init => VmaInv /\ Inv
  BY VmaInvInit DEF Init
<1>2. VmaInv /\ Inv /\ [Next]_vars => Inv'
  <2> SUFFICES ASSUME VmaInv, Inv, [Next]_vars, NEW j \in DOMAIN areas'
               PROVE  Slack(areas'[j]) >= 0
    OBVIOUS
  <2>1. \A i \in DOMAIN areas : Slack(areas[i]) \in Int /\ Slack(areas[i]) >= 0
    BY SlackOf
  <2> QED BY <2>1, StepSlack DEF Follows
<1>3. VmaInv /\ Inv => FreeSpaceCovers
  BY SlackOf DEF FreeSpaceCovers
<1> HIDE DEF Inv
<1>4. VmaInv /\ Inv /\ [Next]_vars => (VmaInv /\ Inv)'
  BY <1>2, VmaInvNext
<1> QED BY <1>1, <1>3, <1>4, PTL DEF Spec
=============================================================================
