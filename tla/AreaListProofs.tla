--------------------------- MODULE AreaListProofs ---------------------------
(***************************************************************************)
(* Theorems about AreaList, for every value of its constants.              *)
(***************************************************************************)
EXTENDS AreaList, SequenceTheorems, WellFoundedInduction, TLAPS

-----------------------------------------------------------------------------
(* Numbers and sequences.                                                  *)

LEMMA MinOfNats ==
  ASSUME NEW T, T \subseteq Nat, T # {}
  PROVE  Min(T) \in T /\ \A y \in T : Min(T) <= y
<1> DEFINE R == OpToRel(<, Nat)
<1>1. IsWellFoundedOn(R, Nat)
  BY NatLessThanWellFounded, Zenon
<1>2. \A m, n \in Nat : m < n => <<m, n>> \in R
  BY DEF OpToRel
<1> HIDE DEF R
<1>3. PICK x \in T : \A y \in T : ~(<<y, x>> \in R)
  BY <1>1, WFMin
<1>4. ASSUME NEW y \in T PROVE x <= y
  <2>1. ~(<<y, x>> \in R)
    BY <1>3
  <2>2. ~(y < x)
    BY <1>2, <2>1
  <2> QED BY <2>2
<1> QED BY <1>4 DEF Min

LEMMA AlignCeil ==
  ASSUME NEW x \in Nat, NEW unit \in Nat \ {0}
  PROVE  align_ceil(x, unit) \in Nat /\ align_ceil(x, unit) >= x
<1>1. x % unit \in Nat /\ (x + unit) % unit \in 0..(unit - 1)
  OBVIOUS
<1> QED BY <1>1 DEF align_ceil, align_floor

LEMMA FloorMultiple ==
  ASSUME NEW x \in Nat, NEW unit \in Nat \ {0}
  PROVE  align_floor(x, unit) % unit = 0 /\ align_floor(x, 2 * unit) % unit = 0
<1>1. (x - (x % unit)) % unit = 0
  <2>1. PICK p \in Int : x - (x % unit) = unit * p
    OBVIOUS
  <2>2. (unit * p) % unit = 0
    OBVIOUS
  <2> QED BY <2>1, <2>2, Zenon
<1> DEFINE w == 2 * unit
           q == x \div w
<1>2. w \in Nat \ {0}
  OBVIOUS
<1> HIDE DEF w
<1>3. x = w * q + (x % w) /\ x % w \in Nat /\ q \in Int
  BY <1>2, SMTT(30)
<1> HIDE DEF q
<1>4. w * q \in Int
  BY <1>2, <1>3
<1>5. x - (x % w) = w * q
  BY <1>3, <1>4
<1>6. w * q = unit * (2 * q)
  BY <1>3 DEF w
<1>7. 2 * q \in Int
  BY <1>3
<1>8. (unit * (2 * q)) % unit = 0
  BY <1>7
<1>9. (x - (x % w)) % unit = 0
  BY <1>5, <1>6, <1>8, Zenon
<1> QED BY <1>1, <1>9 DEF align_floor, w

LEMMA AlignCeilMultiple ==
  ASSUME NEW x \in Nat, NEW unit \in Nat \ {0}
  PROVE  align_ceil(x, unit) % unit = 0 /\ align_ceil(x, 2 * unit) % unit = 0
<1>1. align_ceil(x, unit) % unit = 0
  <2>1. x + unit \in Nat
    OBVIOUS
  <2> QED BY <2>1, FloorMultiple DEF align_ceil
<1>2. CASE x % (2 * unit) = 0
  <2>1. align_floor(x, 2 * unit) % unit = 0
    BY FloorMultiple
  <2>2. align_floor(x, 2 * unit) = x
    BY <1>2 DEF align_floor
  <2>3. align_ceil(x, 2 * unit) = x
    BY <1>2 DEF align_ceil
  <2>4. x % unit = 0
    BY <2>1, <2>2, Zenon
  <2> QED BY <1>1, <2>3, <2>4, Zenon
<1>3. CASE x % (2 * unit) # 0
  <2>1. x + 2 * unit \in Nat
    OBVIOUS
  <2>2. align_floor(x + 2 * unit, 2 * unit) % unit = 0
    BY <2>1, FloorMultiple
  <2> QED BY <1>1, <1>3, <2>2 DEF align_ceil
<1> QED BY <1>2, <1>3

LEMMA InsertAtProperties ==
  ASSUME NEW S, NEW s \in Seq(S), NEW i \in 1..(Len(s) + 1), NEW e \in S
  PROVE  /\ InsertAt(s, i, e) \in Seq(S)
         /\ Len(InsertAt(s, i, e)) = Len(s) + 1
         /\ \A j \in 1..(Len(s) + 1) :
              InsertAt(s, i, e)[j] = IF j < i THEN s[j] ELSE IF j = i THEN e ELSE s[j - 1]
<1> DEFINE before == SubSeq(s, 1, i - 1)
           after  == SubSeq(s, i, Len(s))
           front  == before \o <<e>>
<1>1. /\ before \in Seq(S) /\ Len(before) = i - 1
      /\ \A j \in 1..(i - 1) : before[j] = s[j]
  <2>1. \A j \in 1..(i - 1) : s[j] \in S
    OBVIOUS
  <2> QED BY <2>1, SubSeqProperties
<1>2. /\ after \in Seq(S) /\ Len(after) = Len(s) - i + 1
      /\ \A j \in 1..(Len(s) - i + 1) : after[j] = s[i + j - 1]
  <2>1. \A j \in i..Len(s) : s[j] \in S
    OBVIOUS
  <2> QED BY <2>1, SubSeqProperties
<1>3. <<e>> \in Seq(S) /\ Len(<<e>>) = 1 /\ <<e>>[1] = e
  OBVIOUS
<1> HIDE DEF before, after
<1>4. /\ front \in Seq(S) /\ Len(front) = i
      /\ \A j \in 1..i : front[j] = IF j <= i - 1 THEN before[j] ELSE <<e>>[j - (i - 1)]
  BY <1>1, <1>3, ConcatProperties
<1>5. front[i] = e /\ \A j \in 1..(i - 1) : front[j] = s[j]
  BY <1>1, <1>3, <1>4
<1> HIDE DEF front
<1>6. /\ front \o after \in Seq(S) /\ Len(front \o after) = Len(s) + 1
      /\ \A j \in 1..(Len(s) + 1) :
           (front \o after)[j] = IF j <= i THEN front[j] ELSE after[j - i]
  <2>1. Len(s) \in Nat /\ Len(front) + Len(after) = Len(s) + 1
    BY <1>2, <1>4
  <2>2. /\ front \o after \in Seq(S) /\ Len(front \o after) = Len(front) + Len(after)
        /\ \A j \in 1..(Len(front) + Len(after)) : (front \o after)[j] =
              IF j <= Len(front) THEN front[j] ELSE after[j - Len(front)]
    BY <1>2, <1>4, ConcatProperties
  <2> QED BY <1>4, <2>1, <2>2
<1>7. InsertAt(s, i, e) = front \o after
  BY DEF InsertAt, front, before, after
<1> QED BY <1>2, <1>5, <1>6, <1>7

LEMMA RemoveAtProperties ==
  ASSUME NEW S, NEW s \in Seq(S), NEW i \in 1..Len(s)
  PROVE  /\ RemoveAt(s, i) \in Seq(S)
         /\ Len(RemoveAt(s, i)) = Len(s) - 1
         /\ \A j \in 1..(Len(s) - 1) :
              RemoveAt(s, i)[j] = IF j < i THEN s[j] ELSE s[j + 1]
<1> DEFINE before == SubSeq(s, 1, i - 1)
           after  == SubSeq(s, i + 1, Len(s))
<1>1. /\ before \in Seq(S) /\ Len(before) = i - 1
      /\ \A j \in 1..(i - 1) : before[j] = s[j]
  <2>1. \A j \in 1..(i - 1) : s[j] \in S
    OBVIOUS
  <2> QED BY <2>1, SubSeqProperties
<1>2. /\ after \in Seq(S) /\ Len(after) = Len(s) - i
      /\ \A j \in 1..(Len(s) - i) : after[j] = s[i + j]
  <2>1. \A j \in (i + 1)..Len(s) : s[j] \in S
    OBVIOUS
  <2> QED BY <2>1, SubSeqProperties
<1> HIDE DEF before, after
<1>3. /\ before \o after \in Seq(S) /\ Len(before \o after) = Len(s) - 1
      /\ \A j \in 1..(Len(s) - 1) :
           (before \o after)[j] = IF j <= i - 1 THEN before[j] ELSE after[j - (i - 1)]
  <2>1. Len(s) \in Nat /\ Len(before) + Len(after) = Len(s) - 1
    BY <1>1, <1>2
  <2>2. /\ before \o after \in Seq(S) /\ Len(before \o after) = Len(before) + Len(after)
        /\ \A j \in 1..(Len(before) + Len(after)) : (before \o after)[j] =
              IF j <= Len(before) THEN before[j] ELSE after[j - Len(before)]
    BY <1>1, <1>2, ConcatProperties
  <2>3. Len(before) = i - 1
    BY <1>1
  <2> QED BY <2>1, <2>2, <2>3
<1>4. RemoveAt(s, i) = before \o after
  BY DEF RemoveAt, before, after
<1>5. ASSUME NEW j \in 1..(Len(s) - 1)
      PROVE  (before \o after)[j] = IF j < i THEN s[j] ELSE s[j + 1]
  <2>1. CASE j < i
    BY <1>1, <1>3, <2>1
  <2>2. CASE ~(j < i)
    <3>1. j - (i - 1) \in 1..(Len(s) - i) /\ i + (j - (i - 1)) = j + 1
      BY <2>2
    <3>2. (before \o after)[j] = after[j - (i - 1)]
      BY <1>3, <2>2
    <3>3. after[j - (i - 1)] = s[j + 1]
      BY <1>2, <3>1
    <3> QED BY <2>2, <3>2, <3>3
  <2> QED BY <2>1, <2>2
<1> QED BY <1>3, <1>4, <1>5

-----------------------------------------------------------------------------
(* Region lists.  Each lemma says that an operation keeps the list a list  *)
(* of regions, and keeps it tiled.                                         *)

LEMMA RegionListDomain ==
  ASSUME NEW regions \in Seq(Region)
  PROVE  /\ Len(regions) \in Nat
         /\ DOMAIN regions = 1..Len(regions)
         /\ \A k \in 1..Len(regions) :
              /\ regions[k] \in Region
              /\ regions[k].start \in Nat /\ regions[k].size \in Nat
              /\ regions[k].free \in BOOLEAN /\ EndOf(regions[k]) \in Nat
<1>1. Len(regions) \in Nat /\ DOMAIN regions = 1..Len(regions)
  BY LenProperties
<1>2. \A k \in 1..Len(regions) : regions[k] \in Region
  BY ElementOfSeq
<1> QED BY <1>1, <1>2 DEF Region, EndOf

\* The list new is regions with r behind its prev-th region.
Inserted(new, regions, prev, r) ==
  /\ new \in Seq(Region) /\ Len(new) = Len(regions) + 1
  /\ \A j \in 1..(Len(regions) + 1) :
       new[j] = IF j < prev + 1 THEN regions[j]
                ELSE IF j = prev + 1 THEN r
                ELSE regions[j - 1]

LEMMA RegionAfter ==
  ASSUME NEW regions \in Seq(Region), NEW prev \in 0..Len(regions),
         NEW size \in Nat, NEW vm_start \in Nat
  PROVE  Inserted(add_region_after(regions, prev, size, vm_start),
                  regions, prev, NewRegion(regions, prev, size, vm_start))
<1> DEFINE r == NewRegion(regions, prev, size, vm_start)
<1>1. prev + 1 \in 1..(Len(regions) + 1)
  BY RegionListDomain
<1>2. r \in Region
  <2>1. CASE prev = 0
    BY <2>1 DEF Region, NewRegion
  <2>2. CASE prev # 0
    <3>1. prev \in 1..Len(regions)
      BY <2>2
    <3> QED BY <2>2, <3>1, RegionListDomain DEF Region, NewRegion
  <2> QED BY <2>1, <2>2
<1>3. add_region_after(regions, prev, size, vm_start) = InsertAt(regions, prev + 1, r)
  BY DEF add_region_after
<1> HIDE DEF r
<1>4. /\ InsertAt(regions, prev + 1, r) \in Seq(Region)
      /\ Len(InsertAt(regions, prev + 1, r)) = Len(regions) + 1
      /\ \A j \in 1..(Len(regions) + 1) : InsertAt(regions, prev + 1, r)[j] =
            IF j < prev + 1 THEN regions[j] ELSE IF j = prev + 1 THEN r ELSE regions[j - 1]
  BY <1>1, <1>2, InsertAtProperties
<1>5. Inserted(InsertAt(regions, prev + 1, r), regions, prev, r)
  BY <1>4 DEF Inserted
<1> QED BY <1>3, <1>5, Zenon DEF r

\* A region at the end of a tiled list continues it.
LEMMA LastRegionTiles ==
  ASSUME NEW regions \in Seq(Region), NEW size \in Nat \ {0}, NEW vm_start \in Nat,
         Tiled(regions, vm_start)
  PROVE  Tiled(add_region_after(regions, Len(regions), size, vm_start), vm_start)
<1> DEFINE new == add_region_after(regions, Len(regions), size, vm_start)
<1>1. Len(regions) \in 0..Len(regions) /\ size \in Nat
  BY RegionListDomain
<1>2. /\ new \in Seq(Region) /\ Len(new) = Len(regions) + 1
      /\ \A j \in 1..Len(regions) : new[j] = regions[j]
      /\ new[Len(regions) + 1].size = size
      /\ new[Len(regions) + 1].start =
           IF Len(regions) = 0 THEN vm_start ELSE EndOf(regions[Len(regions)])
  <2>1. /\ new \in Seq(Region) /\ Len(new) = Len(regions) + 1
        /\ \A j \in 1..(Len(regions) + 1) :
             new[j] = IF j < Len(regions) + 1 THEN regions[j]
                      ELSE IF j = Len(regions) + 1
                        THEN NewRegion(regions, Len(regions), size, vm_start)
                        ELSE regions[j - 1]
    <3>1. Inserted(new, regions, Len(regions), NewRegion(regions, Len(regions), size, vm_start))
      BY <1>1, RegionAfter
    <3> HIDE DEF new
    <3> QED BY <3>1, Zenon DEF Inserted
  <2> HIDE DEF new
  <2>2. Len(regions) \in Nat
    BY RegionListDomain
  <2>3. new[Len(regions) + 1] = NewRegion(regions, Len(regions), size, vm_start)
    BY <2>1, <2>2
  <2> QED BY <2>1, <2>2, <2>3 DEF NewRegion
<1> HIDE DEF new
<1>3. DOMAIN new = 1..(Len(regions) + 1)
  BY <1>2, RegionListDomain
<1>4. ASSUME NEW k \in 1..(Len(regions) + 1)
      PROVE  /\ new[k].size > 0
             /\ new[k].start = IF k = 1 THEN vm_start ELSE EndOf(new[k - 1])
  <2>1. Len(regions) \in Nat /\ DOMAIN regions = 1..Len(regions)
    BY RegionListDomain
  <2>2. CASE k \in 1..Len(regions)
    <3>1. k # 1 => k - 1 \in 1..Len(regions)
      BY <2>2
    <3> QED BY <1>2, <2>1, <2>2, <3>1 DEF Tiled
  <2>3. CASE k = Len(regions) + 1
    <3>1. k # 1 => k - 1 = Len(regions) /\ Len(regions) \in 1..Len(regions)
      BY <2>1, <2>3
    <3> QED BY <1>2, <2>1, <2>3, <3>1
  <2> QED BY <2>1, <2>2, <2>3
<1> QED BY <1>3, <1>4 DEF Tiled, new

LEMMA AbsorbProperties ==
  ASSUME NEW regions \in Seq(Region), NEW i \in 1..(Len(regions) - 1)
  PROVE  /\ Absorb(regions, i) \in Seq(Region)
         /\ Len(Absorb(regions, i)) = Len(regions) - 1
         /\ \A j \in 1..(Len(regions) - 1) : Absorb(regions, i)[j] =
               IF j < i THEN regions[j]
               ELSE IF j = i THEN [regions[i] EXCEPT !.size = @ + regions[i + 1].size]
               ELSE regions[j + 1]
<1> DEFINE grown == [regions EXCEPT ![i].size = @ + regions[i + 1].size]
           r     == [regions[i] EXCEPT !.size = @ + regions[i + 1].size]
<1>1. i \in 1..Len(regions) /\ i + 1 \in 1..Len(regions) /\ Len(regions) \in Nat
  BY RegionListDomain
<1>2. r \in Region
  <2>1. regions[i] \in Region /\ regions[i].size + regions[i + 1].size \in Nat
    BY <1>1, RegionListDomain
  <2> QED BY <2>1 DEF Region
<1>3. grown = [regions EXCEPT ![i] = r]
  OBVIOUS
<1>4. /\ grown \in Seq(Region) /\ Len(grown) = Len(regions)
      /\ \A j \in 1..Len(regions) : grown[j] = IF j = i THEN r ELSE regions[j]
  BY <1>1, <1>2, <1>3, ExceptSeq
<1>5. Absorb(regions, i) = RemoveAt(grown, i + 1)
  BY DEF Absorb
<1> HIDE DEF grown, r
<1>6. /\ RemoveAt(grown, i + 1) \in Seq(Region)
      /\ Len(RemoveAt(grown, i + 1)) = Len(regions) - 1
      /\ \A j \in 1..(Len(regions) - 1) :
           RemoveAt(grown, i + 1)[j] = IF j < i + 1 THEN grown[j] ELSE grown[j + 1]
  <2>1. i + 1 \in 1..Len(grown)
    BY <1>1, <1>4
  <2> QED BY <1>4, <2>1, RemoveAtProperties
<1>7. ASSUME NEW j \in 1..(Len(regions) - 1)
      PROVE  RemoveAt(grown, i + 1)[j] =
               IF j < i THEN regions[j] ELSE IF j = i THEN r ELSE regions[j + 1]
  <2>1. j \in 1..Len(regions) /\ j + 1 \in 1..Len(regions)
    BY <1>1
  <2>2. CASE j < i + 1
    BY <1>1, <1>4, <1>6, <2>1, <2>2
  <2>3. CASE ~(j < i + 1)
    BY <1>1, <1>4, <1>6, <2>1, <2>3
  <2> QED BY <2>2, <2>3
<1> QED BY <1>5, <1>6, <1>7 DEF r

LEMMA AbsorbTiles ==
  ASSUME NEW regions \in Seq(Region), NEW i \in 1..(Len(regions) - 1),
         NEW vm_start \in Nat, Tiled(regions, vm_start)
  PROVE  Tiled(Absorb(regions, i), vm_start)
<1> DEFINE new == Absorb(regions, i)
<1>1. /\ new \in Seq(Region) /\ Len(new) = Len(regions) - 1
      /\ \A j \in 1..(Len(regions) - 1) : new[j] =
            IF j < i THEN regions[j]
            ELSE IF j = i THEN [regions[i] EXCEPT !.size = @ + regions[i + 1].size]
            ELSE regions[j + 1]
  BY AbsorbProperties
<1> HIDE DEF new
<1>2. DOMAIN new = 1..(Len(regions) - 1) /\ Len(regions) \in Nat
  BY <1>1, RegionListDomain
<1>3. \A k \in 1..Len(regions) :
        /\ regions[k] \in Region /\ regions[k].size \in Nat /\ regions[k].start \in Nat
        /\ regions[k].size > 0
        /\ regions[k].start = IF k = 1 THEN vm_start ELSE EndOf(regions[k - 1])
  BY RegionListDomain DEF Tiled
<1>4. new[i].start = regions[i].start /\ new[i].size = regions[i].size + regions[i + 1].size
  <2>1. i \in 1..Len(regions)
    BY <1>2
  <2>2. regions[i] \in Region
    BY <1>3, <2>1
  <2>3. new[i] = [regions[i] EXCEPT !.size = @ + regions[i + 1].size]
    BY <1>1
  <2> QED BY <2>2, <2>3 DEF Region
<1>5. ASSUME NEW k \in 1..(Len(regions) - 1)
      PROVE  /\ new[k].size > 0
             /\ new[k].start = IF k = 1 THEN vm_start ELSE EndOf(new[k - 1])
  <2>0. k \in 1..Len(regions) /\ k + 1 \in 1..Len(regions) /\ i + 1 \in 1..Len(regions)
    BY <1>2
  <2>1. CASE k < i
    <3>1. k # 1 => k - 1 \in 1..(Len(regions) - 1) /\ k - 1 < i
      BY <1>2, <2>1
    <3> QED BY <1>1, <1>3, <2>0, <2>1, <3>1
  <2>2. CASE k = i
    <3>1. k # 1 => k - 1 \in 1..(Len(regions) - 1) /\ k - 1 < i
      BY <1>2, <2>2
    <3>2. new[k].size > 0
      BY <1>3, <1>4, <2>0, <2>2
    <3> QED BY <1>1, <1>3, <1>4, <2>0, <2>2, <3>1, <3>2
  <2>3. CASE k = i + 1
    <3>1. k - 1 = i /\ k # 1 /\ ~(k < i) /\ k # i
      BY <2>3
    <3>2. new[k] = regions[i + 2] /\ i + 2 \in 1..Len(regions) /\ (i + 2) - 1 = i + 1 /\ i + 2 # 1
      BY <1>1, <2>0, <2>3, <3>1
    <3>3. regions[i + 2].start = EndOf(regions[i + 1])
      BY <1>3, <3>2
    <3>4. regions[i + 1].start = EndOf(regions[i])
      <4>1. (i + 1) - 1 = i /\ i + 1 # 1
        OBVIOUS
      <4> QED BY <1>3, <2>0, <4>1
    <3>5. EndOf(new[i]) = EndOf(regions[i + 1])
      <4>1. i \in 1..Len(regions)
        BY <1>2
      <4> QED BY <1>3, <1>4, <2>0, <3>4, <4>1 DEF EndOf
    <3> QED BY <1>3, <3>1, <3>2, <3>3, <3>5
  <2>4. CASE k > i + 1
    <3>1. /\ k - 1 \in 1..(Len(regions) - 1) /\ ~(k - 1 < i) /\ k - 1 # i
          /\ ~(k < i) /\ k # i /\ k # 1 /\ (k - 1) + 1 = k /\ (k + 1) - 1 = k /\ k + 1 # 1
      BY <1>2, <2>4
    <3>2. new[k] = regions[k + 1] /\ new[k - 1] = regions[k]
      BY <1>1, <3>1
    <3> QED BY <1>3, <2>0, <3>1, <3>2
  <2> QED BY <2>1, <2>2, <2>3, <2>4
<1> QED BY <1>2, <1>5 DEF Tiled, new

LEMMA DropIfLastKeeps ==
  ASSUME NEW regions \in Seq(Region), NEW i \in 1..Len(regions)
  PROVE  /\ DropIfLast(regions, i) \in Seq(Region)
         /\ \A vm_start \in Nat :
              Tiled(regions, vm_start) => Tiled(DropIfLast(regions, i), vm_start)
<1>1. CASE i # Len(regions)
  BY <1>1 DEF DropIfLast
<1>2. CASE i = Len(regions)
  <2> DEFINE new == RemoveAt(regions, i)
  <2>1. DropIfLast(regions, i) = new
    BY <1>2 DEF DropIfLast
  <2>2. /\ new \in Seq(Region) /\ Len(new) = Len(regions) - 1
        /\ \A j \in 1..(Len(regions) - 1) :
             new[j] = IF j < i THEN regions[j] ELSE regions[j + 1]
    BY RemoveAtProperties
  <2> HIDE DEF new
  <2>3. Len(regions) \in Nat /\ DOMAIN regions = 1..Len(regions)
    BY RegionListDomain
  <2>4. DOMAIN new = 1..(Len(regions) - 1)
    BY <2>2, RegionListDomain
  <2>5. \A j \in 1..(Len(regions) - 1) :
          j \in 1..Len(regions) /\ (j # 1 => j - 1 \in 1..(Len(regions) - 1)) /\ j < i
    BY <1>2, <2>3
  <2>6. \A j \in 1..(Len(regions) - 1) : new[j] = regions[j]
    BY <2>2, <2>5
  <2>7. ASSUME NEW vm_start \in Nat, Tiled(regions, vm_start)
        PROVE  Tiled(new, vm_start)
    BY <2>3, <2>4, <2>5, <2>6, <2>7 DEF Tiled
  <2> QED BY <2>1, <2>2, <2>7
<1> QED BY <1>1, <1>2

LEMMA MergeNextKeeps ==
  ASSUME NEW regions \in Seq(Region), NEW i \in 1..Len(regions)
  PROVE  /\ MergeNext(regions, i) \in Seq(Region)
         /\ i \in 1..Len(MergeNext(regions, i))
         /\ \A vm_start \in Nat :
              Tiled(regions, vm_start) => Tiled(MergeNext(regions, i), vm_start)
<1>1. CASE ~(i < Len(regions) /\ regions[i + 1].free)
  BY <1>1 DEF MergeNext
<1>2. CASE i < Len(regions) /\ regions[i + 1].free
  <2>1. i \in 1..(Len(regions) - 1) /\ Len(regions) \in Nat
    BY <1>2, RegionListDomain
  <2>2. MergeNext(regions, i) = Absorb(regions, i)
    BY <1>2 DEF MergeNext
  <2> QED BY <2>1, <2>2, AbsorbProperties, AbsorbTiles
<1> QED BY <1>1, <1>2

LEMMA MergeKeeps ==
  ASSUME NEW regions \in Seq(Region), NEW i \in 1..Len(regions), NEW headFree \in BOOLEAN
  PROVE  LET new == merge_neighbors_region(regions, i, headFree)
         IN  /\ new \in Seq(Region)
             /\ ~headFree => \A vm_start \in Nat :
                               Tiled(regions, vm_start) => Tiled(new, vm_start)
<1> DEFINE merged == MergeNext(regions, i)
           new    == merge_neighbors_region(regions, i, headFree)
<1>1. /\ merged \in Seq(Region) /\ i \in 1..Len(merged) /\ Len(merged) \in Nat
      /\ \A vm_start \in Nat : Tiled(regions, vm_start) => Tiled(merged, vm_start)
  BY MergeNextKeeps, RegionListDomain
<1>2. CASE i = 1 /\ headFree
  <2>1. new = RemoveAt(merged, 1)
    BY <1>2 DEF merge_neighbors_region
  <2> HIDE DEF merged, new
  <2>2. RemoveAt(merged, 1) \in Seq(Region)
    <3>1. 1 \in 1..Len(merged)
      BY <1>1, <1>2
    <3> QED BY <1>1, <3>1, RemoveAtProperties
  <2> QED BY <1>2, <2>1, <2>2 DEF new
<1>3. CASE ~(i = 1 /\ headFree) /\ i > 1 /\ merged[i - 1].free
  <2>1. new = DropIfLast(Absorb(merged, i - 1), i - 1)
    BY <1>3 DEF merge_neighbors_region
  <2> HIDE DEF merged, new
  <2>2. i - 1 \in 1..(Len(merged) - 1)
    BY <1>1, <1>3
  <2>3. /\ Absorb(merged, i - 1) \in Seq(Region)
        /\ Len(Absorb(merged, i - 1)) = Len(merged) - 1
        /\ \A vm_start \in Nat :
             Tiled(merged, vm_start) => Tiled(Absorb(merged, i - 1), vm_start)
    BY <1>1, <2>2, AbsorbProperties, AbsorbTiles
  <2>4. i - 1 \in 1..Len(Absorb(merged, i - 1))
    BY <2>2, <2>3
  <2> QED BY <1>1, <2>1, <2>3, <2>4, DropIfLastKeeps DEF new
<1>4. CASE ~(i = 1 /\ headFree) /\ ~(i > 1 /\ merged[i - 1].free)
  <2>1. new = DropIfLast(merged, i)
    BY <1>4 DEF merge_neighbors_region
  <2> HIDE DEF merged, new
  <2> QED BY <1>1, <2>1, DropIfLastKeeps DEF new
<1> QED BY <1>2, <1>3, <1>4

LEMMA FlagKeeps ==
  ASSUME NEW regions \in Seq(Region), NEW k \in 1..Len(regions), NEW flag \in BOOLEAN
  PROVE  LET new == [regions EXCEPT ![k].free = flag]
         IN  /\ new \in Seq(Region)
             /\ Len(new) = Len(regions)
             /\ \A vm_start \in Nat : Tiled(regions, vm_start) => Tiled(new, vm_start)
<1> DEFINE new == [regions EXCEPT ![k].free = flag]
           r   == [regions[k] EXCEPT !.free = flag]
<1>1. regions[k] \in Region
  BY RegionListDomain
<1>2. /\ r \in Region /\ r.start = regions[k].start /\ r.size = regions[k].size
      /\ EndOf(r) = EndOf(regions[k])
  BY <1>1 DEF Region, EndOf
<1>3. new = [regions EXCEPT ![k] = r]
  OBVIOUS
<1>4. /\ new \in Seq(Region) /\ Len(new) = Len(regions)
      /\ \A j \in 1..Len(regions) : new[j] = IF j = k THEN r ELSE regions[j]
  BY <1>2, <1>3, ExceptSeq
<1> HIDE DEF new, r
<1>5. /\ DOMAIN regions = 1..Len(regions) /\ DOMAIN new = 1..Len(regions)
      /\ Len(regions) \in Nat
  BY <1>4, RegionListDomain
<1>6. \A j \in 1..Len(regions) :
        /\ new[j].start = regions[j].start /\ new[j].size = regions[j].size
        /\ EndOf(new[j]) = EndOf(regions[j])
  BY <1>2, <1>4
<1>7. ASSUME NEW vm_start \in Nat, Tiled(regions, vm_start)
      PROVE  Tiled(new, vm_start)
  <2>1. \A j \in 1..Len(regions) : j # 1 => j - 1 \in 1..Len(regions)
    BY <1>5
  <2> QED BY <1>5, <1>6, <1>7, <2>1 DEF Tiled
<1> QED BY <1>4, <1>7 DEF new

LEMMA CutProperties ==
  ASSUME NEW regions \in Seq(Region), NEW k \in 1..Len(regions), NEW size \in Nat
  PROVE  /\ Cut(regions, k, size) \in Seq(Region)
         /\ Len(Cut(regions, k, size)) = Len(regions)
         /\ \A j \in 1..Len(regions) : j # k => Cut(regions, k, size)[j] = regions[j]
         /\ Cut(regions, k, size)[k].start = regions[k].start
         /\ Cut(regions, k, size)[k].size = size
<1> DEFINE r == [[regions[k] EXCEPT !.free = FALSE] EXCEPT !.size = size]
<1>1. regions[k] \in Region /\ DOMAIN regions = 1..Len(regions)
  BY RegionListDomain
<1>2. r \in Region /\ r.start = regions[k].start /\ r.size = size
  BY <1>1 DEF Region
<1>3. Cut(regions, k, size) = [regions EXCEPT ![k] = r]
  BY <1>1 DEF Cut
<1> HIDE DEF r
<1>4. /\ [regions EXCEPT ![k] = r] \in Seq(Region)
      /\ Len([regions EXCEPT ![k] = r]) = Len(regions)
      /\ \A j \in 1..Len(regions) :
           [regions EXCEPT ![k] = r][j] = IF j = k THEN r ELSE regions[j]
  BY <1>2, ExceptSeq
<1> QED BY <1>2, <1>3, <1>4

LEMMA SplitKeeps ==
  ASSUME NEW regions \in Seq(Region), NEW k \in 1..Len(regions), NEW size \in Nat,
         NEW vm_start \in Nat, regions[k].size >= size
  PROVE  /\ Split(regions, k, size, vm_start) \in Seq(Region)
         /\ size > 0 /\ regions[k].size > size /\ Tiled(regions, vm_start)
              => Tiled(Split(regions, k, size, vm_start), vm_start)
<1> DEFINE cut   == Cut(regions, k, size)
           rest  == regions[k].size - size
           both  == add_region_after(cut, k, rest, vm_start)
           freed == [both EXCEPT ![k + 1].free = TRUE]
<1>1. /\ Len(regions) \in Nat /\ rest \in Nat
      /\ regions[k].size \in Nat /\ regions[k].start \in Nat
  BY RegionListDomain
<1>2. /\ cut \in Seq(Region) /\ Len(cut) = Len(regions)
      /\ \A j \in 1..Len(regions) : j # k => cut[j] = regions[j]
      /\ cut[k].start = regions[k].start /\ cut[k].size = size
  BY CutProperties
<1>3. Split(regions, k, size, vm_start) = merge_neighbors_region(freed, k + 1, FALSE)
  BY DEF Split
<1> HIDE DEF cut
<1>4. /\ both \in Seq(Region) /\ Len(both) = Len(regions) + 1
      /\ \A j \in 1..(Len(regions) + 1) :
           both[j] = IF j < k + 1 THEN cut[j]
                     ELSE IF j = k + 1 THEN NewRegion(cut, k, rest, vm_start)
                     ELSE cut[j - 1]
  <2>1. cut \in Seq(Region) /\ k \in 0..Len(cut) /\ rest \in Nat
    BY <1>1, <1>2
  <2> HIDE DEF rest, freed
  <2>2. /\ both \in Seq(Region) /\ Len(both) = Len(cut) + 1
        /\ \A j \in 1..(Len(cut) + 1) :
             both[j] = IF j < k + 1 THEN cut[j]
                       ELSE IF j = k + 1 THEN NewRegion(cut, k, rest, vm_start)
                       ELSE cut[j - 1]
    <3>1. Inserted(both, cut, k, NewRegion(cut, k, rest, vm_start))
      BY <2>1, RegionAfter
    <3> HIDE DEF both
    <3> QED BY <3>1, Zenon DEF Inserted
  <2> HIDE DEF both
  <2> QED BY <1>2, <2>2
<1> HIDE DEF both
<1>5. k + 1 \in 1..Len(both)
  BY <1>1, <1>4
<1>6. /\ freed \in Seq(Region) /\ Len(freed) = Len(both)
      /\ Tiled(both, vm_start) => Tiled(freed, vm_start)
  BY <1>4, <1>5, FlagKeeps
<1> HIDE DEF freed
<1>7. /\ merge_neighbors_region(freed, k + 1, FALSE) \in Seq(Region)
      /\ Tiled(freed, vm_start) => Tiled(merge_neighbors_region(freed, k + 1, FALSE), vm_start)
  BY <1>5, <1>6, MergeKeeps
<1>8. ASSUME size > 0, regions[k].size > size, Tiled(regions, vm_start)
      PROVE  Tiled(both, vm_start)
  <2>1. \A j \in 1..Len(regions) :
          /\ regions[j].size \in Nat /\ regions[j].start \in Nat /\ regions[j].size > 0
          /\ regions[j].start = IF j = 1 THEN vm_start ELSE EndOf(regions[j - 1])
    BY <1>8, RegionListDomain DEF Tiled
  <2>2. DOMAIN both = 1..(Len(regions) + 1)
    BY <1>4, RegionListDomain
  <2>3. \A j \in 1..(Len(regions) + 1) : j < k + 1 =>
          /\ j \in 1..Len(regions)
          /\ both[j].start = regions[j].start
          /\ both[j].size = IF j = k THEN size ELSE regions[j].size
    BY <1>1, <1>2, <1>4
  <2>4. /\ both[k + 1] = NewRegion(cut, k, rest, vm_start)
        /\ k + 1 \in 1..(Len(regions) + 1) /\ k \in 1..(Len(regions) + 1) /\ k < k + 1
    BY <1>1, <1>4
  <2>5. both[k + 1].size = rest /\ both[k + 1].start = regions[k].start + size
    BY <1>2, <2>4 DEF NewRegion, EndOf
  <2>6. \A j \in 1..(Len(regions) + 1) : j > k + 1 =>
          j - 1 \in 1..Len(regions) /\ both[j] = regions[j - 1]
    <3> SUFFICES ASSUME NEW j \in 1..(Len(regions) + 1), j > k + 1
                 PROVE  j - 1 \in 1..Len(regions) /\ both[j] = regions[j - 1]
      OBVIOUS
    <3>1. j - 1 \in 1..Len(regions) /\ ~(j < k + 1) /\ j # k + 1 /\ j - 1 # k
      BY <1>1
    <3>2. both[j] = cut[j - 1]
      BY <1>4, <3>1
    <3> QED BY <1>2, <3>1, <3>2
  <2>7. ASSUME NEW j \in 1..(Len(regions) + 1)
        PROVE  /\ both[j].size > 0
               /\ both[j].start = IF j = 1 THEN vm_start ELSE EndOf(both[j - 1])
    <3>1. CASE j < k + 1
      <4>1. j # 1 => /\ j - 1 \in 1..(Len(regions) + 1) /\ j - 1 < k + 1
                     /\ j - 1 # k /\ j - 1 \in 1..Len(regions)
        BY <1>1, <3>1
      <4>2. both[j].size > 0
        BY <1>8, <2>1, <2>3, <3>1
      <4>3. j # 1 => EndOf(both[j - 1]) = EndOf(regions[j - 1])
        BY <2>3, <4>1 DEF EndOf
      <4> QED BY <2>1, <2>3, <3>1, <4>2, <4>3
    <3>2. CASE j = k + 1
      <4>1. j # 1 /\ j - 1 = k
        BY <3>2
      <4>2. EndOf(both[k]) = regions[k].start + size
        BY <2>3, <2>4 DEF EndOf
      <4>3. rest > 0
        BY <1>1, <1>8
      <4> QED BY <2>5, <3>2, <4>1, <4>2, <4>3
    <3>3. CASE j = k + 2
      <4>1. j > k + 1 /\ j - 1 = k + 1 /\ j # 1 /\ k + 1 # 1 /\ (k + 1) - 1 = k
        BY <3>3
      <4>2. both[j] = regions[k + 1] /\ k + 1 \in 1..Len(regions)
        BY <2>6, <4>1
      <4>3. regions[k + 1].size > 0 /\ regions[k + 1].start = EndOf(regions[k])
        BY <2>1, <4>1, <4>2
      <4>4. EndOf(both[k + 1]) = EndOf(regions[k])
        <5>1. EndOf(both[k + 1]) = (regions[k].start + size) + rest
          BY <2>5 DEF EndOf
        <5>2. rest \in Nat /\ regions[k].size = size + rest /\ regions[k].start \in Nat
          BY <1>1
        <5> QED BY <1>1, <5>1, <5>2 DEF EndOf
      <4> QED BY <4>1, <4>2, <4>3, <4>4
    <3>4. CASE j > k + 2
      <4>1. /\ j > k + 1 /\ j - 1 > k + 1 /\ j - 1 \in 1..(Len(regions) + 1)
            /\ j # 1 /\ j - 1 # 1
        BY <1>1, <3>4
      <4>2. both[j] = regions[j - 1] /\ both[j - 1] = regions[(j - 1) - 1]
            /\ j - 1 \in 1..Len(regions)
        BY <2>6, <4>1
      <4> QED BY <2>1, <4>1, <4>2
    <3> QED BY <3>1, <3>2, <3>3, <3>4
  <2> QED BY <2>2, <2>7 DEF Tiled
<1> QED BY <1>3, <1>6, <1>7, <1>8

-----------------------------------------------------------------------------
(* Areas.                                                                  *)

LEMMA AddLastKeeps ==
  ASSUME NEW a \in Area, NEW size \in Nat \ {0}, NEW failed
  PROVE  /\ AddLast(a, size, failed) \in Area
         /\ AddLast(a, size, failed).vma = a.vma
         /\ AddLast(a, size, failed).size = a.size
         /\ AddLast(a, size, failed).headFree = a.headFree
         /\ Tiled(a.regions, a.vma) => Tiled(AddLast(a, size, failed).regions, a.vma)
<1> DEFINE new == add_region_after(a.regions, Len(a.regions), size, a.vma)
<1>1. /\ a.regions \in Seq(Region) /\ a.vma \in Nat /\ a.free_space - size \in Int
      /\ Len(a.regions) \in 0..Len(a.regions) /\ size \in Nat
  BY RegionListDomain DEF Area
<1>2. new \in Seq(Region)
  BY <1>1, RegionAfter DEF Inserted
<1>3. Tiled(a.regions, a.vma) => Tiled(new, a.vma)
  BY <1>1, LastRegionTiles
<1>4. CASE "region" \in failed
  BY <1>4 DEF AddLast
<1>5. CASE "region" \notin failed
  <2>1. AddLast(a, size, failed) = [a EXCEPT !.free_space = @ - size, !.regions = new]
    BY <1>5 DEF AddLast
  <2> HIDE DEF new
  <2> QED BY <1>1, <1>2, <1>3, <2>1 DEF Area
<1> QED BY <1>4, <1>5

LEMMA AddRegionKeeps ==
  ASSUME NEW a \in Area, NEW size \in Nat \ {0}, NEW failed
  PROVE  /\ add_region(a, size, failed) \in Area
         /\ add_region(a, size, failed).vma = a.vma
         /\ add_region(a, size, failed).size = a.size
         /\ add_region(a, size, failed).headFree = a.headFree
         /\ "split" \notin failed /\ Tiled(a.regions, a.vma)
              => Tiled(add_region(a, size, failed).regions, a.vma)
<1> DEFINE fits == FreeFits(a.regions, size)
           k    == Min(fits)
<1>1. /\ a.regions \in Seq(Region) /\ a.vma \in Nat /\ a.free_space - size \in Int
      /\ DOMAIN a.regions = 1..Len(a.regions) /\ size \in Nat
  BY RegionListDomain DEF Area
<1>2. CASE fits = {}
  BY <1>2, AddLastKeeps DEF add_region
<1>3. CASE fits # {}
  <2>1. k \in 1..Len(a.regions) /\ a.regions[k].size >= size
    <3>1. fits \subseteq Nat
      BY <1>1 DEF FreeFits
    <3>2. k \in fits
      BY <1>3, <3>1, MinOfNats
    <3> QED BY <1>1, <3>2 DEF FreeFits
  <2>2. CASE a.regions[k].size = size
    <3> DEFINE new == [a.regions EXCEPT ![k].free = FALSE]
    <3>1. add_region(a, size, failed) = [a EXCEPT !.regions = new]
      BY <1>3, <2>2 DEF add_region
    <3>2. new \in Seq(Region) /\ (Tiled(a.regions, a.vma) => Tiled(new, a.vma))
      BY <1>1, <2>1, FlagKeeps
    <3> HIDE DEF new
    <3> QED BY <3>1, <3>2 DEF Area
  <2>3. CASE a.regions[k].size # size /\ "split" \in failed
    <3> DEFINE b == [a EXCEPT !.free_space = @ - size, !.regions = Cut(@, k, size)]
    <3>1. add_region(a, size, failed) = AddLast(b, size, failed)
      BY <1>3, <2>3 DEF add_region
    <3>2. Cut(a.regions, k, size) \in Seq(Region)
      BY <1>1, <2>1, CutProperties
    <3>3. b \in Area /\ b.vma = a.vma /\ b.size = a.size /\ b.headFree = a.headFree
      BY <1>1, <3>2 DEF Area
    <3> HIDE DEF b
    <3> QED BY <2>3, <3>1, <3>3, AddLastKeeps
  <2>4. CASE a.regions[k].size # size /\ "split" \notin failed
    <3> DEFINE new == Split(a.regions, k, size, a.vma)
    <3>1. add_region(a, size, failed) = [a EXCEPT !.free_space = @ - size, !.regions = new]
      BY <1>3, <2>4 DEF add_region
    <3>2. size > 0 /\ a.regions[k].size > size
      <4>1. a.regions[k].size \in Nat
        BY <1>1, <2>1, RegionListDomain
      <4> QED BY <2>1, <2>4, <4>1
    <3>3. new \in Seq(Region) /\ (Tiled(a.regions, a.vma) => Tiled(new, a.vma))
      BY <1>1, <2>1, <3>2, SplitKeeps
    <3> HIDE DEF new
    <3> QED BY <1>1, <3>1, <3>3 DEF Area
  <2> QED BY <2>2, <2>3, <2>4
<1> QED BY <1>2, <1>3

LEMMA ExtendKeeps ==
  ASSUME NEW a \in Area, NEW size \in Nat \ {0}, ~HasSpace(a, size)
  PROVE  /\ Extra(a, size) \in Nat
         /\ extend_vma(a, size) \in Area
         /\ extend_vma(a, size).vma = a.vma
         /\ extend_vma(a, size).size = a.size + Extra(a, size)
         /\ extend_vma(a, size).regions = a.regions
         /\ extend_vma(a, size).headFree = a.headFree
<1> DEFINE wanted == a.size + size - a.free_space
<1>1. a.size \in Nat /\ a.free_space \in Int /\ a.free_space < size /\ a.free_space >= 0
  BY DEF HasSpace, Area
<1>2. wanted \in Nat /\ wanted >= a.size /\ PAGE_SIZE \in Nat \ {0}
  BY <1>1, ConstantsAssumption
<1>3. Extra(a, size) = align_ceil(wanted, PAGE_SIZE) - a.size
  BY DEF Extra
<1> HIDE DEF wanted
<1>4. align_ceil(wanted, PAGE_SIZE) \in Nat /\ align_ceil(wanted, PAGE_SIZE) >= wanted
  BY <1>2, AlignCeil
<1>5. Extra(a, size) \in Nat
  BY <1>1, <1>2, <1>3, <1>4
<1>6. a.size + Extra(a, size) \in Nat /\ a.free_space + Extra(a, size) \in Int
  BY <1>1, <1>5
<1> QED BY <1>5, <1>6 DEF extend_vma, Area

-----------------------------------------------------------------------------
(* Type correctness and the VMAs.                                          *)

\* No VMA ends beyond some address: the list of VMAs has a last one.
VmasBounded == \E bound \in Nat : \A v \in DOMAIN mmap : mmap[v] <= bound

\* What keeps the VMAs in order: get_free_space finds a gap because they are
\* bounded, and the gap is one because they are disjoint.
MmapInv ==
  /\ mmap \in [DOMAIN mmap -> Nat]
  /\ \A v \in DOMAIN mmap : v \in Nat \ {NULL} /\ v < mmap[v]
  /\ VmasDisjoint
  /\ VmasBounded

\* The inductive invariant.
VmaInv == MmapInv /\ areas \in Seq(Area) /\ oops \in BOOLEAN

LEMMA FreeSpaceProperties ==
  ASSUME MmapInv, NEW size \in Nat \ {0}
  PROVE  /\ get_free_space(size) \in Nat \ {0}
         /\ \A v \in DOMAIN mmap :
              mmap[v] > get_free_space(size) => v - get_free_space(size) >= size
         /\ \/ get_free_space(size) = PAGE_SIZE
            \/ \E v \in DOMAIN mmap : get_free_space(size) = mmap[v]
<1> DEFINE Ends == {PAGE_SIZE} \cup {mmap[v] : v \in DOMAIN mmap}
           Gaps == {e \in Ends : \A v \in DOMAIN mmap : mmap[v] > e => v - e >= size}
<1>1. /\ \A v \in DOMAIN mmap : v \in Nat \ {0} /\ mmap[v] \in Nat \ {0}
      /\ PAGE_SIZE \in Nat \ {0}
  BY ConstantsAssumption DEF MmapInv, NULL
<1>2. Gaps \subseteq Nat \ {0}
  BY <1>1
<1>3. Gaps # {}
  <2>1. CASE DOMAIN mmap = {}
    BY <2>1
  <2>2. CASE DOMAIN mmap # {}
    <3>1. PICK bound \in Nat : \A v \in DOMAIN mmap : mmap[v] <= bound
      BY DEF MmapInv, VmasBounded
    <3> DEFINE Room == {bound - mmap[v] : v \in DOMAIN mmap}
    <3>2. Room \subseteq Nat /\ Room # {}
      BY <1>1, <2>2, <3>1
    <3>3. Min(Room) \in Room /\ \A y \in Room : Min(Room) <= y
      BY <3>2, MinOfNats
    <3>4. PICK last \in DOMAIN mmap : Min(Room) = bound - mmap[last]
      BY <3>3
    <3>5. \A v \in DOMAIN mmap : mmap[v] <= mmap[last]
      <4>1. \A v \in DOMAIN mmap : bound - mmap[last] <= bound - mmap[v]
        BY <3>3, <3>4
      <4> QED BY <1>1, <4>1
    <3>6. mmap[last] \in Gaps
      BY <1>1, <3>5
    <3> QED BY <3>6
  <2> QED BY <2>1, <2>2
<1>4. get_free_space(size) = Min(Gaps)
  BY DEF get_free_space
<1>5. Min(Gaps) \in Gaps
  BY <1>2, <1>3, MinOfNats
<1>6. \A e \in Gaps :
        /\ \A v \in DOMAIN mmap : mmap[v] > e => v - e >= size
        /\ e = PAGE_SIZE \/ \E v \in DOMAIN mmap : e = mmap[v]
  OBVIOUS
<1> HIDE DEF Gaps
<1> QED BY <1>2, <1>4, <1>5, <1>6

\* A VMA that grows in place.
LEMMA GrowKeeps ==
  ASSUME MmapInv, NEW vma \in Nat, NEW extra \in Nat,
         \A v \in DOMAIN mmap : v > vma => v > mmap[vma] + extra,
         mmap' = [mmap EXCEPT ![vma] = @ + extra]
  PROVE  MmapInv'
<1>1. CASE vma \notin DOMAIN mmap
  <2>1. mmap' = mmap
    BY <1>1 DEF MmapInv
  <2> QED BY <2>1 DEF MmapInv, VmasDisjoint, VmasBounded
<1>2. CASE vma \in DOMAIN mmap
  <2>1. /\ DOMAIN mmap' = DOMAIN mmap
        /\ \A v \in DOMAIN mmap :
             mmap'[v] = IF v = vma THEN mmap[vma] + extra ELSE mmap[v]
    BY DEF MmapInv
  <2>2. \A v \in DOMAIN mmap : v \in Nat \ {NULL} /\ mmap[v] \in Nat /\ v < mmap[v]
    BY DEF MmapInv
  <2>3. /\ mmap' \in [DOMAIN mmap' -> Nat]
        /\ \A v \in DOMAIN mmap' : v \in Nat \ {NULL} /\ v < mmap'[v]
    BY <1>2, <2>2 DEF MmapInv
  <2>4. VmasDisjoint'
    BY <2>1, <2>2 DEF MmapInv, VmasDisjoint
  <2>5. VmasBounded'
    <3>1. PICK bound \in Nat : \A v \in DOMAIN mmap : mmap[v] <= bound
      BY DEF MmapInv, VmasBounded
    <3>2. bound + extra \in Nat /\ \A v \in DOMAIN mmap' : mmap'[v] <= bound + extra
      BY <2>1, <2>2, <3>1
    <3> QED BY <3>2 DEF VmasBounded
  <2> QED BY <2>3, <2>4, <2>5 DEF MmapInv
<1> QED BY <1>1, <1>2

\* A VMA clear of all the others.
LEMMA MappedKeeps ==
  ASSUME MmapInv, NEW s \in Nat \ {NULL}, NEW e \in Nat, s < e,
         \A v \in DOMAIN mmap : mmap[v] <= s \/ e <= v,
         mmap' = Mapped(s, e)
  PROVE  MmapInv'
<1>1. /\ DOMAIN mmap' = DOMAIN mmap \cup {s}
      /\ \A v \in DOMAIN mmap' : mmap'[v] = IF v = s THEN e ELSE mmap[v]
  BY DEF Mapped
<1>2. \A v \in DOMAIN mmap : v \in Nat \ {NULL} /\ mmap[v] \in Nat /\ v < mmap[v]
  BY DEF MmapInv
<1>3. s \notin DOMAIN mmap
  BY <1>2
<1>4. /\ mmap' \in [DOMAIN mmap' -> Nat]
      /\ \A v \in DOMAIN mmap' : v \in Nat \ {NULL} /\ v < mmap'[v]
  BY <1>2 DEF Mapped
<1>5. VmasDisjoint'
  BY <1>1, <1>2, <1>3 DEF MmapInv, VmasDisjoint
<1>6. VmasBounded'
  <2>1. PICK bound \in Nat : \A v \in DOMAIN mmap : mmap[v] <= bound
    BY DEF MmapInv, VmasBounded
  <2>2. bound + e \in Nat /\ \A v \in DOMAIN mmap' : mmap'[v] <= bound + e
    BY <1>1, <1>2, <2>1
  <2> QED BY <2>2 DEF VmasBounded
<1> QED BY <1>4, <1>5, <1>6 DEF MmapInv

LEMMA UnmappedKeeps ==
  ASSUME MmapInv, NEW s, mmap' = Unmapped(s)
  PROVE  MmapInv'
<1>1. DOMAIN mmap' = DOMAIN mmap \ {s} /\ \A v \in DOMAIN mmap' : mmap'[v] = mmap[v]
  BY DEF Unmapped
<1>2. mmap' \in [DOMAIN mmap' -> Nat]
  BY <1>1 DEF MmapInv, Unmapped
<1> QED BY <1>1, <1>2 DEF MmapInv, VmasDisjoint, VmasBounded

LEMMA SameMmapKeeps ==
  ASSUME MmapInv, UNCHANGED mmap
  PROVE  MmapInv'
BY DEF MmapInv, VmasDisjoint, VmasBounded

LEMMA AreaListDomain ==
  ASSUME areas \in Seq(Area), NEW i \in DOMAIN areas
  PROVE  /\ Len(areas) \in Nat /\ i \in 1..Len(areas)
         /\ areas[i] \in Area /\ areas[i].vma \in Nat /\ areas[i].size \in Nat
         /\ areas[i].free_space \in Int /\ areas[i].headFree \in BOOLEAN
         /\ areas[i].regions \in Seq(Region)
<1>1. Len(areas) \in Nat /\ i \in 1..Len(areas)
  BY LenProperties
<1>2. areas[i] \in Area
  BY <1>1, ElementOfSeq
<1> QED BY <1>1, <1>2 DEF Area

LEMMA UseAreaKeeps ==
  ASSUME VmaInv, NEW i \in DOMAIN areas, NEW pid, NEW size \in Nat \ {0}, NEW failed,
         Stops(areas[i], pid, size), areas[i].vma # NULL, UseArea(i, size, failed)
  PROVE  VmaInv'
<1>1. areas[i] \in Area /\ i \in 1..Len(areas) /\ areas[i].vma \in Nat
  BY AreaListDomain DEF VmaInv
<1> DEFINE a == IF HasSpace(areas[i], size) THEN areas[i] ELSE extend_vma(areas[i], size)
<1>2. a \in Area /\ a.vma = areas[i].vma
  BY <1>1, ExtendKeeps
<1> HIDE DEF a
<1>3. add_region(a, size, failed) \in Area
  BY <1>2, AddRegionKeeps
<1>4. areas' = [areas EXCEPT ![i] = add_region(a, size, failed)] /\ oops' = oops
  BY DEF UseArea, a
<1>5. areas' \in Seq(Area)
  BY <1>1, <1>3, <1>4, ExceptSeq DEF VmaInv
<1>6. MmapInv'
  <2>1. CASE HasSpace(areas[i], size)
    <3>1. UNCHANGED mmap
      BY <2>1 DEF UseArea
    <3> QED BY <3>1, SameMmapKeeps DEF VmaInv
  <2>2. CASE ~HasSpace(areas[i], size)
    <3> DEFINE extra == Extra(areas[i], size)
               vma   == areas[i].vma
    <3>1. mmap' = [mmap EXCEPT ![vma] = @ + extra]
      BY <1>2, <2>2 DEF UseArea, a
    <3>2. \A v \in DOMAIN mmap : v > vma => v > mmap[vma] + extra
      BY <2>2 DEF Stops, CanExtend
    <3>3. extra \in Nat
      BY <1>1, <2>2, ExtendKeeps
    <3> HIDE DEF extra, vma
    <3> QED BY <1>1, <3>1, <3>2, <3>3, GrowKeeps DEF VmaInv, vma
  <2> QED BY <2>1, <2>2
<1> QED BY <1>4, <1>5, <1>6 DEF VmaInv

LEMMA NewAreaKeeps ==
  ASSUME VmaInv, NEW pid \in Pids, NEW size \in Nat \ {0}, NEW failed,
         NewArea(pid, size, failed)
  PROVE  VmaInv'
<1> DEFINE bytes == align_ceil(size, VMA_SIZE)
           start == get_free_space(bytes)
           Fresh(garbage) ==
             [pid |-> pid, vma |-> start, size |-> bytes, free_space |-> bytes,
              headFree |-> garbage, regions |-> <<>>]
<1>1. bytes \in Nat \ {0}
  <2>1. VMA_SIZE \in Nat \ {0} /\ size \in Nat
    BY ConstantsAssumption DEF VMA_SIZE
  <2> QED BY <2>1, AlignCeil
<1>2. /\ start \in Nat \ {0}
      /\ \A v \in DOMAIN mmap : mmap[v] > start => v - start >= bytes
  BY <1>1, FreeSpaceProperties DEF VmaInv
<1>3. PICK garbage \in HeadFree :
        IF "vma" \in failed
        THEN areas' = Append(areas, [Fresh(garbage) EXCEPT !.vma = NULL]) /\ UNCHANGED mmap
        ELSE /\ areas' = Append(areas, add_region(Fresh(garbage), size, failed))
             /\ mmap' = Mapped(start, start + bytes)
  BY DEF NewArea
<1> HIDE DEF bytes, start
<1>4. Fresh(garbage) \in Area /\ [Fresh(garbage) EXCEPT !.vma = NULL] \in Area
  <2>1. garbage \in BOOLEAN
    BY <1>3, ConstantsAssumption
  <2>2. <<>> \in Seq(Region)
    BY EmptySeq
  <2>3. bytes \in Int /\ start \in Nat /\ NULL \in Nat
    BY <1>1, <1>2 DEF NULL
  <2> QED BY <1>1, <2>1, <2>2, <2>3 DEF Area
<1> HIDE DEF Fresh
<1>5. oops' = oops
  BY DEF NewArea
<1>6. CASE "vma" \in failed
  <2>1. areas' \in Seq(Area) /\ UNCHANGED mmap
    BY <1>3, <1>4, <1>6, AppendProperties DEF VmaInv
  <2> QED BY <1>5, <2>1, SameMmapKeeps DEF VmaInv
<1>7. CASE "vma" \notin failed
  <2>1. areas' \in Seq(Area)
    <3>1. add_region(Fresh(garbage), size, failed) \in Area
      BY <1>4, AddRegionKeeps
    <3> QED BY <1>3, <1>7, <3>1, AppendProperties DEF VmaInv
  <2>2. MmapInv'
    <3>1. /\ start \in Nat \ {NULL} /\ start + bytes \in Nat /\ start < start + bytes
          /\ mmap' = Mapped(start, start + bytes)
      BY <1>1, <1>2, <1>3, <1>7 DEF NULL
    <3>2. \A v \in DOMAIN mmap : mmap[v] <= start \/ start + bytes <= v
      <4>1. \A v \in DOMAIN mmap : v \in Nat /\ mmap[v] \in Nat
        BY DEF VmaInv, MmapInv
      <4> QED BY <1>1, <1>2, <4>1
    <3> QED BY <3>1, <3>2, MappedKeeps DEF VmaInv
  <2> QED BY <1>5, <2>1, <2>2 DEF VmaInv
<1> QED BY <1>6, <1>7

LEMMA FreeRegionKeeps ==
  ASSUME VmaInv, NEW i \in DOMAIN areas, NEW k \in DOMAIN areas[i].regions,
         FreeRegion(i, k)
  PROVE  VmaInv'
<1> DEFINE a     == areas[i]
           freed == [a.regions EXCEPT ![k].free = TRUE]
           rs    == merge_neighbors_region(freed, k, a.headFree)
           head  == FreesListHead(a.regions, k, a.headFree)
           space == a.free_space + a.regions[k].size
           b     == [[a EXCEPT !.regions = rs] EXCEPT !.free_space = space]
<1>1. /\ i \in 1..Len(areas) /\ a \in Area /\ a.regions \in Seq(Region)
      /\ a.headFree \in BOOLEAN /\ a.free_space \in Int
  BY AreaListDomain DEF VmaInv
<1>2. k \in 1..Len(a.regions) /\ a.regions[k].size \in Nat
  BY <1>1, RegionListDomain
<1>3. freed \in Seq(Region) /\ Len(freed) = Len(a.regions)
  BY <1>1, <1>2, FlagKeeps
<1>4. rs \in Seq(Region)
  <2> HIDE DEF freed
  <2> QED BY <1>1, <1>2, <1>3, MergeKeeps
<1>5. /\ IF rs # <<>> \/ head
         THEN areas' = [areas EXCEPT ![i].regions = rs, ![i].free_space = space] /\ UNCHANGED mmap
         ELSE areas' = RemoveAt(areas, i) /\ mmap' = Unmapped(a.vma)
      /\ oops' = head
  BY DEF FreeRegion
<1>6. head \in BOOLEAN
  BY DEF FreesListHead
<1>7. b \in Area
  <2>1. space \in Int
    BY <1>1, <1>2
  <2> HIDE DEF rs, space
  <2> QED BY <1>1, <1>4, <2>1 DEF Area
<1> HIDE DEF rs, space, head
<1>8. CASE rs # <<>> \/ head
  <2>1. areas' = [areas EXCEPT ![i] = b]
    BY <1>1, <1>5, <1>8 DEF Area
  <2>2. areas' \in Seq(Area)
    <3> HIDE DEF b
    <3> QED BY <1>1, <1>7, <2>1, ExceptSeq DEF VmaInv
  <2> QED BY <1>5, <1>6, <1>8, <2>2, SameMmapKeeps DEF VmaInv
<1>9. CASE ~(rs # <<>> \/ head)
  <2>1. areas' \in Seq(Area)
    BY <1>1, <1>5, <1>9, RemoveAtProperties DEF VmaInv
  <2> QED BY <1>5, <1>6, <1>9, <2>1, UnmappedKeeps DEF VmaInv
<1> QED BY <1>8, <1>9

LEMMA CreateKeeps ==
  ASSUME VmaInv, NEW pid \in Pids, NEW size \in Sizes, create_region(pid, size)
  PROVE  VmaInv'
<1>1. size \in Nat \ {0}
  BY ConstantsAssumption
<1>2. PICK failed \in SUBSET Faults :
        \/ \E i \in DOMAIN areas :
             /\ Stops(areas[i], pid, size)
             /\ IF areas[i].vma = NULL THEN UseNullArea(i, size, failed)
                                       ELSE UseArea(i, size, failed)
        \/ IF "area" \in failed THEN oops' = TRUE /\ UNCHANGED <<mmap, areas>>
                                ELSE NewArea(pid, size, failed)
  BY DEF create_region
<1>3. CASE \E i \in DOMAIN areas :
             /\ Stops(areas[i], pid, size)
             /\ IF areas[i].vma = NULL THEN UseNullArea(i, size, failed)
                                       ELSE UseArea(i, size, failed)
  <2>1. PICK i \in DOMAIN areas :
          /\ Stops(areas[i], pid, size)
          /\ IF areas[i].vma = NULL THEN UseNullArea(i, size, failed)
                                    ELSE UseArea(i, size, failed)
    BY <1>3
  <2>2. CASE areas[i].vma = NULL
    <3>1. UNCHANGED <<mmap, areas>> /\ oops' \in BOOLEAN
      BY <2>1, <2>2 DEF UseNullArea
    <3> QED BY <3>1, SameMmapKeeps DEF VmaInv
  <2>3. CASE areas[i].vma # NULL
    BY <1>1, <2>1, <2>3, UseAreaKeeps
  <2> QED BY <2>2, <2>3
<1>4. CASE IF "area" \in failed THEN oops' = TRUE /\ UNCHANGED <<mmap, areas>>
                                ELSE NewArea(pid, size, failed)
  <2>1. CASE "area" \in failed
    BY <1>4, <2>1, SameMmapKeeps DEF VmaInv
  <2>2. CASE "area" \notin failed
    BY <1>1, <1>4, <2>2, NewAreaKeeps
  <2> QED BY <2>1, <2>2
<1> QED BY <1>2, <1>3, <1>4

LEMMA RemoveKeeps ==
  ASSUME VmaInv, NEW pid, NEW address, remove_region(pid, address)
  PROVE  VmaInv'
<1>1. PICK i \in DOMAIN areas :
        IF areas[i].vma = NULL THEN oops' = TRUE /\ UNCHANGED <<mmap, areas>>
        ELSE \E k \in get_region(areas[i], address) : FreeRegion(i, k)
  BY DEF remove_region
<1>2. CASE areas[i].vma = NULL
  BY <1>1, <1>2, SameMmapKeeps DEF VmaInv
<1>3. CASE areas[i].vma # NULL
  BY <1>1, <1>3, FreeRegionKeeps DEF get_region
<1> QED BY <1>2, <1>3

LEMMA EnvironmentKeeps ==
  ASSUME VmaInv, Environment
  PROVE  VmaInv'
<1>1. ASSUME NEW i \in DOMAIN areas, close_vma(i) PROVE VmaInv'
  <2>1. i \in 1..Len(areas)
    BY AreaListDomain DEF VmaInv
  <2>2. areas' \in Seq(Area)
    BY <1>1, <2>1, RemoveAtProperties DEF VmaInv, close_vma
  <2> QED BY <1>1, <2>2, UnmappedKeeps DEF VmaInv, close_vma
<1>2. ASSUME NEW v \in ForeignVmas, ForeignMap(v) PROVE VmaInv'
  <2>1. v[1] \in Nat \ {NULL} /\ v[2] \in Nat /\ v[1] < v[2]
    BY ConstantsAssumption DEF NULL
  <2>2. MmapInv'
    BY <1>2, <2>1, MappedKeeps DEF VmaInv, ForeignMap
  <2> QED BY <1>2, <2>2 DEF VmaInv, ForeignMap
<1>3. ASSUME NEW v \in ForeignVmas, ForeignUnmap(v) PROVE VmaInv'
  BY <1>3, UnmappedKeeps DEF VmaInv, ForeignUnmap
<1> QED BY <1>1, <1>2, <1>3 DEF Environment

LEMMA VmaInvInit == Init => VmaInv
<1> SUFFICES ASSUME Init PROVE VmaInv
  OBVIOUS
<1>1. DOMAIN mmap = {} /\ mmap \in [DOMAIN mmap -> Nat]
  BY DEF Init
<1>2. VmasDisjoint /\ VmasBounded
  BY <1>1 DEF VmasDisjoint, VmasBounded
<1>3. areas \in Seq(Area) /\ oops \in BOOLEAN
  BY EmptySeq DEF Init
<1> QED BY <1>1, <1>2, <1>3 DEF VmaInv, MmapInv

LEMMA VmaInvNext == VmaInv /\ [Next]_vars => VmaInv'
<1> SUFFICES ASSUME VmaInv, [Next]_vars PROVE VmaInv'
  OBVIOUS
<1>1. CASE UNCHANGED vars
  BY <1>1, SameMmapKeeps DEF VmaInv, vars
<1>2. CASE Next
  BY <1>2, CreateKeeps, RemoveKeeps, EnvironmentKeeps DEF Next
<1> QED BY <1>1, <1>2

LEMMA VmaInvHolds == Spec => []VmaInv
BY VmaInvInit, VmaInvNext, PTL DEF Spec

\* Every variable keeps its type, whatever sizes are asked, whatever the
\* program maps, and whichever allocations fail (area.c:194-229).
THEOREM TypeCorrect == Spec => []TypeOK
<1>1. VmaInv => TypeOK
  BY DEF VmaInv, MmapInv, TypeOK
<1> QED BY <1>1, VmaInvHolds, PTL

\* No VMA that netmalloc places or grows ever overlaps another one: the scan
\* of get_free_space and the test of extend_vma are enough (vma.c:20-34,
\* area.c:147-161).
THEOREM VmasNeverOverlap == Spec => []VmasDisjoint
<1>1. VmaInv => VmasDisjoint
  BY DEF VmaInv, MmapInv
<1> QED BY <1>1, VmaInvHolds, PTL

-----------------------------------------------------------------------------
(* Regions tile their area, as long as no split fails and no list head     *)
(* happens to read as free.                                                *)

TiledArea(a) == Tiled(a.regions, a.vma) /\ ~a.headFree

TileInv == VmaInv /\ \A i \in DOMAIN areas : TiledArea(areas[i])

LEMMA UseAreaTiles ==
  ASSUME TileInv, NEW i \in DOMAIN areas, NEW size \in Nat \ {0}, NEW failed,
         "split" \notin failed, UseArea(i, size, failed)
  PROVE  \A j \in DOMAIN areas' : TiledArea(areas'[j])
<1> DEFINE a == IF HasSpace(areas[i], size) THEN areas[i] ELSE extend_vma(areas[i], size)
<1>1. areas[i] \in Area /\ areas \in Seq(Area)
  BY AreaListDomain DEF TileInv, VmaInv
<1>2. /\ a \in Area /\ a.vma = areas[i].vma
      /\ a.regions = areas[i].regions /\ a.headFree = areas[i].headFree
  BY <1>1, ExtendKeeps
<1> HIDE DEF a
<1>3. TiledArea(add_region(a, size, failed))
  BY <1>2, AddRegionKeeps DEF TiledArea, TileInv
<1>4. areas' = [areas EXCEPT ![i] = add_region(a, size, failed)]
  BY DEF UseArea, a
<1> QED BY <1>3, <1>4 DEF TileInv

LEMMA NewAreaTiles ==
  ASSUME TileInv, NEW pid \in Pids, NEW size \in Nat \ {0}, NEW failed,
         "split" \notin failed, TRUE \notin HeadFree, NewArea(pid, size, failed)
  PROVE  \A j \in DOMAIN areas' : TiledArea(areas'[j])
<1> DEFINE bytes == align_ceil(size, VMA_SIZE)
           start == get_free_space(bytes)
           Fresh(garbage) ==
             [pid |-> pid, vma |-> start, size |-> bytes, free_space |-> bytes,
              headFree |-> garbage, regions |-> <<>>]
<1>1. bytes \in Nat \ {0} /\ start \in Nat
  <2>1. VMA_SIZE \in Nat \ {0} /\ size \in Nat
    BY ConstantsAssumption DEF VMA_SIZE
  <2>2. bytes \in Nat \ {0}
    BY <2>1, AlignCeil
  <2> QED BY <2>2, FreeSpaceProperties DEF TileInv, VmaInv
<1>2. PICK garbage \in HeadFree :
        areas' = Append(areas, IF "vma" \in failed THEN [Fresh(garbage) EXCEPT !.vma = NULL]
                                                   ELSE add_region(Fresh(garbage), size, failed))
  BY DEF NewArea
<1> HIDE DEF bytes, start
<1>3. garbage = FALSE
  BY <1>2, ConstantsAssumption
<1>4. /\ Fresh(garbage) \in Area /\ Fresh(garbage).regions = <<>>
      /\ Fresh(garbage).headFree = FALSE /\ [Fresh(garbage) EXCEPT !.vma = NULL] \in Area
  <2>1. <<>> \in Seq(Region)
    BY EmptySeq
  <2>2. bytes \in Int /\ start \in Nat /\ NULL \in Nat
    BY <1>1 DEF NULL
  <2> QED BY <1>1, <1>3, <2>1, <2>2 DEF Area
<1>5. \A vm_start : Tiled(<<>>, vm_start)
  BY DEF Tiled
<1> HIDE DEF Fresh
<1>6. CASE "vma" \in failed
  <2> DEFINE new == [Fresh(garbage) EXCEPT !.vma = NULL]
  <2>1. areas' = Append(areas, new) /\ new \in Area
    BY <1>2, <1>4, <1>6
  <2>2. TiledArea(new)
    BY <1>4, <1>5 DEF TiledArea, Area
  <2> HIDE DEF new
  <2> QED BY <2>1, <2>2, AppendProperties, LenProperties DEF TileInv, VmaInv
<1>7. CASE "vma" \notin failed
  <2> DEFINE new == add_region(Fresh(garbage), size, failed)
  <2>1. areas' = Append(areas, new)
    BY <1>2, <1>7
  <2>2. new \in Area /\ TiledArea(new)
    BY <1>4, <1>5, AddRegionKeeps DEF TiledArea
  <2> HIDE DEF new
  <2> QED BY <2>1, <2>2, AppendProperties, LenProperties DEF TileInv, VmaInv
<1> QED BY <1>6, <1>7

LEMMA FreeRegionTiles ==
  ASSUME TileInv, NEW i \in DOMAIN areas, NEW k \in DOMAIN areas[i].regions,
         FreeRegion(i, k)
  PROVE  \A j \in DOMAIN areas' : TiledArea(areas'[j])
<1> DEFINE a     == areas[i]
           freed == [a.regions EXCEPT ![k].free = TRUE]
           rs    == merge_neighbors_region(freed, k, a.headFree)
<1>1. /\ areas \in Seq(Area) /\ i \in 1..Len(areas) /\ a \in Area /\ a.vma \in Nat
      /\ a.regions \in Seq(Region) /\ ~a.headFree /\ a.headFree \in BOOLEAN
      /\ Tiled(a.regions, a.vma)
  BY AreaListDomain DEF TileInv, VmaInv, TiledArea
<1>2. k \in 1..Len(a.regions)
  BY <1>1, RegionListDomain
<1>3. freed \in Seq(Region) /\ Len(freed) = Len(a.regions) /\ Tiled(freed, a.vma)
  BY <1>1, <1>2, FlagKeeps
<1>4. Tiled(rs, a.vma)
  <2> HIDE DEF freed
  <2> QED BY <1>1, <1>2, <1>3, MergeKeeps
<1> HIDE DEF rs
<1>5. CASE areas' = RemoveAt(areas, i)
  <2>1. /\ areas' \in Seq(Area) /\ Len(areas') = Len(areas) - 1
        /\ \A j \in 1..(Len(areas) - 1) :
             areas'[j] = IF j < i THEN areas[j] ELSE areas[j + 1]
    BY <1>1, <1>5, RemoveAtProperties
  <2>2. DOMAIN areas' = 1..(Len(areas) - 1) /\ DOMAIN areas = 1..Len(areas)
        /\ Len(areas) \in Nat
    BY <1>1, <2>1, LenProperties
  <2> QED BY <2>1, <2>2 DEF TileInv
<1>6. CASE areas' = [areas EXCEPT ![i].regions = rs, ![i].free_space = @ + a.regions[k].size]
  <2>1. /\ DOMAIN areas' = DOMAIN areas
        /\ \A j \in DOMAIN areas : j # i => areas'[j] = areas[j]
    BY <1>6
  <2>2. areas'[i].regions = rs /\ areas'[i].vma = a.vma /\ areas'[i].headFree = a.headFree
    BY <1>1, <1>6 DEF Area
  <2> QED BY <1>1, <1>4, <2>1, <2>2 DEF TileInv, TiledArea
<1> QED BY <1>5, <1>6 DEF FreeRegion, rs

LEMMA TileInvNext ==
  ASSUME "split" \notin Faults, TRUE \notin HeadFree
  PROVE  TileInv /\ [Next]_vars => TileInv'
<1> SUFFICES ASSUME TileInv, [Next]_vars
             PROVE  \A j \in DOMAIN areas' : TiledArea(areas'[j])
  BY VmaInvNext DEF TileInv
<1>1. CASE UNCHANGED areas
  BY <1>1 DEF TileInv
<1>2. ASSUME NEW pid \in Pids, NEW size \in Sizes, create_region(pid, size)
      PROVE  \A j \in DOMAIN areas' : TiledArea(areas'[j])
  <2>1. size \in Nat \ {0}
    BY ConstantsAssumption
  <2>2. PICK failed \in SUBSET Faults :
          \/ UNCHANGED areas
          \/ \E i \in DOMAIN areas : UseArea(i, size, failed)
          \/ NewArea(pid, size, failed)
    BY <1>2 DEF create_region, UseNullArea
  <2>3. "split" \notin failed
    BY <2>2
  <2> QED BY <1>1, <2>1, <2>2, <2>3, UseAreaTiles, NewAreaTiles
<1>3. ASSUME NEW pid \in Pids, NEW b \in Blocks, remove_region(pid, b.start)
      PROVE  \A j \in DOMAIN areas' : TiledArea(areas'[j])
  <2>1. \/ UNCHANGED areas
        \/ \E i \in DOMAIN areas : \E k \in DOMAIN areas[i].regions : FreeRegion(i, k)
    BY <1>3 DEF remove_region, get_region
  <2> QED BY <1>1, <2>1, FreeRegionTiles
<1>4. ASSUME Environment
      PROVE  \A j \in DOMAIN areas' : TiledArea(areas'[j])
  <2>1. CASE UNCHANGED areas
    BY <1>1, <2>1
  <2>2. ASSUME NEW i \in DOMAIN areas, close_vma(i)
        PROVE  \A j \in DOMAIN areas' : TiledArea(areas'[j])
    <3>1. areas \in Seq(Area) /\ i \in 1..Len(areas) /\ Len(areas) \in Nat
      BY AreaListDomain DEF TileInv, VmaInv
    <3>2. /\ areas' \in Seq(Area) /\ Len(areas') = Len(areas) - 1
          /\ \A j \in 1..(Len(areas) - 1) :
               areas'[j] = IF j < i THEN areas[j] ELSE areas[j + 1]
      BY <2>2, <3>1, RemoveAtProperties DEF close_vma
    <3>3. DOMAIN areas' = 1..(Len(areas) - 1) /\ DOMAIN areas = 1..Len(areas)
      BY <3>1, <3>2, LenProperties
    <3> QED BY <3>1, <3>2, <3>3 DEF TileInv
  <2> QED BY <1>4, <2>1, <2>2 DEF Environment, ForeignMap, ForeignUnmap
<1> QED BY <1>1, <1>2, <1>3, <1>4 DEF Next, vars

\* The regions of every area tile it from vm_start on, through every order of
\* mallocs, frees, splits and merges, unless a split fails or a list head
\* happens to read as free (area.c:38-125).
THEOREM RegionsAlwaysTile ==
  ASSUME "split" \notin Faults, TRUE \notin HeadFree
  PROVE  Spec => []RegionsTile
<1>1. Init => TileInv
  BY VmaInvInit DEF Init, TileInv
<1>2. TileInv => RegionsTile
  BY DEF TileInv, TiledArea, RegionsTile
<1> QED BY <1>1, <1>2, TileInvNext, PTL DEF Spec

-----------------------------------------------------------------------------
(* An area and its VMA, as long as no VMA fails to be created.             *)

\* Area a has a VMA of its size.
Matches(a) ==
  /\ a.vma \in DOMAIN mmap
  /\ a.size = mmap[a.vma] - a.vma
  /\ a.size % PAGE_SIZE = 0

MatchInv == VmaInv /\ AreaMatchesVma

LEMMA UseAreaMatches ==
  ASSUME MatchInv, NEW i \in DOMAIN areas, NEW size \in Nat \ {0}, NEW failed,
         UseArea(i, size, failed)
  PROVE  AreaMatchesVma'
<1> DEFINE a     == IF HasSpace(areas[i], size) THEN areas[i] ELSE extend_vma(areas[i], size)
           extra == a.size - areas[i].size
           vma   == areas[i].vma
           new   == add_region(a, size, failed)
<1>1. /\ areas[i] \in Area /\ areas[i].size \in Nat /\ areas[i].free_space \in Int
      /\ areas \in Seq(Area) /\ mmap \in [DOMAIN mmap -> Nat] /\ vma \in DOMAIN mmap
      /\ vma \in Nat /\ mmap[vma] \in Nat
  BY AreaListDomain DEF MatchInv, VmaInv, MmapInv, AreaMatchesVma
<1>2. a \in Area /\ a.vma = vma /\ extra \in Nat
      /\ (~HasSpace(areas[i], size) => extra = Extra(areas[i], size))
      /\ (HasSpace(areas[i], size) => extra = 0)
  BY <1>1, ExtendKeeps
<1>3. a.size % PAGE_SIZE = 0
  <2>1. CASE HasSpace(areas[i], size)
    BY <2>1 DEF MatchInv, AreaMatchesVma
  <2>2. CASE ~HasSpace(areas[i], size)
    <3> DEFINE wanted == areas[i].size + size - areas[i].free_space
    <3>1. wanted \in Nat /\ PAGE_SIZE \in Nat \ {0}
      BY <1>1, <2>2, ConstantsAssumption DEF HasSpace
    <3>2. Extra(areas[i], size) = align_ceil(wanted, PAGE_SIZE) - areas[i].size
      BY DEF Extra
    <3> HIDE DEF wanted
    <3>3. align_ceil(wanted, PAGE_SIZE) \in Nat /\ align_ceil(wanted, PAGE_SIZE) % PAGE_SIZE = 0
      BY <3>1, AlignCeil, AlignCeilMultiple
    <3>4. a.size = areas[i].size + Extra(areas[i], size)
      BY <1>1, <2>2, ExtendKeeps
    <3>5. a.size = align_ceil(wanted, PAGE_SIZE)
      BY <1>1, <3>2, <3>3, <3>4
    <3> QED BY <3>3, <3>5
  <2> QED BY <2>1, <2>2
<1>4. new \in Area /\ new.vma = vma /\ new.size = a.size
  BY <1>2, AddRegionKeeps
<1>5. areas' = [areas EXCEPT ![i] = new]
  BY DEF UseArea
<1>6. /\ DOMAIN mmap' = DOMAIN mmap /\ mmap'[vma] = mmap[vma] + extra
      /\ \A v \in DOMAIN mmap : v # vma => mmap'[v] = mmap[v]
  <2>1. CASE HasSpace(areas[i], size)
    <3>1. mmap' = mmap
      BY <2>1 DEF UseArea
    <3> QED BY <1>1, <1>2, <2>1, <3>1
  <2>2. CASE ~HasSpace(areas[i], size)
    <3>1. mmap' = [mmap EXCEPT ![vma] = @ + Extra(areas[i], size)]
      BY <1>2, <2>2 DEF UseArea
    <3> HIDE DEF vma
    <3> QED BY <1>1, <1>2, <2>2, <3>1
  <2> QED BY <2>1, <2>2
<1>7. a.size = mmap'[vma] - vma
  <2>1. areas[i].size = mmap[vma] - vma
    BY DEF MatchInv, AreaMatchesVma
  <2>2. a.size = areas[i].size + extra
    <3>1. a.size \in Nat
      BY <1>2 DEF Area
    <3> HIDE DEF a
    <3> QED BY <1>1, <3>1
  <2> HIDE DEF a, extra, vma
  <2> QED BY <1>1, <1>2, <1>6, <2>1, <2>2
<1> HIDE DEF a, extra, new
<1>8. ASSUME NEW j \in DOMAIN areas
      PROVE  /\ areas'[j].vma = areas[j].vma
             /\ areas'[j].size = mmap'[areas[j].vma] - areas[j].vma
             /\ areas'[j].size % PAGE_SIZE = 0
  <2>1. CASE j = i
    BY <1>3, <1>4, <1>5, <1>7, <2>1
  <2>2. CASE j # i
    <3>1. areas'[j] = areas[j]
      BY <1>5, <2>2
    <3>2. areas[j].vma \in DOMAIN mmap /\ areas[j].vma # vma
      BY <2>2 DEF MatchInv, AreaMatchesVma
    <3> QED BY <1>6, <3>1, <3>2 DEF MatchInv, AreaMatchesVma
  <2> QED BY <2>1, <2>2
<1> QED BY <1>5, <1>6, <1>8 DEF MatchInv, AreaMatchesVma

LEMMA NewAreaMatches ==
  ASSUME MatchInv, NEW pid \in Pids, NEW size \in Nat \ {0}, NEW failed,
         "vma" \notin failed, NewArea(pid, size, failed)
  PROVE  AreaMatchesVma'
<1> DEFINE bytes == align_ceil(size, VMA_SIZE)
           start == get_free_space(bytes)
           Fresh(garbage) ==
             [pid |-> pid, vma |-> start, size |-> bytes, free_space |-> bytes,
              headFree |-> garbage, regions |-> <<>>]
<1>1. bytes \in Nat \ {0} /\ bytes % PAGE_SIZE = 0
  <2>1. PAGE_SIZE \in Nat \ {0} /\ size \in Nat
    BY ConstantsAssumption
  <2>2. bytes % PAGE_SIZE = 0
    BY <2>1, AlignCeilMultiple DEF VMA_SIZE
  <2>3. VMA_SIZE \in Nat \ {0}
    BY <2>1 DEF VMA_SIZE
  <2> QED BY <2>1, <2>2, <2>3, AlignCeil
<1>2. /\ start \in Nat \ {0}
      /\ \A v \in DOMAIN mmap : mmap[v] > start => v - start >= bytes
  BY <1>1, FreeSpaceProperties DEF MatchInv, VmaInv
<1>3. start \notin DOMAIN mmap
  <2>1. \A v \in DOMAIN mmap : v \in Nat /\ mmap[v] \in Nat /\ v < mmap[v]
    BY DEF MatchInv, VmaInv, MmapInv
  <2> QED BY <1>1, <1>2, <2>1
<1>4. PICK garbage \in HeadFree :
        /\ areas' = Append(areas, add_region(Fresh(garbage), size, failed))
        /\ mmap' = Mapped(start, start + bytes)
  BY DEF NewArea
<1> HIDE DEF bytes, start
<1>5. /\ Fresh(garbage) \in Area /\ Fresh(garbage).vma = start
      /\ Fresh(garbage).size = bytes
  <2>1. garbage \in BOOLEAN
    BY <1>4, ConstantsAssumption
  <2>2. <<>> \in Seq(Region)
    BY EmptySeq
  <2>3. bytes \in Int /\ start \in Nat
    BY <1>1, <1>2
  <2> QED BY <1>1, <2>1, <2>2, <2>3 DEF Area
<1> HIDE DEF Fresh
<1> DEFINE new == add_region(Fresh(garbage), size, failed)
<1>6. new \in Area /\ new.vma = start /\ new.size = bytes
  BY <1>5, AddRegionKeeps
<1>7. areas' = Append(areas, new)
  BY <1>4
<1> HIDE DEF new
<1>8. /\ DOMAIN areas = 1..Len(areas) /\ Len(areas) \in Nat
      /\ DOMAIN areas' = 1..(Len(areas) + 1)
      /\ \A j \in 1..Len(areas) : areas'[j] = areas[j]
      /\ areas'[Len(areas) + 1] = new
  BY <1>6, <1>7, AppendProperties, LenProperties DEF MatchInv, VmaInv
<1>9. /\ DOMAIN mmap' = DOMAIN mmap \cup {start}
      /\ mmap'[start] = start + bytes
      /\ \A v \in DOMAIN mmap : mmap'[v] = mmap[v]
  BY <1>3, <1>4 DEF Mapped
<1>10. \A j \in 1..Len(areas) : Matches(areas[j]) /\ areas[j].vma # start
  BY <1>3, <1>8 DEF MatchInv, AreaMatchesVma, Matches
<1>11. start \in Nat /\ bytes \in Nat /\ start + bytes - start = bytes
  BY <1>1, <1>2
<1>12. ASSUME NEW j \in DOMAIN areas'
       PROVE  /\ areas'[j].vma \in DOMAIN mmap'
              /\ areas'[j].size = mmap'[areas'[j].vma] - areas'[j].vma
              /\ areas'[j].size % PAGE_SIZE = 0
  <2>1. CASE j \in 1..Len(areas)
    BY <1>8, <1>9, <1>10, <2>1 DEF Matches
  <2>2. CASE j = Len(areas) + 1
    BY <1>1, <1>6, <1>8, <1>9, <1>11, <2>2
  <2> QED BY <1>8, <2>1, <2>2
<1>13. ASSUME NEW j \in DOMAIN areas', NEW m \in DOMAIN areas', areas'[j].vma = areas'[m].vma
       PROVE  j = m
  <2>1. j \in 1..Len(areas) \/ j = Len(areas) + 1
    BY <1>8
  <2>2. m \in 1..Len(areas) \/ m = Len(areas) + 1
    BY <1>8
  <2>3. CASE j \in 1..Len(areas) /\ m \in 1..Len(areas)
    BY <1>8, <1>13, <2>3 DEF MatchInv, AreaMatchesVma
  <2> QED BY <1>6, <1>8, <1>10, <1>13, <2>1, <2>2, <2>3
<1> QED BY <1>12, <1>13 DEF AreaMatchesVma

\* An area that goes takes its own VMA with it.
LEMMA UnmapMatches ==
  ASSUME MatchInv, NEW i \in DOMAIN areas,
         areas' = RemoveAt(areas, i), mmap' = Unmapped(areas[i].vma)
  PROVE  AreaMatchesVma'
<1>1. areas \in Seq(Area) /\ i \in 1..Len(areas) /\ Len(areas) \in Nat
  BY AreaListDomain DEF MatchInv, VmaInv
<1>2. /\ areas' \in Seq(Area) /\ Len(areas') = Len(areas) - 1
      /\ \A j \in 1..(Len(areas) - 1) :
           areas'[j] = IF j < i THEN areas[j] ELSE areas[j + 1]
  BY <1>1, RemoveAtProperties
<1>3. DOMAIN areas' = 1..(Len(areas) - 1) /\ DOMAIN areas = 1..Len(areas)
  BY <1>1, <1>2, LenProperties
<1>4. /\ DOMAIN mmap' = DOMAIN mmap \ {areas[i].vma}
      /\ \A v \in DOMAIN mmap' : mmap'[v] = mmap[v]
  BY DEF Unmapped
<1> DEFINE Old(j) == IF j < i THEN j ELSE j + 1
<1>5. \A j \in DOMAIN areas' :
        /\ Old(j) \in DOMAIN areas /\ Old(j) # i /\ areas'[j] = areas[Old(j)]
        /\ \A m \in DOMAIN areas' : Old(j) = Old(m) => j = m
  BY <1>1, <1>2, <1>3
<1> HIDE DEF Old
<1>6. \A j \in DOMAIN areas' : areas[Old(j)].vma \in DOMAIN mmap'
  BY <1>4, <1>5 DEF MatchInv, AreaMatchesVma
<1> QED BY <1>4, <1>5, <1>6 DEF MatchInv, AreaMatchesVma

LEMMA FreeRegionMatches ==
  ASSUME MatchInv, NEW i \in DOMAIN areas, NEW k \in DOMAIN areas[i].regions,
         FreeRegion(i, k)
  PROVE  AreaMatchesVma'
<1> DEFINE rs == merge_neighbors_region([areas[i].regions EXCEPT ![k].free = TRUE], k,
                                        areas[i].headFree)
           space == areas[i].free_space + areas[i].regions[k].size
<1>1. \/ areas' = RemoveAt(areas, i) /\ mmap' = Unmapped(areas[i].vma)
      \/ /\ areas' = [areas EXCEPT ![i].regions = rs, ![i].free_space = space]
         /\ UNCHANGED mmap
  BY DEF FreeRegion
<1> HIDE DEF rs, space
<1>2. CASE areas' = RemoveAt(areas, i) /\ mmap' = Unmapped(areas[i].vma)
  BY <1>2, UnmapMatches
<1>3. CASE /\ areas' = [areas EXCEPT ![i].regions = rs, ![i].free_space = space]
           /\ UNCHANGED mmap
  <2>1. areas[i] \in Area
    BY AreaListDomain DEF MatchInv, VmaInv
  <2>2. /\ DOMAIN areas' = DOMAIN areas
        /\ \A j \in DOMAIN areas : areas'[j].vma = areas[j].vma /\ areas'[j].size = areas[j].size
    BY <1>3, <2>1 DEF Area
  <2> QED BY <1>3, <2>2 DEF MatchInv, AreaMatchesVma
<1> QED BY <1>1, <1>2, <1>3

LEMMA MatchInvNext ==
  ASSUME "vma" \notin Faults
  PROVE  MatchInv /\ [Next]_vars => MatchInv'
<1> SUFFICES ASSUME MatchInv, [Next]_vars PROVE AreaMatchesVma'
  BY VmaInvNext DEF MatchInv
<1>1. CASE UNCHANGED <<mmap, areas>>
  BY <1>1 DEF MatchInv, AreaMatchesVma
<1>2. ASSUME NEW pid \in Pids, NEW size \in Sizes, create_region(pid, size)
      PROVE  AreaMatchesVma'
  <2>1. size \in Nat \ {0}
    BY ConstantsAssumption
  <2>2. PICK failed \in SUBSET Faults :
          \/ UNCHANGED <<mmap, areas>>
          \/ \E i \in DOMAIN areas : UseArea(i, size, failed)
          \/ NewArea(pid, size, failed)
    BY <1>2 DEF create_region, UseNullArea
  <2>3. "vma" \notin failed
    BY <2>2
  <2> QED BY <1>1, <2>1, <2>2, <2>3, UseAreaMatches, NewAreaMatches
<1>3. ASSUME NEW pid \in Pids, NEW b \in Blocks, remove_region(pid, b.start)
      PROVE  AreaMatchesVma'
  <2>1. \/ UNCHANGED <<mmap, areas>>
        \/ \E i \in DOMAIN areas : \E k \in DOMAIN areas[i].regions : FreeRegion(i, k)
    BY <1>3 DEF remove_region, get_region
  <2> QED BY <1>1, <2>1, FreeRegionMatches
<1>4. ASSUME NEW i \in DOMAIN areas, close_vma(i)
      PROVE  AreaMatchesVma'
  BY <1>4, UnmapMatches DEF close_vma
<1>5. ASSUME NEW v \in ForeignVmas, ForeignMap(v)
      PROVE  AreaMatchesVma'
  <2>1. v[1] \notin DOMAIN mmap
    <3>1. \A w \in DOMAIN mmap : w \in Nat /\ mmap[w] \in Nat /\ w < mmap[w]
      BY DEF MatchInv, VmaInv, MmapInv
    <3>2. v[1] \in Nat /\ v[2] \in Nat /\ v[1] < v[2]
      BY ConstantsAssumption
    <3> QED BY <1>5, <3>1, <3>2 DEF ForeignMap
  <2>2. DOMAIN mmap \subseteq DOMAIN mmap' /\ \A w \in DOMAIN mmap : mmap'[w] = mmap[w]
    BY <1>5, <2>1 DEF ForeignMap, Mapped
  <2> QED BY <1>5, <2>2 DEF ForeignMap, MatchInv, AreaMatchesVma
<1>6. ASSUME NEW v \in ForeignVmas, ForeignUnmap(v)
      PROVE  AreaMatchesVma'
  <2>1. DOMAIN mmap' = DOMAIN mmap \ {v[1]} /\ \A w \in DOMAIN mmap' : mmap'[w] = mmap[w]
    BY <1>6 DEF ForeignUnmap, Unmapped
  <2> QED BY <1>6, <2>1 DEF ForeignUnmap, MatchInv, AreaMatchesVma
<1> QED BY <1>1, <1>2, <1>3, <1>4, <1>5, <1>6 DEF Next, Environment, vars

\* Each area has a VMA of its size, in whole pages and to itself, unless a VMA
\* fails to be created (area.c:145-190).
THEOREM AreasAlwaysMatch ==
  ASSUME "vma" \notin Faults
  PROVE  Spec => []AreaMatchesVma
<1>1. Init => MatchInv
  BY VmaInvInit DEF Init, MatchInv, AreaMatchesVma
<1>2. MatchInv => AreaMatchesVma
  BY DEF MatchInv
<1> QED BY <1>1, <1>2, MatchInvNext, PTL DEF Spec
=============================================================================
