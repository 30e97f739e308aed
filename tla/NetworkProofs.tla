--------------------------- MODULE NetworkProofs ----------------------------
(***************************************************************************)
(* Theorems about the network storage, for any keys, values, page size,    *)
(* number of connections and bounds.                                       *)
(***************************************************************************)
EXTENDS Storage, SequenceTheorems, TLAPS

Units == Header \cup Unit

-----------------------------------------------------------------------------
(* Sequences of units.                                                     *)

LEMMA Joined ==
  ASSUME NEW S, NEW s \in Seq(S), NEW r \in Seq(S)
  PROVE  /\ s \o r \in Seq(S) /\ Len(s \o r) = Len(s) + Len(r)
         /\ \A i \in 1..Len(s) : (s \o r)[i] = s[i]
         /\ \A i \in 1..Len(r) : (s \o r)[Len(s) + i] = r[i]
<1>1. /\ s \o r \in Seq(S) /\ Len(s \o r) = Len(s) + Len(r)
      /\ \A i \in 1..(Len(s) + Len(r)) :
           (s \o r)[i] = IF i <= Len(s) THEN s[i] ELSE r[i - Len(s)]
  BY ConcatProperties, Zenon
<1>2. Len(s) \in Nat /\ Len(r) \in Nat
  BY LenProperties
<1>3. ASSUME NEW i \in 1..Len(s) PROVE (s \o r)[i] = s[i]
  BY <1>1, <1>2
<1>4. ASSUME NEW i \in 1..Len(r) PROVE (s \o r)[Len(s) + i] = r[i]
  <2>1. Len(s) + i \in 1..(Len(s) + Len(r)) /\ ~(Len(s) + i <= Len(s)) /\ (Len(s) + i) - Len(s) = i
    BY <1>2
  <2> QED BY <1>1, <2>1
<1> QED BY <1>1, <1>3, <1>4

LEMMA Dropped ==
  ASSUME NEW S, NEW s \in Seq(S), NEW n \in 0..Len(s)
  PROVE  LET r == SubSeq(s, n + 1, Len(s))
         IN  /\ r \in Seq(S) /\ Len(r) = Len(s) - n
             /\ \A i \in 1..(Len(s) - n) : r[i] = s[n + i]
<1> DEFINE r == SubSeq(s, n + 1, Len(s))
<1>1. Len(s) \in Nat /\ DOMAIN s = 1..Len(s) /\ \A i \in 1..Len(s) : s[i] \in S
  BY LenProperties, ElementOfSeq
<1>2. /\ r \in Seq(S)
      /\ Len(r) = IF n + 1 <= Len(s) THEN Len(s) - (n + 1) + 1 ELSE 0
      /\ \A i \in 1..(Len(s) - (n + 1) + 1) : r[i] = s[(n + 1) + i - 1]
  BY <1>1, SubSeqProperties
<1> HIDE DEF r
<1>3. Len(r) = Len(s) - n
  <2>1. CASE n + 1 <= Len(s)
    BY <1>1, <1>2, <2>1
  <2>2. CASE n = Len(s)
    <3>1. ~(n + 1 <= Len(s)) /\ Len(s) - n = 0
      BY <1>1, <2>2
    <3> QED BY <1>2, <3>1
  <2>3. n + 1 <= Len(s) \/ n = Len(s)
    <3>1. Len(s) \in Nat /\ n \in 0..Len(s)
      BY <1>1
    <3> QED BY <3>1
  <2> QED BY <2>1, <2>2, <2>3
<1>4. ASSUME NEW i \in 1..(Len(s) - n) PROVE r[i] = s[n + i]
  <2>1. i \in 1..(Len(s) - (n + 1) + 1) /\ (n + 1) + i - 1 = n + i
    BY <1>1
  <2>2. r[i] = s[(n + 1) + i - 1]
    BY <1>2, <2>1
  <2> QED BY <2>1, <2>2
<1> QED BY <1>2, <1>3, <1>4 DEF r

LEMMA Cut ==
  ASSUME NEW S, NEW s \in Seq(S), NEW n \in 0..Len(s)
  PROVE  LET r == SubSeq(s, 1, n)
         IN  r \in Seq(S) /\ Len(r) = n /\ \A i \in 1..n : r[i] = s[i]
<1> DEFINE r == SubSeq(s, 1, n)
<1>1. Len(s) \in Nat /\ DOMAIN s = 1..Len(s) /\ \A i \in 1..Len(s) : s[i] \in S
  BY LenProperties, ElementOfSeq
<1>2. /\ r \in Seq(S)
      /\ Len(r) = IF 1 <= n THEN n - 1 + 1 ELSE 0
      /\ \A i \in 1..(n - 1 + 1) : r[i] = s[1 + i - 1]
  BY <1>1, SubSeqProperties
<1> HIDE DEF r
<1>3. Len(r) = n
  BY <1>1, <1>2
<1>4. ASSUME NEW i \in 1..n PROVE r[i] = s[i]
  <2>1. i \in 1..(n - 1 + 1) /\ 1 + i - 1 = i
    BY <1>1
  <2>2. r[i] = s[1 + i - 1]
    BY <1>2, <2>1
  <2> QED BY <2>1, <2>2
<1> QED BY <1>2, <1>3, <1>4 DEF r

-----------------------------------------------------------------------------
(* How a server thread reads a stream.                                     *)

IsPut(u) == IsHeader(u) /\ u.cmd = "PUT"

\* The units of a page that the thread wants after a header.
After(u) == IF IsPut(u) THEN PageUnits ELSE 0

\* w[i] are the units that the thread still wants after i units of s.
Reading(s, w) ==
  /\ \A i \in 1..Len(s) : IsHeader(s[i]) <=> w[i - 1] = 0
  /\ \A i \in 1..Len(s) : w[i - 1] = 0 => w[i] = After(s[i])
  /\ \A i, j \in 0..Len(s) : i <= j /\ j - i <= w[i] => w[j] = w[i] - (j - i)

\* A thread that wants d units finds every header of s where it looks for one,
\* and wants e units at the end.
Reads(d, s, e) ==
  \E w \in [0..Len(s) -> Nat] : w[0] = d /\ w[Len(s)] = e /\ Reading(s, w)

LEMMA ReadsNothing ==
  ASSUME NEW d \in Nat
  PROVE  Reads(d, <<>>, d)
<1> DEFINE w == [i \in 0..0 |-> d]
<1>1. Len(<<>>) = 0
  BY EmptySeq
<1>2. w \in [0..0 -> Nat] /\ w[0] = d
  OBVIOUS
<1>3. Reading(<<>>, w)
  BY <1>1 DEF Reading
<1> QED BY <1>1, <1>2, <1>3 DEF Reads

LEMMA ReadsHeader ==
  ASSUME NEW h, IsHeader(h)
  PROVE  Reads(0, <<h>>, After(h))
<1> DEFINE w == [i \in 0..1 |-> IF i = 0 THEN 0 ELSE After(h)]
<1>1. Len(<<h>>) = 1 /\ <<h>>[1] = h
  OBVIOUS
<1>2. After(h) \in Nat
  BY NetworkAssumption DEF After
<1>3. w \in [0..1 -> Nat] /\ w[0] = 0 /\ w[1] = After(h)
  BY <1>2
<1> HIDE DEF w
<1>4. Reading(<<h>>, w)
  <2>1. \A i \in 1..1 : IsHeader(<<h>>[i]) <=> w[i - 1] = 0
    BY <1>1, <1>3
  <2>2. \A i \in 1..1 : w[i - 1] = 0 => w[i] = After(<<h>>[i])
    BY <1>1, <1>3
  <2>3. \A i, j \in 0..1 : i <= j /\ j - i <= w[i] => w[j] = w[i] - (j - i)
    BY <1>2, <1>3
  <2> QED BY <1>1, <2>1, <2>2, <2>3 DEF Reading
<1> QED BY <1>1, <1>3, <1>4 DEF Reads

LEMMA PageUnitsOf ==
  ASSUME NEW v \in Values \cup {Zero}
  PROVE  /\ Page(v) \in Seq(Units) /\ Len(Page(v)) = PageUnits
         /\ \A i \in 1..PageUnits : ~IsHeader(Page(v)[i])
<1>1. PageUnits \in Nat
  BY NetworkAssumption
<1>2. \A i \in 1..PageUnits :
        Page(v)[i] = [value |-> v, part |-> i] /\ Page(v)[i] \in Unit
  BY DEF Page, Unit
<1>3. Page(v) \in Seq(Units) /\ Len(Page(v)) = PageUnits
  BY <1>1, <1>2 DEF Page, Units
<1>4. ASSUME NEW i \in 1..PageUnits PROVE ~IsHeader(Page(v)[i])
  <2>1. DOMAIN [value |-> v, part |-> i] = {"value", "part"}
    OBVIOUS
  <2>2. ~("cmd" \in DOMAIN [value |-> v, part |-> i])
    BY <2>1
  <2>3. Page(v)[i] = [value |-> v, part |-> i]
    BY <1>2
  <2> QED BY <2>2, <2>3, Zenon DEF IsHeader
<1> QED BY <1>3, <1>4

LEMMA ReadsPage ==
  ASSUME NEW v \in Values \cup {Zero}
  PROVE  Reads(PageUnits, Page(v), 0)
<1> DEFINE w == [i \in 0..PageUnits |-> PageUnits - i]
           p == Page(v)
<1>1. PageUnits \in Nat /\ Len(p) = PageUnits /\ \A i \in 1..PageUnits : ~IsHeader(p[i])
  BY NetworkAssumption, PageUnitsOf
<1>2. w \in [0..PageUnits -> Nat] /\ \A i \in 0..PageUnits : w[i] = PageUnits - i
  BY <1>1
<1> HIDE DEF w, p
<1>3. Reading(p, w)
  <2>1. ASSUME NEW i \in 1..PageUnits PROVE i - 1 \in 0..PageUnits /\ w[i - 1] # 0
    BY <1>1, <1>2
  <2>2. \A i, j \in 0..PageUnits : i <= j /\ j - i <= w[i] => w[j] = w[i] - (j - i)
    BY <1>1, <1>2
  <2> QED BY <1>1, <2>1, <2>2 DEF Reading
<1>4. w[0] = PageUnits /\ w[Len(p)] = 0
  BY <1>1, <1>2
<1> QED BY <1>1, <1>2, <1>3, <1>4 DEF Reads, p

LEMMA ReadsOn ==
  ASSUME NEW s \in Seq(Units), NEW r \in Seq(Units),
         NEW d \in Nat, NEW e \in Nat, NEW f \in Nat,
         Reads(d, s, e), Reads(e, r, f)
  PROVE  Reads(d, s \o r, f)
<1> DEFINE t == s \o r
           m == Len(s)
           n == Len(r)
<1>1. PICK w \in [0..m -> Nat] : w[0] = d /\ w[m] = e /\ Reading(s, w)
  BY DEF Reads
<1>2. PICK x \in [0..n -> Nat] : x[0] = e /\ x[n] = f /\ Reading(r, x)
  BY DEF Reads
<1> DEFINE y == [i \in 0..(m + n) |-> IF i <= m THEN w[i] ELSE x[i - m]]
<1>3. m \in Nat /\ n \in Nat
  BY LenProperties
<1>4. /\ Len(t) = m + n
      /\ \A i \in 1..m : t[i] = s[i]
      /\ \A i \in 1..n : t[m + i] = r[i]
  BY Joined
<1>5. /\ \A i \in 1..m : IsHeader(s[i]) <=> w[i - 1] = 0
      /\ \A i \in 1..m : w[i - 1] = 0 => w[i] = After(s[i])
      /\ \A i, j \in 0..m : i <= j /\ j - i <= w[i] => w[j] = w[i] - (j - i)
  BY <1>1 DEF Reading
<1>6. /\ \A i \in 1..n : IsHeader(r[i]) <=> x[i - 1] = 0
      /\ \A i \in 1..n : x[i - 1] = 0 => x[i] = After(r[i])
      /\ \A i, j \in 0..n : i <= j /\ j - i <= x[i] => x[j] = x[i] - (j - i)
  BY <1>2 DEF Reading
<1> HIDE DEF m, n, t
<1>7. /\ y \in [0..(m + n) -> Nat]
      /\ \A i \in 0..m : y[i] = w[i]
      /\ \A i \in 0..n : y[m + i] = x[i]
  <2>1. ASSUME NEW i \in 0..(m + n) PROVE y[i] \in Nat
    BY <1>3
  <2>2. ASSUME NEW i \in 0..m PROVE y[i] = w[i]
    BY <1>3
  <2>3. ASSUME NEW i \in 0..n PROVE y[m + i] = x[i]
    <3>1. m + i \in 0..(m + n) /\ (m + i) - m = i
      BY <1>3
    <3>2. CASE i = 0
      BY <1>1, <1>2, <1>3, <3>2
    <3>3. CASE i # 0
      <4>1. ~(m + i <= m)
        BY <1>3, <3>3
      <4> QED BY <3>1, <4>1
    <3> QED BY <3>2, <3>3
  <2> QED BY <2>1, <2>2, <2>3
<1> HIDE DEF y
<1>8. ASSUME NEW i \in 1..(m + n)
      PROVE  \/ i \in 1..m /\ i - 1 \in 0..m /\ i \in 0..m
             \/ \E k \in 1..n : i = m + k /\ i - 1 = m + (k - 1) /\ k - 1 \in 0..n /\ k \in 0..n
  <2>1. CASE i <= m
    BY <1>3, <2>1
  <2>2. CASE ~(i <= m)
    <3>1. i - m \in 1..n /\ i = m + (i - m) /\ i - 1 = m + ((i - m) - 1)
          /\ (i - m) - 1 \in 0..n /\ i - m \in 0..n
      BY <1>3, <2>2
    <3> QED BY <3>1
  <2> QED BY <2>1, <2>2
<1>9. ASSUME NEW i \in 1..(m + n)
      PROVE  (IsHeader(t[i]) <=> y[i - 1] = 0) /\ (y[i - 1] = 0 => y[i] = After(t[i]))
  <2>1. CASE i \in 1..m /\ i - 1 \in 0..m /\ i \in 0..m
    BY <1>4, <1>5, <1>7, <2>1
  <2>2. CASE \E k \in 1..n : i = m + k /\ i - 1 = m + (k - 1) /\ k - 1 \in 0..n /\ k \in 0..n
    BY <1>4, <1>6, <1>7, <2>2
  <2> QED BY <1>8, <2>1, <2>2
<1>10. ASSUME NEW i \in 0..(m + n), NEW j \in 0..(m + n), i <= j, j - i <= y[i]
       PROVE  y[j] = y[i] - (j - i)
  <2>1. CASE j <= m
    <3>1. i \in 0..m /\ j \in 0..m
      BY <1>3, <1>10, <2>1
    <3>2. y[i] = w[i] /\ y[j] = w[j]
      BY <1>7, <3>1
    <3> QED BY <1>5, <1>10, <3>1, <3>2
  <2>2. CASE i <= m /\ ~(j <= m)
    <3>1. i \in 0..m /\ m \in 0..m /\ i <= m /\ m - i <= w[i] /\ y[i] = w[i]
      BY <1>3, <1>7, <1>10, <2>2
    <3>2. e = w[i] - (m - i)
      BY <1>1, <1>5, <3>1
    <3>3. j - m \in 0..n /\ j = m + (j - m) /\ 0 \in 0..n /\ 0 <= j - m /\ j - m <= e
      <4>1. j - i <= w[i]
        BY <1>10, <3>1, Zenon
      <4>2. w[i] \in Int /\ i \in Int /\ j \in Int /\ m \in Int /\ e \in Int
        BY <1>3, <3>1
      <4>3. j - m <= e
        BY <3>2, <4>1, <4>2
      <4>4. j - m \in 0..n /\ j = m + (j - m) /\ 0 \in 0..n /\ 0 <= j - m
        BY <1>3, <2>2, <4>2
      <4> QED BY <4>3, <4>4
    <3>4. x[j - m] = x[0] - ((j - m) - 0)
      <4>1. (j - m) - 0 <= x[0] /\ (j - m) - 0 = j - m
        BY <1>2, <1>3, <3>3
      <4> QED BY <1>6, <3>3, <4>1
    <3>5. y[j] = x[j - m]
      BY <1>7, <3>3
    <3>6. w[i] \in Int /\ i \in Int /\ j \in Int /\ m \in Int /\ e \in Int
      BY <1>3, <3>1
    <3>7. x[0] - ((j - m) - 0) = e - (j - m)
      BY <1>2, <1>3, <3>6
    <3>8. e - (j - m) = w[i] - (j - i)
      <4> DEFINE v == w[i]
      <4>1. e = v - (m - i) /\ v \in Int
        BY <3>2, <3>6
      <4> HIDE DEF v
      <4>2. e - (j - m) = v - (j - i)
        BY <3>6, <4>1
      <4> QED BY <4>2 DEF v
    <3> QED BY <3>1, <3>4, <3>5, <3>7, <3>8, Zenon
  <2>3. CASE ~(i <= m)
    <3>1. /\ i - m \in 0..n /\ i = m + (i - m) /\ j - m \in 0..n /\ j = m + (j - m)
          /\ i - m <= j - m /\ (j - m) - (i - m) = j - i
      BY <1>3, <1>10, <2>3
    <3>2. y[i] = x[i - m] /\ y[j] = x[j - m]
      BY <1>7, <3>1
    <3>3. x[j - m] = x[i - m] - ((j - m) - (i - m))
      BY <1>6, <1>10, <3>1, <3>2
    <3> QED BY <3>1, <3>2, <3>3
  <2> QED BY <1>3, <1>10, <2>1, <2>2, <2>3
<1>11. Reading(t, y)
  BY <1>4, <1>9, <1>10 DEF Reading
<1>12. y[0] = d /\ y[m + n] = f
  <2>1. 0 \in 0..m /\ n \in 0..n
    BY <1>3
  <2> QED BY <1>1, <1>2, <1>7, <2>1
<1> QED BY <1>4, <1>7, <1>11, <1>12 DEF Reads, t

LEMMA ReadsCut ==
  ASSUME NEW s \in Seq(Units), NEW d \in Nat, NEW f \in Nat, NEW n \in 0..Len(s),
         Reads(d, s, f)
  PROVE  \E e \in Nat : Reads(d, SubSeq(s, 1, n), e)
<1> DEFINE r == SubSeq(s, 1, n)
<1>1. PICK w \in [0..Len(s) -> Nat] : w[0] = d /\ w[Len(s)] = f /\ Reading(s, w)
  BY DEF Reads
<1>2. Len(s) \in Nat
  BY LenProperties
<1>3. Len(r) = n /\ \A i \in 1..n : r[i] = s[i]
  BY Cut
<1> DEFINE y == [i \in 0..n |-> w[i]]
<1>4. y \in [0..n -> Nat] /\ \A i \in 0..n : y[i] = w[i]
  BY <1>2
<1> HIDE DEF r, y
<1>5. ASSUME NEW i \in 1..n
      PROVE  (IsHeader(r[i]) <=> y[i - 1] = 0) /\ (y[i - 1] = 0 => y[i] = After(r[i]))
  <2>1. i \in 1..Len(s) /\ i \in 0..n /\ i - 1 \in 0..n
    BY <1>2
  <2> QED BY <1>1, <1>3, <1>4, <2>1 DEF Reading
<1>6. ASSUME NEW i \in 0..n, NEW j \in 0..n, i <= j, j - i <= y[i]
      PROVE  y[j] = y[i] - (j - i)
  <2>1. i \in 0..Len(s) /\ j \in 0..Len(s)
    BY <1>2
  <2> QED BY <1>1, <1>4, <1>6, <2>1 DEF Reading
<1>7. Reading(r, y)
  BY <1>3, <1>5, <1>6 DEF Reading
<1>8. 0 \in 0..n /\ n \in 0..n
  BY <1>2
<1>9. Reads(d, r, y[n])
  BY <1>1, <1>3, <1>4, <1>7, <1>8 DEF Reads
<1> QED BY <1>4, <1>8, <1>9 DEF r

\* What is left after n units: of the page that is wanted, or of a header.
LEMMA ReadsRest ==
  ASSUME NEW s \in Seq(Units), NEW d \in Nat, NEW f \in Nat, NEW n \in 0..Len(s),
         Reads(d, s, f), n <= d \/ n = 1
  PROVE  Reads(IF n <= d THEN d - n ELSE After(s[1]), SubSeq(s, n + 1, Len(s)), f)
<1> DEFINE r == SubSeq(s, n + 1, Len(s))
           m == Len(s) - n
<1>1. PICK w \in [0..Len(s) -> Nat] : w[0] = d /\ w[Len(s)] = f /\ Reading(s, w)
  BY DEF Reads
<1>2. Len(s) \in Nat /\ m \in Nat /\ n \in Nat /\ n + m = Len(s)
  BY LenProperties
<1>3. Len(r) = m /\ \A i \in 1..m : r[i] = s[n + i]
  BY Dropped
<1> DEFINE y == [i \in 0..m |-> w[n + i]]
<1>4. y \in [0..m -> Nat] /\ \A i \in 0..m : y[i] = w[n + i]
  <2>1. \A i \in 0..m : n + i \in 0..Len(s)
    BY <1>2
  <2> QED BY <2>1
<1> HIDE DEF r, y, m
<1>5. ASSUME NEW i \in 1..m
      PROVE  (IsHeader(r[i]) <=> y[i - 1] = 0) /\ (y[i - 1] = 0 => y[i] = After(r[i]))
  <2>1. n + i \in 1..Len(s) /\ i \in 0..m /\ i - 1 \in 0..m /\ (n + i) - 1 = n + (i - 1)
    BY <1>2
  <2>2. y[i] = w[n + i] /\ y[i - 1] = w[(n + i) - 1]
    BY <1>4, <2>1
  <2> QED BY <1>1, <1>3, <2>1, <2>2 DEF Reading
<1>6. ASSUME NEW i \in 0..m, NEW j \in 0..m, i <= j, j - i <= y[i]
      PROVE  y[j] = y[i] - (j - i)
  <2>1. n + i \in 0..Len(s) /\ n + j \in 0..Len(s) /\ n + i <= n + j /\ (n + j) - (n + i) = j - i
    BY <1>2, <1>6
  <2>2. y[i] = w[n + i] /\ y[j] = w[n + j]
    BY <1>4
  <2> QED BY <1>1, <1>6, <2>1, <2>2 DEF Reading
<1>7. Reading(r, y)
  BY <1>3, <1>5, <1>6 DEF Reading
<1>8. 0 \in 0..m /\ m \in 0..m /\ y[m] = f /\ y[0] = w[n]
  <2>1. 0 \in 0..m /\ m \in 0..m /\ n + 0 = n
    BY <1>2
  <2> QED BY <1>1, <1>2, <1>4, <2>1
<1>9. CASE n <= d
  <2>1. 0 \in 0..Len(s) /\ n \in 0..Len(s) /\ 0 <= n /\ n - 0 = n
    BY <1>2
  <2>2. w[n] = w[0] - n
    BY <1>1, <1>9, <2>1 DEF Reading
  <2> QED BY <1>1, <1>3, <1>4, <1>7, <1>8, <1>9, <2>2 DEF Reads, r
<1>10. CASE ~(n <= d) /\ n = 1
  <2>1. d = 0 /\ 1 \in 1..Len(s) /\ 1 - 1 = 0
    BY <1>2, <1>10
  <2>2. w[n] = After(s[1])
    BY <1>1, <1>10, <2>1 DEF Reading
  <2> QED BY <1>3, <1>4, <1>7, <1>8, <1>10, <2>2 DEF Reads, r
<1> QED BY <1>9, <1>10

-----------------------------------------------------------------------------
(* Types.                                                                  *)

Clients ==
  {Idle, Closed} \cup [step : {"page"}, key : Keys, value : Values]
  \cup [step : {"recv"}, key : Keys]

Servers == {NextHeader, Quit} \cup [step : {"data"}, key : Keys, data : Seq(Units)]

Stored == DOMAIN saved \subseteq Keys /\ \A k \in DOMAIN saved : saved[k] \in Values

Held ==
  /\ DOMAIN pages \subseteq Keys
  /\ \A k \in DOMAIN pages : pages[k] \in Seq(Units) /\ Len(pages[k]) = PageUnits

Wired ==
  /\ cur \in 0..MaxConns /\ link \in BOOLEAN /\ (link => cur \in Conns)
  /\ up \in [Conns -> Seq(Units)] /\ down \in Seq(Units)
  /\ \A c \in Conns : c > cur => up[c] = <<>>
  /\ short \in BOOLEAN /\ broken \in BOOLEAN

Serving ==
  /\ server \in [Conns -> Servers]
  /\ \A c \in Conns : server[c].step = "data" => Len(server[c].data) < PageUnits

Typed == client \in Clients /\ Stored /\ Held /\ Wired /\ Serving

LEMMA TypedTypeOK == Typed => TypeOK
<1> SUFFICES ASSUME Typed PROVE TypeOK
  OBVIOUS
<1>1. client.step \in {"idle", "page", "recv", "closed"}
  BY DEF Typed, Clients, Idle, Closed
<1>2. ASSUME NEW c \in Conns PROVE server[c].step \in {"header", "data", "quit"}
  <2>1. server[c] \in Servers
    BY DEF Typed, Serving
  <2> QED BY <2>1 DEF Servers, NextHeader, Quit
<1>3. Range(saved) \subseteq Values
  BY DEF Typed, Stored, Range
<1> QED BY <1>1, <1>2, <1>3 DEF Typed, Stored, Held, Wired, TypeOK, Units

LEMMA TypedInit == Init => Typed
<1> SUFFICES ASSUME Init PROVE Typed
  OBVIOUS
<1>1. 0 \in 0..MaxConns /\ <<>> \in Seq(Units)
  BY NetworkAssumption, EmptySeq
<1>2. Wired
  BY <1>1 DEF Init, Wired
<1>3. Serving
  <2>1. \A c \in Conns : server[c] = Quit /\ Quit.step = "quit"
    BY DEF Init, Quit
  <2>2. server \in [Conns -> Servers]
    BY DEF Init, Servers
  <2> QED BY <2>1, <2>2 DEF Serving
<1>4. Stored /\ Held
  BY DEF Init, Nothing, Stored, Held
<1> QED BY <1>2, <1>3, <1>4 DEF Init, Typed, Clients

LEMMA HeaderUnits ==
  ASSUME NEW k \in Keys, NEW cmd \in {"PUT", "GET", "RM"}
  PROVE  LET h == [cmd |-> cmd, key |-> k]
         IN  /\ h \in Units /\ IsHeader(h) /\ h.cmd = cmd /\ <<h>> \in Seq(Units)
<1> DEFINE h == [cmd |-> cmd, key |-> k]
<1>1. h \in Units /\ h.cmd = cmd
  BY DEF Units, Header
<1>2. DOMAIN h = {"cmd", "key"}
  OBVIOUS
<1>3. IsHeader(h)
  BY <1>2, Zenon DEF IsHeader
<1> QED BY <1>1, <1>3

LEMMA ReleaseUnit ==
  LET h == [cmd |-> "RELEASE"]
  IN  h \in Units /\ IsHeader(h) /\ h.cmd = "RELEASE" /\ <<h>> \in Seq(Units)
<1> DEFINE h == [cmd |-> "RELEASE"]
<1>1. h \in Units /\ h.cmd = "RELEASE"
  BY DEF Units, Header
<1>2. DOMAIN h = {"cmd"}
  OBVIOUS
<1>3. IsHeader(h)
  BY <1>2, Zenon DEF IsHeader
<1> QED BY <1>1, <1>3

LEMMA KeyedHeader ==
  ASSUME NEW h \in Units, IsHeader(h), h.cmd \in {"PUT", "GET", "RM"}
  PROVE  h.key \in Keys
<1>1. h \notin Unit
  <2>1. ASSUME NEW u \in Unit PROVE ~IsHeader(u)
    <3>1. DOMAIN u = {"value", "part"}
      BY DEF Unit
    <3>2. "cmd" \notin {"value", "part"}
      OBVIOUS
    <3> QED BY <3>1, <3>2, Zenon DEF IsHeader
  <2> QED BY <2>1
<1>2. h \in Header
  BY <1>1 DEF Units
<1> QED BY <1>2 DEF Header

LEMMA SentUnits ==
  ASSUME Wired, NEW units \in Seq(Units), socket_send(units)
  PROVE  /\ up' \in [Conns -> Seq(Units)]
         /\ \A c \in Conns : c # cur => up'[c] = up[c]
         /\ link => up'[cur] = up[cur] \o units
         /\ ~link => up' = up
<1>1. CASE link
  <2>1. cur \in Conns /\ up[cur] \in Seq(Units)
    BY <1>1 DEF Wired
  <2>2. up[cur] \o units \in Seq(Units)
    BY <2>1, Joined
  <2>3. up' = [up EXCEPT ![cur] = up[cur] \o units]
    BY <1>1 DEF socket_send
  <2> QED BY <1>1, <2>1, <2>2, <2>3 DEF Wired
<1>2. CASE ~link
  BY <1>2 DEF socket_send, Wired
<1> QED BY <1>1, <1>2

LEMMA SentWired ==
  ASSUME Wired, NEW units \in Seq(Units), socket_send(units), UNCHANGED <<cur, link, down, history>>
  PROVE  Wired'
<1>1. \A c \in Conns : c > cur => c # cur
  BY DEF Wired, Conns
<1>2. \A c \in Conns : c > cur => up'[c] = <<>>
  BY <1>1, SentUnits DEF Wired
<1>3. up' \in [Conns -> Seq(Units)]
  BY SentUnits
<1> QED BY <1>2, <1>3 DEF Wired, history

LEMMA StoredStep ==
  ASSUME Stored, NEW k \in Keys
  PROVE  /\ saved' = Without(saved, k) => Stored'
         /\ \A v \in Values : saved' = With(saved, k, v) => Stored'
         /\ saved' = Nothing => Stored'
         /\ saved' = saved => Stored'
BY DEF Stored, Without, With, Restrict, Nothing

LEMMA HeldStep ==
  ASSUME Held, NEW k \in Keys
  PROVE  /\ pages' = Without(pages, k) => Held'
         /\ \A s \in Seq(Units) : Len(s) = PageUnits /\ pages' = Put(k, s) => Held'
<1>1. ASSUME pages' = Without(pages, k) PROVE Held'
  BY <1>1 DEF Held, Without, Restrict
<1>2. ASSUME NEW s \in Seq(Units), Len(s) = PageUnits, pages' = Put(k, s) PROVE Held'
  <2>1. DOMAIN pages' = DOMAIN pages \cup {k}
    BY <1>2 DEF Put, With
  <2>2. ASSUME NEW j \in DOMAIN pages' PROVE pages'[j] = s \/ (j \in DOMAIN pages /\ pages'[j] = pages[j])
    BY <1>2, <2>1 DEF Put, With
  <2> QED BY <1>2, <2>1, <2>2 DEF Held
<1> QED BY <1>1, <1>2

LEMMA HeldEmpty ==
  /\ pages' = Nothing => Held'
  /\ Held /\ pages' = pages => Held'
BY DEF Held, Nothing

LEMMA TypedClient == Typed /\ Client => Typed'
<1> SUFFICES ASSUME Typed, Client PROVE Typed'
  OBVIOUS
<1> USE DEF Typed
<1>1. CASE network_init
  <2>1. /\ cur + 1 \in Conns /\ cur' = cur + 1 /\ cur' \in 0..MaxConns
        /\ cur \in Int /\ cur < cur'
    BY <1>1, NetworkAssumption DEF network_init, Wired, Conns
  <2>2. Wired'
    <3>1. \A c \in Conns : c > cur' => up'[c] = <<>>
      BY <1>1, <2>1 DEF network_init, Wired, Conns
    <3>2. down' \in Seq(Units)
      BY <1>1, EmptySeq DEF network_init
    <3> QED BY <1>1, <2>1, <3>1, <3>2 DEF network_init, Wired
  <2>3. Serving'
    <3>1. server' = [server EXCEPT ![cur'] = NextHeader]
      BY <1>1 DEF network_init
    <3>2. NextHeader \in Servers /\ NextHeader.step = "header"
      BY DEF Servers, NextHeader
    <3> QED BY <3>1, <3>2 DEF Serving
  <2>4. client' \in Clients /\ Stored' /\ Held'
    BY <1>1 DEF network_init, Clients, Stored, Held
  <2> QED BY <2>2, <2>3, <2>4
<1>2. CASE \E k \in Keys : \E v \in Values : SaveHeader(k, v)
  <2>1. PICK k \in Keys, v \in Values : SaveHeader(k, v)
    BY <1>2
  <2>2. Wired'
    BY <2>1, HeaderUnits, SentWired DEF SaveHeader
  <2> QED BY <2>1, <2>2 DEF SaveHeader, Clients, Stored, Held, Serving
<1>3. CASE SavePage
  <2>1. client.key \in Keys /\ client.value \in Values
    BY <1>3 DEF SavePage, Clients, Idle, Closed
  <2>2. Wired'
    BY <1>3, <2>1, PageUnitsOf, SentWired DEF SavePage
  <2>3. Stored'
    <3>1. saved' = With(saved, client.key, client.value) \/ saved' = saved
      BY <1>3 DEF SavePage
    <3> QED BY <2>1, <3>1, StoredStep
  <2> QED BY <1>3, <2>2, <2>3 DEF SavePage, Clients, Held, Serving
<1>4. CASE \E k \in Keys : network_remove(k)
  <2>1. PICK k \in Keys : network_remove(k)
    BY <1>4
  <2>2. Wired'
    BY <2>1, HeaderUnits, SentWired DEF network_remove
  <2>3. Stored'
    BY <2>1, StoredStep DEF network_remove
  <2> QED BY <2>1, <2>2, <2>3 DEF network_remove, Held, Serving
<1>5. CASE \E k \in Keys : LoadHeader(k)
  <2>1. PICK k \in Keys : LoadHeader(k)
    BY <1>5
  <2>2. Wired'
    BY <2>1, HeaderUnits, SentWired DEF LoadHeader
  <2> QED BY <2>1, <2>2 DEF LoadHeader, Clients, Stored, Held, Serving
<1>6. CASE socket_recv
  <2>1. PICK n \in 0..PageUnits :
          /\ n <= Len(down)
          /\ down' = SubSeq(down, n + 1, Len(down))
          /\ short' = (short \/ n \in 1..(PageUnits - 1))
    BY <1>6 DEF socket_recv
  <2>2. Len(down) \in Nat /\ PageUnits \in Nat
    BY NetworkAssumption, LenProperties DEF Wired
  <2>3. n \in 0..Len(down)
    BY <2>1, <2>2
  <2>4. down' \in Seq(Units)
    BY <2>1, <2>3, Dropped DEF Wired
  <2>5. short' \in BOOLEAN
    BY <2>1
  <2> QED BY <1>6, <2>4, <2>5 DEF socket_recv, Clients, Wired, Stored, Held, Serving
<1>7. CASE network_release
  <2>1. Wired'
    BY <1>7, ReleaseUnit, SentWired DEF network_release
  <2> QED BY <1>7, <2>1 DEF network_release, Clients, Stored, Nothing, Held, Serving
<1> QED BY <1>1, <1>2, <1>3, <1>4, <1>5, <1>6, <1>7 DEF Client

LEMMA TypedCommand ==
  ASSUME Typed, NEW c \in Conns, NEW h \in Units, IsHeader(h), Command(c, h)
  PROVE  Held' /\ Serving' /\ down' \in Seq(Units)
<1> USE DEF Typed
<1>1. CASE h.cmd = "PUT" /\ server' = [server EXCEPT ![c] = [step |-> "data", key |-> h.key, data |-> <<>>]]
           /\ UNCHANGED <<down, pages>>
  <2>1. h.key \in Keys /\ <<>> \in Seq(Units) /\ Len(<<>>) = 0 /\ 0 < PageUnits
    BY <1>1, KeyedHeader, EmptySeq, NetworkAssumption
  <2>2. /\ [step |-> "data", key |-> h.key, data |-> <<>>] \in Servers
        /\ [step |-> "data", key |-> h.key, data |-> <<>>].data = <<>>
    BY <2>1 DEF Servers
  <2>3. Serving'
    BY <1>1, <2>1, <2>2 DEF Serving
  <2> QED BY <1>1, <2>3, HeldEmpty DEF Wired
<1>2. CASE h.cmd = "GET" /\ down' = down \o Get(h.key) /\ UNCHANGED <<server, pages>>
  <2>1. h.key \in Keys
    BY <1>2, KeyedHeader
  <2>2. Get(h.key) \in Seq(Units)
    BY PageUnitsOf DEF Get, Held
  <2>3. down' \in Seq(Units)
    BY <1>2, <2>2, Joined DEF Wired
  <2> QED BY <1>2, <2>3, HeldEmpty DEF Serving
<1>3. CASE server' = [server EXCEPT ![c] = Quit] /\ UNCHANGED <<down, pages>>
  <2>1. Quit \in Servers /\ Quit.step = "quit"
    BY DEF Servers, Quit
  <2>2. Serving'
    BY <1>3, <2>1 DEF Serving
  <2> QED BY <1>3, <2>2, HeldEmpty DEF Wired
<1>4. CASE h.cmd = "RM" /\ pages' = Without(pages, h.key) /\ UNCHANGED <<down, server>>
  <2>1. h.key \in Keys
    BY <1>4, KeyedHeader
  <2> QED BY <1>4, <2>1, HeldStep DEF Serving, Wired
<1>5. CASE h.cmd = "RELEASE" /\ pages' = Nothing /\ UNCHANGED <<down, server>>
  BY <1>5, HeldEmpty DEF Serving, Wired
<1> QED BY <1>1, <1>2, <1>3, <1>4, <1>5 DEF Command

\* What a thread has after a read of n units, and what is left for it.
LEMMA PageRead ==
  ASSUME Typed, NEW c \in Conns, server[c].step = "data",
         NEW n \in 1..(PageUnits - Len(server[c].data)), n <= Len(up[c])
  PROVE  LET data == server[c].data \o SubSeq(up[c], 1, n)
         IN  /\ server[c].key \in Keys /\ server[c].data \in Seq(Units)
             /\ Len(server[c].data) \in Nat /\ PageUnits \in Nat /\ n \in 0..Len(up[c])
             /\ data \in Seq(Units) /\ Len(data) = Len(server[c].data) + n
             /\ Len(data) <= PageUnits
             /\ SubSeq(up[c], n + 1, Len(up[c])) \in Seq(Units)
<1>1. server[c].key \in Keys /\ server[c].data \in Seq(Units) /\ up[c] \in Seq(Units)
  <2>1. server[c] \in Servers
    BY DEF Typed, Serving
  <2> QED BY <2>1 DEF Servers, NextHeader, Quit, Typed, Wired
<1>2. Len(server[c].data) \in Nat /\ Len(up[c]) \in Nat /\ PageUnits \in Nat
  BY <1>1, LenProperties, NetworkAssumption
<1>3. n \in 0..Len(up[c]) /\ Len(server[c].data) + n <= PageUnits
  BY <1>2
<1>4. SubSeq(up[c], 1, n) \in Seq(Units) /\ Len(SubSeq(up[c], 1, n)) = n
  BY <1>1, <1>3, Cut
<1>5. SubSeq(up[c], n + 1, Len(up[c])) \in Seq(Units)
  BY <1>1, <1>3, Dropped
<1> DEFINE data == server[c].data \o SubSeq(up[c], 1, n)
<1>6. data \in Seq(Units) /\ Len(data) = Len(server[c].data) + n
  BY <1>1, <1>4, Joined
<1> QED BY <1>1, <1>2, <1>3, <1>5, <1>6

LEMMA TypedServer ==
  ASSUME Typed, NEW c \in Conns, Server(c)
  PROVE  Typed'
<1>1. CASE Handle(c)
  <2>1. up[c] \in Seq(Units) /\ up[c] # <<>>
    BY <1>1 DEF Handle, Typed, Wired
  <2>2. Head(up[c]) \in Units /\ Tail(up[c]) \in Seq(Units)
    BY <2>1, HeadTailProperties
  <2>3. up' = [up EXCEPT ![c] = Tail(up[c])]
    BY <1>1 DEF Handle
  <2>4. Held' /\ Serving' /\ down' \in Seq(Units)
    <3>1. CASE IsHeader(Head(up[c]))
      BY <1>1, <2>2, <3>1, TypedCommand DEF Handle
    <3>2. CASE ~IsHeader(Head(up[c]))
      <4>1. UNCHANGED <<down, server, pages>>
        BY <1>1, <3>2 DEF Handle
      <4> QED BY <4>1, HeldEmpty DEF Typed, Serving, Wired
    <3> QED BY <3>1, <3>2
  <2>5. up' \in [Conns -> Seq(Units)] /\ \A b \in Conns : b > cur => up'[b] = <<>>
    BY <2>1, <2>2, <2>3 DEF Typed, Wired
  <2>6. UNCHANGED <<client, cur, link, saved, short, broken>>
    BY <1>1 DEF Handle, history
  <2>7. client' \in Clients /\ Stored'
    BY <2>6 DEF Typed, Stored
  <2> QED BY <2>4, <2>5, <2>6, <2>7 DEF Typed, Wired
<1>2. CASE recvall(c)
  <2>1. PICK n \in 1..(PageUnits - Len(server[c].data)) :
          /\ n <= Len(up[c])
          /\ up' = [up EXCEPT ![c] = SubSeq(up[c], n + 1, Len(up[c]))]
          /\ LET data == server[c].data \o SubSeq(up[c], 1, n)
             IN  IF Complete(data)
                 THEN pages' = Put(server[c].key, data) /\ server' = [server EXCEPT ![c] = NextHeader]
                 ELSE server' = [server EXCEPT ![c].data = data] /\ UNCHANGED pages
    BY <1>2 DEF recvall
  <2> DEFINE data == server[c].data \o SubSeq(up[c], 1, n)
             rest == SubSeq(up[c], n + 1, Len(up[c]))
  <2>2. /\ server[c].step = "data"
        /\ UNCHANGED <<client, cur, link, down, saved, short, broken>>
    BY <1>2 DEF recvall, history
  <2>3. /\ server[c].key \in Keys /\ data \in Seq(Units) /\ rest \in Seq(Units)
        /\ Len(data) \in Nat /\ PageUnits \in Nat /\ Len(data) <= PageUnits
    BY <2>1, <2>2, PageRead, LenProperties
  <2>4. up' = [up EXCEPT ![c] = rest]
    BY <2>1
  <2>5. \/ Complete(data) /\ pages' = Put(server[c].key, data) /\ server' = [server EXCEPT ![c] = NextHeader]
        \/ ~Complete(data) /\ server' = [server EXCEPT ![c].data = data] /\ UNCHANGED pages
    BY <2>1
  <2> HIDE DEF data, rest
  <2>6. up' \in [Conns -> Seq(Units)] /\ \A b \in Conns : b > cur => up'[b] = <<>>
    <3>1. c > cur => rest = <<>>
      <4>1. ASSUME c > cur PROVE FALSE
        <5>1. up[c] = <<>> /\ Len(<<>>) = 0
          BY <4>1, EmptySeq DEF Typed, Wired
        <5>2. Len(server[c].data) \in Nat /\ PageUnits \in Nat
          BY <2>1, <2>2, PageRead
        <5> QED BY <2>1, <5>1, <5>2
      <4> QED BY <4>1
    <3> QED BY <2>3, <2>4, <3>1 DEF Typed, Wired
  <2>7. Held' /\ Serving'
    <3>1. CASE Complete(data) /\ pages' = Put(server[c].key, data) /\ server' = [server EXCEPT ![c] = NextHeader]
      <4>1. Held'
        BY <2>3, <3>1, HeldStep DEF Typed, Complete
      <4>2. NextHeader \in Servers /\ NextHeader.step = "header"
        BY DEF Servers, NextHeader
      <4>3. Serving'
        BY <3>1, <4>2 DEF Typed, Serving
      <4> QED BY <4>1, <4>3
    <3>2. CASE ~Complete(data) /\ server' = [server EXCEPT ![c].data = data] /\ UNCHANGED pages
      <4>1. server[c] \in [step : {"data"}, key : Keys, data : Seq(Units)]
        BY <2>2 DEF Typed, Serving, Servers, NextHeader, Quit
      <4>2. [server[c] EXCEPT !.data = data] \in Servers /\ [server[c] EXCEPT !.data = data].data = data
        BY <2>3, <4>1 DEF Servers
      <4>3. Len(data) < PageUnits
        BY <2>3, <3>2 DEF Complete
      <4>4. server' = [server EXCEPT ![c] = [server[c] EXCEPT !.data = data]]
        BY <3>2
      <4>5. Serving'
        BY <4>2, <4>3, <4>4 DEF Typed, Serving
      <4> QED BY <3>2, <4>5, HeldEmpty DEF Typed
    <3> QED BY <2>5, <3>1, <3>2
  <2>8. client' \in Clients /\ Stored'
    BY <2>2 DEF Typed, Stored
  <2> QED BY <2>2, <2>6, <2>7, <2>8 DEF Typed, Wired
<1>3. CASE EndOfStream(c)
  <2>1. Quit \in Servers /\ Quit.step = "quit"
    BY DEF Servers, Quit
  <2>2. Serving'
    BY <1>3, <2>1 DEF EndOfStream, Typed, Serving
  <2>3. Wired'
    BY <1>3 DEF EndOfStream, wires, history, Typed, Wired
  <2> QED BY <1>3, <2>2, <2>3, HeldEmpty DEF EndOfStream, Ended, Typed, Stored
<1> QED BY <1>1, <1>2, <1>3 DEF Server

LEMMA TypedBreak == Typed /\ Break => Typed'
<1> SUFFICES ASSUME Typed, Break PROVE Typed'
  OBVIOUS
<1>1. link /\ cur \in Conns /\ up[cur] \in Seq(Units) /\ down \in Seq(Units)
  BY DEF Break, Typed, Wired
<1>2. PICK n \in 0..Len(up[cur]) : up' = [up EXCEPT ![cur] = SubSeq(up[cur], 1, n)]
  BY DEF Break
<1>3. PICK m \in 0..Len(down) : down' = SubSeq(down, 1, m)
  BY DEF Break
<1>4. SubSeq(up[cur], 1, n) \in Seq(Units) /\ down' \in Seq(Units)
  BY <1>1, <1>3, Cut
<1>5. /\ up' \in [Conns -> Seq(Units)]
      /\ \A c \in Conns : c > cur => up'[c] = <<>>
  <2>1. ~(cur > cur)
    BY DEF Typed, Wired
  <2> QED BY <1>1, <1>2, <1>4, <2>1 DEF Typed, Wired
<1>6. Wired'
  BY <1>4, <1>5 DEF Break, Typed, Wired
<1> QED BY <1>6, HeldEmpty DEF Break, Typed, Stored, Serving

LEMMA TypedKill == Typed /\ Kill => Typed'
<1> SUFFICES ASSUME Typed, Kill PROVE Typed'
  OBVIOUS
<1>1. Quit \in Servers /\ Quit.step = "quit" /\ <<>> \in Seq(Units)
  BY EmptySeq DEF Servers, Quit
<1>2. Serving' /\ Wired'
  BY <1>1 DEF Kill, history, Typed, Serving, Wired
<1> QED BY <1>2, HeldEmpty DEF Kill, Typed, Stored

LEMMA TypedNext == Typed /\ [Next]_vars => Typed'
<1> SUFFICES ASSUME Typed, [Next]_vars PROVE Typed'
  OBVIOUS
<1>1. CASE UNCHANGED vars
  BY <1>1 DEF vars, wires, history, Typed, Stored, Held, Wired, Serving
<1> QED BY <1>1, TypedClient, TypedServer, TypedBreak, TypedKill DEF Next

-----------------------------------------------------------------------------
(* The streams.                                                            *)

Alive(c) == server[c].step \in {"header", "data"}

\* The units of a page that the thread of c is waiting for.
Wanted(c) == IF server[c].step = "data" THEN PageUnits - Len(server[c].data) ELSE 0

\* The units that the call under way has still to send.
Pending == IF client.step = "page" THEN PageUnits ELSE 0

Streams ==
  /\ \A c \in Conns : Alive(c) => \E e \in Nat : Reads(Wanted(c), up[c], e)
  /\ link /\ client # Closed /\ Alive(cur) => Reads(Wanted(cur), up[cur], Pending)

LEMMA WantedNat ==
  ASSUME Typed, NEW c \in Conns
  PROVE  Wanted(c) \in Nat
<1>1. CASE server[c].step = "data"
  <2>1. server[c].data \in Seq(Units)
    BY <1>1 DEF Typed, Serving, Servers, NextHeader, Quit
  <2>2. Len(server[c].data) \in Nat /\ PageUnits \in Nat /\ Len(server[c].data) < PageUnits
    BY <1>1, <2>1, LenProperties, NetworkAssumption DEF Typed, Serving
  <2> QED BY <1>1, <2>2 DEF Wanted
<1>2. CASE server[c].step # "data"
  BY <1>2 DEF Wanted
<1> QED BY <1>1, <1>2

LEMMA PendingNat == Pending \in Nat
BY NetworkAssumption DEF Pending

LEMMA StreamsInit == Init => Streams
<1> SUFFICES ASSUME Init PROVE Streams
  OBVIOUS
<1>1. \A c \in Conns : ~Alive(c)
  BY DEF Init, Alive, Quit
<1>2. link = FALSE
  BY DEF Init
<1> QED BY <1>1, <1>2 DEF Streams

\* What a call sends is what the thread expects next.
LEMMA StreamsSent ==
  ASSUME Typed, Streams, client # Closed, UNCHANGED <<cur, link, server>>,
         NEW units \in Seq(Units), socket_send(units), Reads(Pending, units, Pending')
  PROVE  Streams'
<1> USE DEF Typed
<1>1. ASSUME NEW c \in Conns PROVE Alive(c)' = Alive(c) /\ Wanted(c)' = Wanted(c)
  BY DEF Alive, Wanted
<1>2. Pending \in Nat /\ Pending' \in Nat
  BY NetworkAssumption DEF Pending
<1>3. ASSUME link, Alive(cur) PROVE Reads(Wanted(cur), up'[cur], Pending')
  <2>1. cur \in Conns /\ up[cur] \in Seq(Units) /\ up'[cur] = up[cur] \o units
    BY <1>3, SentUnits DEF Wired
  <2>2. Wanted(cur) \in Nat /\ Reads(Wanted(cur), up[cur], Pending)
    BY <1>3, <2>1, WantedNat DEF Streams
  <2> QED BY <1>2, <2>1, <2>2, ReadsOn
<1>4. ASSUME NEW c \in Conns, Alive(c)
      PROVE  \E e \in Nat : Reads(Wanted(c), up'[c], e)
  <2>1. CASE link /\ c = cur
    BY <1>2, <1>3, <1>4, <2>1
  <2>2. CASE ~(link /\ c = cur)
    <3>1. up'[c] = up[c]
      BY <2>2, SentUnits
    <3> QED BY <1>4, <3>1 DEF Streams
  <2> QED BY <2>1, <2>2
<1>5. ASSUME link, Alive(cur)' PROVE Reads(Wanted(cur)', up'[cur], Pending')
  <2>1. cur \in Conns
    BY <1>5 DEF Wired
  <2> QED BY <1>1, <1>3, <1>5, <2>1
<1>6. \A c \in Conns : Alive(c)' => \E e \in Nat : Reads(Wanted(c)', up'[c], e)
  BY <1>1, <1>4
<1>7. link' = link /\ cur' = cur
  OBVIOUS
<1>8. link' /\ Alive(cur)' => Reads(Wanted(cur)', up'[cur'], Pending')
  BY <1>5, <1>7
<1> QED BY <1>6, <1>8 DEF Streams

LEMMA ReadsCommand ==
  ASSUME NEW k \in Keys
  PROVE  /\ Reads(0, <<[cmd |-> "PUT", key |-> k]>>, PageUnits)
         /\ Reads(0, <<[cmd |-> "GET", key |-> k]>>, 0)
         /\ Reads(0, <<[cmd |-> "RM", key |-> k]>>, 0)
BY HeaderUnits, ReadsHeader DEF After, IsPut

LEMMA StreamsClient ==
  ASSUME ~Unlocked, Typed, Streams, Client
  PROVE  Streams'
<1>1. CASE network_init
  <2>1. /\ cur' \in Conns /\ cur' > cur
        /\ server' = [server EXCEPT ![cur'] = NextHeader] /\ up' = up
    BY <1>1, NetworkAssumption DEF network_init, Typed, Wired, Conns
  <2>2. up[cur'] = <<>> /\ 0 \in Nat
    BY <2>1 DEF Typed, Wired
  <2>3. server'[cur'] = NextHeader
    BY <2>1 DEF Typed, Serving
  <2>4. Pending' = 0
    BY <1>1 DEF network_init, Pending, Idle
  <2>5. Reads(0, up'[cur'], 0)
    BY <2>1, <2>2, ReadsNothing
  <2>6. ASSUME NEW c \in Conns, Alive(c)' PROVE \E e \in Nat : Reads(Wanted(c)', up'[c], e)
    <3>1. CASE c = cur'
      <4>1. Wanted(c)' = 0
        BY <2>3, <3>1 DEF Wanted, NextHeader
      <4> QED BY <2>2, <2>5, <3>1, <4>1
    <3>2. CASE c # cur'
      <4>1. server'[c] = server[c]
        BY <2>1, <3>2 DEF Typed, Serving
      <4>2. Alive(c) /\ Wanted(c)' = Wanted(c)
        BY <2>6, <4>1 DEF Alive, Wanted
      <4> QED BY <2>1, <4>2 DEF Streams
    <3> QED BY <3>1, <3>2
  <2>7. Reads(IF server'[cur'].step = "data" THEN PageUnits - Len(server'[cur'].data) ELSE 0, up'[cur'], Pending')
    BY <2>3, <2>4, <2>5 DEF NextHeader
  <2> QED BY <2>6, <2>7 DEF Streams, Wanted
<1>2. CASE \E k \in Keys : \E v \in Values : SaveHeader(k, v)
  <2>1. PICK k \in Keys, v \in Values : SaveHeader(k, v)
    BY <1>2
  <2>2. Pending = 0 /\ Pending' = PageUnits
    BY <2>1 DEF SaveHeader, Pending, Idle
  <2>3. client # Closed
    BY <2>1 DEF SaveHeader, Idle, Closed
  <2> QED BY <2>1, <2>2, <2>3, HeaderUnits, ReadsCommand, StreamsSent DEF SaveHeader
<1>3. CASE SavePage
  <2>1. Pending = PageUnits /\ Pending' = 0 /\ client # Closed
    BY <1>3 DEF SavePage, Pending, Idle, Closed
  <2>2. client.value \in Values
    BY <1>3 DEF SavePage, Typed, Clients, Idle, Closed
  <2> QED BY <1>3, <2>1, <2>2, PageUnitsOf, ReadsPage, StreamsSent DEF SavePage
<1>4. CASE \E k \in Keys : network_remove(k)
  <2>1. PICK k \in Keys : network_remove(k)
    BY <1>4
  <2>2. Pending = 0 /\ Pending' = 0 /\ client # Closed
    BY <2>1 DEF network_remove, Pending
  <2> QED BY <2>1, <2>2, HeaderUnits, ReadsCommand, StreamsSent DEF network_remove
<1>5. CASE \E k \in Keys : LoadHeader(k)
  <2>1. PICK k \in Keys : LoadHeader(k)
    BY <1>5
  <2>2. Pending = 0 /\ Pending' = 0 /\ client # Closed
    BY <2>1 DEF LoadHeader, Pending, Idle, Closed
  <2> QED BY <2>1, <2>2, HeaderUnits, ReadsCommand, StreamsSent DEF LoadHeader
<1>6. CASE socket_recv
  <2>1. Pending' = Pending /\ client # Closed /\ UNCHANGED <<cur, link, up, server>>
    BY <1>6 DEF socket_recv, Pending, Idle, Closed
  <2> QED BY <2>1 DEF Streams, Alive, Wanted
<1>7. CASE network_release
  <2>1. Pending = 0 /\ Pending' = 0 /\ client # Closed
    BY <1>7 DEF network_release, Pending, Idle, Closed
  <2>2. Reads(0, <<[cmd |-> "RELEASE"]>>, 0)
    BY ReleaseUnit, ReadsHeader DEF After, IsPut
  <2> QED BY <1>7, <2>1, <2>2, ReleaseUnit, StreamsSent DEF network_release
<1> QED BY <1>1, <1>2, <1>3, <1>4, <1>5, <1>6, <1>7 DEF Client

\* A thread that reads what it wants next, or a header, is left with a stream it
\* can read; so is one that ends.
LEMMA StreamsRead ==
  ASSUME Typed, Streams, UNCHANGED <<client, cur, link>>, NEW c \in Conns, Alive(c),
         NEW n \in 0..Len(up[c]), n <= Wanted(c) \/ n = 1,
         up' = [up EXCEPT ![c] = SubSeq(up[c], n + 1, Len(up[c]))],
         \A b \in Conns : b # c => server'[b] = server[b],
         Alive(c)' => Wanted(c)' = IF n <= Wanted(c) THEN Wanted(c) - n ELSE After(up[c][1])
  PROVE  Streams'
<1> DEFINE want == IF n <= Wanted(c) THEN Wanted(c) - n ELSE After(up[c][1])
<1>1. Wanted(c) \in Nat /\ Pending \in Nat /\ Pending' = Pending
  BY WantedNat, PendingNat DEF Pending
<1>2. up[c] \in Seq(Units) /\ up'[c] = SubSeq(up[c], n + 1, Len(up[c]))
  BY DEF Typed, Wired
<1>3. ASSUME NEW e \in Nat, Reads(Wanted(c), up[c], e) PROVE Reads(want, up'[c], e)
  BY <1>1, <1>2, <1>3, ReadsRest
<1> HIDE DEF want
<1>4. Alive(c)' => Wanted(c)' = want
  BY DEF want
<1>5. ASSUME NEW b \in Conns, b # c
      PROVE  Alive(b)' = Alive(b) /\ Wanted(b)' = Wanted(b) /\ up'[b] = up[b]
  BY <1>5 DEF Alive, Wanted, Typed, Wired
<1>6. ASSUME NEW b \in Conns, Alive(b)' PROVE \E e \in Nat : Reads(Wanted(b)', up'[b], e)
  <2>1. CASE b = c
    <3>1. PICK e \in Nat : Reads(Wanted(c), up[c], e)
      BY DEF Streams
    <3> QED BY <1>3, <1>4, <1>6, <2>1, <3>1
  <2>2. CASE b # c
    BY <1>5, <1>6, <2>2 DEF Streams
  <2> QED BY <2>1, <2>2
<1>7. ASSUME link, client # Closed, Alive(cur)' PROVE Reads(Wanted(cur)', up'[cur], Pending')
  <2>1. cur \in Conns
    BY <1>7 DEF Typed, Wired
  <2>2. CASE cur = c
    <3>1. Reads(Wanted(c), up[c], Pending)
      BY <1>7, <2>2 DEF Streams
    <3> QED BY <1>1, <1>3, <1>4, <1>7, <2>2, <3>1
  <2>3. CASE cur # c
    BY <1>1, <1>5, <1>7, <2>1, <2>3 DEF Streams
  <2> QED BY <2>2, <2>3
<1>8. link' = link /\ client' = client /\ cur' = cur
  OBVIOUS
<1>9. link' /\ client' # Closed /\ Alive(cur)' => Reads(Wanted(cur)', up'[cur'], Pending')
  BY <1>7, <1>8
<1> QED BY <1>6, <1>9 DEF Streams

LEMMA StreamsServer ==
  ASSUME Typed, Streams, NEW c \in Conns, Server(c)
  PROVE  Streams'
<1>1. up[c] \in Seq(Units) /\ server[c] \in Servers
  BY DEF Typed, Wired, Serving
<1>2. CASE Handle(c)
  <2> DEFINE h == Head(up[c])
  <2>1. server[c].step = "header" /\ up[c] # <<>> /\ Alive(c) /\ Wanted(c) = 0
    BY <1>2 DEF Handle, Alive, Wanted
  <2>2. Tail(up[c]) = SubSeq(up[c], 1 + 1, Len(up[c])) /\ Len(up[c]) \in Nat \ {0}
    BY <1>1, <2>1, TailIsSubSeq, EmptySeq
  <2>3. up' = [up EXCEPT ![c] = SubSeq(up[c], 1 + 1, Len(up[c]))] /\ 1 \in 0..Len(up[c])
    <3>1. up' = [up EXCEPT ![c] = Tail(up[c])]
      BY <1>2 DEF Handle
    <3>2. 1 \in 0..Len(up[c])
      BY <2>2
    <3>3. up' = [up EXCEPT ![c] = SubSeq(up[c], 1 + 1, Len(up[c]))]
      BY <2>2, <3>1, Zenon
    <3> QED BY <3>2, <3>3
  <2>4. \A b \in Conns : b # c => server'[b] = server[b]
    BY <1>2 DEF Handle, Command, Typed, Serving
  <2>5. h = up[c][1]
    BY <1>1, <2>1
  <2>6. Alive(c)' => Wanted(c)' = After(h)
    <3>1. CASE IsHeader(h)
      <4>1. Command(c, h)
        BY <1>2, <3>1 DEF Handle
      <4>2. CASE h.cmd = "PUT" /\ server' = [server EXCEPT ![c] = [step |-> "data", key |-> h.key, data |-> <<>>]]
        <5>1. server'[c].step = "data" /\ server'[c].data = <<>>
          BY <4>2 DEF Typed, Serving
        <5>2. Len(<<>>) = 0 /\ PageUnits \in Nat
          BY EmptySeq, NetworkAssumption
        <5>3. Wanted(c)' = PageUnits
          BY <5>1, <5>2 DEF Wanted
        <5> QED BY <3>1, <4>2, <5>3 DEF After, IsPut
      <4>3. CASE h.cmd # "PUT" /\ server' = server
        BY <2>1, <4>3 DEF Wanted, After, IsPut
      <4>4. CASE server' = [server EXCEPT ![c] = Quit]
        BY <4>4 DEF Alive, Quit, Typed, Serving
      <4> QED BY <4>1, <4>2, <4>3, <4>4 DEF Command
    <3>2. CASE ~IsHeader(h)
      BY <1>2, <2>1, <3>2 DEF Handle, Wanted, After, IsPut
    <3> QED BY <3>1, <3>2
  <2>7. UNCHANGED <<client, cur, link>>
    BY <1>2 DEF Handle
  <2>8. ~(1 <= Wanted(c))
    BY <2>1
  <2> HIDE DEF h
  <2> QED BY <2>1, <2>3, <2>4, <2>5, <2>6, <2>7, <2>8, StreamsRead
<1>3. CASE recvall(c)
  <2>1. PICK n \in 1..(PageUnits - Len(server[c].data)) :
          /\ n <= Len(up[c])
          /\ up' = [up EXCEPT ![c] = SubSeq(up[c], n + 1, Len(up[c]))]
          /\ LET data == server[c].data \o SubSeq(up[c], 1, n)
             IN  IF Complete(data)
                 THEN pages' = Put(server[c].key, data) /\ server' = [server EXCEPT ![c] = NextHeader]
                 ELSE server' = [server EXCEPT ![c].data = data] /\ UNCHANGED pages
    BY <1>3 DEF recvall
  <2> DEFINE data == server[c].data \o SubSeq(up[c], 1, n)
  <2>2. server[c].step = "data" /\ UNCHANGED <<client, cur, link>> /\ Alive(c)
    BY <1>3 DEF recvall, Alive
  <2>3. /\ n \in 0..Len(up[c]) /\ PageUnits \in Nat /\ Len(server[c].data) \in Nat
        /\ Len(data) = Len(server[c].data) + n
    BY <2>1, <2>2, PageRead
  <2>4. Wanted(c) = PageUnits - Len(server[c].data) /\ n <= Wanted(c)
    BY <2>2, <2>3 DEF Wanted
  <2>5. \/ Complete(data) /\ server' = [server EXCEPT ![c] = NextHeader]
        \/ ~Complete(data) /\ server' = [server EXCEPT ![c].data = data]
    BY <2>1
  <2> HIDE DEF data
  <2>6. Wanted(c)' = Wanted(c) - n
    <3>1. CASE Complete(data) /\ server' = [server EXCEPT ![c] = NextHeader]
      <4>1. server'[c].step = "header"
        BY <3>1 DEF Typed, Serving, NextHeader
      <4>2. Wanted(c)' = 0
        BY <4>1 DEF Wanted
      <4> QED BY <2>3, <2>4, <3>1, <4>2 DEF Complete
    <3>2. CASE ~Complete(data) /\ server' = [server EXCEPT ![c].data = data]
      <4>1. server[c] \in [step : {"data"}, key : Keys, data : Seq(Units)]
        BY <1>1, <2>2 DEF Servers, NextHeader, Quit
      <4>2. server'[c].step = "data" /\ server'[c].data = data
        BY <3>2, <4>1 DEF Typed, Serving
      <4>3. Wanted(c)' = PageUnits - Len(data)
        BY <4>2 DEF Wanted
      <4> QED BY <2>3, <2>4, <4>3
    <3> QED BY <2>5, <3>1, <3>2
  <2>7. \A b \in Conns : b # c => server'[b] = server[b]
    BY <2>5 DEF Typed, Serving
  <2> QED BY <2>1, <2>2, <2>3, <2>4, <2>6, <2>7, StreamsRead
<1>4. CASE EndOfStream(c)
  <2>1. ~Alive(c)'
    BY <1>4 DEF EndOfStream, Alive, Quit, Typed, Serving
  <2>2. \A b \in Conns : b # c => server'[b] = server[b]
    BY <1>4 DEF EndOfStream, Typed, Serving
  <2>3. UNCHANGED <<client, cur, link, up>> /\ Pending' = Pending
    BY <1>4 DEF EndOfStream, wires, Pending
  <2>4. \A b \in Conns : b # c => Alive(b)' = Alive(b) /\ Wanted(b)' = Wanted(b)
    BY <2>2 DEF Alive, Wanted
  <2>5. \A b \in Conns : Alive(b)' => \E e \in Nat : Reads(Wanted(b)', up'[b], e)
    BY <2>1, <2>3, <2>4 DEF Streams
  <2>6. link => cur \in Conns
    BY DEF Typed, Wired
  <2>7. link /\ client # Closed /\ Alive(cur)' => Reads(Wanted(cur)', up[cur], Pending)
    <3>1. CASE cur = c
      BY <2>1, <2>3, <3>1 DEF Alive
    <3>2. CASE cur # c
      <4>1. ASSUME link, client # Closed, Alive(cur)' PROVE Reads(Wanted(cur)', up[cur], Pending)
        <5>1. cur \in Conns /\ cur' = cur
          BY <2>3, <2>6, <4>1
        <5>2. Alive(cur) /\ Wanted(cur)' = Wanted(cur)
          BY <2>2, <3>2, <4>1, <5>1 DEF Alive, Wanted
        <5> QED BY <4>1, <5>2 DEF Streams
      <4> QED BY <4>1
    <3> QED BY <3>1, <3>2
  <2>8. link' /\ client' # Closed /\ Alive(cur)' => Reads(Wanted(cur)', up'[cur'], Pending')
    BY <2>3, <2>7
  <2> QED BY <2>5, <2>8 DEF Streams
<1> QED BY <1>2, <1>3, <1>4 DEF Server

LEMMA StreamsBreak ==
  ASSUME Typed, Streams, Break
  PROVE  Streams'
<1>1. link /\ cur \in Conns /\ up[cur] \in Seq(Units)
  BY DEF Break, Typed, Wired
<1>2. PICK n \in 0..Len(up[cur]) : up' = [up EXCEPT ![cur] = SubSeq(up[cur], 1, n)]
  BY DEF Break
<1>3. ~link' /\ server' = server
  BY DEF Break
<1>4. ASSUME NEW c \in Conns, Alive(c) PROVE \E e \in Nat : Reads(Wanted(c), up'[c], e)
  <2>1. CASE c = cur
    <3>1. PICK f \in Nat : Reads(Wanted(c), up[c], f)
      BY <1>4 DEF Streams
    <3>2. Wanted(c) \in Nat /\ up'[c] = SubSeq(up[c], 1, n)
      BY <1>2, <2>1, WantedNat DEF Typed, Wired
    <3> QED BY <1>1, <2>1, <3>1, <3>2, ReadsCut
  <2>2. CASE c # cur
    <3>1. up'[c] = up[c]
      BY <1>2, <2>2 DEF Typed, Wired
    <3> QED BY <1>4, <3>1 DEF Streams
  <2> QED BY <2>1, <2>2
<1>5. \A c \in Conns : Alive(c)' = Alive(c) /\ Wanted(c)' = Wanted(c)
  BY <1>3 DEF Alive, Wanted
<1>6. \A c \in Conns : Alive(c)' => \E e \in Nat : Reads(Wanted(c)', up'[c], e)
  BY <1>4, <1>5
<1> QED BY <1>3, <1>6 DEF Streams

LEMMA StreamsKill ==
  ASSUME Typed, Streams, Kill
  PROVE  Streams'
<1>1. ~link' /\ \A c \in Conns : ~Alive(c)'
  BY DEF Kill, Alive, Quit
<1> QED BY <1>1 DEF Streams

LEMMA StreamsNext == ASSUME ~Unlocked, Typed, Streams, [Next]_vars PROVE Streams'
<1>1. CASE UNCHANGED vars
  BY <1>1 DEF vars, wires, Streams, Alive, Wanted, Pending
<1> QED BY <1>1, StreamsClient, StreamsServer, StreamsBreak, StreamsKill DEF Next

LEMMA StreamsAligned == Typed /\ Streams => Aligned
<1> SUFFICES ASSUME Typed, Streams, NEW c \in Conns, server[c].step = "header", up[c] # <<>>
             PROVE  IsHeader(Head(up[c]))
  BY DEF Aligned
<1>1. up[c] \in Seq(Units)
  BY DEF Typed, Wired
<1>2. Alive(c) /\ Wanted(c) = 0
  BY DEF Alive, Wanted
<1>3. PICK e \in Nat : Reads(0, up[c], e)
  BY <1>2 DEF Streams
<1>4. PICK w \in [0..Len(up[c]) -> Nat] : w[0] = 0 /\ Reading(up[c], w)
  BY <1>3 DEF Reads
<1>5. 1 \in 1..Len(up[c]) /\ 1 - 1 = 0
  BY <1>1, EmptySeq
<1>6. IsHeader(up[c][1])
  BY <1>4, <1>5 DEF Reading
<1> QED BY <1>1, <1>6

-----------------------------------------------------------------------------
(* The theorems.                                                           *)

\* Every variable of the network storage has its type.
THEOREM StorageTyped == Spec => []TypeOK
BY TypedInit, TypedNext, TypedTypeOK, PTL DEF Spec

\* When no close handler sends in the middle of a save, a server thread finds a
\* header wherever it looks for one: for pages and packets of every size, any
\* number of connections, and breaks and kills at any unit (server.py:50-57, 78-81).
THEOREM StreamAligned == ~Unlocked => (Spec => []Aligned)
<1> SUFFICES ASSUME ~Unlocked PROVE Spec => []Aligned
  OBVIOUS
<1>1. Init => Typed /\ Streams
  BY TypedInit, StreamsInit
<1>2. Typed /\ Streams /\ [Next]_vars => (Typed /\ Streams)'
  BY TypedNext, StreamsNext
<1>3. Typed /\ Streams => Aligned
  BY StreamsAligned
<1> QED BY <1>1, <1>2, <1>3, PTL DEF Spec

\* What holds of the network storage holds when both implementations of
\* storage_ops get the same calls.
THEOREM StorageIsNetwork == StorageSpec => Spec
<1>1. StorageInit => Init
  BY DEF StorageInit
<1>2. [StorageNext]_storageVars => [Next]_vars
  BY DEF StorageNext, init, save, remove, release, Inner, storageVars, Next, Client
<1> QED BY <1>1, <1>2, PTL DEF StorageSpec, Spec
=============================================================================
