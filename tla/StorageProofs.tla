--------------------------- MODULE StorageProofs ----------------------------
(***************************************************************************)
(* Theorems about what the two storages hold: that a load has what was     *)
(* saved last, for any keys, values, page size and number of connections.  *)
(***************************************************************************)
EXTENDS NetworkProofs, FiniteSetTheorems, WellFoundedInduction

-----------------------------------------------------------------------------
(* Numbers.                                                                *)

LEMMA LeastOf ==
  ASSUME NEW T, T \subseteq Nat, T # {}
  PROVE  \E x \in T : \A y \in T : x <= y
<1> DEFINE R == OpToRel(<, Nat)
<1>1. IsWellFoundedOn(R, Nat)
  BY NatLessThanWellFounded, Zenon
<1>2. \A m, n \in Nat : m < n => <<m, n>> \in R
  BY DEF OpToRel
<1> HIDE DEF R
<1>3. PICK x \in T : \A y \in T : ~(<<y, x>> \in R)
  BY <1>1, WFMin
<1>4. ASSUME NEW y \in T PROVE x <= y
  <2>1. ~(y < x)
    BY <1>2, <1>3
  <2> QED BY <2>1
<1> QED BY <1>4

-----------------------------------------------------------------------------
(* What a stream does to the dict of the server.                           *)

\* The thread of the server after some units: how many it wants of a page, that
\* page, and the value that the dict has under each key.
Moment(want, key, value, dict) ==
  [want |-> want, key |-> key, value |-> value, dict |-> dict]

\* The dict after a header.
Effect(u, dict) ==
  IF u.cmd = "RM" THEN Without(dict, u.key) ELSE IF u.cmd = "RELEASE" THEN Nothing ELSE dict

Done(a) == IF a.want = 1 THEN With(a.dict, a.key, a.value) ELSE a.dict

\* One unit takes the thread from a to b.
ReadsOne(a, u, b) ==
  \/ /\ a.want = 0 /\ IsPut(u)
     /\ b = Moment(PageUnits, u.key, b.value, a.dict)
  \/ /\ a.want = 0 /\ IsHeader(u) /\ ~IsPut(u)
     /\ b = Moment(0, a.key, a.value, Effect(u, a.dict))
  \/ /\ a.want \in 1..PageUnits /\ u = Page(a.value)[PageUnits - a.want + 1]
     /\ a.value \in Values
     /\ b = Moment(a.want - 1, a.key, a.value, Done(a))

\* x is the thread's way through s.
Story(s, x) == \A i \in 1..Len(s) : ReadsOne(x[i - 1], s[i], x[i])

LEMMA StoryOn ==
  ASSUME NEW s \in Seq(Units), NEW r \in Seq(Units), NEW x, NEW y,
         Story(s, x), Story(r, y), y[0] = x[Len(s)]
  PROVE  \E z : /\ Story(s \o r, z) /\ z[Len(s \o r)] = y[Len(r)]
                /\ \A i \in 0..Len(s) : z[i] = x[i]
<1> DEFINE m == Len(s)
           n == Len(r)
           z == [i \in 0..(m + n) |-> IF i <= m THEN x[i] ELSE y[i - m]]
<1>1. m \in Nat /\ n \in Nat
  BY LenProperties
<1>2. /\ Len(s \o r) = m + n
      /\ \A i \in 1..m : (s \o r)[i] = s[i]
      /\ \A i \in 1..n : (s \o r)[m + i] = r[i]
  BY Joined
<1>3. \A i \in 0..m : z[i] = x[i]
  BY <1>1
<1>4. \A i \in 0..n : z[m + i] = y[i]
  <2>1. ASSUME NEW i \in 0..n PROVE z[m + i] = y[i]
    <3>1. m + i \in 0..(m + n) /\ m + i - m = i
      BY <1>1
    <3>2. CASE i = 0
      <4>1. m + i = m /\ m \in 0..m
        BY <1>1, <3>2
      <4> QED BY <1>3, <3>2, <4>1
    <3>3. CASE i # 0
      <4>1. ~(m + i <= m)
        BY <1>1, <3>3
      <4> QED BY <3>1, <4>1
    <3> QED BY <3>2, <3>3
  <2> QED BY <2>1
<1> HIDE DEF z
<1>5. ASSUME NEW i \in 1..(m + n) PROVE ReadsOne(z[i - 1], (s \o r)[i], z[i])
  <2>1. CASE i \in 1..m
    <3>1. i \in 0..m /\ i - 1 \in 0..m
      BY <1>1, <2>1
    <3>2. ReadsOne(x[i - 1], s[i], x[i])
      BY <2>1 DEF Story
    <3> QED BY <1>2, <1>3, <2>1, <3>1, <3>2
  <2>2. CASE i \notin 1..m
    <3> DEFINE j == i - m
    <3>1. j \in 1..n /\ j \in 0..n /\ j - 1 \in 0..n /\ m + j = i /\ m + (j - 1) = i - 1
      BY <1>1, <2>2
    <3> HIDE DEF j
    <3>2. z[i] = y[j] /\ z[i - 1] = y[j - 1]
      <4>1. z[m + j] = y[j] /\ z[m + (j - 1)] = y[j - 1]
        BY <1>4, <3>1
      <4> QED BY <3>1, <4>1
    <3>3. (s \o r)[i] = r[j]
      <4>1. (s \o r)[m + j] = r[j]
        BY <1>2, <3>1
      <4> QED BY <3>1, <4>1
    <3>4. ReadsOne(y[j - 1], r[j], y[j])
      BY <3>1 DEF Story
    <3> QED BY <3>2, <3>3, <3>4
  <2> QED BY <2>1, <2>2
<1>6. n \in 0..n
  BY <1>1
<1>7. z[m + n] = y[n]
  BY <1>4, <1>6
<1>8. Story(s \o r, z)
  BY <1>2, <1>5 DEF Story
<1> QED BY <1>2, <1>3, <1>7, <1>8

LEMMA StoryRest ==
  ASSUME NEW s \in Seq(Units), NEW n \in 0..Len(s), NEW x, Story(s, x)
  PROVE  LET r == SubSeq(s, n + 1, Len(s))
         IN  \E y : /\ Story(r, y) /\ y[Len(r)] = x[Len(s)]
                    /\ \A i \in 0..Len(r) : y[i] = x[n + i]
<1> DEFINE r == SubSeq(s, n + 1, Len(s))
           m == Len(s) - n
           y == [i \in 0..m |-> x[n + i]]
<1>1. Len(s) \in Nat /\ m \in Nat /\ n \in Nat
  BY LenProperties
<1>2. r \in Seq(Units) /\ Len(r) = m /\ \A i \in 1..m : r[i] = s[n + i]
  BY Dropped
<1>3. \A i \in 0..m : y[i] = x[n + i]
  OBVIOUS
<1> HIDE DEF r, y
<1>4. ASSUME NEW i \in 1..m PROVE ReadsOne(y[i - 1], r[i], y[i])
  <2>1. i \in 0..m /\ i - 1 \in 0..m /\ n + i \in 1..Len(s) /\ n + (i - 1) = n + i - 1
    BY <1>1
  <2>2. ReadsOne(x[n + i - 1], s[n + i], x[n + i])
    BY <2>1 DEF Story
  <2>3. y[i - 1] = x[n + i - 1] /\ y[i] = x[n + i]
    <3>1. y[i - 1] = x[n + (i - 1)] /\ y[i] = x[n + i]
      BY <1>3, <2>1
    <3> QED BY <2>1, <3>1
  <2> QED BY <1>2, <2>2, <2>3
<1>5. m \in 0..m /\ n + m = Len(s)
  BY <1>1
<1>6. y[m] = x[Len(s)]
  <2>1. y[m] = x[n + m]
    BY <1>3, <1>5
  <2> QED BY <1>5, <2>1
<1>7. Story(r, y)
  BY <1>2, <1>4 DEF Story
<1> QED BY <1>2, <1>3, <1>6, <1>7 DEF r

LEMMA StoryCut ==
  ASSUME NEW s \in Seq(Units), NEW n \in 0..Len(s), NEW x, Story(s, x)
  PROVE  Story(SubSeq(s, 1, n), x)
<1>1. /\ Len(SubSeq(s, 1, n)) = n
      /\ \A i \in 1..n : SubSeq(s, 1, n)[i] = s[i]
  BY Cut
<1>2. \A i \in 1..n : i \in 1..Len(s)
  BY LenProperties
<1> QED BY <1>1, <1>2 DEF Story

LEMMA StoryNothing ==
  ASSUME NEW a
  PROVE  \E x : Story(<<>>, x) /\ x[0] = a
<1> DEFINE x == [i \in 0..0 |-> a]
<1>1. Len(<<>>) = 0
  BY EmptySeq
<1>2. x[0] = a
  OBVIOUS
<1>3. Story(<<>>, x)
  BY <1>1 DEF Story
<1> QED BY <1>2, <1>3

LEMMA StoryHeader ==
  ASSUME NEW h, NEW a, NEW b, ReadsOne(a, h, b)
  PROVE  \E x : Story(<<h>>, x) /\ x[0] = a /\ x[Len(<<h>>)] = b
<1> DEFINE x == [i \in 0..1 |-> IF i = 0 THEN a ELSE b]
<1>1. Len(<<h>>) = 1 /\ <<h>>[1] = h
  OBVIOUS
<1>2. x[0] = a /\ x[1] = b
  OBVIOUS
<1> HIDE DEF x
<1>3. ASSUME NEW i \in 1..1 PROVE ReadsOne(x[i - 1], <<h>>[i], x[i])
  <2>1. i = 1 /\ i - 1 = 0
    OBVIOUS
  <2> QED BY <1>1, <1>2, <2>1
<1> QED BY <1>1, <1>2, <1>3 DEF Story

LEMMA MomentIs ==
  ASSUME NEW want, NEW key, NEW value, NEW dict
  PROVE  LET a == Moment(want, key, value, dict)
         IN  a.want = want /\ a.key = key /\ a.value = value /\ a.dict = dict
BY DEF Moment

\* A whole page.
LEMMA StoryPage ==
  ASSUME NEW v \in Values, NEW key, NEW dict
  PROVE  \E x : /\ Story(Page(v), x) /\ x[0] = Moment(PageUnits, key, v, dict)
                /\ x[Len(Page(v))] = Moment(0, key, v, With(dict, key, v))
<1> DEFINE d(i) == IF i = PageUnits THEN With(dict, key, v) ELSE dict
           x == [i \in 0..PageUnits |-> Moment(PageUnits - i, key, v, d(i))]
<1>1. PageUnits \in Nat /\ PageUnits > 0 /\ Len(Page(v)) = PageUnits
  BY NetworkAssumption, PageUnitsOf
<1>2. \A i \in 0..PageUnits : x[i] = Moment(PageUnits - i, key, v, d(i))
  OBVIOUS
<1> HIDE DEF x
<1>3. ASSUME NEW i \in 1..PageUnits PROVE ReadsOne(x[i - 1], Page(v)[i], x[i])
  <2> DEFINE a == x[i - 1]
  <2>1. i \in 0..PageUnits /\ i - 1 \in 0..PageUnits /\ i - 1 # PageUnits
    BY <1>1
  <2>2. a = Moment(PageUnits - (i - 1), key, v, dict)
    BY <1>2, <2>1
  <2>3. a.want = PageUnits - (i - 1) /\ a.key = key /\ a.value = v /\ a.dict = dict
    BY <2>2, MomentIs
  <2> HIDE DEF a
  <2>4. /\ a.want \in 1..PageUnits /\ PageUnits - a.want + 1 = i /\ a.want - 1 = PageUnits - i
        /\ (a.want = 1 <=> i = PageUnits)
    BY <1>1, <2>3
  <2>5. Done(a) = d(i)
    BY <2>3, <2>4 DEF Done
  <2>6. x[i] = Moment(a.want - 1, a.key, a.value, Done(a))
    <3>1. x[i] = Moment(PageUnits - i, key, v, d(i))
      BY <1>2, <2>1
    <3> QED BY <2>3, <2>4, <2>5, <3>1
  <2>7. ReadsOne(a, Page(v)[i], x[i])
    BY <2>3, <2>4, <2>6 DEF ReadsOne
  <2> QED BY <2>7 DEF a
<1>4. x[0] = Moment(PageUnits, key, v, dict)
  <2>1. 0 \in 0..PageUnits /\ PageUnits - 0 = PageUnits /\ 0 # PageUnits
    BY <1>1
  <2> QED BY <1>2, <2>1
<1>5. x[PageUnits] = Moment(0, key, v, With(dict, key, v))
  <2>1. PageUnits \in 0..PageUnits /\ PageUnits - PageUnits = 0
    BY <1>1
  <2> QED BY <1>2, <2>1
<1>6. Story(Page(v), x)
  BY <1>1, <1>3 DEF Story
<1> QED BY <1>1, <1>4, <1>5, <1>6

\* A thread in the middle of a page reads units of that page only.
PartOf(a, b, i) ==
  /\ b.want = a.want - i /\ b.key = a.key /\ b.value = a.value
  /\ i < a.want => b.dict = a.dict
  /\ i > 0 /\ i = a.want => b.dict = With(a.dict, a.key, a.value)

LEMMA PartOn ==
  ASSUME NEW a, NEW b, NEW u, NEW c, NEW i \in Nat,
         a.want \in Nat, a.want <= PageUnits, i < a.want, PartOf(a, b, i), ReadsOne(b, u, c)
  PROVE  PartOf(a, c, i + 1) /\ u = Page(a.value)[PageUnits - a.want + (i + 1)] /\ a.value \in Values
<1>1. /\ b.want = a.want - i /\ b.key = a.key /\ b.value = a.value /\ b.dict = a.dict
      /\ b.want # 0 /\ PageUnits \in Nat
  BY NetworkAssumption DEF PartOf
<1>2. /\ b.value \in Values /\ u = Page(b.value)[PageUnits - b.want + 1]
      /\ c = Moment(b.want - 1, b.key, b.value, Done(b))
  BY <1>1 DEF ReadsOne
<1>3. c.want = b.want - 1 /\ c.key = b.key /\ c.value = b.value /\ c.dict = Done(b)
  BY <1>2, MomentIs
<1>4. /\ PageUnits - b.want + 1 = PageUnits - a.want + (i + 1) /\ b.want - 1 = a.want - (i + 1)
      /\ (b.want = 1 <=> i + 1 = a.want) /\ (i + 1 < a.want => b.want # 1)
  BY <1>1
<1>5. Done(b) = IF b.want = 1 THEN With(a.dict, a.key, a.value) ELSE a.dict
  BY <1>1 DEF Done
<1>6. PartOf(a, c, i + 1)
  BY <1>1, <1>3, <1>4, <1>5 DEF PartOf
<1> QED BY <1>1, <1>2, <1>4, <1>6

LEMMA PartOfPage ==
  ASSUME NEW s \in Seq(Units), NEW x, Story(s, x), NEW n \in 0..Len(s),
         x[0].want \in Nat, x[0].want <= PageUnits, n <= x[0].want
  PROVE  /\ \A i \in 0..n : PartOf(x[0], x[i], i)
         /\ \A i \in 1..n : s[i] = Page(x[0].value)[PageUnits - x[0].want + i]
         /\ n > 0 => x[0].value \in Values
<1> DEFINE a == x[0]
           Wrong == {i \in 0..n : ~PartOf(a, x[i], i)}
<1>1. Len(s) \in Nat /\ n \in Nat
  BY LenProperties
<1>2. PartOf(a, x[0], 0)
  BY DEF PartOf
<1>3. ASSUME NEW i \in Nat, i + 1 \in 0..n, PartOf(a, x[i], i)
      PROVE  /\ PartOf(a, x[i + 1], i + 1) /\ a.value \in Values
             /\ s[i + 1] = Page(a.value)[PageUnits - a.want + (i + 1)]
  <2>1. i + 1 \in 1..Len(s) /\ i + 1 - 1 = i /\ i < a.want
    BY <1>1, <1>3
  <2>2. ReadsOne(x[i + 1 - 1], s[i + 1], x[i + 1])
    BY <2>1 DEF Story
  <2>3. ReadsOne(x[i], s[i + 1], x[i + 1])
    BY <2>1, <2>2
  <2> QED BY <1>3, <2>1, <2>3, PartOn
<1> HIDE DEF a
<1>4. \A i \in 0..n : PartOf(a, x[i], i)
  <2>1. SUFFICES ASSUME Wrong # {} PROVE FALSE
    OBVIOUS
  <2>2. Wrong \subseteq Nat
    BY <1>1
  <2>3. PICK m \in Wrong : \A j \in Wrong : m <= j
    BY <2>1, <2>2, LeastOf
  <2>4. m # 0 /\ m \in 0..n
    BY <1>2, <2>3
  <2>5. m - 1 \in 0..n /\ m - 1 \in Nat /\ m - 1 + 1 = m /\ ~(m <= m - 1)
    BY <1>1, <2>4
  <2>6. PartOf(a, x[m - 1], m - 1)
    BY <2>3, <2>5
  <2>7. PartOf(a, x[m], m)
    <3>1. PartOf(a, x[m - 1 + 1], m - 1 + 1)
      BY <1>3, <2>4, <2>5, <2>6
    <3> QED BY <2>5, <3>1
  <2> QED BY <2>3, <2>7
<1>5. ASSUME NEW i \in 1..n
      PROVE  s[i] = Page(a.value)[PageUnits - a.want + i] /\ a.value \in Values
  <2>1. i - 1 \in Nat /\ i - 1 + 1 = i /\ i - 1 \in 0..n /\ i \in 0..n
    BY <1>1
  <2>2. s[i - 1 + 1] = Page(a.value)[PageUnits - a.want + (i - 1 + 1)] /\ a.value \in Values
    BY <1>3, <1>4, <2>1
  <2> QED BY <2>1, <2>2
<1>6. n > 0 => 1 \in 1..n
  BY <1>1
<1> QED BY <1>4, <1>5, <1>6 DEF a

-----------------------------------------------------------------------------
(* What the server and the streams hold.                                   *)

PagesOf(dict) == [k \in DOMAIN dict |-> Page(dict[k])]

IsGet(u) == IsHeader(u) /\ u.cmd = "GET"

\* A thread in state s is at a, when the dict is p.
Reader(a, s, p) ==
  /\ p = PagesOf(a.dict)
  /\ a = Moment(a.want, a.key, a.value, a.dict)
  /\ s.step = "header" => a.want = 0
  /\ s.step = "data" =>
       /\ a.want = PageUnits - Len(s.data) /\ a.key = s.key
       /\ \A i \in 1..Len(s.data) : s.data[i] = Page(a.value)[i]

\* The values v are in the dict, and alone unless a connection broke.
Keeps(dict, v, br) ==
  /\ DOMAIN v \subseteq DOMAIN dict /\ \A k \in DOMAIN v : dict[k] = v[k]
  /\ ~br => DOMAIN dict = DOMAIN v

\* What the call c has still to send goes on from b.
Ends(b, c, v, br) ==
  /\ Keeps(b.dict, v, br)
  /\ IF c.step = "page" THEN b = Moment(PageUnits, c.key, c.value, b.dict)
     ELSE b = Moment(0, b.key, b.value, b.dict)

\* A GET is in the stream s only for the load under way, before its answer d, and
\* meets the value last saved.
Turn(s, x, c, d, v) ==
  IF c.step = "recv" /\ d = <<>>
  THEN \E g \in 1..Len(s) :
         /\ s[g] = [cmd |-> "GET", key |-> c.key]
         /\ c.key \in DOMAIN x[g - 1].dict /\ x[g - 1].dict[c.key] = v[c.key]
         /\ \A i \in 1..Len(s) : IsGet(s[i]) => i = g
  ELSE \A i \in 1..Len(s) : ~IsGet(s[i])

Followed ==
  cur \in Conns /\ Alive(cur) =>
    \E x : /\ Story(up[cur], x) /\ Reader(x[0], server[cur], pages)
           /\ link => Ends(x[Len(up[cur])], client, saved, broken)
           /\ link /\ ~short => Turn(up[cur], x, client, down, saved)

\* The answer of the load under way, of which a broken connection leaves a part.
Answered ==
  ~short =>
    IF client.step = "recv"
    THEN \E m \in 0..PageUnits :
           down = SubSeq(Page(saved[client.key]), 1, m) /\ (link => m \in {0, PageUnits})
    ELSE down = <<>>

\* Threads that are of no account any more.
Past ==
  /\ \A c \in Conns : c # cur => up[c] = <<>>
  /\ link /\ ~Alive(cur) => client = Closed /\ up[cur] = <<>> /\ (~broken => pages = Nothing)
  /\ ~link /\ ~broken => pages = Nothing /\ \A c \in Conns : ~Alive(c)

Known ==
  /\ \E dict : pages = PagesOf(dict)
  /\ client = Closed => saved = Nothing
  /\ client.step = "recv" => client.key \in DOMAIN saved

Fresh == Followed /\ Answered /\ Past /\ Known

LEMMA PagesOfStep ==
  ASSUME NEW dict, NEW k, NEW v
  PROVE  /\ PagesOf(With(dict, k, v)) = With(PagesOf(dict), k, Page(v))
         /\ PagesOf(Without(dict, k)) = Without(PagesOf(dict), k)
         /\ PagesOf(Nothing) = Nothing
         /\ DOMAIN PagesOf(dict) = DOMAIN dict
         /\ (DOMAIN dict = {} => PagesOf(dict) = Nothing)
         /\ \A j \in DOMAIN dict : PagesOf(dict)[j] = Page(dict[j])
BY DEF PagesOf, With, Without, Restrict, Nothing

LEMMA NoGetInPage ==
  ASSUME NEW v \in Values \cup {Zero}
  PROVE  \A i \in 1..Len(Page(v)) : ~IsGet(Page(v)[i])
BY PageUnitsOf DEF IsGet

LEMMA NoGetSent ==
  ASSUME NEW k \in Keys, NEW cmd \in {"PUT", "RM"}
  PROVE  LET u == <<[cmd |-> cmd, key |-> k]>>
         IN  u \in Seq(Units) /\ \A i \in 1..Len(u) : ~IsGet(u[i])
<1> DEFINE h == [cmd |-> cmd, key |-> k]
<1>1. <<h>> \in Seq(Units) /\ h.cmd = cmd
  BY HeaderUnits
<1>2. ~IsGet(h)
  BY <1>1 DEF IsGet
<1> HIDE DEF h
<1>3. \A i \in 1..Len(<<h>>) : ~IsGet(<<h>>[i])
  BY <1>2
<1> QED BY <1>1, <1>3 DEF h

LEMMA OneUnit ==
  ASSUME NEW u PROVE Len(<<u>>) = 1 /\ \A i \in 1..Len(<<u>>) : <<u>>[i] = u
OBVIOUS

\* What is sent in no load leaves the turn of a load as it was.
LEMMA TurnOn ==
  ASSUME NEW s \in Seq(Units), NEW r \in Seq(Units), NEW x, NEW z,
         \A i \in 0..Len(s) : z[i] = x[i],
         NEW c, NEW d, NEW v, NEW b, NEW w, Turn(s, x, c, d, v),
         \A i \in 1..Len(r) : ~IsGet(r[i]),
         (b.step = "recv") <=> (c.step = "recv"),
         c.step = "recv" => b = c /\ w[c.key] = v[c.key]
  PROVE  Turn(s \o r, z, b, d, w)
<1> DEFINE t == s \o r
           m == Len(s)
           n == Len(r)
<1>1. /\ m \in Nat /\ n \in Nat /\ Len(t) = m + n
      /\ \A i \in 1..m : t[i] = s[i]
      /\ \A i \in 1..n : t[m + i] = r[i]
  BY Joined, LenProperties
<1> HIDE DEF t
<1>2. ASSUME NEW i \in 1..(m + n), IsGet(t[i]) PROVE i \in 1..m
  <2>1. SUFFICES ASSUME i \notin 1..m PROVE FALSE
    OBVIOUS
  <2>2. i - m \in 1..n /\ m + (i - m) = i
    BY <1>1, <2>1
  <2>3. t[m + (i - m)] = r[i - m]
    BY <1>1, <2>2
  <2> QED BY <1>2, <2>2, <2>3
<1>3. CASE c.step = "recv" /\ d = <<>>
  <2>1. PICK g \in 1..m :
          /\ s[g] = [cmd |-> "GET", key |-> c.key]
          /\ c.key \in DOMAIN x[g - 1].dict /\ x[g - 1].dict[c.key] = v[c.key]
          /\ \A i \in 1..m : IsGet(s[i]) => i = g
    BY <1>3 DEF Turn
  <2>2. g \in 1..(m + n) /\ g - 1 \in 0..m
    BY <1>1
  <2>3. z[g - 1] = x[g - 1] /\ t[g] = s[g]
    BY <1>1, <2>2
  <2>4. \A i \in 1..Len(t) : IsGet(t[i]) => i = g
    <3>1. ASSUME NEW i \in 1..(m + n), IsGet(t[i]) PROVE i = g
      <4>1. i \in 1..m
        BY <1>2, <3>1
      <4> QED BY <1>1, <2>1, <3>1, <4>1
    <3> QED BY <1>1, <3>1
  <2>5. b = c /\ w[c.key] = v[c.key] /\ b.step = "recv"
    BY <1>3
  <2>6. /\ t[g] = [cmd |-> "GET", key |-> b.key] /\ g \in 1..Len(t)
        /\ b.key \in DOMAIN z[g - 1].dict /\ z[g - 1].dict[b.key] = w[b.key]
    BY <1>1, <2>1, <2>2, <2>3, <2>5
  <2>7. Turn(t, z, b, d, w)
    BY <1>3, <2>4, <2>5, <2>6 DEF Turn
  <2> QED BY <2>7 DEF t
<1>4. CASE ~(c.step = "recv" /\ d = <<>>)
  <2>1. \A i \in 1..m : ~IsGet(s[i])
    BY <1>4 DEF Turn
  <2>2. \A i \in 1..(m + n) : ~IsGet(t[i])
    BY <1>1, <1>2, <2>1
  <2>3. ~(b.step = "recv" /\ d = <<>>)
    BY <1>4
  <2>4. Turn(t, z, b, d, w)
    BY <1>1, <2>2, <2>3 DEF Turn
  <2> QED BY <2>4 DEF t
<1> QED BY <1>3, <1>4

\* The GET of a load meets what the dict has at the end of the stream.
LEMMA TurnOfLoad ==
  ASSUME NEW s \in Seq(Units), NEW x, NEW z, \A i \in 0..Len(s) : z[i] = x[i],
         NEW c, NEW v, NEW k \in Keys, Turn(s, x, c, <<>>, v), c.step # "recv",
         k \in DOMAIN x[Len(s)].dict, x[Len(s)].dict[k] = v[k]
  PROVE  Turn(s \o <<[cmd |-> "GET", key |-> k]>>, z, [step |-> "recv", key |-> k], <<>>, v)
<1> DEFINE u == [cmd |-> "GET", key |-> k]
           t == s \o <<u>>
           m == Len(s)
           b == [step |-> "recv", key |-> k]
<1>1. <<u>> \in Seq(Units) /\ Len(<<u>>) = 1 /\ <<u>>[1] = u
  BY HeaderUnits, OneUnit
<1>2. /\ m \in Nat /\ Len(t) = m + 1
      /\ \A i \in 1..m : t[i] = s[i]
      /\ \A i \in 1..1 : t[m + i] = <<u>>[i]
  BY <1>1, Joined, LenProperties
<1>3. b.step = "recv" /\ b.key = k
  OBVIOUS
<1>4. t[m + 1] = u
  BY <1>1, <1>2
<1> HIDE DEF t, u, b
<1>5. m + 1 \in 1..(m + 1) /\ m + 1 - 1 = m /\ m \in 0..m
  BY <1>2
<1>6. z[m + 1 - 1] = x[m]
  BY <1>5
<1>7. \A i \in 1..m : ~IsGet(s[i])
  BY DEF Turn
<1>8. \A i \in 1..Len(t) : IsGet(t[i]) => i = m + 1
  <2>1. ASSUME NEW i \in 1..(m + 1), i # m + 1 PROVE ~IsGet(t[i])
    <3>1. i \in 1..m
      BY <1>2, <2>1
    <3> QED BY <1>2, <1>7, <3>1
  <2> QED BY <1>2, <2>1
<1>9. Turn(t, z, b, <<>>, v)
  BY <1>2, <1>3, <1>4, <1>5, <1>6, <1>8 DEF Turn, u
<1> QED BY <1>9 DEF t, u, b

\* A thread reads n units, none of which is a GET.
LEMMA TurnRest ==
  ASSUME NEW s \in Seq(Units), NEW n \in 0..Len(s), NEW x, NEW y,
         \A i \in 0..(Len(s) - n) : y[i] = x[n + i],
         NEW c, NEW d, NEW v, Turn(s, x, c, d, v), \A i \in 1..n : ~IsGet(s[i])
  PROVE  Turn(SubSeq(s, n + 1, Len(s)), y, c, d, v)
<1> DEFINE r == SubSeq(s, n + 1, Len(s))
           m == Len(s) - n
<1>1. /\ Len(s) \in Nat /\ n \in Nat /\ m \in Nat /\ Len(r) = m
      /\ \A i \in 1..m : r[i] = s[n + i]
  BY Dropped, LenProperties
<1> HIDE DEF r
<1>2. ASSUME NEW i \in 1..m PROVE n + i \in 1..Len(s)
  BY <1>1
<1>3. CASE c.step = "recv" /\ d = <<>>
  <2>1. PICK g \in 1..Len(s) :
          /\ s[g] = [cmd |-> "GET", key |-> c.key]
          /\ c.key \in DOMAIN x[g - 1].dict /\ x[g - 1].dict[c.key] = v[c.key]
          /\ \A i \in 1..Len(s) : IsGet(s[i]) => i = g
    BY <1>3 DEF Turn
  <2>2. IsGet(s[g])
    <3>1. s[g].cmd = "GET" /\ DOMAIN s[g] = {"cmd", "key"}
      BY <2>1
    <3> QED BY <3>1 DEF IsGet, IsHeader
  <2>3. g \notin 1..n
    BY <2>2
  <2> DEFINE h == g - n
  <2>4. h \in 1..m /\ n + h = g /\ h - 1 \in 0..m /\ n + (h - 1) = g - 1
    BY <1>1, <2>3
  <2> HIDE DEF h
  <2>5. r[h] = s[g] /\ y[h - 1] = x[g - 1]
    <3>1. r[h] = s[n + h]
      BY <1>1, <2>4
    <3>2. y[h - 1] = x[n + (h - 1)]
      BY <2>4
    <3> QED BY <2>4, <3>1, <3>2
  <2>6. ASSUME NEW i \in 1..m, IsGet(r[i]) PROVE i = h
    <3>1. n + i = g
      BY <1>1, <1>2, <2>1, <2>6
    <3> QED BY <1>1, <2>4, <3>1
  <2>7. /\ h \in 1..Len(r) /\ r[h] = [cmd |-> "GET", key |-> c.key]
        /\ c.key \in DOMAIN y[h - 1].dict /\ y[h - 1].dict[c.key] = v[c.key]
        /\ \A i \in 1..Len(r) : IsGet(r[i]) => i = h
    BY <1>1, <2>1, <2>4, <2>5, <2>6
  <2>8. Turn(r, y, c, d, v)
    BY <1>3, <2>7, Zenon DEF Turn
  <2> QED BY <2>8 DEF r
<1>4. CASE ~(c.step = "recv" /\ d = <<>>)
  <2>1. \A i \in 1..Len(s) : ~IsGet(s[i])
    BY <1>4 DEF Turn
  <2>2. Turn(r, y, c, d, v)
    BY <1>1, <1>2, <1>4, <2>1 DEF Turn
  <2> QED BY <2>2 DEF r
<1> QED BY <1>3, <1>4

-----------------------------------------------------------------------------
(* What each call sends.                                                   *)

LEMMA KeepsStep ==
  ASSUME NEW dict, NEW v, NEW br, Keeps(dict, v, br), NEW k
  PROVE  /\ Keeps(Without(dict, k), Without(v, k), br)
         /\ \A val : Keeps(With(dict, k, val), With(v, k, val), br)
         /\ Keeps(Nothing, Nothing, br)
BY DEF Keeps, Without, With, Restrict, Nothing

LEMMA EndsPut ==
  ASSUME NEW b, NEW c, NEW v, NEW br, Ends(b, c, v, br), c.step # "page",
         NEW k \in Keys, NEW val \in Values
  PROVE  LET u == <<[cmd |-> "PUT", key |-> k]>>
         IN  \E y : /\ Story(u, y) /\ y[0] = b
                    /\ Ends(y[Len(u)], [step |-> "page", key |-> k, value |-> val], v, br)
<1> DEFINE h == [cmd |-> "PUT", key |-> k]
           e == Moment(PageUnits, k, val, b.dict)
           d == [step |-> "page", key |-> k, value |-> val]
<1>1. b.want = 0
  BY MomentIs DEF Ends
<1>2. IsPut(h) /\ h.key = k
  BY HeaderUnits DEF IsPut
<1>3. e.value = val /\ e.dict = b.dict
  BY MomentIs
<1>4. d.step = "page" /\ d.key = k /\ d.value = val
  OBVIOUS
<1> HIDE DEF h, d
<1>5. ReadsOne(b, h, e)
  BY <1>1, <1>2, <1>3 DEF ReadsOne
<1>6. Ends(e, d, v, br)
  BY <1>3, <1>4 DEF Ends
<1>7. PICK y : Story(<<h>>, y) /\ y[0] = b /\ y[Len(<<h>>)] = e
  BY <1>5, StoryHeader
<1>8. Ends(y[Len(<<h>>)], d, v, br)
  BY <1>6, <1>7
<1> QED BY <1>7, <1>8 DEF h, d

LEMMA EndsGet ==
  ASSUME NEW b, NEW c, NEW v, NEW br, Ends(b, c, v, br), c.step # "page", NEW k \in Keys
  PROVE  LET u == <<[cmd |-> "GET", key |-> k]>>
         IN  \E y : /\ Story(u, y) /\ y[0] = b
                    /\ Ends(y[Len(u)], [step |-> "recv", key |-> k], v, br)
<1> DEFINE h == [cmd |-> "GET", key |-> k]
           e == Moment(0, b.key, b.value, b.dict)
           d == [step |-> "recv", key |-> k]
<1>1. b.want = 0
  BY MomentIs DEF Ends
<1>2. IsHeader(h) /\ h.cmd = "GET" /\ ~IsPut(h)
  BY HeaderUnits DEF IsPut
<1>3. e.key = b.key /\ e.value = b.value /\ e.dict = b.dict /\ Effect(h, b.dict) = b.dict
  BY <1>2, MomentIs DEF Effect
<1>4. d.step = "recv"
  OBVIOUS
<1> HIDE DEF h, d
<1>5. ReadsOne(b, h, e)
  BY <1>1, <1>2, <1>3 DEF ReadsOne
<1>6. Ends(e, d, v, br)
  BY <1>3, <1>4 DEF Ends
<1>7. PICK y : Story(<<h>>, y) /\ y[0] = b /\ y[Len(<<h>>)] = e
  BY <1>5, StoryHeader
<1>8. Ends(y[Len(<<h>>)], d, v, br)
  BY <1>6, <1>7
<1> QED BY <1>7, <1>8 DEF h, d

LEMMA EndsRm ==
  ASSUME NEW b, NEW c, NEW v, NEW br, Ends(b, c, v, br), c.step # "page", NEW k \in Keys
  PROVE  LET u == <<[cmd |-> "RM", key |-> k]>>
         IN  \E y : Story(u, y) /\ y[0] = b /\ Ends(y[Len(u)], c, Without(v, k), br)
<1> DEFINE h == [cmd |-> "RM", key |-> k]
           e == Moment(0, b.key, b.value, Without(b.dict, k))
<1>1. b.want = 0 /\ Keeps(b.dict, v, br)
  BY MomentIs DEF Ends
<1>2. IsHeader(h) /\ h.cmd = "RM" /\ h.key = k /\ ~IsPut(h)
  BY HeaderUnits DEF IsPut
<1>3. /\ e.key = b.key /\ e.value = b.value /\ e.dict = Without(b.dict, k)
      /\ Effect(h, b.dict) = Without(b.dict, k)
  BY <1>2, MomentIs DEF Effect
<1> HIDE DEF h
<1>5. ReadsOne(b, h, e)
  BY <1>1, <1>2, <1>3 DEF ReadsOne
<1>6. Ends(e, c, Without(v, k), br)
  BY <1>1, <1>3, KeepsStep DEF Ends
<1>7. PICK y : Story(<<h>>, y) /\ y[0] = b /\ y[Len(<<h>>)] = e
  BY <1>5, StoryHeader
<1>8. Ends(y[Len(<<h>>)], c, Without(v, k), br)
  BY <1>6, <1>7
<1> QED BY <1>7, <1>8 DEF h

LEMMA EndsRelease ==
  ASSUME NEW b, NEW c, NEW v, NEW br, Ends(b, c, v, br), c.step # "page"
  PROVE  LET u == <<[cmd |-> "RELEASE"]>>
         IN  \E y : Story(u, y) /\ y[0] = b /\ Ends(y[Len(u)], Closed, Nothing, br)
<1> DEFINE h == [cmd |-> "RELEASE"]
           e == Moment(0, b.key, b.value, Nothing)
<1>1. b.want = 0 /\ Keeps(b.dict, v, br)
  BY MomentIs DEF Ends
<1>2. IsHeader(h) /\ h.cmd = "RELEASE" /\ ~IsPut(h)
  BY ReleaseUnit DEF IsPut
<1>3. /\ e.key = b.key /\ e.value = b.value /\ e.dict = Nothing /\ Effect(h, b.dict) = Nothing
  BY <1>2, MomentIs DEF Effect
<1> HIDE DEF h
<1>5. ReadsOne(b, h, e)
  BY <1>1, <1>2, <1>3 DEF ReadsOne
<1>6. Ends(e, Closed, Nothing, br)
  BY <1>1, <1>3, KeepsStep DEF Ends, Closed
<1>7. PICK y : Story(<<h>>, y) /\ y[0] = b /\ y[Len(<<h>>)] = e
  BY <1>5, StoryHeader
<1>8. Ends(y[Len(<<h>>)], Closed, Nothing, br)
  BY <1>6, <1>7
<1> QED BY <1>7, <1>8 DEF h

LEMMA EndsPage ==
  ASSUME NEW b, NEW c, NEW v, NEW br, Ends(b, c, v, br), c.step = "page", c.value \in Values
  PROVE  LET u == Page(c.value)
         IN  \E y : /\ Story(u, y) /\ y[0] = b
                    /\ Ends(y[Len(u)], Idle, With(v, c.key, c.value), br)
<1> DEFINE u == Page(c.value)
           e == Moment(0, c.key, c.value, With(b.dict, c.key, c.value))
<1>1. b = Moment(PageUnits, c.key, c.value, b.dict) /\ Keeps(b.dict, v, br)
  BY DEF Ends
<1>2. PICK y : /\ Story(u, y) /\ y[0] = Moment(PageUnits, c.key, c.value, b.dict)
               /\ y[Len(u)] = e
  BY StoryPage
<1>3. Ends(e, Idle, With(v, c.key, c.value), br)
  <2>1. /\ e.key = c.key /\ e.value = c.value /\ e.dict = With(b.dict, c.key, c.value)
        /\ e = Moment(0, e.key, e.value, e.dict)
    BY MomentIs
  <2>2. Keeps(With(b.dict, c.key, c.value), With(v, c.key, c.value), br)
    BY <1>1, KeepsStep
  <2>3. Idle.step # "page"
    BY DEF Idle
  <2> HIDE DEF e
  <2> QED BY <2>1, <2>2, <2>3 DEF Ends
<1> HIDE DEF e
<1>4. Ends(y[Len(u)], Idle, With(v, c.key, c.value), br)
  BY <1>2, <1>3
<1>5. y[0] = b
  BY <1>1, <1>2
<1> QED BY <1>2, <1>4, <1>5

LEMMA FollowedOffline ==
  ASSUME Followed, ~link, UNCHANGED <<cur, link, up, server, pages>>
  PROVE  Followed'
BY DEF Followed, Alive

\* What a call sends goes on from where the thread will be.
LEMMA FollowedSent ==
  ASSUME Typed, Followed, Past, link, client # Closed,
         UNCHANGED <<cur, link, server, pages, down, short>>,
         NEW units \in Seq(Units), socket_send(units),
         \A b : Ends(b, client, saved, broken) =>
                  \E y : Story(units, y) /\ y[0] = b /\ Ends(y[Len(units)], client', saved', broken'),
         ~short => \A x, z :
           /\ Ends(x[Len(up[cur])], client, saved, broken)
           /\ \A i \in 0..Len(up[cur]) : z[i] = x[i]
           /\ Turn(up[cur], x, client, down, saved)
           => Turn(up[cur] \o units, z, client', down', saved')
  PROVE  Followed'
<1> DEFINE s == up[cur]
<1>1. cur \in Conns /\ s \in Seq(Units) /\ Alive(cur) /\ up'[cur] = s \o units
  BY SentUnits DEF Past, Typed, Wired
<1>2. PICK x : /\ Story(s, x) /\ Reader(x[0], server[cur], pages)
               /\ Ends(x[Len(s)], client, saved, broken)
               /\ ~short => Turn(s, x, client, down, saved)
  BY <1>1 DEF Followed
<1>3. PICK y : Story(units, y) /\ y[0] = x[Len(s)] /\ Ends(y[Len(units)], client', saved', broken')
  BY <1>2
<1> HIDE DEF s
<1>4. PICK z : /\ Story(s \o units, z) /\ z[Len(s \o units)] = y[Len(units)]
               /\ \A i \in 0..Len(s) : z[i] = x[i]
  BY <1>1, <1>2, <1>3, StoryOn
<1>5. z[0] = x[0]
  <2>1. 0 \in 0..Len(s)
    BY <1>1, LenProperties
  <2> QED BY <1>4, <2>1
<1>6. ~short => Turn(s \o units, z, client', down', saved')
  BY <1>2, <1>4 DEF s
<1>7. Reader(z[0], server[cur], pages)
  BY <1>2, <1>5
<1>8. Ends(z[Len(s \o units)], client', saved', broken')
  BY <1>3, <1>4
<1> DEFINE t == s \o units
<1>9. /\ t = up'[cur] /\ Story(t, z) /\ Ends(z[Len(t)], client', saved', broken')
      /\ (~short => Turn(t, z, client', down', saved'))
  BY <1>1, <1>4, <1>6, <1>8
<1> HIDE DEF t
<1>10. /\ cur' = cur /\ short' = short
       /\ Story(up'[cur], z) /\ Reader(z[0], server'[cur], pages')
       /\ Ends(z[Len(up'[cur])], client', saved', broken')
       /\ ~short => Turn(up'[cur], z, client', down', saved')
  BY <1>7, <1>9
<1> QED BY <1>10 DEF Followed

-----------------------------------------------------------------------------
(* The calls keep Fresh.                                                   *)

LEMMA FreshInit == Init => Fresh
<1> SUFFICES ASSUME Init PROVE Fresh
  OBVIOUS
<1>1. cur \notin Conns /\ ~link /\ \A c \in Conns : ~Alive(c) /\ up[c] = <<>>
  BY DEF Init, Conns, Alive, Quit
<1>2. client.step = "closed" /\ client = Closed /\ down = <<>> /\ saved = Nothing /\ pages = Nothing
  BY DEF Init, Closed
<1>3. pages = PagesOf(Nothing)
  BY <1>2, PagesOfStep
<1> QED BY <1>1, <1>2, <1>3 DEF Fresh, Followed, Answered, Past, Known

\* What is left of the invariant when a call sends.
LEMMA PastSent ==
  ASSUME Typed, Past, client # Closed, UNCHANGED <<cur, link, server, pages, broken>>,
         NEW units \in Seq(Units), socket_send(units)
  PROVE  Past'
<1>1. link => Alive(cur) /\ Alive(cur)'
  BY DEF Past, Alive
<1>2. \A c \in Conns : Alive(c)' = Alive(c)
  BY DEF Alive
<1>3. \A c \in Conns : c # cur => up'[c] = <<>>
  BY SentUnits DEF Past, Typed
<1> QED BY <1>1, <1>2, <1>3 DEF Past

LEMMA FreshSaveHeader ==
  ASSUME Typed, Fresh, NEW k \in Keys, NEW v \in Values, SaveHeader(k, v)
  PROVE  Fresh'
<1> DEFINE u == <<[cmd |-> "PUT", key |-> k]>>
           d == [step |-> "page", key |-> k, value |-> v]
<1>1. /\ client = Idle /\ socket_send(u) /\ client' = d
      /\ UNCHANGED <<cur, link, down, server, pages, saved, short, broken>>
  BY DEF SaveHeader, history
<1>2. /\ client.step = "idle" /\ client # Closed /\ client'.step = "page" /\ client' # Closed
      /\ u \in Seq(Units) /\ \A i \in 1..Len(u) : ~IsGet(u[i])
  BY <1>1, NoGetSent DEF Idle, Closed
<1>3. \A b : Ends(b, client, saved, broken) =>
        \E y : Story(u, y) /\ y[0] = b /\ Ends(y[Len(u)], d, saved, broken)
  BY <1>2, EndsPut
<1> HIDE DEF u, d
<1>4. up[cur] \in Seq(Units) \/ ~link
  BY DEF Typed, Wired
<1>5. ~short => \A x, z :
        /\ Ends(x[Len(up[cur])], client, saved, broken)
        /\ \A i \in 0..Len(up[cur]) : z[i] = x[i]
        /\ Turn(up[cur], x, client, down, saved)
        => (link => Turn(up[cur] \o u, z, client', down', saved'))
  BY <1>1, <1>2, <1>4, TurnOn
<1>6. Followed'
  <2>1. CASE link
    BY <1>1, <1>2, <1>3, <1>5, <2>1, FollowedSent DEF Fresh
  <2>2. CASE ~link
    BY <1>1, <2>2, FollowedOffline DEF Fresh, socket_send
  <2> QED BY <2>1, <2>2
<1>7. Past'
  BY <1>1, <1>2, PastSent DEF Fresh
<1> QED BY <1>1, <1>2, <1>6, <1>7 DEF Fresh, Answered, Known

LEMMA FreshSavePage ==
  ASSUME Typed, Fresh, SavePage
  PROVE  Fresh'
<1> DEFINE u == Page(client.value)
<1>1. /\ client.step = "page" /\ socket_send(u) /\ client' = Idle
      /\ saved' = IF link THEN With(saved, client.key, client.value) ELSE saved
      /\ UNCHANGED <<cur, link, down, server, pages, short, broken>>
  BY DEF SavePage, history
<1>2. client.value \in Values
  BY <1>1 DEF Typed, Clients, Idle, Closed
<1>3. /\ client # Closed /\ client'.step = "idle" /\ client' # Closed
      /\ u \in Seq(Units) /\ \A i \in 1..Len(u) : ~IsGet(u[i])
  BY <1>1, <1>2, PageUnitsOf, NoGetInPage DEF Idle, Closed
<1>4. link => \A b : Ends(b, client, saved, broken) =>
        \E y : Story(u, y) /\ y[0] = b /\ Ends(y[Len(u)], client', saved', broken')
  BY <1>1, <1>2, EndsPage
<1> HIDE DEF u
<1>5. up[cur] \in Seq(Units) \/ ~link
  BY DEF Typed, Wired
<1>6. ~short => \A x, z :
        /\ Ends(x[Len(up[cur])], client, saved, broken)
        /\ \A i \in 0..Len(up[cur]) : z[i] = x[i]
        /\ Turn(up[cur], x, client, down, saved)
        => (link => Turn(up[cur] \o u, z, client', down', saved'))
  BY <1>1, <1>3, <1>5, TurnOn
<1>7. Followed'
  <2>1. CASE link
    BY <1>1, <1>3, <1>4, <1>6, <2>1, FollowedSent DEF Fresh
  <2>2. CASE ~link
    BY <1>1, <2>2, FollowedOffline DEF Fresh, socket_send
  <2> QED BY <2>1, <2>2
<1>8. Past'
  BY <1>1, <1>3, PastSent DEF Fresh
<1> QED BY <1>1, <1>3, <1>7, <1>8 DEF Fresh, Answered, Known

LEMMA FreshRemove ==
  ASSUME ~Unlocked, Typed, Fresh, NEW k \in Keys, network_remove(k)
  PROVE  Fresh'
<1> DEFINE u == <<[cmd |-> "RM", key |-> k]>>
<1>1. /\ client # Closed /\ link /\ client.step # "page" /\ socket_send(u)
      /\ client # Idle => k[1] # client.key[1]
      /\ saved' = Without(saved, k)
      /\ UNCHANGED <<client, cur, link, down, server, pages, short, broken>>
  BY DEF network_remove, history
<1>2. u \in Seq(Units) /\ \A i \in 1..Len(u) : ~IsGet(u[i])
  BY NoGetSent
<1>3. \A b : Ends(b, client, saved, broken) =>
        \E y : Story(u, y) /\ y[0] = b /\ Ends(y[Len(u)], client', saved', broken')
  BY <1>1, EndsRm
<1> HIDE DEF u
<1>4. client.step = "recv" => client.key # k /\ client.key \in DOMAIN saved
  BY <1>1 DEF Fresh, Known, Idle
<1>5. client.step = "recv" => client.key \in DOMAIN saved' /\ saved'[client.key] = saved[client.key]
  BY <1>1, <1>4 DEF Without, Restrict
<1>6. up[cur] \in Seq(Units)
  BY <1>1 DEF Typed, Wired
<1>7. ~short => \A x, z :
        /\ Ends(x[Len(up[cur])], client, saved, broken)
        /\ \A i \in 0..Len(up[cur]) : z[i] = x[i]
        /\ Turn(up[cur], x, client, down, saved)
        => Turn(up[cur] \o u, z, client', down', saved')
  BY <1>1, <1>2, <1>5, <1>6, TurnOn
<1>8. Followed'
  BY <1>1, <1>2, <1>3, <1>7, FollowedSent DEF Fresh
<1>9. Past'
  BY <1>1, <1>2, PastSent DEF Fresh
<1> QED BY <1>1, <1>5, <1>8, <1>9 DEF Fresh, Answered, Known

LEMMA FreshLoadHeader ==
  ASSUME Typed, Fresh, NEW k \in Keys, LoadHeader(k)
  PROVE  Fresh'
<1> DEFINE u == <<[cmd |-> "GET", key |-> k]>>
           d == [step |-> "recv", key |-> k]
<1>1. /\ client = Idle /\ k \in DOMAIN saved /\ socket_send(u) /\ client' = d
      /\ UNCHANGED <<cur, link, down, server, pages, saved, short, broken>>
  BY DEF LoadHeader, history
<1>2. /\ client.step = "idle" /\ client # Closed /\ client'.step = "recv" /\ client'.key = k
      /\ client' # Closed /\ u \in Seq(Units)
  BY <1>1, HeaderUnits DEF Idle, Closed
<1>3. \A b : Ends(b, client, saved, broken) =>
        \E y : Story(u, y) /\ y[0] = b /\ Ends(y[Len(u)], d, saved, broken)
  BY <1>2, EndsGet
<1>4. ~short => down = <<>>
  BY <1>2 DEF Fresh, Answered
<1>5. up[cur] \in Seq(Units) \/ ~link
  BY DEF Typed, Wired
<1>6. ASSUME ~short, link, NEW x, NEW z, Ends(x[Len(up[cur])], client, saved, broken),
             \A i \in 0..Len(up[cur]) : z[i] = x[i], Turn(up[cur], x, client, down, saved)
      PROVE  Turn(up[cur] \o u, z, client', down', saved')
  <2>1. k \in DOMAIN x[Len(up[cur])].dict /\ x[Len(up[cur])].dict[k] = saved[k]
    BY <1>1, <1>6 DEF Ends, Keeps
  <2>2. Turn(up[cur], x, client, <<>>, saved)
    BY <1>4, <1>6
  <2>3. Turn(up[cur] \o u, z, d, <<>>, saved)
    BY <1>2, <1>5, <1>6, <2>1, <2>2, TurnOfLoad
  <2> QED BY <1>1, <1>4, <1>6, <2>3
<1> HIDE DEF u, d
<1>7. Followed'
  <2>1. CASE link
    BY <1>1, <1>2, <1>3, <1>6, <2>1, FollowedSent DEF Fresh
  <2>2. CASE ~link
    BY <1>1, <2>2, FollowedOffline DEF Fresh, socket_send
  <2> QED BY <2>1, <2>2
<1>8. Past'
  BY <1>1, <1>2, PastSent DEF Fresh
<1>9. Answered'
  <2>1. 0 \in 0..PageUnits
    BY NetworkAssumption
  <2>2. SubSeq(Page(saved[k]), 1, 0) = <<>>
    <3>1. saved[k] \in Values
      BY <1>1 DEF Typed, Stored
    <3>2. Page(saved[k]) \in Seq(Units) /\ 0 \in 0..Len(Page(saved[k]))
      BY <2>1, <3>1, PageUnitsOf
    <3> QED BY <3>2, Cut, EmptySeq
  <2>3. ~short => down' = SubSeq(Page(saved'[client'.key]), 1, 0)
    BY <1>1, <1>2, <1>4, <2>2
  <2> QED BY <1>1, <1>2, <2>1, <2>3 DEF Answered
<1> QED BY <1>1, <1>2, <1>7, <1>8, <1>9 DEF Fresh, Known

LEMMA FreshRelease ==
  ASSUME Typed, Fresh, network_release
  PROVE  Fresh'
<1> DEFINE u == <<[cmd |-> "RELEASE"]>>
<1>1. /\ client = Idle /\ socket_send(u) /\ client' = Closed /\ saved' = Nothing
      /\ UNCHANGED <<cur, link, down, server, pages, short, broken>>
  BY DEF network_release, history
<1>2. /\ client.step = "idle" /\ client # Closed /\ client'.step = "closed"
      /\ u \in Seq(Units) /\ \A i \in 1..Len(u) : ~IsGet(u[i])
  BY <1>1, ReleaseUnit, OneUnit DEF Idle, Closed, IsGet
<1>3. \A b : Ends(b, client, saved, broken) =>
        \E y : Story(u, y) /\ y[0] = b /\ Ends(y[Len(u)], Closed, Nothing, broken)
  BY <1>2, EndsRelease
<1> HIDE DEF u
<1>4. up[cur] \in Seq(Units) \/ ~link
  BY DEF Typed, Wired
<1>5. ~short => \A x, z :
        /\ Ends(x[Len(up[cur])], client, saved, broken)
        /\ \A i \in 0..Len(up[cur]) : z[i] = x[i]
        /\ Turn(up[cur], x, client, down, saved)
        => (link => Turn(up[cur] \o u, z, client', down', saved'))
  BY <1>1, <1>2, <1>4, TurnOn
<1>6. Followed'
  <2>1. CASE link
    BY <1>1, <1>2, <1>3, <1>5, <2>1, FollowedSent DEF Fresh
  <2>2. CASE ~link
    BY <1>1, <2>2, FollowedOffline DEF Fresh, socket_send
  <2> QED BY <2>1, <2>2
<1>7. Past'
  BY <1>1, <1>2, PastSent DEF Fresh
<1> QED BY <1>1, <1>2, <1>6, <1>7 DEF Fresh, Answered, Known

LEMMA PartOfAnswer ==
  ASSUME NEW v \in Values, NEW m \in 0..PageUnits
  PROVE  LET d == SubSeq(Page(v), 1, m)
         IN  /\ d \in Seq(Units) /\ Len(d) = m
             /\ m = 0 => d = <<>>
             /\ d = <<>> => m = 0
             /\ m = PageUnits => d = Page(v)
             /\ \A n \in 0..m : SubSeq(d, 1, n) = SubSeq(Page(v), 1, n)
<1> DEFINE d == SubSeq(Page(v), 1, m)
<1>1. /\ Page(v) \in Seq(Units) /\ Len(Page(v)) = PageUnits /\ m \in 0..Len(Page(v))
      /\ PageUnits \in Nat /\ m \in Nat /\ m <= PageUnits
  BY PageUnitsOf, NetworkAssumption
<1>2. d \in Seq(Units) /\ Len(d) = m /\ \A i \in 1..m : d[i] = Page(v)[i]
  BY <1>1, Cut
<1> HIDE DEF d
<1>3. (m = 0 => d = <<>>) /\ (d = <<>> => m = 0)
  BY <1>2, EmptySeq
<1>4. m = PageUnits => d = Page(v)
  BY <1>1, <1>2, SeqEqual
<1>5. ASSUME NEW n \in 0..m PROVE SubSeq(d, 1, n) = SubSeq(Page(v), 1, n)
  <2>1. n \in 0..Len(d) /\ n \in 0..Len(Page(v)) /\ \A i \in 1..n : i \in 1..m
    BY <1>1, <1>2
  <2>2. /\ SubSeq(d, 1, n) \in Seq(Units) /\ Len(SubSeq(d, 1, n)) = n
        /\ \A i \in 1..n : SubSeq(d, 1, n)[i] = d[i]
    BY <1>2, <2>1, Cut
  <2>3. /\ SubSeq(Page(v), 1, n) \in Seq(Units) /\ Len(SubSeq(Page(v), 1, n)) = n
        /\ \A i \in 1..n : SubSeq(Page(v), 1, n)[i] = Page(v)[i]
    BY <1>1, <2>1, Cut
  <2>4. \A i \in 1..n : SubSeq(d, 1, n)[i] = SubSeq(Page(v), 1, n)[i]
    BY <1>2, <2>1, <2>2, <2>3
  <2> QED BY <2>2, <2>3, <2>4, SeqEqual
<1> QED BY <1>2, <1>3, <1>4, <1>5 DEF d

LEMMA FreshInitialize ==
  ASSUME ~Overlap, Typed, Fresh, network_init
  PROVE  Fresh'
<1>1. /\ client = Closed /\ cur' = cur + 1 /\ link' /\ down' = <<>> /\ client' = Idle
      /\ cur > 0 => up[cur] = <<>>
      /\ server' = [server EXCEPT ![cur'] = NextHeader] /\ ~short'
      /\ UNCHANGED <<up, pages, saved, broken>> /\ cur \in Nat /\ cur < MaxConns
  BY DEF network_init, Typed, Wired
<1>2. cur' \in Conns /\ cur' > cur /\ \A c \in Conns : c = cur => cur > 0
  BY <1>1, NetworkAssumption DEF Conns
<1>3. up'[cur'] = <<>> /\ server'[cur'] = NextHeader /\ Alive(cur)'
  <2>1. server'[cur'] = NextHeader
    BY <1>1, <1>2 DEF Typed, Serving
  <2> QED BY <1>1, <1>2, <2>1 DEF Typed, Wired, Alive, NextHeader
<1>4. \A c \in Conns : c # cur' => up'[c] = <<>>
  BY <1>1, <1>2 DEF Fresh, Past
<1>5. saved = Nothing /\ client'.step = "idle" /\ client' # Closed
  BY <1>1 DEF Fresh, Known, Idle, Closed
<1>6. PICK dict : pages = PagesOf(dict)
  BY DEF Fresh, Known
<1>7. ~broken => DOMAIN dict = {}
  <2> SUFFICES ASSUME ~broken PROVE DOMAIN dict = {}
    OBVIOUS
  <2>1. CASE pages = Nothing
    BY <1>6, <2>1, PagesOfStep DEF Nothing
  <2>2. CASE link /\ Alive(cur)
    <3>1. cur \in Conns /\ up[cur] = <<>> /\ Len(<<>>) = 0
      BY <1>1, <1>2, <2>2, EmptySeq DEF Typed, Wired, Conns
    <3>2. PICK x : Reader(x[0], server[cur], pages) /\ Ends(x[0], client, saved, broken)
      BY <2>2, <3>1 DEF Fresh, Followed
    <3>3. DOMAIN x[0].dict = {} /\ pages = PagesOf(x[0].dict)
      BY <1>5, <3>2 DEF Reader, Ends, Keeps, Nothing
    <3> QED BY <1>6, <3>3, PagesOfStep
  <2> QED BY <2>1, <2>2 DEF Fresh, Past
<1> DEFINE a == Moment(0, dict, dict, dict)
<1>8. a.want = 0 /\ a.dict = dict /\ a = Moment(0, a.key, a.value, a.dict) /\ a = Moment(a.want, a.key, a.value, a.dict)
  BY MomentIs
<1> HIDE DEF a
<1>9. PICK x : Story(<<>>, x) /\ x[0] = a
  BY StoryNothing
<1>10. Reader(a, server'[cur'], pages')
  BY <1>1, <1>3, <1>6, <1>8 DEF Reader, NextHeader
<1>11. Ends(a, client', saved', broken')
  <2>1. Keeps(dict, saved, broken)
    BY <1>5, <1>7 DEF Keeps, Nothing
  <2> QED BY <1>1, <1>5, <1>8, <2>1 DEF Ends
<1>12. Len(<<>>) = 0
  BY EmptySeq
<1>13. Turn(<<>>, x, client', down', saved')
  BY <1>5, <1>12 DEF Turn
<1>14. Followed'
  BY <1>3, <1>9, <1>10, <1>11, <1>12, <1>13 DEF Followed
<1> QED BY <1>1, <1>3, <1>4, <1>5, <1>6, <1>14 DEF Fresh, Answered, Past, Known

\* A load whose answer was read whole leaves nothing of it behind.
LEMMA AnswerRead ==
  ASSUME Typed, Fresh, client.step = "recv", ~short, NEW n \in {0, PageUnits}, n <= Len(down),
         n = 0 => ~link /\ down = <<>>
  PROVE  /\ saved[client.key] \in Values
         /\ SubSeq(down, n + 1, Len(down)) = <<>>
         /\ n # 0 => down = Page(saved[client.key]) /\ Len(down) = PageUnits /\ down # <<>>
<1>1. saved[client.key] \in Values
  BY DEF Fresh, Known, Typed, Stored
<1>2. PICK m \in 0..PageUnits : down = SubSeq(Page(saved[client.key]), 1, m)
  BY DEF Fresh, Answered
<1>3. PageUnits \in Nat /\ PageUnits > 0 /\ Len(down) = m /\ Len(<<>>) = 0
  BY <1>1, <1>2, PartOfAnswer, NetworkAssumption, EmptySeq
<1>4. CASE n = 0
  <2>1. SubSeq(down, n + 1, Len(down)) = SubSeq(<<>>, 0 + 1, 0)
    BY <1>3, <1>4
  <2>2. SubSeq(<<>>, 0 + 1, 0) = <<>>
    BY EmptySeq, Dropped
  <2> QED BY <1>1, <1>4, <2>1, <2>2
<1>5. CASE n = PageUnits
  <2>1. m = PageUnits
    BY <1>3, <1>5
  <2>2. down = Page(saved[client.key]) /\ Len(down) = PageUnits /\ down # <<>>
    BY <1>1, <1>2, <1>3, <2>1, PartOfAnswer
  <2>3. down \in Seq(Units) /\ n \in 0..Len(down) /\ Len(down) - n = 0
    BY <1>3, <1>5, <2>2 DEF Typed, Wired
  <2>4. SubSeq(down, n + 1, Len(down)) = <<>>
    BY <2>3, Dropped, EmptySeq
  <2> QED BY <1>1, <2>2, <2>4
<1> QED BY <1>4, <1>5

LEMMA FreshRecv ==
  ASSUME Typed, Fresh, socket_recv
  PROVE  Fresh'
<1>1. /\ client.step = "recv" /\ client' = Idle /\ client # Closed
      /\ UNCHANGED <<cur, link, up, server, pages, saved, broken>>
  BY DEF socket_recv, Closed
<1>2. PICK n \in 0..PageUnits :
        /\ n <= Len(down) /\ (n = 0 => ~link /\ down = <<>>)
        /\ down' = SubSeq(down, n + 1, Len(down))
        /\ short' = (short \/ n \in 1..(PageUnits - 1))
  BY DEF socket_recv
<1>3. client'.step = "idle" /\ client' # Closed
  BY <1>1 DEF Idle, Closed
<1>4. ~short' => ~short /\ n \in {0, PageUnits} /\ down' = <<>> /\ (link => down # <<>>)
  <2> SUFFICES ASSUME ~short' PROVE ~short /\ n \in {0, PageUnits} /\ down' = <<>> /\ (link => down # <<>>)
    OBVIOUS
  <2>1. ~short /\ n \in {0, PageUnits}
    <3>1. ~short /\ n \notin 1..(PageUnits - 1)
      BY <1>2, Zenon
    <3> QED BY <3>1, NetworkAssumption
  <2> QED BY <1>1, <1>2, <2>1, AnswerRead
<1>5. ASSUME NEW b PROVE Ends(b, client, saved, broken) => Ends(b, client', saved', broken')
  BY <1>1, <1>3 DEF Ends
<1>6. ASSUME NEW s, NEW x, ~short', link PROVE Turn(s, x, client, down, saved) => Turn(s, x, client', down', saved')
  BY <1>3, <1>4, <1>6 DEF Turn
<1>7. Followed'
  <2>1. Alive(cur)' = Alive(cur)
    BY <1>1 DEF Alive
  <2> SUFFICES ASSUME cur \in Conns, Alive(cur) PROVE Followed'
    BY <1>1, <2>1 DEF Followed
  <2>2. PICK x : /\ Story(up[cur], x) /\ Reader(x[0], server[cur], pages)
                 /\ link => Ends(x[Len(up[cur])], client, saved, broken)
                 /\ link /\ ~short => Turn(up[cur], x, client, down, saved)
    BY DEF Fresh, Followed
  <2>3. /\ Story(up'[cur'], x) /\ Reader(x[0], server'[cur'], pages')
        /\ link' => Ends(x[Len(up'[cur'])], client', saved', broken')
    BY <1>1, <1>5, <2>2
  <2>4. link' /\ ~short' => Turn(up'[cur'], x, client', down', saved')
    BY <1>1, <1>4, <1>6, <2>2
  <2> QED BY <2>3, <2>4 DEF Followed
<1>8. Past'
  BY <1>1, <1>3 DEF Fresh, Past, Alive
<1> QED BY <1>1, <1>3, <1>4, <1>7, <1>8 DEF Fresh, Answered, Known

LEMMA FreshClient ==
  ASSUME ~Overlap, ~Unlocked, Typed, Fresh, Client
  PROVE  Fresh'
BY FreshInitialize, FreshSaveHeader, FreshSavePage, FreshRemove, FreshLoadHeader, FreshRecv,
   FreshRelease DEF Client

LEMMA FreshBreak ==
  ASSUME Typed, Fresh, Break
  PROVE  Fresh'
<1>1. /\ link /\ client # Closed /\ ~link' /\ broken'
      /\ UNCHANGED <<client, cur, server, pages, saved, short>>
      /\ cur \in Conns /\ up[cur] \in Seq(Units)
  BY DEF Break, Typed, Wired
<1>2. PICK n \in 0..Len(up[cur]) : up' = [up EXCEPT ![cur] = SubSeq(up[cur], 1, n)]
  BY DEF Break
<1>3. PICK k \in 0..Len(down) : down' = SubSeq(down, 1, k)
  BY DEF Break
<1>4. up'[cur] = SubSeq(up[cur], 1, n) /\ \A c \in Conns : c # cur => up'[c] = <<>>
  BY <1>1, <1>2 DEF Typed, Wired, Fresh, Past
<1>5. Followed'
  <2>1. Alive(cur)' = Alive(cur)
    BY <1>1 DEF Alive
  <2> SUFFICES ASSUME Alive(cur) PROVE Followed'
    BY <1>1, <2>1 DEF Followed
  <2>2. PICK x : Story(up[cur], x) /\ Reader(x[0], server[cur], pages)
    BY <1>1 DEF Fresh, Followed
  <2>3. Story(up'[cur], x)
    BY <1>1, <1>4, <2>2, StoryCut
  <2> QED BY <1>1, <2>2, <2>3 DEF Followed
<1>6. Past'
  BY <1>1, <1>4 DEF Past
<1>7. Answered'
  <2> SUFFICES ASSUME ~short PROVE Answered'
    BY <1>1 DEF Answered
  <2>1. CASE client.step = "recv"
    <3>1. saved[client.key] \in Values
      BY <2>1 DEF Fresh, Known, Typed, Stored
    <3>2. PICK m \in 0..PageUnits : down = SubSeq(Page(saved[client.key]), 1, m)
      BY <2>1 DEF Fresh, Answered
    <3>3. Len(down) = m /\ k \in 0..m
      BY <3>1, <3>2, PartOfAnswer
    <3>4. k \in 0..PageUnits
      BY <3>3, NetworkAssumption
    <3>5. down' = SubSeq(Page(saved[client.key]), 1, k)
      BY <1>3, <3>1, <3>2, <3>3, PartOfAnswer
    <3> QED BY <1>1, <2>1, <3>4, <3>5 DEF Answered
  <2>2. CASE client.step # "recv"
    <3>1. down = <<>> /\ Len(<<>>) = 0 /\ <<>> \in Seq(Units)
      BY <2>2, EmptySeq DEF Fresh, Answered
    <3>2. k = 0 /\ k \in 0..Len(<<>>)
      BY <1>3, <3>1
    <3>3. down' = <<>>
      BY <1>3, <3>1, <3>2, Cut, EmptySeq
    <3> QED BY <1>1, <2>2, <3>3 DEF Answered
  <2> QED BY <2>1, <2>2
<1> QED BY <1>1, <1>5, <1>6, <1>7 DEF Fresh, Known

LEMMA FreshKill ==
  ASSUME Typed, Fresh, Kill
  PROVE  Fresh'
<1>1. /\ ~link' /\ pages' = Nothing /\ UNCHANGED <<client, cur, down, saved, short, broken>>
      /\ \A c \in Conns : ~Alive(c)' /\ up'[c] = <<>>
  BY DEF Kill, history, Alive, Quit
<1>2. pages' = PagesOf(Nothing)
  BY <1>1, PagesOfStep
<1> QED BY <1>1, <1>2 DEF Fresh, Followed, Answered, Past, Known

-----------------------------------------------------------------------------
(* The server keeps Fresh.                                                 *)

LEMMA OnlyCurrent ==
  ASSUME Typed, Past, NEW c \in Conns, up[c] # <<>>
  PROVE  c = cur
BY DEF Past

\* A header takes the thread of the open connection from a to b.
LEMMA ReaderHeader ==
  ASSUME Typed, cur \in Conns, server[cur].step = "header", NEW h \in Units, IsHeader(h),
         Command(cur, h), cur' = cur, NEW a, NEW b, Reader(a, server[cur], pages), ReadsOne(a, h, b)
  PROVE  /\ Alive(cur)' => Reader(b, server'[cur], pages')
         /\ pages' = PagesOf(b.dict)
         /\ link => Alive(cur)'
         /\ ~IsGet(h) => down' = down
         /\ IsGet(h) /\ link => down' = down \o Get(h.key)
<1> USE DEF Typed
<1>1. /\ a.want = 0 /\ pages = PagesOf(a.dict) /\ server[cur] \in Servers
      /\ server[cur] = NextHeader /\ Alive(cur)
  BY DEF Reader, Serving, Servers, Quit, Alive
<1>2. CASE h.cmd = "PUT" /\ UNCHANGED <<down, pages>>
           /\ server' = [server EXCEPT ![cur] = [step |-> "data", key |-> h.key, data |-> <<>>]]
  <2>1. b = Moment(PageUnits, h.key, b.value, a.dict)
    BY <1>1, <1>2 DEF ReadsOne, IsPut
  <2>2. /\ b.want = PageUnits /\ b.key = h.key /\ b.dict = a.dict
        /\ b = Moment(b.want, b.key, b.value, b.dict)
    BY <2>1, MomentIs
  <2>3. server'[cur] = [step |-> "data", key |-> h.key, data |-> <<>>]
    BY <1>2 DEF Serving
  <2>4. /\ server'[cur].step = "data" /\ server'[cur].key = h.key /\ server'[cur].data = <<>>
        /\ Len(<<>>) = 0 /\ PageUnits - 0 = PageUnits
    BY <2>3, EmptySeq, NetworkAssumption
  <2>5. Reader(b, server'[cur], pages')
    BY <1>1, <1>2, <2>2, <2>4 DEF Reader
  <2> QED BY <1>1, <1>2, <2>2, <2>4, <2>5 DEF Alive, IsGet
<1>3. CASE h.cmd # "PUT" /\ server' = server
  <2>1. b = Moment(0, a.key, a.value, Effect(h, a.dict))
    BY <1>1, <1>3 DEF ReadsOne, IsPut
  <2>2. b.want = 0 /\ b.dict = Effect(h, a.dict) /\ b = Moment(b.want, b.key, b.value, b.dict)
    BY <2>1, MomentIs
  <2>3. pages' = PagesOf(b.dict)
    <3>1. CASE h.cmd = "RM" /\ pages' = Without(pages, h.key)
      BY <1>1, <2>2, <3>1, PagesOfStep DEF Effect
    <3>2. CASE h.cmd = "RELEASE" /\ pages' = Nothing
      BY <1>1, <2>2, <3>2, PagesOfStep DEF Effect
    <3>3. CASE h.cmd = "GET" /\ pages' = pages
      BY <1>1, <2>2, <3>3 DEF Effect
    <3> QED BY <1>3, <3>1, <3>2, <3>3 DEF Command
  <2>4. Reader(b, server'[cur], pages')
    BY <1>1, <1>3, <2>2, <2>3 DEF Reader, NextHeader
  <2>5. Alive(cur)'
    BY <1>1, <1>3 DEF Alive
  <2>6. ~IsGet(h) => down' = down
    BY <1>3 DEF Command, IsGet
  <2>7. IsGet(h) /\ link => down' = down \o Get(h.key)
    BY <1>3 DEF Command, IsGet
  <2> QED BY <2>3, <2>4, <2>5, <2>6, <2>7
<1>4. CASE h.cmd = "GET" /\ ~link /\ server' = [server EXCEPT ![cur] = Quit] /\ UNCHANGED <<down, pages>>
  <2>1. b = Moment(0, a.key, a.value, Effect(h, a.dict))
    BY <1>1, <1>4 DEF ReadsOne, IsPut
  <2>2. b.dict = a.dict
    BY <1>4, <2>1, MomentIs DEF Effect
  <2>3. ~Alive(cur)'
    BY <1>4 DEF Alive, Serving, Quit
  <2> QED BY <1>1, <1>4, <2>2, <2>3
<1> QED BY <1>2, <1>3, <1>4 DEF Command

LEMMA FreshHandle ==
  ASSUME Typed, Fresh, NEW c \in Conns, Handle(c)
  PROVE  Fresh'
<1> DEFINE s == up[cur]
           h == s[1]
           r == SubSeq(s, 1 + 1, Len(s))
<1>1. c = cur /\ cur \in Conns
  BY OnlyCurrent DEF Handle, Fresh
<1>2. /\ server[cur].step = "header" /\ s # <<>> /\ s \in Seq(Units) /\ Alive(cur)
      /\ UNCHANGED <<client, cur, link, saved, short, broken>>
      /\ up' = [up EXCEPT ![cur] = Tail(s)]
  BY <1>1 DEF Handle, history, Typed, Wired, Alive
<1>3. Len(s) \in Nat \ {0} /\ Tail(s) = r /\ Head(s) = h /\ h \in Units /\ 1 \in 0..Len(s) /\ 1 \in 1..Len(s)
  BY <1>2, TailIsSubSeq, EmptySeq, LenProperties
<1>4. PICK x : /\ Story(s, x) /\ Reader(x[0], server[cur], pages)
               /\ link => Ends(x[Len(s)], client, saved, broken)
               /\ link /\ ~short => Turn(s, x, client, down, saved)
  BY <1>1, <1>2 DEF Fresh, Followed
<1>5. ReadsOne(x[0], h, x[1])
  <2>1. ReadsOne(x[1 - 1], s[1], x[1])
    BY <1>3, <1>4 DEF Story
  <2> QED BY <2>1
<1>6. IsHeader(h)
  BY <1>2, <1>4, <1>5 DEF ReadsOne, Reader, IsPut
<1>7. Command(cur, h)
  BY <1>1, <1>3, <1>6 DEF Handle
<1>8. up'[cur] = r /\ \A b \in Conns : b # cur => up'[b] = up[b]
  BY <1>1, <1>2, <1>3 DEF Typed, Wired
<1> HIDE DEF h, s
<1>9. /\ Alive(cur)' => Reader(x[1], server'[cur], pages')
      /\ pages' = PagesOf(x[1].dict)
      /\ link => Alive(cur)'
      /\ ~IsGet(h) => down' = down
      /\ IsGet(h) /\ link => down' = down \o Get(h.key)
  BY <1>1, <1>2, <1>3, <1>4, <1>5, <1>6, <1>7, ReaderHeader
<1>9a. s \in Seq(Units) /\ 1 \in 0..Len(s) /\ Story(s, x)
  BY <1>2, <1>3, <1>4
<1>10. PICK y : /\ Story(r, y) /\ y[Len(r)] = x[Len(s)]
                /\ \A i \in 0..Len(r) : y[i] = x[1 + i]
  BY <1>9a, StoryRest
<1>11. r \in Seq(Units) /\ Len(r) = Len(s) - 1 /\ Len(r) \in Nat /\ \A i \in 1..Len(r) : r[i] = s[1 + i] /\ 1 + i \in 1..Len(s)
  <2>1. r \in Seq(Units) /\ Len(r) = Len(s) - 1 /\ \A i \in 1..(Len(s) - 1) : r[i] = s[1 + i]
    BY <1>9a, Dropped
  <2> HIDE DEF r
  <2> QED BY <1>3, <2>1
<1> HIDE DEF r
<1>12. y[0] = x[1]
  <2>1. 0 \in 0..Len(r) /\ 1 + 0 = 1
    BY <1>11
  <2> QED BY <1>10, <2>1
<1>13. ASSUME link, ~short, IsGet(h)
       PROVE  /\ client.step = "recv" /\ down' = Page(saved[client.key])
              /\ saved[client.key] \in Values /\ \A i \in 1..Len(r) : ~IsGet(r[i])
  <2>1. client.step = "recv" /\ down = <<>>
    BY <1>3, <1>4, <1>13 DEF Turn, h
  <2>2. PICK g \in 1..Len(s) :
          /\ s[g] = [cmd |-> "GET", key |-> client.key]
          /\ client.key \in DOMAIN x[g - 1].dict /\ x[g - 1].dict[client.key] = saved[client.key]
          /\ \A i \in 1..Len(s) : IsGet(s[i]) => i = g
    BY <1>4, <1>13, <2>1 DEF Turn
  <2>3. g = 1 /\ g - 1 = 0
    BY <1>3, <1>13, <2>2 DEF h
  <2>4. h.key = client.key
    BY <2>2, <2>3 DEF h
  <2>5. Get(h.key) = Page(saved[client.key])
    <3>1. client.key \in DOMAIN x[0].dict /\ x[0].dict[client.key] = saved[client.key]
      BY <2>2, <2>3
    <3>2. pages = PagesOf(x[0].dict)
      BY <1>4 DEF Reader
    <3>3. client.key \in DOMAIN pages /\ pages[client.key] = Page(saved[client.key])
      BY <3>1, <3>2, PagesOfStep
    <3> QED BY <2>4, <3>3 DEF Get
  <2>6. saved[client.key] \in Values
    BY <2>1 DEF Fresh, Known, Typed, Stored
  <2>7. down' = Page(saved[client.key])
    <3>1. down' = <<>> \o Page(saved[client.key])
      BY <1>9, <1>13, <2>1, <2>5
    <3>2. Page(saved[client.key]) \in Seq(Units)
      BY <2>6, PageUnitsOf
    <3> QED BY <3>1, <3>2, ConcatEmptySeq
  <2>8. \A i \in 1..Len(r) : ~IsGet(r[i])
    <3>1. ASSUME NEW i \in 1..Len(r) PROVE ~IsGet(r[i])
      <4>1. 1 + i # g
        BY <1>11, <2>3
      <4> QED BY <1>11, <2>2, <4>1
    <3> QED BY <3>1
  <2> QED BY <2>1, <2>6, <2>7, <2>8
<1>14. link /\ ~short => Turn(r, y, client, down', saved)
  <2> SUFFICES ASSUME link, ~short PROVE Turn(r, y, client, down', saved)
    OBVIOUS
  <2>1. CASE IsGet(h)
    <3>1. down' # <<>>
      <4>1. Len(down') = PageUnits /\ PageUnits # 0 /\ Len(<<>>) = 0
        BY <1>13, <2>1, PageUnitsOf, EmptySeq, NetworkAssumption
      <4> QED BY <4>1
    <3> QED BY <1>13, <2>1, <3>1 DEF Turn
  <2>2. CASE ~IsGet(h)
    <3>1. \A i \in 1..1 : ~IsGet(s[i])
      BY <2>2 DEF h
    <3>2. \A i \in 0..(Len(s) - 1) : y[i] = x[1 + i]
      BY <1>10, <1>11
    <3>3. Turn(r, y, client, down, saved)
      BY <1>2, <1>3, <1>4, <3>1, <3>2, TurnRest DEF r
    <3> QED BY <1>9, <2>2, <3>3
  <2> QED BY <2>1, <2>2
<1>15. Followed'
  <2> SUFFICES ASSUME Alive(cur)' PROVE Followed'
    BY <1>2 DEF Followed
  <2>1. /\ Story(up'[cur'], y) /\ Reader(y[0], server'[cur'], pages')
        /\ link' => Ends(y[Len(up'[cur'])], client', saved', broken')
        /\ link' /\ ~short' => Turn(up'[cur'], y, client', down', saved')
    BY <1>2, <1>4, <1>8, <1>9, <1>10, <1>12, <1>14 DEF s
  <2> QED BY <2>1 DEF Followed
<1>16. Answered'
  <2> SUFFICES ASSUME ~short PROVE Answered'
    BY <1>2 DEF Answered
  <2>1. CASE IsGet(h) /\ link
    <3>1. PageUnits \in 0..PageUnits
      BY NetworkAssumption
    <3>2. down' = SubSeq(Page(saved[client.key]), 1, PageUnits)
      BY <1>13, <2>1, <3>1, PartOfAnswer
    <3> QED BY <1>2, <1>13, <2>1, <3>1, <3>2 DEF Answered
  <2>2. CASE ~(IsGet(h) /\ link)
    <3>1. down' = down
      BY <1>6, <1>7, <1>9, <2>2 DEF Command, IsGet
    <3> QED BY <1>2, <3>1 DEF Fresh, Answered
  <2> QED BY <2>1, <2>2
<1>17. Past'
  <2>1. ~link => broken
    BY <1>1, <1>2 DEF Fresh, Past
  <2> QED BY <1>2, <1>8, <1>9, <2>1 DEF Fresh, Past
<1> QED BY <1>2, <1>9, <1>15, <1>16, <1>17 DEF Fresh, Known

LEMMA FreshRecvall ==
  ASSUME Typed, Fresh, NEW c \in Conns, recvall(c)
  PROVE  Fresh'
<1> DEFINE s == up[cur]
           had == server[cur].data
<1>1. PICK n \in 1..(PageUnits - Len(server[c].data)) :
        /\ n <= Len(up[c])
        /\ up' = [up EXCEPT ![c] = SubSeq(up[c], n + 1, Len(up[c]))]
        /\ LET data == server[c].data \o SubSeq(up[c], 1, n)
           IN  IF Complete(data)
               THEN pages' = Put(server[c].key, data) /\ server' = [server EXCEPT ![c] = NextHeader]
               ELSE server' = [server EXCEPT ![c].data = data] /\ UNCHANGED pages
  BY DEF recvall
<1> DEFINE r == SubSeq(s, n + 1, Len(s))
           data == had \o SubSeq(s, 1, n)
<1>2. /\ server[c].step = "data"
      /\ UNCHANGED <<client, cur, link, down, saved, short, broken>>
  BY DEF recvall, history
<1>3. /\ server[c].key \in Keys /\ server[c].data \in Seq(Units)
      /\ Len(server[c].data) \in Nat /\ PageUnits \in Nat /\ n \in 0..Len(up[c])
      /\ up[c] # <<>>
  <2>1. /\ server[c].key \in Keys /\ server[c].data \in Seq(Units)
        /\ Len(server[c].data) \in Nat /\ PageUnits \in Nat /\ n \in 0..Len(up[c])
    BY <1>1, <1>2, PageRead
  <2>2. up[c] # <<>>
    BY <1>1, <2>1, EmptySeq
  <2> QED BY <2>1, <2>2
<1>4. c = cur /\ cur \in Conns /\ Alive(cur) /\ s \in Seq(Units) /\ n \in 0..Len(s)
  BY <1>2, <1>3, OnlyCurrent DEF Fresh, Alive, Typed, Wired
<1>5. /\ had \in Seq(Units) /\ Len(had) \in Nat /\ n \in Nat /\ n > 0
      /\ Len(had) + n <= PageUnits /\ Len(had) < PageUnits
  BY <1>1, <1>3, <1>4
<1>6. /\ up'[cur] = r /\ \A b \in Conns : b # cur => up'[b] = up[b]
  BY <1>1, <1>4 DEF Typed, Wired
<1>7. \/ Complete(data) /\ pages' = Put(server[cur].key, data) /\ server' = [server EXCEPT ![cur] = NextHeader]
      \/ ~Complete(data) /\ server' = [server EXCEPT ![cur].data = data] /\ pages' = pages
  BY <1>1, <1>4
<1>8. PICK x : /\ Story(s, x) /\ Reader(x[0], server[cur], pages)
               /\ link => Ends(x[Len(s)], client, saved, broken)
               /\ link /\ ~short => Turn(s, x, client, down, saved)
  BY <1>4 DEF Fresh, Followed
<1> DEFINE a == x[0]
           p == Page(a.value)
<1>9. /\ a.want = PageUnits - Len(had) /\ a.key = server[cur].key
      /\ pages = PagesOf(a.dict) /\ \A i \in 1..Len(had) : had[i] = p[i]
  BY <1>2, <1>4, <1>8 DEF Reader
<1> HIDE DEF s, had
<1>10. a.want \in Nat /\ a.want <= PageUnits /\ n <= a.want /\ PageUnits - a.want = Len(had)
  BY <1>3, <1>5, <1>9
<1>11. /\ PartOf(a, x[n], n) /\ a.value \in Values
       /\ \A i \in 1..n : s[i] = p[Len(had) + i]
  <2>1. n \in 0..n
    BY <1>5
  <2>2. /\ \A i \in 0..n : PartOf(x[0], x[i], i)
        /\ \A i \in 1..n : s[i] = Page(x[0].value)[PageUnits - x[0].want + i]
        /\ n > 0 => x[0].value \in Values
    BY <1>4, <1>8, <1>10, PartOfPage
  <2> HIDE DEF a
  <2>3. \A i \in 1..n : s[i] = p[PageUnits - a.want + i]
    BY <2>2 DEF a
  <2>4. PartOf(a, x[n], n) /\ a.value \in Values
    BY <1>5, <2>1, <2>2 DEF a
  <2> QED BY <1>10, <2>3, <2>4
<1>12. p \in Seq(Units) /\ Len(p) = PageUnits /\ \A i \in 1..PageUnits : ~IsHeader(p[i])
  BY <1>11, PageUnitsOf
<1>13. x[n] = Moment(x[n].want, x[n].key, x[n].value, x[n].dict)
  <2>1. n \in 1..Len(s) /\ n - 1 \in 0..n
    BY <1>4, <1>5
  <2>2. ReadsOne(x[n - 1], s[n], x[n])
    BY <1>8, <2>1 DEF Story
  <2> QED BY <2>2, MomentIs DEF ReadsOne
<1> HIDE DEF p, a
<1>14. /\ data \in Seq(Units) /\ Len(data) = Len(had) + n
       /\ \A i \in 1..Len(data) : data[i] = p[i]
  <2>1. /\ SubSeq(s, 1, n) \in Seq(Units) /\ Len(SubSeq(s, 1, n)) = n
        /\ \A i \in 1..n : SubSeq(s, 1, n)[i] = s[i]
    BY <1>4, Cut
  <2>2. /\ data \in Seq(Units) /\ Len(data) = Len(had) + n
        /\ \A i \in 1..Len(had) : data[i] = had[i]
        /\ \A i \in 1..n : data[Len(had) + i] = SubSeq(s, 1, n)[i]
    BY <1>5, <2>1, Joined
  <2> HIDE DEF data
  <2>3. ASSUME NEW i \in 1..Len(data) PROVE data[i] = p[i]
    <3>1. CASE i \in 1..Len(had)
      BY <1>9, <2>2, <3>1
    <3>2. CASE i \notin 1..Len(had)
      <4>1. i - Len(had) \in 1..n /\ Len(had) + (i - Len(had)) = i
        BY <1>5, <2>2, <3>2
      <4>2. data[Len(had) + (i - Len(had))] = s[i - Len(had)]
        BY <2>1, <2>2, <4>1
      <4>3. s[i - Len(had)] = p[Len(had) + (i - Len(had))]
        BY <1>11, <4>1
      <4> QED BY <4>1, <4>2, <4>3
    <3> QED BY <3>1, <3>2
  <2> QED BY <2>2, <2>3
<1> HIDE DEF data
<1>15. Reader(x[n], server'[cur], pages') /\ Alive(cur)'
  <2>1. /\ x[n].want = a.want - n /\ x[n].key = a.key /\ x[n].value = a.value
        /\ n < a.want => x[n].dict = a.dict
        /\ n = a.want => x[n].dict = With(a.dict, a.key, a.value)
    BY <1>5, <1>11 DEF PartOf
  <2>2. CASE Complete(data) /\ pages' = Put(server[cur].key, data) /\ server' = [server EXCEPT ![cur] = NextHeader]
    <3>1. Len(data) = PageUnits /\ n = a.want /\ x[n].want = 0
      BY <1>5, <1>9, <1>14, <2>1, <2>2 DEF Complete
    <3>2. data = p
      BY <1>12, <1>14, <3>1, SeqEqual
    <3>3. pages' = PagesOf(x[n].dict)
      <4>1. pages' = With(PagesOf(a.dict), a.key, Page(a.value))
        BY <1>9, <2>2, <3>2 DEF Put, p
      <4>2. x[n].dict = With(a.dict, a.key, a.value)
        BY <2>1, <3>1
      <4> QED BY <4>1, <4>2, PagesOfStep
    <3>4. server'[cur] = NextHeader
      BY <1>4, <2>2 DEF Typed, Serving
    <3>5. server'[cur].step = "header"
      BY <3>4 DEF NextHeader
    <3> QED BY <1>2, <1>13, <3>1, <3>3, <3>5 DEF Reader, Alive
  <2>3. CASE ~Complete(data) /\ server' = [server EXCEPT ![cur].data = data] /\ pages' = pages
    <3>1. server[cur] \in [step : {"data"}, key : Keys, data : Seq(Units)]
      BY <1>2, <1>4 DEF Typed, Serving, Servers, NextHeader, Quit
    <3>2. server'[cur] = [server[cur] EXCEPT !.data = data]
      BY <1>4, <2>3 DEF Typed, Serving
    <3>3. server'[cur].step = "data" /\ server'[cur].data = data /\ server'[cur].key = server[cur].key
      BY <3>1, <3>2
    <3>4. n < a.want /\ x[n].want = PageUnits - Len(data)
      BY <1>3, <1>5, <1>9, <1>10, <1>14, <2>1, <2>3 DEF Complete
    <3>5. pages' = PagesOf(x[n].dict) /\ x[n].key = server'[cur].key
      BY <1>9, <2>1, <2>3, <3>3, <3>4
    <3>6. \A i \in 1..Len(data) : data[i] = Page(x[n].value)[i]
      BY <1>14, <2>1 DEF p
    <3>7. Alive(cur)'
      BY <1>2, <3>3 DEF Alive
    <3>8. Reader(x[n], server'[cur], pages')
      BY <1>13, <3>3, <3>4, <3>5, <3>6 DEF Reader
    <3> QED BY <3>7, <3>8
  <2> QED BY <1>7, <2>2, <2>3
<1>16. PICK y : /\ Story(r, y) /\ y[Len(r)] = x[Len(s)]
                /\ \A i \in 0..Len(r) : y[i] = x[n + i]
  BY <1>4, <1>8, StoryRest
<1>17. Len(r) = Len(s) - n /\ Len(r) \in Nat /\ Len(s) \in Nat
  BY <1>4, <1>5, Dropped, LenProperties
<1> HIDE DEF r
<1>18. y[0] = x[n] /\ \A i \in 0..(Len(s) - n) : y[i] = x[n + i]
  <2>1. 0 \in 0..Len(r) /\ n + 0 = n
    BY <1>5, <1>17
  <2> QED BY <1>16, <1>17, <2>1
<1>19. \A i \in 1..n : ~IsGet(s[i])
  <2>1. ASSUME NEW i \in 1..n PROVE ~IsGet(s[i])
    <3>1. Len(had) + i \in 1..PageUnits
      BY <1>3, <1>5
    <3> QED BY <1>11, <1>12, <3>1 DEF IsGet
  <2> QED BY <2>1
<1>20. link /\ ~short => Turn(r, y, client, down, saved)
  BY <1>4, <1>8, <1>18, <1>19, TurnRest DEF r
<1>21. /\ Story(up'[cur'], y) /\ Reader(y[0], server'[cur'], pages')
       /\ link' => Ends(y[Len(up'[cur'])], client', saved', broken')
       /\ link' /\ ~short' => Turn(up'[cur'], y, client', down', saved')
  BY <1>2, <1>6, <1>8, <1>15, <1>16, <1>18, <1>20
<1>22. Followed'
  BY <1>21 DEF Followed
<1>23. Past'
  <2>1. ~link => broken
    BY <1>4 DEF Fresh, Past
  <2> QED BY <1>2, <1>6, <1>15, <2>1 DEF Fresh, Past
<1>24. pages' = PagesOf(x[n].dict)
  BY <1>15 DEF Reader
<1> QED BY <1>2, <1>22, <1>23, <1>24 DEF Fresh, Answered, Known

LEMMA FreshEndOfStream ==
  ASSUME Typed, Fresh, NEW c \in Conns, EndOfStream(c)
  PROVE  Fresh'
<1>1. /\ up[c] = <<>> /\ ~(c = cur /\ link /\ client # Closed) /\ Alive(c)
      /\ server' = [server EXCEPT ![c] = Quit]
      /\ UNCHANGED <<client, cur, link, up, down, pages, saved, short, broken>>
  BY DEF EndOfStream, Ended, wires, history, Alive
<1>2. ~Alive(c)' /\ \A b \in Conns : b # c => server'[b] = server[b]
  BY <1>1 DEF Typed, Serving, Alive, Quit
<1>3. \A b \in Conns : b # c => Alive(b)' = Alive(b)
  BY <1>2 DEF Alive
<1>4. Followed'
  <2> SUFFICES ASSUME cur \in Conns, Alive(cur)' PROVE Followed'
    BY <1>1 DEF Followed
  <2>1. c # cur
    BY <1>1, <1>2 DEF Alive
  <2>2. server'[cur] = server[cur]
    BY <1>2, <2>1
  <2>3. Alive(cur)
    BY <1>1, <2>2 DEF Alive
  <2> QED BY <1>1, <2>2, <2>3 DEF Fresh, Followed
<1>5. ASSUME link, ~Alive(cur)'
      PROVE  client = Closed /\ up[cur] = <<>> /\ (~broken => pages = Nothing)
  <2>1. cur \in Conns /\ cur' = cur
    BY <1>1, <1>5 DEF Typed, Wired
  <2>2. CASE c = cur
    <3>1. client = Closed /\ saved = Nothing /\ Len(<<>>) = 0
      BY <1>1, <1>5, <2>2, EmptySeq DEF Fresh, Known
    <3>2. PICK x : Reader(x[0], server[cur], pages) /\ Ends(x[0], client, saved, broken)
      BY <1>1, <1>5, <2>1, <2>2, <3>1 DEF Fresh, Followed
    <3>3. ~broken => DOMAIN x[0].dict = {}
      BY <3>1, <3>2 DEF Ends, Keeps, Nothing
    <3>4. ~broken => pages = Nothing
      BY <3>2, <3>3, PagesOfStep DEF Reader
    <3> QED BY <1>1, <2>2, <3>1, <3>4
  <2>3. CASE c # cur
    <3>1. ~Alive(cur)
      BY <1>2, <1>5, <2>1, <2>3 DEF Alive
    <3> QED BY <1>5, <3>1 DEF Fresh, Past
  <2> QED BY <2>2, <2>3
<1>6. Past'
  <2>1. \A b \in Conns : ~Alive(b) => ~Alive(b)'
    BY <1>2, <1>3
  <2> QED BY <1>1, <1>5, <2>1 DEF Fresh, Past
<1> QED BY <1>1, <1>4, <1>6 DEF Fresh, Answered, Known

LEMMA FreshNext ==
  ASSUME ~Overlap, ~Unlocked, Typed, Fresh, [Next]_vars
  PROVE  Fresh'
<1>1. CASE UNCHANGED vars
  BY <1>1 DEF vars, wires, history, Fresh, Followed, Answered, Past, Known, Alive
<1> QED BY <1>1, FreshClient, FreshBreak, FreshKill, FreshHandle, FreshRecvall, FreshEndOfStream
        DEF Next, Server

LEMMA FreshHolds == ~Overlap /\ ~Unlocked => (Spec => [](Typed /\ Fresh))
<1> SUFFICES ASSUME ~Overlap, ~Unlocked PROVE Spec => [](Typed /\ Fresh)
  OBVIOUS
<1>1. Init => Typed /\ Fresh
  BY TypedInit, FreshInit
<1>2. Typed /\ Fresh /\ [Next]_vars => (Typed /\ Fresh)'
  BY TypedNext, FreshNext
<1> QED BY <1>1, <1>2, PTL DEF Spec

LEMMA FreshCaughtUp == Typed /\ Fresh => CaughtUp
<1> SUFFICES ASSUME Typed, Fresh, link, client.step \in {"idle", "recv"},
                    server[cur] = NextHeader, up[cur] = <<>>
             PROVE  /\ \A k \in DOMAIN saved : k \in DOMAIN pages /\ pages[k] = Page(saved[k])
                    /\ ~broken => DOMAIN pages = DOMAIN saved
  BY DEF CaughtUp
<1>1. cur \in Conns /\ Alive(cur) /\ Len(<<>>) = 0
  BY EmptySeq DEF Typed, Wired, Alive, NextHeader
<1>2. PICK x : Reader(x[0], server[cur], pages) /\ Ends(x[0], client, saved, broken)
  BY <1>1 DEF Fresh, Followed
<1>3. pages = PagesOf(x[0].dict) /\ Keeps(x[0].dict, saved, broken)
  BY <1>2 DEF Reader, Ends
<1> QED BY <1>3, PagesOfStep DEF Keeps

LEMMA FreshLoad ==
  ASSUME Typed, Fresh, [Next]_vars,
         client.step = "recv", client'.step = "idle", down # <<>>, ~short'
  PROVE  SubSeq(down, 1, Len(down) - Len(down')) = Page(saved[client.key])
<1>1. socket_recv
  <2>1. client # Idle /\ client # Closed /\ client' # client /\ client.step # "page"
    BY DEF Idle, Closed
  <2> QED BY <2>1 DEF Next, Client, network_init, SaveHeader, SavePage, network_remove, LoadHeader,
          network_release, Break, Kill, Server, Handle, recvall, EndOfStream, vars
<1>2. PICK n \in 0..PageUnits :
        /\ n <= Len(down) /\ (n = 0 => ~link /\ down = <<>>)
        /\ down' = SubSeq(down, n + 1, Len(down))
        /\ short' = (short \/ n \in 1..(PageUnits - 1))
  BY <1>1 DEF socket_recv
<1>3. ~short /\ n \in {0, PageUnits} /\ n # 0
  <2>1. ~short /\ n \notin 1..(PageUnits - 1)
    BY <1>2, Zenon
  <2> QED BY <1>2, <2>1, NetworkAssumption
<1>4. /\ saved[client.key] \in Values /\ down' = <<>>
      /\ down = Page(saved[client.key]) /\ Len(down) = PageUnits
  BY <1>2, <1>3, AnswerRead
<1>5. Len(down) - Len(down') = PageUnits /\ PageUnits \in 0..PageUnits
  BY <1>4, EmptySeq, NetworkAssumption
<1> QED BY <1>4, <1>5, PartOfAnswer

\* When the module is loaded again only after the last thread has read everything,
\* and no close handler sends in the middle of a save, a server that has read
\* everything holds what was saved and nothing that was removed or released, after
\* any number of loads, breaks and kills (server.py:78-106).
THEOREM ServerCatchesUp == ~Overlap /\ ~Unlocked => (Spec => []CaughtUp)
BY FreshHolds, FreshCaughtUp, PTL

\* Under the same conditions a load whose answers were all read whole finds the
\* value saved last under its key (storage.c:56-70).
THEOREM LoadsAreFresh == ~Overlap /\ ~Unlocked => (Spec => LoadFresh)
<1> SUFFICES ASSUME ~Overlap, ~Unlocked PROVE Spec => LoadFresh
  OBVIOUS
<1>1. Typed /\ Fresh /\ [Next]_vars =>
        [client.step = "recv" /\ client'.step = "idle" /\ down # <<>> /\ ~short'
           => SubSeq(down, 1, Len(down) - Len(down')) = Page(saved[client.key])]_vars
  BY FreshLoad
<1> QED BY <1>1, FreshHolds, PTL DEF Spec, LoadFresh

-----------------------------------------------------------------------------
(* Lists with elements taken out.                                          *)

\* The n-th index of left is one index, and each is the n-th for one n.
LEMMA ChosenIs ==
  ASSUME NEW S, NEW s \in Seq(S), NEW left, left \subseteq 1..Len(s)
  PROVE  LET N == Cardinality(left)
         IN  /\ N \in Nat /\ Chosen(s, left) \in Seq(S) /\ Len(Chosen(s, left)) = N
             /\ \E h \in Bijection(1..N, left) : \A n \in 1..N : Chosen(s, left)[n] = s[h[n]]
<1> DEFINE N == Cardinality(left)
           below(i) == {j \in left : j <= i}
           c == [i \in left |-> Cardinality(below(i))]
           nth(n) == CHOOSE i \in left : Cardinality(below(i)) = n
           h == [n \in 1..N |-> nth(n)]
<1>1. Len(s) \in Nat /\ \A i \in 1..Len(s) : s[i] \in S
  BY LenProperties, ElementOfSeq
<1>2. IsFiniteSet(left) /\ N \in Nat /\ left \subseteq Nat /\ IsFiniteSet(1..N) /\ Cardinality(1..N) = N
  <2>1. IsFiniteSet(1..Len(s)) /\ left \subseteq Nat
    BY <1>1, FS_Interval
  <2>2. IsFiniteSet(left)
    BY <2>1, FS_Subset
  <2>3. Cardinality(left) \in Nat
    BY <2>2, FS_CardinalityType
  <2> HIDE DEF N
  <2>4. N \in Nat
    BY <2>3 DEF N
  <2>5. IsFiniteSet(1..N) /\ Cardinality(1..N) = N
    BY <2>4, FS_Interval
  <2> QED BY <2>1, <2>2, <2>4, <2>5
<1>3. ASSUME NEW i \in left
      PROVE  /\ IsFiniteSet(below(i)) /\ Cardinality(below(i)) \in 1..N
             /\ below(i) \subseteq left /\ i \in below(i)
  <2>1. below(i) \subseteq left /\ i \in below(i)
    BY <1>2
  <2> HIDE DEF below
  <2>2. IsFiniteSet(below(i)) /\ Cardinality(below(i)) <= N
    BY <1>2, <2>1, FS_Subset
  <2>3. Cardinality(below(i)) \in Nat /\ Cardinality(below(i)) # 0
    BY <2>1, <2>2, FS_CardinalityType, FS_EmptySet
  <2> QED BY <1>2, <2>1, <2>2, <2>3
<1>4. ASSUME NEW i \in left, NEW j \in left, i < j
      PROVE  Cardinality(below(i)) # Cardinality(below(j))
  <2>1. below(i) \subseteq below(j) /\ j \in below(j) /\ j \notin below(i)
    <3>1. i \in Nat /\ j \in Nat /\ j <= j /\ ~(j <= i)
      BY <1>2, <1>4
    <3>2. ASSUME NEW k \in left, k <= i PROVE k <= j
      <4>1. k \in Nat
        BY <1>2
      <4> QED BY <1>4, <3>1, <3>2, <4>1
    <3> QED BY <3>1, <3>2
  <2> HIDE DEF below
  <2> QED BY <1>3, <2>1, FS_Subset
<1>5. c \in Injection(left, 1..N)
  <2>1. c \in [left -> 1..N]
    BY <1>3
  <2>2. \A i \in left : c[i] = Cardinality(below(i))
    OBVIOUS
  <2> HIDE DEF c, N, below
  <2>3. ASSUME NEW i \in left, NEW j \in left, c[i] = c[j] PROVE i = j
    BY <1>2, <1>4, <2>2, <2>3
  <2> QED BY <2>1, <2>3 DEF Injection, IsInjective
<1>6. \A n \in 1..N : \E i \in left : Cardinality(below(i)) = n
  <2>1. \A i \in left : c[i] = Cardinality(below(i))
    OBVIOUS
  <2>2. c \in Surjection(left, 1..N)
    <3> HIDE DEF c
    <3>1. N = Cardinality(left)
      OBVIOUS
    <3> HIDE DEF N
    <3> QED BY <1>2, <1>5, <3>1, FS_Injection
  <2> HIDE DEF c, N, below
  <2> QED BY <2>1, <2>2 DEF Surjection
<1>7. \A n \in 1..N : nth(n) \in left /\ Cardinality(below(nth(n))) = n
  <2> HIDE DEF N, below
  <2> QED BY <1>6
<1>8. \A i \in left : nth(Cardinality(below(i))) = i
  <2>1. ASSUME NEW i \in left PROVE nth(Cardinality(below(i))) = i
    <3> DEFINE m == nth(Cardinality(below(i)))
    <3>1. Cardinality(below(i)) \in 1..N
      BY <1>3
    <3>2. m \in left /\ Cardinality(below(m)) = Cardinality(below(i))
      BY <1>7, <3>1
    <3> HIDE DEF m, below
    <3>3. ~(m < i) /\ ~(i < m)
      BY <1>4, <3>2
    <3>4. m = i
      BY <1>2, <3>2, <3>3
    <3> QED BY <3>4 DEF m
  <2> QED BY <2>1
<1>9. Chosen(s, left) = [n \in 1..N |-> s[nth(n)]]
  BY Zenon DEF Chosen
<1> HIDE DEF N, nth, below, c
<1>10. h \in Bijection(1..N, left)
  <2>1. h \in [1..N -> left] /\ \A n \in 1..N : h[n] = nth(n)
    BY <1>7
  <2> HIDE DEF h
  <2>2. ASSUME NEW n \in 1..N, NEW m \in 1..N, h[n] = h[m] PROVE n = m
    BY <1>7, <2>1, <2>2
  <2>3. ASSUME NEW i \in left PROVE \E n \in 1..N : h[n] = i
    <3>1. Cardinality(below(i)) \in 1..N
      BY <1>3
    <3> QED BY <1>8, <2>1, <3>1
  <2>4. h \in Injection(1..N, left)
    BY <2>1, <2>2 DEF Injection, IsInjective
  <2>5. h \in Surjection(1..N, left)
    BY <2>1, <2>3 DEF Surjection
  <2> QED BY <2>4, <2>5 DEF Bijection
<1>11. \A n \in 1..N : Chosen(s, left)[n] = s[h[n]]
  BY <1>9
<1>12. Chosen(s, left) \in [1..N -> S]
  BY <1>1, <1>7, <1>9
<1> HIDE DEF h
<1>13. Chosen(s, left) \in Seq(S) /\ Len(Chosen(s, left)) = N
  BY <1>2, <1>12, SeqDef, LenProperties
<1>14. N \in Nat
  BY <1>2
<1> QED BY <1>10, <1>11, <1>13, <1>14 DEF N

-----------------------------------------------------------------------------
(* The kernel's list.                                                      *)

Buffers == [pid : Pids, address : Addresses, buffer : Seq(Units)]

\* The buffer has page k.
IsFor(kb, k) == kb.pid = k[1] /\ kb.address = k[2]

\* One buffer for each key of v, which holds its value.
Agrees(list, v) ==
  /\ list \in Seq(Buffers)
  /\ \A i \in 1..Len(list) : \E k \in DOMAIN v : IsFor(list[i], k) /\ list[i].buffer = Page(v[k])
  /\ \A k \in DOMAIN v : \E i \in 1..Len(list) : IsFor(list[i], k)
  /\ \A i, j \in 1..Len(list) : \A k \in Keys : IsFor(list[i], k) /\ IsFor(list[j], k) => i = j

LEMMA KeyIs ==
  ASSUME NEW kb, NEW j \in Keys, NEW k \in Keys, IsFor(kb, j), IsFor(kb, k)
  PROVE  j = k
<1>1. j = <<j[1], j[2]>> /\ k = <<k[1], k[2]>>
  BY DEF Keys
<1>2. j[1] = k[1] /\ j[2] = k[2]
  BY DEF IsFor
<1> QED BY <1>1, <1>2

LEMMA KernelFound ==
  ASSUME \A a \in Addresses : a < UINT, NEW list, NEW v, Agrees(list, v), DOMAIN v \subseteq Keys,
         NEW k \in Keys
  PROVE  /\ get_kernel_buffer(list, k[1], k[2]) = {i \in 1..Len(list) : IsFor(list[i], k)}
         /\ k \notin DOMAIN v => get_kernel_buffer(list, k[1], k[2]) = {}
         /\ k \in DOMAIN v => \E i \in 1..Len(list) :
              /\ IsFor(list[i], k) /\ list[i].buffer = Page(v[k])
              /\ get_kernel_buffer(list, k[1], k[2]) = {i} /\ First({i}) = i
<1>1. list \in Seq(Buffers) /\ DOMAIN list = 1..Len(list) /\ Len(list) \in Nat
  BY LenProperties DEF Agrees
<1>2. k[2] % UINT = k[2]
  <2>1. k[2] \in Addresses
    BY DEF Keys
  <2>2. k[2] \in Nat /\ k[2] < UINT /\ UINT \in Nat \ {0}
    BY <2>1, LowAddresses, KernelAssumption
  <2> HIDE DEF Keys
  <2> QED BY <2>2
<1>3. get_kernel_buffer(list, k[1], k[2]) = {i \in 1..Len(list) : IsFor(list[i], k)}
  BY <1>1, <1>2 DEF get_kernel_buffer, IsFor
<1>4. ASSUME k \notin DOMAIN v, NEW i \in 1..Len(list), IsFor(list[i], k) PROVE FALSE
  <2>1. PICK j \in DOMAIN v : IsFor(list[i], j)
    BY DEF Agrees
  <2> QED BY <1>4, <2>1, KeyIs
<1>5. ASSUME k \in DOMAIN v
      PROVE  \E i \in 1..Len(list) :
               /\ IsFor(list[i], k) /\ list[i].buffer = Page(v[k])
               /\ {j \in 1..Len(list) : IsFor(list[j], k)} = {i} /\ First({i}) = i
  <2>1. PICK i \in 1..Len(list) : IsFor(list[i], k)
    BY <1>5 DEF Agrees
  <2>2. PICK j \in DOMAIN v : IsFor(list[i], j) /\ list[i].buffer = Page(v[j])
    BY DEF Agrees
  <2>3. j = k
    BY <2>1, <2>2, KeyIs
  <2>4. {j2 \in 1..Len(list) : IsFor(list[j2], k)} = {i}
    BY <2>1 DEF Agrees
  <2>5. First({i}) = i
    <3>1. i <= i
      BY <1>1
    <3> QED BY <3>1 DEF First
  <2> QED BY <2>1, <2>2, <2>3, <2>4, <2>5
<1> QED BY <1>3, <1>4, <1>5

LEMMA KernelEmpty == Agrees(<<>>, Nothing)
<1>1. <<>> \in Seq(Buffers) /\ Len(<<>>) = 0
  BY EmptySeq
<1> QED BY <1>1 DEF Agrees, Nothing

LEMMA KernelSave ==
  ASSUME \A a \in Addresses : a < UINT, NEW list, NEW v, Agrees(list, v), DOMAIN v \subseteq Keys,
         NEW k \in Keys, NEW val \in Values
  PROVE  Agrees(kernel_save(list, k[1], k[2], Page(val)), With(v, k, val))
<1> DEFINE kb == [pid |-> k[1], address |-> k[2], buffer |-> Page(val)]
           w == With(v, k, val)
           r == kernel_save(list, k[1], k[2], Page(val))
<1>1. list \in Seq(Buffers) /\ Len(list) \in Nat
  BY LenProperties DEF Agrees
<1>2. kb \in Buffers /\ IsFor(kb, k) /\ kb.buffer = Page(val)
  BY PageUnitsOf DEF Buffers, IsFor, Keys
<1>3. DOMAIN w = DOMAIN v \cup {k} /\ w[k] = val /\ \A j \in DOMAIN v : j # k => w[j] = v[j]
  BY DEF With
<1> HIDE DEF w
<1>4. CASE k \notin DOMAIN v
  <2>1. r = Append(list, kb)
    BY <1>4, KernelFound DEF kernel_save
  <2> HIDE DEF kb, r
  <2>2. /\ r \in Seq(Buffers) /\ Len(r) = Len(list) + 1 /\ r[Len(list) + 1] = kb
        /\ \A i \in 1..Len(list) : r[i] = list[i]
    BY <1>1, <1>2, <2>1, AppendProperties
  <2>3. \A i \in 1..Len(r) : i \in 1..Len(list) \/ i = Len(list) + 1
    BY <1>1, <2>2
  <2>4. Len(list) + 1 \in 1..Len(r) /\ \A i \in 1..Len(list) : i \in 1..Len(r)
    BY <1>1, <2>2
  <2>5. ASSUME NEW i \in 1..Len(list), IsFor(list[i], k) PROVE FALSE
    <3>1. PICK j \in DOMAIN v : IsFor(list[i], j)
      BY DEF Agrees
    <3> QED BY <1>4, <2>5, <3>1, KeyIs
  <2>6. ASSUME NEW i \in 1..Len(r)
        PROVE  \E j \in DOMAIN w : IsFor(r[i], j) /\ r[i].buffer = Page(w[j])
    <3>1. CASE i \in 1..Len(list)
      <4>1. PICK j \in DOMAIN v : IsFor(list[i], j) /\ list[i].buffer = Page(v[j])
        BY <3>1 DEF Agrees
      <4>2. j # k
        BY <1>4, <4>1
      <4> QED BY <1>3, <2>2, <3>1, <4>1, <4>2
    <3>2. CASE i = Len(list) + 1
      BY <1>2, <1>3, <2>2, <3>2
    <3> QED BY <2>3, <3>1, <3>2
  <2>7. ASSUME NEW j \in DOMAIN w PROVE \E i \in 1..Len(r) : IsFor(r[i], j)
    <3>1. CASE j = k
      BY <1>2, <2>2, <2>4, <3>1
    <3>2. CASE j \in DOMAIN v
      <4>1. PICK i \in 1..Len(list) : IsFor(list[i], j)
        BY <3>2 DEF Agrees
      <4> QED BY <2>2, <2>4, <4>1
    <3> QED BY <1>3, <3>1, <3>2
  <2>8. ASSUME NEW i \in 1..Len(r), NEW j \in 1..Len(r), NEW l \in Keys, IsFor(r[i], l), IsFor(r[j], l)
        PROVE  i = j
    <3>1. CASE i \in 1..Len(list) /\ j \in 1..Len(list)
      BY <2>2, <2>8, <3>1 DEF Agrees
    <3>2. ASSUME NEW m \in 1..Len(list), IsFor(r[m], l), IsFor(kb, l) PROVE FALSE
      <4>1. l = k
        BY <1>2, <3>2, KeyIs
      <4> QED BY <2>2, <2>5, <3>2, <4>1
    <3> QED BY <2>2, <2>3, <2>8, <3>1, <3>2
  <2>9. Agrees(r, w)
    BY <2>2, <2>6, <2>7, <2>8 DEF Agrees
  <2> QED BY <2>9 DEF r, w
<1>5. CASE k \in DOMAIN v
  <2>1. PICK m \in 1..Len(list) :
          IsFor(list[m], k) /\ get_kernel_buffer(list, k[1], k[2]) = {m} /\ First({m}) = m
    BY <1>5, KernelFound
  <2>2. r = [list EXCEPT ![m] = kb]
    BY <2>1 DEF kernel_save
  <2> HIDE DEF kb, r
  <2>3. /\ r \in Seq(Buffers) /\ Len(r) = Len(list) /\ r[m] = kb
        /\ \A i \in 1..Len(list) : i # m => r[i] = list[i]
    BY <1>1, <1>2, <2>1, <2>2, ExceptSeq
  <2>4. \A i \in 1..Len(list) : \A l \in Keys : IsFor(r[i], l) <=> IsFor(list[i], l)
    <3>1. ASSUME NEW l \in Keys PROVE IsFor(r[m], l) <=> IsFor(list[m], l)
      BY <1>2, <2>1, <2>3, KeyIs
    <3> QED BY <2>3, <3>1
  <2>5. ASSUME NEW i \in 1..Len(r)
        PROVE  \E j \in DOMAIN w : IsFor(r[i], j) /\ r[i].buffer = Page(w[j])
    <3>1. CASE i = m
      BY <1>2, <1>3, <2>3, <3>1
    <3>2. CASE i # m
      <4>1. PICK j \in DOMAIN v : IsFor(list[i], j) /\ list[i].buffer = Page(v[j])
        BY <2>3 DEF Agrees
      <4>2. j # k
        BY <2>1, <2>3, <3>2, <4>1 DEF Agrees
      <4> QED BY <1>3, <2>3, <3>2, <4>1, <4>2
    <3> QED BY <3>1, <3>2
  <2>6. ASSUME NEW j \in DOMAIN w PROVE \E i \in 1..Len(r) : IsFor(r[i], j)
    <3>1. j \in DOMAIN v /\ j \in Keys
      BY <1>3, <1>5
    <3>2. PICK i \in 1..Len(list) : IsFor(list[i], j)
      BY <3>1 DEF Agrees
    <3> QED BY <2>3, <2>4, <3>1, <3>2
  <2>7. \A i, j \in 1..Len(r) : \A l \in Keys : IsFor(r[i], l) /\ IsFor(r[j], l) => i = j
    BY <2>3, <2>4 DEF Agrees
  <2>8. Agrees(r, w)
    BY <2>3, <2>5, <2>6, <2>7 DEF Agrees
  <2> QED BY <2>8 DEF r, w
<1> QED BY <1>4, <1>5

LEMMA KernelRemove ==
  ASSUME NEW list, NEW v, Agrees(list, v), DOMAIN v \subseteq Keys, NEW k \in Keys
  PROVE  Agrees(kernel_remove(list, k[1], k[2]), Without(v, k))
<1> DEFINE left == {i \in DOMAIN list : ~(list[i].address = k[2] /\ list[i].pid = k[1])}
           r == kernel_remove(list, k[1], k[2])
           w == Without(v, k)
           N == Cardinality(left)
<1>1. list \in Seq(Buffers) /\ DOMAIN list = 1..Len(list)
  BY LenProperties DEF Agrees
<1>2. left = {i \in 1..Len(list) : ~IsFor(list[i], k)}
  BY <1>1 DEF IsFor
<1>3. r = Chosen(list, left)
  BY DEF kernel_remove
<1>4. DOMAIN w = DOMAIN v \ {k} /\ \A j \in DOMAIN w : w[j] = v[j]
  BY DEF Without, Restrict
<1> HIDE DEF left, r, w
<1>5. left \subseteq 1..Len(list)
  BY <1>2
<1>6. /\ r \in Seq(Buffers) /\ Len(r) = N
      /\ \E h \in Bijection(1..N, left) : \A n \in 1..N : r[n] = list[h[n]]
  <2>1. /\ Chosen(list, left) \in Seq(Buffers) /\ Len(Chosen(list, left)) = Cardinality(left)
        /\ \E h \in Bijection(1..Cardinality(left), left) :
             \A n \in 1..Cardinality(left) : Chosen(list, left)[n] = list[h[n]]
    BY <1>1, <1>5, ChosenIs
  <2> QED BY <1>3, <2>1
<1> HIDE DEF N
<1>7. PICK h \in Bijection(1..N, left) : \A n \in 1..N : r[n] = list[h[n]]
  BY <1>6
<1>8. /\ \A n \in 1..N : h[n] \in left
      /\ \A n, m \in 1..N : h[n] = h[m] => n = m
      /\ \A i \in left : \E n \in 1..N : h[n] = i
  BY <1>7 DEF Bijection, Injection, Surjection, IsInjective
<1>9. ASSUME NEW i \in 1..Len(r)
      PROVE  \E j \in DOMAIN w : IsFor(r[i], j) /\ r[i].buffer = Page(w[j])
  <2>1. h[i] \in 1..Len(list) /\ r[i] = list[h[i]] /\ ~IsFor(list[h[i]], k)
    BY <1>2, <1>6, <1>7, <1>8
  <2>2. PICK j \in DOMAIN v : IsFor(list[h[i]], j) /\ list[h[i]].buffer = Page(v[j])
    BY <2>1 DEF Agrees
  <2>3. j # k
    BY <2>1, <2>2
  <2> QED BY <1>4, <2>1, <2>2, <2>3
<1>10. ASSUME NEW j \in DOMAIN w PROVE \E i \in 1..Len(r) : IsFor(r[i], j)
  <2>1. j \in DOMAIN v /\ j # k /\ j \in Keys
    BY <1>4
  <2>2. PICK i \in 1..Len(list) : IsFor(list[i], j)
    BY <2>1 DEF Agrees
  <2>3. i \in left
    BY <1>2, <2>1, <2>2, KeyIs
  <2>4. PICK n \in 1..N : h[n] = i
    BY <1>8, <2>3
  <2> QED BY <1>6, <1>7, <2>2, <2>4
<1>11. \A i, j \in 1..Len(r) : \A l \in Keys : IsFor(r[i], l) /\ IsFor(r[j], l) => i = j
  <2>1. ASSUME NEW i \in 1..N, NEW j \in 1..N, NEW l \in Keys, IsFor(r[i], l), IsFor(r[j], l)
        PROVE  i = j
    <3>1. h[i] \in 1..Len(list) /\ h[j] \in 1..Len(list)
      BY <1>5, <1>8
    <3>2. IsFor(list[h[i]], l) /\ IsFor(list[h[j]], l)
      BY <1>7, <2>1
    <3>3. h[i] = h[j]
      BY <3>1, <3>2 DEF Agrees
    <3> QED BY <1>8, <3>3
  <2> QED BY <1>6, <2>1
<1>12. Agrees(r, w)
  BY <1>6, <1>9, <1>10, <1>11 DEF Agrees
<1> QED BY <1>12 DEF r, w

LEMMA KernelSize ==
  ASSUME NEW list, NEW v, Agrees(list, v), DOMAIN v \subseteq Keys
  PROVE  Len(list) = Cardinality(DOMAIN v)
<1> DEFINE key(i) == <<list[i].pid, list[i].address>>
           f == [i \in 1..Len(list) |-> key(i)]
<1>1. list \in Seq(Buffers) /\ Len(list) \in Nat
  BY LenProperties DEF Agrees
<1>2. \A k \in Keys : k = <<k[1], k[2]>>
  BY DEF Keys
<1>3. \A i \in 1..Len(list) : \A k \in Keys : IsFor(list[i], k) <=> k = key(i)
  BY <1>2 DEF IsFor
<1>4. \A i \in 1..Len(list) : f[i] = key(i)
  OBVIOUS
<1> HIDE DEF key, f
<1>5. \A i \in 1..Len(list) : f[i] \in DOMAIN v
  BY <1>3, <1>4 DEF Agrees
<1>6. f \in Bijection(1..Len(list), DOMAIN v)
  <2>1. f \in [1..Len(list) -> DOMAIN v]
    BY <1>5 DEF f
  <2>2. \A i, j \in 1..Len(list) : f[i] = f[j] => i = j
    BY <1>3, <1>4, <1>5 DEF Agrees
  <2>3. \A k \in DOMAIN v : \E i \in 1..Len(list) : f[i] = k
    BY <1>3, <1>4 DEF Agrees
  <2>4. f \in Injection(1..Len(list), DOMAIN v)
    BY <2>1, <2>2 DEF Injection, IsInjective
  <2>5. f \in Surjection(1..Len(list), DOMAIN v)
    BY <2>1, <2>3 DEF Surjection
  <2> QED BY <2>4, <2>5 DEF Bijection
<1>7. ExistsBijection(1..Len(list), DOMAIN v)
  BY <1>6 DEF ExistsBijection
<1> QED BY <1>1, <1>7, FS_CountingElements

KernelInv == Agrees(kernel_buffer_list, saved) /\ (client = Closed => saved = Nothing)

LEMMA KernelNext ==
  ASSUME \A a \in Addresses : a < UINT, Typed, KernelInv, [StorageNext]_storageVars
  PROVE  KernelInv'
<1>1. DOMAIN saved \subseteq Keys
  BY DEF Typed, Stored
<1>2. CASE init
  <2>1. client = Closed /\ client' = Idle /\ saved' = saved /\ kernel_buffer_list' = <<>>
    BY <1>2 DEF init, network_init, kernel_init
  <2> QED BY <2>1, KernelEmpty DEF KernelInv, Idle, Closed
<1>3. CASE save
  <2>1. client.key \in Keys /\ client.value \in Values /\ client' = Idle
    BY <1>3 DEF save, SavePage, Typed, Clients, Idle, Closed
  <2>2. CASE link
    <3>1. /\ saved' = With(saved, client.key, client.value)
          /\ kernel_buffer_list' =
               kernel_save(kernel_buffer_list, client.key[1], client.key[2], Page(client.value))
      BY <1>3, <2>2 DEF save, SavePage
    <3>2. Agrees(kernel_buffer_list', saved')
      BY <1>1, <2>1, <3>1, KernelSave DEF KernelInv
    <3> QED BY <2>1, <3>2 DEF KernelInv, Idle, Closed
  <2>3. CASE ~link
    BY <1>3, <2>1, <2>3 DEF save, SavePage, KernelInv, Idle, Closed
  <2> QED BY <2>2, <2>3
<1>4. CASE release
  <2>1. saved' = Nothing /\ kernel_buffer_list' = <<>>
    BY <1>4 DEF release, network_release, kernel_release
  <2> QED BY <2>1, KernelEmpty DEF KernelInv
<1>5. ASSUME NEW k \in Keys, remove(k) PROVE KernelInv'
  <2>1. /\ client # Closed /\ client' = client /\ saved' = Without(saved, k)
        /\ kernel_buffer_list' = kernel_remove(kernel_buffer_list, k[1], k[2])
    BY <1>5 DEF remove, network_remove
  <2>2. Agrees(kernel_buffer_list', saved')
    BY <1>1, <2>1, KernelRemove DEF KernelInv
  <2> QED BY <2>1, <2>2 DEF KernelInv
<1>6. CASE Inner
  <2>1. kernel_buffer_list' = kernel_buffer_list /\ saved' = saved
    BY <1>6 DEF Inner, LoadHeader, SaveHeader, socket_recv, Break, Kill, Server, Handle, recvall, EndOfStream
  <2>2. client' # Closed \/ client' = client
    <3>1. ASSUME NEW k \in Keys, LoadHeader(k) PROVE client' # Closed
      <4>1. client'.step = "recv" /\ Closed.step = "closed"
        BY <3>1 DEF LoadHeader, Closed
      <4> QED BY <4>1
    <3>2. ASSUME NEW k \in Keys, NEW v \in Values, SaveHeader(k, v) PROVE client' # Closed
      <4>1. client'.step = "page" /\ Closed.step = "closed"
        BY <3>2 DEF SaveHeader, Closed
      <4> QED BY <4>1
    <3>3. CASE socket_recv
      <4>1. client'.step = "idle" /\ Closed.step = "closed"
        BY <3>3 DEF socket_recv, Idle, Closed
      <4> QED BY <4>1
    <3>4. CASE Break \/ Kill
      BY <3>4 DEF Break, Kill
    <3>5. ASSUME NEW c \in Conns, Server(c) PROVE client' = client
      BY <3>5 DEF Server, Handle, recvall, EndOfStream
    <3> QED BY <1>6, <3>1, <3>2, <3>3, <3>4, <3>5 DEF Inner
  <2> QED BY <2>1, <2>2 DEF KernelInv
<1>7. CASE UNCHANGED storageVars
  BY <1>7 DEF storageVars, vars, KernelInv
<1> QED BY <1>2, <1>3, <1>4, <1>5, <1>6, <1>7 DEF StorageNext

LEMMA KernelInvHolds ==
  ASSUME \A a \in Addresses : a < UINT, Typed, KernelInv
  PROVE  KernelHolds
<1>1. DOMAIN saved \subseteq Keys /\ Agrees(kernel_buffer_list, saved)
  BY DEF Typed, Stored, KernelInv
<1>2. Len(kernel_buffer_list) <= Cardinality(DOMAIN saved)
  <2>1. Len(kernel_buffer_list) \in Nat
    BY <1>1, LenProperties DEF Agrees
  <2> QED BY <1>1, <2>1, KernelSize
<1>3. ASSUME NEW k \in DOMAIN saved
      PROVE  kernel_load(kernel_buffer_list, k[1], k[2], Page(Zero)) = Page(saved[k])
  <2>1. PICK i \in 1..Len(kernel_buffer_list) :
          /\ kernel_buffer_list[i].buffer = Page(saved[k])
          /\ get_kernel_buffer(kernel_buffer_list, k[1], k[2]) = {i} /\ First({i}) = i
    BY <1>1, KernelFound
  <2> QED BY <2>1 DEF kernel_load
<1> QED BY <1>2, <1>3 DEF KernelHolds

\* When every address fits an unsigned int, the kernel's list has one buffer for
\* each stored page, and a load finds the value saved last: for any threads,
\* addresses and values, with the calls in every order (storage.c:133-235).
THEOREM KernelKeeps == (\A a \in Addresses : a < UINT) => (StorageSpec => []KernelHolds)
<1> SUFFICES ASSUME \A a \in Addresses : a < UINT PROVE StorageSpec => []KernelHolds
  OBVIOUS
<1>1. StorageInit => Typed /\ KernelInv
  BY TypedInit, KernelEmpty DEF StorageInit, KernelInv, Init, kernel_init
<1>2. Typed /\ KernelInv /\ [StorageNext]_storageVars => (Typed /\ KernelInv)'
  <2>1. [StorageNext]_storageVars => [Next]_vars
    BY DEF StorageNext, init, save, remove, release, Inner, storageVars, Next, Client
  <2> QED BY <2>1, TypedNext, KernelNext
<1> QED BY <1>1, <1>2, KernelInvHolds, PTL DEF StorageSpec
=============================================================================
