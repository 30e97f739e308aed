-------------------------- MODULE PageCacheProofs ---------------------------
(***************************************************************************)
(* Theorems about PageCache, for any number of threads, areas, pages and   *)
(* values.                                                                 *)
(***************************************************************************)
EXTENDS PageCache, FiniteSetTheorems, SequenceTheorems, TLAPS

-----------------------------------------------------------------------------
(* The invariants.                                                         *)

FramesOf(b) == {b.buffer, b.cache}

SlotsOf(b) == {b.start, b.cache_start}

\* A frame of a buffer that is mapped is mapped at the page of its slot.
Slots ==
  \A t \in DOMAIN buffers :
    /\ buffers[t].buffer # buffers[t].cache
    /\ \A p \in Pages :
         /\ pte[p] = buffers[t].buffer => p = buffers[t].start
         /\ pte[p] = buffers[t].cache => p = buffers[t].cache_start

\* No two threads have a frame in common.
Apart ==
  \A t, u \in DOMAIN buffers : t # u => FramesOf(buffers[t]) \cap FramesOf(buffers[u]) = {}

\* A page goes from the page tables with its VMA.
MappedVma == \A p \in Pages : pte[p] # NONE => HasVma(AreaOf[p], used)

\* The page of netmalloc is not handed out yet, that of netfree is given up.
HandlerInv ==
  handler # NONE =>
    /\ handler.step = "map" => handler.op = "fault"
    /\ handler.op # "free" => handler.page \in used
    /\ handler.op # "fault" => handler.page \notin live

\* What map_page is about to overwrite is not mapped.
FrontFree ==
  handler # NONE /\ handler.step = "map" /\ handler.pid \in DOMAIN buffers =>
    \A p \in Pages : p = buffers[handler.pid].start => pte[p] = NONE

FrameInv == TypeOK /\ Slots /\ Apart /\ NoAlias /\ MappedVma /\ HandlerInv /\ FrontFree

\* The rest is for threads that keep to their own memory.

\* A thread has its own pages in its buffer.
Own == \A t \in DOMAIN buffers, p \in Pages : p \in SlotsOf(buffers[t]) => Pid(p) = t

\* A thread waits for a page of its own that is not mapped, and no thread does
\* while netmalloc or netfree runs.
Waits ==
  \A t \in Threads : waiting[t] # NONE =>
    /\ waiting[t] \in live /\ Pid(waiting[t]) = t /\ pte[waiting[t]] = NONE
    /\ MayRead

\* A call is about a page of its thread, a fault about the one it waits for.
Calls ==
  handler # NONE =>
    /\ Pid(handler.page) = handler.pid
    /\ handler.op = "fault" => waiting[handler.pid] = handler.page

\* A page about to be taken away is mapped, and the storage has what it holds.
ZapInv ==
  handler # NONE /\ handler.step = "zap" =>
    LET p == buffers[handler.pid].start
        k == <<handler.pid, p>>
    IN  /\ pte[p] # NONE
        /\ k \in stored /\ k \in DOMAIN storage /\ storage[k] = mem[pte[p]]

\* What a thread finds on a page is what was written to it last.
Content == \A p \in live : View(p) = written[p]

\* A mapped page is in the buffer of the thread that owns it.
Cached ==
  \A p \in Pages : pte[p] # NONE =>
    Pid(p) \in DOMAIN buffers /\ p \in SlotsOf(buffers[Pid(p)])

PrivateInv == Own /\ Cached /\ Waits /\ Calls /\ ZapInv /\ Content

OwnInv == FrameInv /\ PrivateInv

\* netmalloc and netfree have unmapped what they have passed.
Unmapped ==
  handler # NONE /\ handler.op # "fault" =>
    /\ handler.step = "end" => \A p \in Pages : Pid(p) = handler.pid => pte[p] = NONE
    /\ handler.step \in {"save", "zap"} /\ handler.todo = "last" =>
         \A p \in Pages : p = buffers[handler.pid].cache_start => pte[p] = NONE

MappedUsed == \A p \in Pages : pte[p] # NONE => p \in used

StoredUsed == \A k \in stored : k[2] \in used /\ Pid(k[2]) = k[1]

FreedInv == Unmapped /\ MappedUsed /\ StoredUsed

KeptInv == OwnInv /\ FreedInv

\* The pages of a buffer are mapped, and are two.
SlotsMapped ==
  \A t \in DOMAIN buffers :
    /\ \A p \in Pages : p \in SlotsOf(buffers[t]) => pte[p] # NONE
    /\ buffers[t].start = buffers[t].cache_start => buffers[t].start \notin Pages

FreeInv == KeptInv /\ SlotsMapped /\ NeverStuck

-----------------------------------------------------------------------------
(* Functions, sequences and finite sets.                                   *)

LEMMA WithIs ==
  ASSUME NEW f, NEW x, NEW y
  PROVE  /\ DOMAIN With(f, x, y) = DOMAIN f \cup {x} /\ With(f, x, y)[x] = y
         /\ \A z \in DOMAIN f : z # x => With(f, x, y)[z] = f[z]
  BY DEF With

LEMMA MinOfNats ==
  ASSUME NEW T, T \subseteq Nat, T # {}
  PROVE  Min(T) \in T
<1> DEFINE R == OpToRel(<, Nat)
<1>1. IsWellFoundedOn(R, Nat)
  BY NatLessThanWellFounded, Zenon
<1>2. \A m, n \in Nat : m < n => <<m, n>> \in R
  BY DEF OpToRel
<1> HIDE DEF R
<1>3. PICK x \in T : \A y \in T : ~(<<y, x>> \in R)
  BY <1>1, WFMin
<1>4. ASSUME NEW y \in T PROVE x <= y
  <2>1. ~(y < x)
    BY <1>2, <1>3
  <2> QED BY <2>1
<1> QED BY <1>4 DEF Min

\* The members of a finite set of naturals are numbered from 1.
LEMMA Numbered ==
  ASSUME NEW T, IsFiniteSet(T), T \subseteq Nat, NEW n \in 1..Cardinality(T)
  PROVE  \E i \in T : Cardinality({j \in T : j <= i}) = n
<1> DEFINE below(i) == {j \in T : j <= i}
           rank == [i \in T |-> Cardinality(below(i))]
           m == Cardinality(T)
<1>1. m \in Nat /\ IsFiniteSet(1..m) /\ Cardinality(1..m) = m
  <2>1. m \in Nat
    BY FS_CardinalityType
  <2> HIDE DEF m
  <2> QED BY <2>1, FS_Interval
<1>2. ASSUME NEW i \in T
      PROVE  IsFiniteSet(below(i)) /\ Cardinality(below(i)) \in Nat /\ Cardinality(below(i)) <= m
  <2>1. below(i) \in SUBSET T
    OBVIOUS
  <2> HIDE DEF below
  <2> QED BY <2>1, FS_Subset, FS_CardinalityType
<1>3. ASSUME NEW i \in T PROVE Cardinality(below(i)) \in 1..m
  <2>1. i \in below(i)
    OBVIOUS
  <2>2. Cardinality(below(i)) # 0
    BY <2>1, <1>2, FS_EmptySet, Zenon
  <2> HIDE DEF below, m
  <2> QED BY <2>2, <1>1, <1>2
<1>4. ASSUME NEW i \in T, NEW k \in T, i < k PROVE Cardinality(below(i)) # Cardinality(below(k))
  <2>1. below(i) \in SUBSET below(k)
    <3>1. i \in Nat /\ k \in Nat /\ T \subseteq Nat
      OBVIOUS
    <3>2. ASSUME NEW j \in T, j <= i PROVE j <= k
      BY <1>4, <3>1, <3>2
    <3> QED BY <3>2
  <2>2. k \in below(k) /\ k \notin below(i)
    <3>1. i \in Nat /\ k \in Nat
      OBVIOUS
    <3> QED BY <1>4, <3>1
  <2> HIDE DEF below
  <2> QED BY <2>1, <2>2, <1>2, FS_Subset
<1>5. rank \in Injection(T, 1..m)
  <2>1. rank \in [T -> 1..m]
    BY <1>3
  <2>2. ASSUME NEW i \in T, NEW k \in T, rank[i] = rank[k] PROVE i = k
    BY <2>2, <1>4
  <2> HIDE DEF rank, m
  <2> QED BY <2>1, <2>2 DEF Injection, IsInjective
<1>6. rank \in Surjection(T, 1..m)
  <2> HIDE DEF rank
  <2> QED BY <1>1, <1>5, FS_Injection
<1>7. PICK i \in T : rank[i] = n
  <2> HIDE DEF rank
  <2> QED BY <1>6 DEF Surjection
<1> QED BY <1>7

LEMMA WithoutType ==
  ASSUME NEW T, NEW s \in Seq(T), NEW set
  PROVE  Without(s, set) \in Seq(T)
<1> DEFINE left == {i \in DOMAIN s : s[i] \notin set}
           nth(n) == CHOOSE i \in left : Cardinality({j \in left : j <= i}) = n
           m == Cardinality(left)
<1>1. DOMAIN s = 1..Len(s) /\ Len(s) \in Nat /\ \A i \in DOMAIN s : s[i] \in T
  BY LenProperties, ElementOfSeq
<1>2. IsFiniteSet(DOMAIN s)
  BY <1>1, FS_Interval
<1>3. IsFiniteSet(left) /\ left \subseteq DOMAIN s /\ left \subseteq Nat
  <2>1. left \in SUBSET DOMAIN s /\ left \subseteq Nat
    BY <1>1
  <2> HIDE DEF left
  <2> QED BY <2>1, <1>2, FS_Subset
<1> HIDE DEF left
<1>4. m \in Nat
  BY <1>3, FS_CardinalityType
<1>5. ASSUME NEW n \in 1..m PROVE nth(n) \in left
  BY <1>3, Numbered
<1> HIDE DEF nth, m
<1>6. [n \in 1..m |-> s[nth(n)]] \in [1..m -> T]
  BY <1>1, <1>3, <1>5
<1>7. Without(s, set) = [n \in 1..m |-> s[nth(n)]]
  BY Zenon DEF Without, Chosen, left, nth, m
<1> QED BY <1>4, <1>6, <1>7, SeqDef

-----------------------------------------------------------------------------
(* There is always a frame for the next buffer, or the next copy.          *)

LEMMA ImageSize ==
  ASSUME NEW S, IsFiniteSet(S), NEW T, NEW f \in [S -> T]
  PROVE  /\ IsFiniteSet(Range(f)) /\ Cardinality(Range(f)) \in Nat
         /\ Cardinality(Range(f)) <= Cardinality(S)
<1>1. f \in Surjection(S, Range(f))
  BY DEF Surjection, Range
<1> QED BY <1>1, FS_Surjection, FS_CardinalityType

LEMMA UnionSize ==
  ASSUME NEW S, IsFiniteSet(S), NEW T, IsFiniteSet(T), NEW m \in Nat, NEW n \in Nat,
         Cardinality(S) <= m, Cardinality(T) <= n
  PROVE  IsFiniteSet(S \cup T) /\ Cardinality(S \cup T) <= m + n
<1>1. Cardinality(S) \in Nat /\ Cardinality(T) \in Nat
  BY FS_CardinalityType
<1>2. IsFiniteSet(S \cap T) /\ Cardinality(S \cap T) \in Nat
  BY FS_Intersection, FS_CardinalityType
<1>3. IsFiniteSet(S \cup T) /\ Cardinality(S \cup T) = Cardinality(S) + Cardinality(T) - Cardinality(S \cap T)
  BY FS_Union
<1> QED BY <1>1, <1>2, <1>3

LEMMA SomeLeft ==
  ASSUME NEW S, IsFiniteSet(S), S \subseteq Nat, NEW T, IsFiniteSet(T),
         Cardinality(T) < Cardinality(S)
  PROVE  Min(S \ T) \in S \ T
<1>1. /\ IsFiniteSet(S \ T) /\ Cardinality(S \ T) = Cardinality(S) - Cardinality(S \cap T)
      /\ Cardinality(S \cap T) <= Cardinality(T)
  BY FS_Difference, FS_Intersection
<1>2. Cardinality(S) \in Nat /\ Cardinality(T) \in Nat /\ Cardinality(S \cap T) \in Nat
  BY FS_CardinalityType, FS_Intersection
<1>3. Cardinality(S \ T) # 0
  BY <1>1, <1>2
<1>4. S \ T # {}
  BY <1>1, <1>3, FS_EmptySet, Zenon
<1> QED BY <1>4, MinOfNats

LEMMA BufferedSize ==
  ASSUME TypeOK
  PROVE  /\ IsFiniteSet(DOMAIN buffers) /\ Cardinality(DOMAIN buffers) \in Nat
         /\ IsFiniteSet(Buffered) /\ Cardinality(Buffered) <= 2 * Cardinality(DOMAIN buffers)
<1> DEFINE D == DOMAIN buffers
           front == [t \in D |-> buffers[t].buffer]
           back == [t \in D |-> buffers[t].cache]
           n == Cardinality(D)
<1>1. D \subseteq Threads /\ IsFiniteSet(Threads)
  BY PageCacheAssumption DEF TypeOK
<1> HIDE DEF D
<1>2. IsFiniteSet(D) /\ n \in Nat
  BY <1>1, FS_Subset, FS_CardinalityType
<1>3. Buffered = Range(front) \cup Range(back)
  BY DEF Buffered, Range, D
<1> HIDE DEF n
<1>4. IsFiniteSet(Range(front)) /\ Cardinality(Range(front)) <= n
  <2>1. front \in [D -> Range(front)]
    BY DEF Range
  <2> HIDE DEF front
  <2> QED BY <2>1, <1>2, ImageSize DEF n
<1>5. IsFiniteSet(Range(back)) /\ Cardinality(Range(back)) <= n
  <2>1. back \in [D -> Range(back)]
    BY DEF Range
  <2> HIDE DEF back
  <2> QED BY <2>1, <1>2, ImageSize DEF n
<1> HIDE DEF front, back
<1>6. IsFiniteSet(Buffered) /\ Cardinality(Buffered) <= n + n
  BY <1>2, <1>3, <1>4, <1>5, UnionSize
<1>7. n + n = 2 * n
  BY <1>2
<1> QED BY <1>2, <1>6, <1>7 DEF n, D

LEMMA UnusedIs ==
  ASSUME TypeOK,
         (\E p \in Pages : pte[p] \in Buffered) \/ DOMAIN buffers # Threads
  PROVE  Unused \in Frames /\ Unused \notin Buffered /\ \A p \in Pages : pte[p] # Unused
<1> DEFINE T == Cardinality(Threads)
           P == Cardinality(Pages)
           d == Cardinality(DOMAIN buffers)
           taken == Buffered \cup Range(pte)
<1>1. /\ IsFiniteSet(Threads) /\ IsFiniteSet(Pages) /\ IsFiniteSet(Frames) /\ Frames \subseteq Nat
      /\ Cardinality(Frames) >= 2 * T + P
  BY PageCacheAssumption
<1>2. /\ DOMAIN buffers \in SUBSET Threads /\ pte \in [Pages -> Frames \cup {NONE}]
  BY DEF TypeOK
<1>3. /\ IsFiniteSet(Buffered) /\ Cardinality(Buffered) <= 2 * d /\ d \in Nat
  BY BufferedSize
<1>4. T \in Nat /\ P \in Nat /\ d <= T /\ (d = T => DOMAIN buffers = Threads)
  <2>1. T \in Nat /\ P \in Nat
    BY <1>1, FS_CardinalityType
  <2> QED BY <1>1, <1>2, <2>1, FS_Subset
<1>5. IsFiniteSet(taken) /\ Cardinality(taken) < Cardinality(Frames)
  <2>1. CASE DOMAIN buffers # Threads
    <3>1. IsFiniteSet(Range(pte)) /\ Cardinality(Range(pte)) <= P
      BY <1>1, <1>2, ImageSize
    <3>2. 2 * d \in Nat
      BY <1>3
    <3>3. IsFiniteSet(taken) /\ Cardinality(taken) <= 2 * d + P
      BY <1>3, <1>4, <3>1, <3>2, UnionSize
    <3>4. d < T
      BY <1>3, <1>4, <2>1
    <3>5. Cardinality(taken) \in Nat /\ Cardinality(Frames) \in Nat
      BY <1>1, <3>3, FS_CardinalityType
    <3> HIDE DEF taken, d, T, P
    <3> QED BY <1>1, <1>3, <1>4, <3>3, <3>4, <3>5
  <2>2. CASE \E p \in Pages : pte[p] \in Buffered
    <3>1. PICK p \in Pages : pte[p] \in Buffered
      BY <2>2
    <3> DEFINE S == Pages \ {p}
               f == [q \in S |-> pte[q]]
    <3>2. taken = Buffered \cup Range(f)
      BY <1>2, <3>1 DEF Range
    <3>3. IsFiniteSet(S) /\ Cardinality(S) = P - 1
      BY <1>1, <3>1, FS_RemoveElement
    <3>4. f \in [S -> Frames \cup {NONE}]
      BY <1>2
    <3> HIDE DEF S, f
    <3>5. P - 1 \in Nat
      BY <3>3, FS_CardinalityType
    <3>6. IsFiniteSet(Range(f)) /\ Cardinality(Range(f)) <= P - 1
      BY <3>3, <3>4, ImageSize
    <3>7. 2 * d \in Nat
      BY <1>3
    <3>8. IsFiniteSet(taken) /\ Cardinality(taken) <= 2 * d + (P - 1)
      BY <1>3, <3>2, <3>5, <3>6, <3>7, UnionSize
    <3>9. Cardinality(taken) \in Nat /\ Cardinality(Frames) \in Nat
      BY <1>1, <3>8, FS_CardinalityType
    <3> HIDE DEF taken, d, T, P
    <3> QED BY <1>1, <1>3, <1>4, <3>8, <3>9
  <2> QED BY <2>1, <2>2
<1>6. Unused \in Frames \ taken
  <2> HIDE DEF taken
  <2>1. Min(Frames \ taken) \in Frames \ taken
    BY <1>1, <1>5, SomeLeft
  <2> QED BY <2>1 DEF Unused, taken
<1>7. \A p \in Pages : pte[p] \in taken
  BY <1>2 DEF Range
<1> QED BY <1>6, <1>7

LEMMA AddBufferIs ==
  ASSUME TypeOK, NEW t \in Threads, t \notin DOMAIN buffers
  PROVE  /\ add_buffer \in Buffer /\ add_buffer.buffer # add_buffer.cache
         /\ add_buffer.start = NONE /\ add_buffer.cache_start = NONE
         /\ FramesOf(add_buffer) \cap Buffered = {}
         /\ \A p \in Pages : pte[p] \notin FramesOf(add_buffer)
<1> DEFINE T == Cardinality(Threads)
           P == Cardinality(Pages)
           d == Cardinality(DOMAIN buffers)
           taken == Buffered \cup Range(pte)
           more == taken \cup {Unused}
           two == Min(Frames \ more)
<1>1. /\ IsFiniteSet(Threads) /\ IsFiniteSet(Pages) /\ IsFiniteSet(Frames) /\ Frames \subseteq Nat
      /\ Cardinality(Frames) >= 2 * T + P
  BY PageCacheAssumption
<1>2. /\ DOMAIN buffers \in SUBSET (Threads \ {t}) /\ pte \in [Pages -> Frames \cup {NONE}]
  BY DEF TypeOK
<1>3. /\ IsFiniteSet(Buffered) /\ Cardinality(Buffered) <= 2 * d /\ d \in Nat
  BY BufferedSize
<1>4. T \in Nat /\ P \in Nat /\ d <= T - 1
  <2>1. T \in Nat /\ P \in Nat
    BY <1>1, FS_CardinalityType
  <2>2. IsFiniteSet(Threads \ {t}) /\ Cardinality(Threads \ {t}) = T - 1
    BY <1>1, FS_RemoveElement
  <2>3. d <= Cardinality(Threads \ {t})
    BY <1>2, <2>2, FS_Subset
  <2> QED BY <2>1, <2>2, <2>3
<1>5. IsFiniteSet(taken) /\ Cardinality(taken) <= 2 * d + P
  <2>1. IsFiniteSet(Range(pte)) /\ Cardinality(Range(pte)) <= P
    BY <1>1, <1>2, ImageSize
  <2>2. 2 * d \in Nat
    BY <1>3
  <2> QED BY <1>3, <1>4, <2>1, <2>2, UnionSize
<1> HIDE DEF taken
<1>6. IsFiniteSet(more) /\ Cardinality(more) <= Cardinality(taken) + 1
  <2>1. Cardinality(taken) \in Nat
    BY <1>5, FS_CardinalityType
  <2>2. /\ IsFiniteSet(more)
        /\ Cardinality(more) = IF Unused \in taken THEN Cardinality(taken) ELSE Cardinality(taken) + 1
    BY <1>5, FS_AddElement
  <2> HIDE DEF more
  <2> QED BY <2>1, <2>2
<1>7. Cardinality(more) \in Nat /\ Cardinality(taken) \in Nat /\ Cardinality(Frames) \in Nat
  BY <1>1, <1>5, <1>6, FS_CardinalityType
<1>8. Cardinality(more) < Cardinality(Frames)
  <2> HIDE DEF d, T, P, more
  <2> QED BY <1>1, <1>3, <1>4, <1>5, <1>6, <1>7
<1>9. two \in Frames /\ two \notin more
  <2> HIDE DEF more
  <2>1. Min(Frames \ more) \in Frames \ more
    BY <1>1, <1>6, <1>8, SomeLeft
  <2> QED BY <2>1
<1>10. Unused \in Frames /\ Unused \notin Buffered /\ \A p \in Pages : pte[p] # Unused
  BY UnusedIs
<1>11. add_buffer = [buffer |-> Unused, start |-> NONE, cache |-> two, cache_start |-> NONE]
  BY DEF add_buffer, more, taken, two
<1>12. two # Unused /\ two \notin Buffered /\ \A p \in Pages : pte[p] # two
  <2> HIDE DEF two
  <2> QED BY <1>2, <1>9 DEF taken, Range
<1> HIDE DEF two
<1> QED BY <1>9, <1>10, <1>11, <1>12 DEF FramesOf, Buffer

-----------------------------------------------------------------------------
(* What the parts of the handlers do.                                      *)

\* The next state of the handler and of its buffer b that unmap_page chooses.
Turned(next, h, b, regions) ==
  /\ next.h \in Handler /\ next.h.pid = h.pid /\ next.h.op = h.op /\ next.h.page = h.page
  /\ next.b \in {b, swap_buffer_cache(b)} /\ next.b \in Buffer
  /\ \/ next.h.step = "save" /\ is_existing_vma(next.b.start, regions)
     \/ next.h.step = "map" /\ h.op = "fault" /\ ~is_existing_vma(next.b.start, regions)
     \/ next.h.step = "end" /\ h.op # "fault"

LEMMA SwapIs ==
  ASSUME NEW b \in Buffer
  PROVE  /\ swap_buffer_cache(b) \in Buffer
         /\ swap_buffer_cache(b).buffer = b.cache /\ swap_buffer_cache(b).cache = b.buffer
         /\ swap_buffer_cache(b).start = b.cache_start
         /\ swap_buffer_cache(b).cache_start = b.start
  BY DEF swap_buffer_cache, Buffer

LEMMA NotInVma ==
  ASSUME NEW regions
  PROVE  ~is_existing_vma(NONE, regions) /\ ~is_existing_vma(GONE, regions)
  BY PageCacheAssumption DEF is_existing_vma

LEMMA UnmapOldestIs ==
  ASSUME NEW h \in Handler, h.op = "fault", h.pid \in DOMAIN buffers,
         buffers[h.pid] \in Buffer, NEW regions
  PROVE  LET next == UnmapOldest(h, regions)
         IN  /\ Turned(next, h, buffers[h.pid], regions)
             /\ next.b = swap_buffer_cache(buffers[h.pid])
<1> DEFINE b == buffers[h.pid]
           s == swap_buffer_cache(b)
<1>1. s \in Buffer
  BY SwapIs
<1> HIDE DEF s
<1>2. UnmapOldest(h, regions) = [b |-> s, h |-> UnmapFront(h, s, regions, "map")]
  BY DEF UnmapOldest, s
<1> QED BY <1>1, <1>2 DEF Turned, UnmapFront, Handler, s

LEMMA UnmapCacheIs ==
  ASSUME NEW h \in Handler, h.op # "fault", NEW b \in Buffer, NEW regions
  PROVE  LET next == UnmapCache(h, b, regions)
         IN  /\ Turned(next, h, b, regions) /\ next.h.todo = "last"
             /\ next.h.step = "save" => next.b = swap_buffer_cache(b)
             /\ next.h.step = "end" => ~is_existing_vma(b.cache_start, regions)
<1> DEFINE s == swap_buffer_cache(b)
           last == [h EXCEPT !.todo = "last"]
<1>1. s \in Buffer /\ s.start = b.cache_start
  BY SwapIs
<1>2. last \in Handler /\ last.pid = h.pid /\ last.op = h.op /\ last.page = h.page /\ last.todo = "last"
  BY DEF Handler
<1> HIDE DEF s, last
<1>3. CASE b.cache_start = NONE
  <2>1. UnmapCache(h, b, regions) = [b |-> b, h |-> [last EXCEPT !.step = "end"]]
    BY <1>3 DEF UnmapCache, last
  <2> QED BY <1>2, <1>3, <2>1, NotInVma DEF Turned, Handler
<1>4. CASE b.cache_start # NONE
  <2>1. UnmapCache(h, b, regions) = [b |-> s, h |-> UnmapFront(last, s, regions, "end")]
    BY <1>4 DEF UnmapCache, last, s
  <2> QED BY <1>1, <1>2, <2>1 DEF Turned, UnmapFront, Handler, s
<1> QED BY <1>3, <1>4

LEMMA UnmapBothIs ==
  ASSUME NEW h \in Handler, h.op # "fault", h.todo = "both", h.pid \in DOMAIN buffers,
         buffers[h.pid] \in Buffer, NEW regions
  PROVE  LET next == UnmapBoth(h, regions)
             b    == buffers[h.pid]
         IN  /\ Turned(next, h, b, regions)
             /\ next.h.step = "save" /\ next.h.todo = "last" =>
                  next.b = swap_buffer_cache(b) /\ ~is_existing_vma(b.start, regions)
             /\ next.h.step = "end" =>
                  ~is_existing_vma(b.start, regions) /\ ~is_existing_vma(b.cache_start, regions)
<1> DEFINE b == buffers[h.pid]
<1>1. CASE is_existing_vma(b.start, regions)
  <2>1. UnmapBoth(h, regions) = [b |-> b, h |-> [h EXCEPT !.step = "save"]]
    BY <1>1 DEF UnmapBoth
  <2> QED BY <1>1, <2>1 DEF Turned, Handler
<1>2. CASE ~is_existing_vma(b.start, regions)
  <2>1. UnmapBoth(h, regions) = UnmapCache(h, b, regions)
    BY <1>2 DEF UnmapBoth
  <2> QED BY <1>2, <2>1, UnmapCacheIs
<1> QED BY <1>1, <1>2

LEMMA NoBuffer ==
  ASSUME NEW h \in Handler, h.pid \notin DOMAIN buffers, NEW regions
  PROVE  /\ UnmapOldest(h, regions) = [b |-> NONE, h |-> [h EXCEPT !.step = "map"]]
         /\ UnmapBoth(h, regions) = [b |-> NONE, h |-> [h EXCEPT !.step = "end"]]
  BY DEF UnmapOldest, UnmapBoth

LEMMA CallIs ==
  ASSUME NEW t \in Threads, NEW op \in {"fault", "malloc", "free"}, NEW p \in Pages
  PROVE  /\ Call(t, op, p) \in Handler /\ Call(t, op, p).pid = t /\ Call(t, op, p).op = op
         /\ Call(t, op, p).page = p /\ Call(t, op, p).todo = "both"
  BY DEF Call, Handler

LEMMA BuffersTyped ==
  ASSUME TypeOK
  PROVE  /\ \A t \in DOMAIN buffers : t \in Threads /\ buffers[t] \in Buffer /\ buffers[t] # NONE
         /\ \A k \in DOMAIN storage : storage[k] \in Values
         /\ handler # NONE => handler \in Handler
  BY PageCacheAssumption DEF TypeOK, Range

LEMMA MappedIs ==
  ASSUME NEW m \in [Frames -> Values], pte' \in [Pages -> Frames \cup {NONE}]
  PROVE  /\ Mapped(m) \in [Frames -> Values]
         /\ \A p \in Pages : pte'[p] # NONE => Mapped(m)[pte'[p]] = m[pte'[p]]
<1>1. \A p \in Pages : pte'[p] # NONE => pte'[p] \in Frames /\ pte'[p] \in Range(pte')
  BY DEF Range
<1> QED BY <1>1, PageCacheAssumption DEF Mapped

LEMMA LoadedIs ==
  ASSUME TypeOK
  PROVE  /\ \A k : Loaded(k) \in Values
         /\ \A p \in Pages : View(p) \in Values
  BY BuffersTyped, PageCacheAssumption DEF TypeOK, Loaded, View

-----------------------------------------------------------------------------
(* Steps that map no page.                                                 *)

\* A slot keeps its page, or gives it up when it is not mapped any more.
Left(slot, new) ==
  new = slot \/ (new \notin Pages /\ (slot \in Pages => pte'[slot] = NONE))

\* Buffer c is what is left of b.
LeftOf(b, c) ==
  \E d \in {b, swap_buffer_cache(b)} :
    /\ c.buffer = d.buffer /\ c.cache = d.cache
    /\ Left(d.start, c.start) /\ Left(d.cache_start, c.cache_start)

Unmaps ==
  /\ pte' \in [Pages -> Frames \cup {NONE}] /\ \A p \in Pages : pte'[p] \in {NONE, pte[p]}
  /\ DOMAIN buffers' \subseteq DOMAIN buffers
  /\ \A t \in DOMAIN buffers' : buffers'[t] \in Buffer /\ LeftOf(buffers[t], buffers'[t])

LEMMA LeftOfIs ==
  ASSUME NEW b \in Buffer, NEW c, LeftOf(b, c)
  PROVE  /\ FramesOf(c) = FramesOf(b)
         /\ b.buffer # b.cache => c.buffer # c.cache
         /\ \A p \in Pages : p \in SlotsOf(c) => p \in SlotsOf(b)
         /\ \A p \in Pages : p \in SlotsOf(b) /\ pte'[p] # NONE => p \in SlotsOf(c)
         /\ \A p \in Pages, f \in Frames :
              /\ pte'[p] = f /\ f # NONE
              /\ f = b.buffer => p = b.start
              /\ f = b.cache => p = b.cache_start
              => /\ f = c.buffer => p = c.start
                 /\ f = c.cache => p = c.cache_start
<1>1. PICK d \in {b, swap_buffer_cache(b)} :
        /\ c.buffer = d.buffer /\ c.cache = d.cache
        /\ Left(d.start, c.start) /\ Left(d.cache_start, c.cache_start)
  BY DEF LeftOf
<1>2. CASE d = b
  BY <1>1, <1>2 DEF Left, FramesOf, SlotsOf
<1>3. CASE d = swap_buffer_cache(b)
  <2>1. d.buffer = b.cache /\ d.cache = b.buffer /\ d.start = b.cache_start /\ d.cache_start = b.start
    BY <1>3, SwapIs
  <2> QED BY <1>1, <2>1 DEF Left, FramesOf, SlotsOf
<1> QED BY <1>1, <1>2, <1>3

LEMMA UnmapsKeeps ==
  ASSUME TypeOK, Slots, Apart, NoAlias, Unmaps
  PROVE  Slots' /\ Apart' /\ NoAlias'
<1>1. /\ \A p \in Pages : pte'[p] # NONE => pte'[p] = pte[p] /\ pte'[p] \in Frames
      /\ DOMAIN buffers' \subseteq DOMAIN buffers
  BY DEF Unmaps
<1>2. ASSUME NEW t \in DOMAIN buffers'
      PROVE  t \in DOMAIN buffers /\ buffers[t] \in Buffer /\ buffers'[t] \in Buffer /\ LeftOf(buffers[t], buffers'[t])
  BY <1>1, BuffersTyped DEF Unmaps
<1>3. NoAlias'
  BY <1>1 DEF NoAlias
<1>4. Apart'
  <2>1. \A t \in DOMAIN buffers' : t \in DOMAIN buffers /\ FramesOf(buffers'[t]) = FramesOf(buffers[t])
    BY <1>2, LeftOfIs
  <2> QED BY <2>1 DEF Apart
<1>5. Slots'
  <2> SUFFICES ASSUME NEW t \in DOMAIN buffers'
               PROVE  /\ buffers'[t].buffer # buffers'[t].cache
                      /\ \A p \in Pages :
                           /\ pte'[p] = buffers'[t].buffer => p = buffers'[t].start
                           /\ pte'[p] = buffers'[t].cache => p = buffers'[t].cache_start
    BY DEF Slots
  <2>1. buffers'[t].buffer # buffers'[t].cache
    BY <1>2, LeftOfIs DEF Slots
  <2>2. ASSUME NEW p \in Pages, pte'[p] \in FramesOf(buffers'[t])
        PROVE  /\ pte'[p] = buffers'[t].buffer => p = buffers'[t].start
               /\ pte'[p] = buffers'[t].cache => p = buffers'[t].cache_start
    <3>1. pte'[p] \in Frames /\ pte'[p] # NONE
      BY <1>2, <2>2, PageCacheAssumption DEF FramesOf, Buffer
    <3>2. pte'[p] = pte[p]
      BY <1>1, <3>1
    <3>3. /\ pte'[p] = buffers[t].buffer => p = buffers[t].start
          /\ pte'[p] = buffers[t].cache => p = buffers[t].cache_start
      BY <1>2, <3>2 DEF Slots
    <3> QED BY <1>2, <3>1, <3>3, LeftOfIs
  <2> QED BY <2>1, <2>2 DEF FramesOf
<1> QED BY <1>3, <1>4, <1>5

\* Go after Turned.
LEMMA GoIs ==
  ASSUME TypeOK, NEW h \in Handler, NEW b, NEW regions, NEW next,
         h.pid \in DOMAIN buffers, Turned(next, h, b, regions), Go(next)
  PROVE  /\ handler' = next.h /\ handler' # NONE
         /\ buffers' = With(buffers, h.pid, next.b)
         /\ DOMAIN buffers' = DOMAIN buffers /\ Range(buffers') \subseteq Buffer
         /\ buffers'[h.pid] = next.b
         /\ \A t \in DOMAIN buffers : t # h.pid => buffers'[t] = buffers[t]
<1>1. next.b \in Buffer /\ next.b # NONE /\ next.h \in Handler /\ next.h # NONE /\ next.h.pid = h.pid
  BY PageCacheAssumption DEF Turned
<1>2. handler' = next.h /\ buffers' = With(buffers, h.pid, next.b)
  BY <1>1 DEF Go
<1>3. /\ DOMAIN buffers' = DOMAIN buffers /\ buffers'[h.pid] = next.b
      /\ \A t \in DOMAIN buffers : t # h.pid => buffers'[t] = buffers[t]
  <2>1. DOMAIN buffers \cup {h.pid} = DOMAIN buffers
    OBVIOUS
  <2> QED BY <1>2, <2>1, <1>1 DEF With
<1>4. \A t \in DOMAIN buffers' : buffers'[t] \in Buffer
  BY <1>1, <1>3, BuffersTyped
<1> QED BY <1>1, <1>2, <1>3, <1>4 DEF Range

LEMMA LeftItself ==
  ASSUME NEW b
  PROVE  LeftOf(b, b) /\ LeftOf(b, swap_buffer_cache(b))
  BY DEF LeftOf, Left

LEMMA NothingUnmapped ==
  ASSUME TypeOK, pte' = pte, DOMAIN buffers' \subseteq DOMAIN buffers,
         \A t \in DOMAIN buffers' :
           buffers'[t] \in Buffer /\ buffers'[t] \in {buffers[t], swap_buffer_cache(buffers[t])}
  PROVE  Unmaps
  BY LeftItself DEF Unmaps, TypeOK

\* What the beginning of a call does: the thread of h finds its next page to
\* save, or goes on.
Begun(h, regions) ==
  /\ handler' \in Handler /\ handler' # NONE
  /\ handler'.pid = h.pid /\ handler'.op = h.op /\ handler'.page = h.page
  /\ handler'.step \in IF h.op = "fault" THEN {"save", "map"} ELSE {"save", "end"}
  /\ DOMAIN buffers' = DOMAIN buffers /\ Range(buffers') \subseteq Buffer
  /\ \A t \in DOMAIN buffers : buffers'[t] \in {buffers[t], swap_buffer_cache(buffers[t])}
  /\ handler'.step = "save" =>
       h.pid \in DOMAIN buffers /\ is_existing_vma(buffers'[h.pid].start, regions)
  /\ handler'.step = "map" /\ h.pid \in DOMAIN buffers =>
       ~is_existing_vma(buffers'[h.pid].start, regions)
  /\ handler'.step = "end" /\ h.pid \in DOMAIN buffers =>
       \A p \in SlotsOf(buffers[h.pid]) : ~is_existing_vma(p, regions)
  /\ handler'.step = "save" /\ handler'.todo = "last" /\ h.op # "fault" =>
       ~is_existing_vma(buffers'[h.pid].cache_start, regions)

LEMMA Beginning ==
  ASSUME TypeOK, NEW h \in Handler, h.todo = "both", NEW regions,
         \/ h.op = "fault" /\ Go(UnmapOldest(h, regions))
         \/ h.op # "fault" /\ Go(UnmapBoth(h, regions))
  PROVE  Begun(h, regions)
<1> DEFINE b == buffers[h.pid]
<1>1. CASE h.pid \notin DOMAIN buffers
  <2> DEFINE step == IF h.op = "fault" THEN "map" ELSE "end"
  <2>1. handler' = [h EXCEPT !.step = step] /\ buffers' = buffers
    BY <1>1, NoBuffer DEF Go
  <2>2. handler' \in Handler /\ handler' # NONE
    BY <2>1, PageCacheAssumption DEF Handler
  <2>3. handler'.pid = h.pid /\ handler'.op = h.op /\ handler'.page = h.page /\ handler'.step = step
    BY <2>1 DEF Handler
  <2>4. Range(buffers') \subseteq Buffer
    BY <2>1 DEF TypeOK
  <2> QED BY <1>1, <2>1, <2>2, <2>3, <2>4 DEF Begun
<1>2. CASE h.pid \in DOMAIN buffers /\ h.op = "fault"
  <2> DEFINE next == UnmapOldest(h, regions)
  <2>1. Turned(next, h, b, regions)
    BY <1>2, BuffersTyped, UnmapOldestIs
  <2> HIDE DEF next
  <2>2. Go(next)
    BY <1>2 DEF next
  <2>3. /\ handler' = next.h /\ handler' # NONE
        /\ DOMAIN buffers' = DOMAIN buffers /\ Range(buffers') \subseteq Buffer
        /\ buffers'[h.pid] = next.b
        /\ \A t \in DOMAIN buffers : t # h.pid => buffers'[t] = buffers[t]
    BY <1>2, <2>1, <2>2, GoIs
  <2> QED BY <1>2, <2>1, <2>3 DEF Begun, Turned
<1>3. CASE h.pid \in DOMAIN buffers /\ h.op # "fault"
  <2> DEFINE next == UnmapBoth(h, regions)
  <2>1. /\ Turned(next, h, b, regions)
        /\ next.h.step = "save" /\ next.h.todo = "last" =>
             next.b = swap_buffer_cache(b) /\ ~is_existing_vma(b.start, regions)
        /\ next.h.step = "end" =>
             ~is_existing_vma(b.start, regions) /\ ~is_existing_vma(b.cache_start, regions)
    BY <1>3, BuffersTyped, UnmapBothIs
  <2> HIDE DEF next
  <2>2. Go(next)
    BY <1>3 DEF next
  <2>3. /\ handler' = next.h /\ handler' # NONE
        /\ DOMAIN buffers' = DOMAIN buffers /\ Range(buffers') \subseteq Buffer
        /\ buffers'[h.pid] = next.b
        /\ \A t \in DOMAIN buffers : t # h.pid => buffers'[t] = buffers[t]
    BY <1>3, <2>1, <2>2, GoIs
  <2>4. swap_buffer_cache(b).cache_start = b.start
    BY <1>3, BuffersTyped, SwapIs
  <2> QED BY <1>3, <2>1, <2>3, <2>4 DEF Begun, Turned, SlotsOf
<1> QED BY <1>1, <1>2, <1>3

\* A page whose VMA is not found is not mapped.
LEMMA NotFound ==
  ASSUME MappedVma, NEW s, NEW regions, used \subseteq regions, ~is_existing_vma(s, regions)
  PROVE  \A p \in Pages : p = s => pte[p] = NONE
  BY DEF MappedVma, is_existing_vma, HasVma

\* How the beginning of a call keeps the invariant.
LEMMA BegunKeeps ==
  ASSUME FrameInv, NEW h \in Handler, Begun(h, used'), used \subseteq used', used' \subseteq Pages,
         pte' = pte, h.op # "free" => h.page \in used', h.op # "fault" => h.page \notin live'
  PROVE  /\ Unmaps /\ Slots' /\ Apart' /\ NoAlias' /\ MappedVma' /\ HandlerInv' /\ FrontFree'
         /\ DOMAIN buffers' \subseteq Threads /\ Range(buffers') \subseteq Buffer
         /\ handler'.step \in {"save", "zap"} =>
              handler'.pid \in DOMAIN buffers' /\ buffers'[handler'.pid].start \in Pages
<1>1. \A t \in DOMAIN buffers' : buffers'[t] \in Buffer
  BY DEF Begun, Range
<1>2. Unmaps
  BY <1>1, NothingUnmapped DEF Begun, FrameInv
<1>3. Slots' /\ Apart' /\ NoAlias'
  BY <1>2, UnmapsKeeps DEF FrameInv
<1>4. MappedVma'
  BY DEF FrameInv, MappedVma, HasVma
<1>5. FrontFree'
  BY NotFound DEF Begun, FrameInv, FrontFree
<1>6. HandlerInv'
  BY DEF HandlerInv, Begun
<1> QED BY <1>2, <1>3, <1>4, <1>5, <1>6 DEF Begun, FrameInv, TypeOK, is_existing_vma

\* A page table without its area's pages, and the buffers that go with it.
LEMMA MunmapIs ==
  ASSUME TypeOK, used' \subseteq Pages, NEW a \in Areas, do_munmap(a)
  PROVE  /\ Unmaps
         /\ \A p \in Pages : pte'[p] = IF AreaOf[p] = a THEN NONE ELSE pte[p]
         /\ DOMAIN buffers' \subseteq Threads /\ Range(buffers') \subseteq Buffer
         /\ \A t \in DOMAIN buffers : t \notin DOMAIN buffers' =>
              t = PidOf[a] /\ \A c \in Areas : PidOf[c] = t => ~HasVma(c, used')
         /\ \A t \in DOMAIN buffers' :
              /\ buffers'[t].start = buffers[t].start \/ AreaOf[buffers[t].start] = a
              /\ buffers'[t].cache_start = buffers[t].cache_start \/ AreaOf[buffers[t].cache_start] = a
              /\ (\A p \in Pages : p \in SlotsOf(buffers[t]) => AreaOf[p] # a) => buffers'[t] = buffers[t]
         /\ mem' \in [Frames -> Values]
         /\ \A p \in Pages : pte'[p] # NONE => mem'[pte'[p]] = mem[pte'[p]]
         /\ order' \in [Threads -> Seq(Pages)]
<1>1. /\ pte' = [p \in Pages |-> IF AreaOf[p] = a THEN NONE ELSE pte[p]]
      /\ mem' = Mapped(mem)
      /\ order' = [t \in Threads |-> Without(order[t], {p \in Pages : AreaOf[p] = a})]
  BY DEF do_munmap
<1>2. /\ pte' \in [Pages -> Frames \cup {NONE}] /\ \A p \in Pages : pte'[p] \in {NONE, pte[p]}
      /\ \A p \in Pages : AreaOf[p] = a => pte'[p] = NONE
      /\ \A p \in Pages : pte'[p] = IF AreaOf[p] = a THEN NONE ELSE pte[p]
  BY <1>1 DEF TypeOK
<1>3. PICK bufs \in {buffers, Dangling(buffers, a)} : buffers' = remove_buffer(bufs, PidOf[a], used')
  BY DEF do_munmap
<1>4. /\ DOMAIN bufs = DOMAIN buffers
      /\ \A t \in DOMAIN buffers : bufs[t] \in Buffer /\ LeftOf(buffers[t], bufs[t])
      /\ \A t \in DOMAIN buffers :
           /\ bufs[t].start = buffers[t].start \/ AreaOf[buffers[t].start] = a
           /\ bufs[t].cache_start = buffers[t].cache_start \/ AreaOf[buffers[t].cache_start] = a
           /\ (\A p \in Pages : p \in SlotsOf(buffers[t]) => AreaOf[p] # a) => bufs[t] = buffers[t]
  <2>1. CASE bufs = buffers
    BY <2>1, BuffersTyped, LeftItself
  <2>2. CASE bufs = Dangling(buffers, a)
    <3> DEFINE gone(p) == IF p \in Pages /\ AreaOf[p] = a THEN GONE ELSE p
    <3>1. /\ DOMAIN bufs = DOMAIN buffers
          /\ \A t \in DOMAIN buffers :
               bufs[t] = [buffers[t] EXCEPT !.start = gone(@), !.cache_start = gone(@)]
      BY <2>2 DEF Dangling
    <3>2. ASSUME NEW t \in DOMAIN buffers
          PROVE  /\ bufs[t] \in Buffer /\ bufs[t].buffer = buffers[t].buffer /\ bufs[t].cache = buffers[t].cache
                 /\ bufs[t].start = gone(buffers[t].start) /\ bufs[t].cache_start = gone(buffers[t].cache_start)
      <4>1. buffers[t] \in Buffer
        BY BuffersTyped
      <4>2. \A s \in Pages \cup {NONE, GONE} : gone(s) \in Pages \cup {NONE, GONE}
        OBVIOUS
      <4> HIDE DEF gone
      <4> QED BY <3>1, <4>1, <4>2 DEF Buffer
    <3>3. ASSUME NEW s PROVE Left(s, gone(s))
      BY <1>2, PageCacheAssumption DEF Left
    <3>4. ASSUME NEW t \in DOMAIN buffers PROVE LeftOf(buffers[t], bufs[t])
      BY <3>2, <3>3 DEF LeftOf
    <3>5. ASSUME NEW t \in DOMAIN buffers,
                 \A p \in Pages : p \in SlotsOf(buffers[t]) => AreaOf[p] # a
          PROVE  bufs[t] = buffers[t]
      <4>1. gone(buffers[t].start) = buffers[t].start /\ gone(buffers[t].cache_start) = buffers[t].cache_start
        BY <3>5 DEF SlotsOf
      <4> QED BY <3>2, <4>1, BuffersTyped DEF Buffer
    <3> QED BY <3>1, <3>2, <3>4, <3>5
  <2> QED BY <2>1, <2>2
<1>5. /\ DOMAIN buffers' \subseteq DOMAIN buffers
      /\ \A t \in DOMAIN buffers' : buffers'[t] = bufs[t]
      /\ \A t \in DOMAIN buffers : t \notin DOMAIN buffers' =>
           t = PidOf[a] /\ \A c \in Areas : PidOf[c] = t => ~HasVma(c, used')
  BY <1>3, <1>4 DEF remove_buffer, Restrict
<1>6. Unmaps
  BY <1>2, <1>4, <1>5 DEF Unmaps
<1>7. DOMAIN buffers' \subseteq Threads /\ Range(buffers') \subseteq Buffer
  BY <1>4, <1>5 DEF TypeOK, Range
<1>8. /\ mem' \in [Frames -> Values]
      /\ \A p \in Pages : pte'[p] # NONE => mem'[pte'[p]] = mem[pte'[p]]
  BY <1>1, <1>2, MappedIs DEF TypeOK
<1>9. order' \in [Threads -> Seq(Pages)]
  BY <1>1, WithoutType DEF TypeOK
<1> QED BY <1>2, <1>4, <1>5, <1>6, <1>7, <1>8, <1>9

LEMMA RemoveStorageIs ==
  ASSUME TypeOK, NEW t, NEW pages, remove_storage_pages(t, pages)
  PROVE  /\ stored' \subseteq Threads \X Pages
         /\ DOMAIN storage' \subseteq Threads \X Pages /\ Range(storage') \subseteq Values
         /\ \A k : k \in stored' <=> k \in stored /\ k \notin {t} \X pages
         /\ \A k : k \notin {t} \X pages =>
              /\ k \in DOMAIN storage' <=> k \in DOMAIN storage
              /\ k \in DOMAIN storage => storage'[k] = storage[k]
<1>1. /\ stored' = stored \ ({t} \X pages)
      /\ storage' = Restrict(storage, DOMAIN storage \ (stored \cap ({t} \X pages)))
  BY DEF remove_storage_pages, remove_stored_page
<1> DEFINE gone == {t} \X pages
<1> HIDE DEF gone
<1>2. /\ stored' = stored \ gone
      /\ storage' = [k \in DOMAIN storage \ (stored \cap gone) |-> storage[k]]
  BY <1>1 DEF Restrict, gone
<1>3. \A k \in DOMAIN storage : storage[k] \in Values
  BY BuffersTyped
<1>4. Range(storage') \subseteq Values
  BY <1>2, <1>3 DEF Range
<1> QED BY <1>2, <1>4 DEF TypeOK, gone

-----------------------------------------------------------------------------
(* Each step keeps the frames apart.                                       *)

LEMMA WriteIs ==
  ASSUME FrameInv, NEW t \in Threads, NEW p \in Pages, NEW v \in Values, Write(t, p, v)
  PROVE  /\ pte' \in [Pages -> Frames \cup {NONE}] /\ mem' \in [Frames -> Values]
         /\ pte'[p] # NONE /\ mem'[pte'[p]] = v
         /\ \A q \in Pages : q # p => pte'[q] = pte[q] /\ pte'[q] # pte'[p]
         /\ \A q \in Pages : q # p /\ pte[q] # NONE => mem'[pte[q]] = mem[pte[q]]
         /\ pte'[p] # pte[p] => pte'[p] \notin Buffered
<1> DEFINE f == IF pte[p] \in Buffered THEN Unused ELSE pte[p]
<1>1. /\ pte \in [Pages -> Frames \cup {NONE}] /\ mem \in [Frames -> Values] /\ pte[p] # NONE
      /\ pte[p] \in Frames /\ NoAlias /\ TypeOK
  BY DEF FrameInv, TypeOK, Write
<1>2. /\ pte' = [pte EXCEPT ![p] = f] /\ mem' = Mapped([mem EXCEPT ![f] = v])
  BY DEF Write
<1>3. f \in Frames /\ f # NONE /\ (\A q \in Pages : q # p => pte[q] # f) /\ (f # pte[p] => f \notin Buffered)
  <2>1. CASE pte[p] \in Buffered
    BY <1>1, <2>1, UnusedIs, PageCacheAssumption
  <2>2. CASE pte[p] \notin Buffered
    BY <1>1, <2>2, PageCacheAssumption DEF NoAlias
  <2> QED BY <2>1, <2>2
<1> HIDE DEF f
<1>4. [mem EXCEPT ![f] = v] \in [Frames -> Values]
  BY <1>1
<1>5. pte' \in [Pages -> Frames \cup {NONE}]
  BY <1>1, <1>2, <1>3
<1>6. /\ mem' \in [Frames -> Values]
      /\ \A q \in Pages : pte'[q] # NONE => mem'[pte'[q]] = [mem EXCEPT ![f] = v][pte'[q]]
  BY <1>2, <1>4, <1>5, MappedIs
<1>7. pte'[p] = f /\ \A q \in Pages : q # p => pte'[q] = pte[q]
  BY <1>1, <1>2
<1>8. \A q \in Pages : q # p /\ pte[q] # NONE => pte[q] \in Frames
  BY <1>1
<1> QED BY <1>1, <1>3, <1>5, <1>6, <1>7, <1>8

LEMMA WriteKeeps ==
  ASSUME FrameInv, NEW t \in Threads, NEW p \in Pages, NEW v \in Values, Write(t, p, v)
  PROVE  FrameInv'
<1>1. /\ pte' \in [Pages -> Frames \cup {NONE}] /\ mem' \in [Frames -> Values]
      /\ pte'[p] # NONE /\ pte[p] # NONE
      /\ \A q \in Pages : q # p => pte'[q] = pte[q] /\ pte'[q] # pte'[p]
      /\ pte'[p] # pte[p] => pte'[p] \notin Buffered
  BY WriteIs DEF Write
<1>2. /\ UNCHANGED <<live, used, buffers, stored, storage, waiting, handler, order, seen>>
      /\ written' = [written EXCEPT ![p] = v] /\ p \in live
  BY DEF Write, Touches
<1>3. TypeOK'
  BY <1>1, <1>2 DEF FrameInv, TypeOK
<1>4. NoAlias'
  BY <1>1 DEF FrameInv, NoAlias
<1>5. \A u \in DOMAIN buffers : buffers[u].buffer \in Buffered /\ buffers[u].cache \in Buffered
  BY DEF Buffered
<1>6. Slots'
  BY <1>1, <1>2, <1>5 DEF FrameInv, Slots
<1>7. Apart' /\ HandlerInv'
  BY <1>2 DEF FrameInv, Apart, HandlerInv
<1>8. MappedVma' /\ FrontFree'
  BY <1>1, <1>2 DEF FrameInv, MappedVma, FrontFree, HasVma
<1> QED BY <1>3, <1>4, <1>6, <1>7, <1>8 DEF FrameInv

LEMMA ReadKeeps ==
  ASSUME FrameInv, NEW t \in Threads, NEW p \in Pages, Read(t, p)
  PROVE  FrameInv'
<1>1. mem[pte[p]] \in Values
  BY DEF FrameInv, TypeOK, Read
<1> QED BY <1>1 DEF FrameInv, Read, kernel, TypeOK, Slots, Apart, NoAlias, MappedVma, HasVma,
                    HandlerInv, FrontFree

LEMMA MissKeeps ==
  ASSUME FrameInv, NEW t \in Threads, NEW p \in Pages, Miss(t, p)
  PROVE  FrameInv'
  BY DEF FrameInv, Miss, TypeOK, Slots, Apart, NoAlias, MappedVma, HasVma, HandlerInv, FrontFree

LEMMA FaultStartKeeps ==
  ASSUME FrameInv, NEW t \in Threads, FaultStart(t)
  PROVE  FrameInv'
<1>1. /\ handler = NONE /\ waiting[t] # NONE /\ waiting[t] \in Pages
      /\ UNCHANGED <<live, used, pte, mem, stored, storage, order, written, seen>>
  BY DEF FaultStart, FrameInv, TypeOK
<1>2. CASE waiting[t] \in used
  <2> DEFINE h == Call(t, "fault", waiting[t])
  <2>1. h \in Handler /\ h.todo = "both" /\ h.op = "fault" /\ h.page = waiting[t]
    BY <1>1, CallIs
  <2> HIDE DEF h
  <2>2. Go(UnmapOldest(h, used)) /\ UNCHANGED waiting
    BY <1>2 DEF FaultStart, h
  <2>3. Begun(h, used')
    BY <1>1, <2>1, <2>2, Beginning DEF FrameInv
  <2>4. used' \subseteq Pages /\ used \subseteq used' /\ pte' = pte /\ h.page \in used'
    BY <1>1, <1>2, <2>1 DEF FrameInv, TypeOK
  <2>5. /\ Slots' /\ Apart' /\ NoAlias' /\ MappedVma' /\ HandlerInv' /\ FrontFree'
        /\ DOMAIN buffers' \subseteq Threads /\ Range(buffers') \subseteq Buffer
        /\ handler'.step \in {"save", "zap"} =>
             handler'.pid \in DOMAIN buffers' /\ buffers'[handler'.pid].start \in Pages
    BY <2>1, <2>3, <2>4, BegunKeeps
  <2>6. handler' \in Handler
    BY <2>3 DEF Begun
  <2>7. TypeOK'
    BY <1>1, <2>2, <2>5, <2>6 DEF FrameInv, TypeOK
  <2> QED BY <2>5, <2>7 DEF FrameInv
<1>3. CASE waiting[t] \notin used
  <2>1. waiting' = [waiting EXCEPT ![t] = NONE] /\ UNCHANGED <<handler, buffers>>
    BY <1>3 DEF FaultStart
  <2> QED BY <1>1, <2>1 DEF FrameInv, TypeOK, Slots, Apart, NoAlias, MappedVma, HasVma, HandlerInv, FrontFree
<1> QED BY <1>2, <1>3

LEMMA MallocStartKeeps ==
  ASSUME FrameInv, NEW t \in Threads, NEW p \in Pages, MallocStart(t, p)
  PROVE  FrameInv'
<1> DEFINE h == Call(t, "malloc", p)
<1>1. h \in Handler /\ h.todo = "both" /\ h.op = "malloc" /\ h.page = p
  BY CallIs
<1> HIDE DEF h
<1>2. /\ p \notin used /\ used' = used \cup {p} /\ Go(UnmapBoth(h, used'))
      /\ UNCHANGED <<live, pte, mem, stored, storage, waiting, order, written, seen>>
  BY DEF MallocStart, h
<1>3. Begun(h, used')
  BY <1>1, <1>2, Beginning DEF FrameInv
<1>4. used' \subseteq Pages /\ used \subseteq used' /\ pte' = pte /\ h.page \in used' /\ h.page \notin live'
  BY <1>1, <1>2 DEF FrameInv, TypeOK
<1>5. /\ Slots' /\ Apart' /\ NoAlias' /\ MappedVma' /\ HandlerInv' /\ FrontFree'
      /\ DOMAIN buffers' \subseteq Threads /\ Range(buffers') \subseteq Buffer
      /\ handler'.step \in {"save", "zap"} =>
           handler'.pid \in DOMAIN buffers' /\ buffers'[handler'.pid].start \in Pages
  BY <1>1, <1>3, <1>4, BegunKeeps
<1>6. handler' \in Handler
  BY <1>3 DEF Begun
<1>7. TypeOK'
  BY <1>2, <1>4, <1>5, <1>6 DEF FrameInv, TypeOK
<1> QED BY <1>5, <1>7 DEF FrameInv

LEMMA ReleaseIs ==
  ASSUME TypeOK, NEW pages, Release(pages)
  PROVE  /\ live' = live \ pages /\ written' \in [live' -> Values]
         /\ (\A p \in live' : written'[p] = written[p]) /\ seen' = seen
  BY DEF Release, TypeOK

LEMMA FreeStartKeeps ==
  ASSUME FrameInv, NEW t \in Threads, NEW p \in Pages, FreeStart(t, p)
  PROVE  FrameInv'
<1> DEFINE h == Call(t, "free", p)
<1>1. h \in Handler /\ h.todo = "both" /\ h.op = "free" /\ h.page = p
  BY CallIs
<1> HIDE DEF h
<1>2. /\ Release({p}) /\ Go(UnmapBoth(h, used))
      /\ UNCHANGED <<used, pte, mem, stored, storage, waiting, order>>
  BY DEF FreeStart, h
<1>3. live' = live \ {p} /\ written' \in [live' -> Values] /\ seen' = seen
  BY <1>2, ReleaseIs DEF FrameInv
<1>4. Begun(h, used')
  BY <1>1, <1>2, Beginning DEF FrameInv
<1>5. used' \subseteq Pages /\ used \subseteq used' /\ pte' = pte
  BY <1>2 DEF FrameInv, TypeOK
<1>6. /\ Slots' /\ Apart' /\ NoAlias' /\ MappedVma' /\ HandlerInv' /\ FrontFree'
      /\ DOMAIN buffers' \subseteq Threads /\ Range(buffers') \subseteq Buffer
      /\ handler'.step \in {"save", "zap"} =>
           handler'.pid \in DOMAIN buffers' /\ buffers'[handler'.pid].start \in Pages
  BY <1>1, <1>4, <1>5, <1>3, BegunKeeps
<1>7. handler' \in Handler
  BY <1>4 DEF Begun
<1>8. TypeOK'
  BY <1>2, <1>5, <1>6, <1>7, <1>3 DEF FrameInv, TypeOK
<1> QED BY <1>6, <1>8 DEF FrameInv

LEMMA StepIs ==
  ASSUME NEW h \in Handler, NEW step \in {"save", "zap", "map", "end", "stuck"}
  PROVE  LET g == [h EXCEPT !.step = step]
         IN  /\ g \in Handler /\ g # NONE /\ g.pid = h.pid /\ g.op = h.op /\ g.page = h.page
             /\ g.step = step /\ g.todo = h.todo
  BY PageCacheAssumption DEF Handler

LEMMA FailIs ==
  ASSUME TypeOK, handler # NONE, Fail
  PROVE  /\ handler' \in Handler \cup {NONE} /\ waiting' \in [Threads -> Pages \cup {NONE}]
         /\ handler' # NONE =>
              /\ handler'.pid = handler.pid /\ handler'.op = handler.op /\ handler'.page = handler.page
              /\ handler'.step = "end" /\ handler.op = "free"
         /\ UNCHANGED <<live, used, pte, mem, buffers, order, written, seen>>
  BY BuffersTyped, StepIs DEF Fail, TypeOK

\* What a step of copy_page_from_user does.
LEMMA SaveIs ==
  ASSUME FrameInv, Save
  PROVE  LET t == handler.pid
             p == buffers[t].start
             k == <<t, p>>
         IN  /\ handler # NONE /\ handler \in Handler /\ handler.step = "save"
             /\ t \in DOMAIN buffers /\ t \in Threads /\ p \in Pages
             /\ UNCHANGED <<live, used, pte, mem, buffers, order, written, seen>>
             /\ handler' # NONE =>
                  /\ handler' \in Handler /\ handler'.pid = handler.pid /\ handler'.op = handler.op
                  /\ handler'.page = handler.page /\ handler'.step \in {"stuck", "end", "zap"}
             /\ \/ /\ pte[p] = NONE
                   /\ handler' = [handler EXCEPT !.step = "stuck"] /\ UNCHANGED <<stored, storage, waiting>>
                \/ /\ pte[p] # NONE /\ "save" \in Faults /\ Fail /\ UNCHANGED <<stored, storage>>
                \/ /\ pte[p] # NONE /\ storage' = With(storage, k, mem[pte[p]])
                   /\ \/ "stored" \in Faults /\ Fail /\ UNCHANGED stored
                      \/ /\ stored' = stored \cup {k} /\ UNCHANGED waiting
                         /\ handler' = [handler EXCEPT !.step = "zap"]
<1> DEFINE t == handler.pid
           p == buffers[t].start
           k == <<t, p>>
<1>1. /\ handler # NONE /\ handler \in Handler /\ handler.step = "save" /\ TypeOK
      /\ t \in DOMAIN buffers /\ t \in Threads /\ p \in Pages
  BY BuffersTyped DEF Save, FrameInv, TypeOK
<1>2. stored \cup ({t} \X {p}) = stored \cup {k}
  OBVIOUS
<1>3. \/ /\ pte[p] = NONE
         /\ handler' = [handler EXCEPT !.step = "stuck"] /\ UNCHANGED <<stored, storage, waiting>>
         /\ UNCHANGED <<live, used, pte, mem, buffers, order, written, seen>>
      \/ /\ pte[p] # NONE /\ "save" \in Faults /\ Fail /\ UNCHANGED <<stored, storage>>
      \/ /\ pte[p] # NONE /\ storage' = With(storage, k, mem[pte[p]])
         /\ \/ "stored" \in Faults /\ Fail /\ UNCHANGED stored
            \/ /\ stored' = stored \cup {k} /\ UNCHANGED waiting
               /\ handler' = [handler EXCEPT !.step = "zap"]
               /\ UNCHANGED <<live, used, pte, mem, buffers, order, written, seen>>
  BY <1>1, <1>2 DEF Save, Saved, add_stored_page
<1>4. UNCHANGED <<live, used, pte, mem, buffers, order, written, seen>>
  BY <1>1, <1>3, FailIs
<1>5. handler' # NONE =>
        /\ handler' \in Handler /\ handler'.pid = handler.pid /\ handler'.op = handler.op
        /\ handler'.page = handler.page /\ handler'.step \in {"stuck", "end", "zap"}
  <2>1. CASE Fail
    BY <1>1, <2>1, FailIs
  <2>2. CASE handler' = [handler EXCEPT !.step = "stuck"]
    BY <1>1, <2>2, StepIs
  <2>3. CASE handler' = [handler EXCEPT !.step = "zap"]
    BY <1>1, <2>3, StepIs
  <2> QED BY <1>3, <2>1, <2>2, <2>3
<1> HIDE DEF k, p, t
<1> QED BY <1>1, <1>3, <1>4, <1>5 DEF k, p, t

LEMMA SaveKeeps ==
  ASSUME FrameInv, Save
  PROVE  FrameInv'
<1> DEFINE t == handler.pid
           p == buffers[t].start
           k == <<t, p>>
<1>1. /\ handler # NONE /\ handler \in Handler /\ handler.step = "save" /\ TypeOK
      /\ t \in DOMAIN buffers /\ t \in Threads /\ p \in Pages
      /\ UNCHANGED <<live, used, pte, mem, buffers, order, written, seen>>
      /\ handler' # NONE =>
           /\ handler' \in Handler /\ handler'.pid = handler.pid /\ handler'.op = handler.op
           /\ handler'.page = handler.page /\ handler'.step \in {"stuck", "end", "zap"}
      /\ \/ UNCHANGED <<stored, storage, waiting>>
         \/ Fail /\ UNCHANGED <<stored, storage>>
         \/ /\ pte[p] # NONE /\ storage' = With(storage, k, mem[pte[p]])
            /\ \/ Fail /\ UNCHANGED stored
               \/ stored' = stored \cup {k} /\ UNCHANGED waiting
  BY SaveIs DEF FrameInv
<1>2. waiting' \in [Threads -> Pages \cup {NONE}]
  BY <1>1, FailIs DEF TypeOK
<1>3. k \in Threads \X Pages
  BY <1>1
<1> HIDE DEF k, p, t
<1>4. stored' \subseteq Threads \X Pages
  BY <1>1, <1>3 DEF TypeOK
<1>5. DOMAIN storage' \subseteq Threads \X Pages /\ Range(storage') \subseteq Values
  <2>1. CASE storage' = With(storage, k, mem[pte[p]]) /\ pte[p] # NONE
    <3>1. mem[pte[p]] \in Values
      BY <1>1, <2>1 DEF TypeOK
    <3>2. \A z \in DOMAIN storage : storage[z] \in Values
      BY <1>1, BuffersTyped
    <3> DEFINE v == mem[pte[p]]
    <3> HIDE DEF v
    <3>3. storage' = [z \in DOMAIN storage \cup {k} |-> IF z = k THEN v ELSE storage[z]]
      BY <2>1 DEF With, v
    <3>4. DOMAIN storage' = DOMAIN storage \cup {k} /\ \A z \in DOMAIN storage' : storage'[z] \in Values
      BY <3>1, <3>2, <3>3 DEF v
    <3> QED BY <1>1, <1>3, <3>4 DEF TypeOK, Range
  <2>2. CASE storage' = storage
    BY <1>1, <2>2 DEF TypeOK
  <2> QED BY <1>1, <2>1, <2>2
<1>6. TypeOK'
  BY <1>1, <1>2, <1>4, <1>5 DEF TypeOK, t, p
<1>7. Slots' /\ Apart' /\ NoAlias' /\ MappedVma'
  BY <1>1 DEF FrameInv, Slots, Apart, NoAlias, MappedVma, HasVma
<1>8. HandlerInv' /\ FrontFree'
  BY <1>1 DEF FrameInv, HandlerInv, FrontFree
<1> QED BY <1>6, <1>7, <1>8 DEF FrameInv

LEMMA ZappedIs ==
  ASSUME NEW b \in Buffer
  PROVE  /\ Zapped(b) \in Buffer /\ Zapped(b).buffer = b.buffer /\ Zapped(b).cache = b.cache
         /\ Zapped(b).start = NONE /\ Zapped(b).cache_start = b.cache_start
  BY DEF Zapped, Buffer

\* What a step of remove_user_page does: c is the buffer as it leaves it.
LEMMA ZapIs ==
  ASSUME FrameInv, Zap
  PROVE  LET t == handler.pid
             b == buffers[t]
             p == b.start
             z == Zapped(b)
             c == buffers'[t]
         IN  /\ handler # NONE /\ handler \in Handler /\ handler.step = "zap"
             /\ t \in DOMAIN buffers /\ t \in Threads /\ p \in Pages /\ b \in Buffer
             /\ pte' = [pte EXCEPT ![p] = NONE] /\ order' = [order EXCEPT ![t] = Without(@, {p})]
             /\ mem' = Mapped(mem)
             /\ UNCHANGED <<live, used, stored, storage, waiting, written, seen>>
             /\ DOMAIN buffers' = DOMAIN buffers /\ Range(buffers') \subseteq Buffer
             /\ \A u \in DOMAIN buffers : u # t => buffers'[u] = buffers[u]
             /\ handler' # NONE /\ Turned([h |-> handler', b |-> c], handler, z, used)
             /\ handler.op = "fault" => handler'.step = "map" /\ c = z
             /\ handler.op # "fault" /\ handler.todo = "both" =>
                  /\ handler'.todo = "last" /\ (handler'.step = "save" => c = swap_buffer_cache(z))
                  /\ handler'.step = "end" => ~is_existing_vma(b.cache_start, used)
             /\ handler.op # "fault" /\ handler.todo = "last" =>
                  handler'.step = "end" /\ c = z
<1> DEFINE t == handler.pid
           b == buffers[t]
           p == b.start
           z == Zapped(b)
           next == IF handler.op = "fault" THEN [b |-> z, h |-> [handler EXCEPT !.step = "map"]]
                   ELSE IF handler.todo = "both" THEN UnmapCache(handler, z, used)
                   ELSE [b |-> z, h |-> [handler EXCEPT !.step = "end"]]
<1>1. /\ handler # NONE /\ handler \in Handler /\ handler.step = "zap" /\ TypeOK
      /\ t \in DOMAIN buffers /\ t \in Threads /\ p \in Pages /\ b \in Buffer
  BY BuffersTyped DEF Zap, FrameInv, TypeOK
<1>2. z \in Buffer /\ z.start = NONE /\ z.cache_start = b.cache_start
  BY <1>1, ZappedIs
<1>3. /\ pte' = [pte EXCEPT ![p] = NONE] /\ order' = [order EXCEPT ![t] = Without(@, {p})]
      /\ mem' = Mapped(mem) /\ Go(next)
      /\ UNCHANGED <<live, used, stored, storage, waiting, written, seen>>
  BY DEF Zap
<1> HIDE DEF z
<1>4. /\ Turned(next, handler, z, used)
      /\ handler.op = "fault" => next.h.step = "map" /\ next.b = z
      /\ handler.op # "fault" /\ handler.todo = "both" =>
           /\ next.h.todo = "last" /\ (next.h.step = "save" => next.b = swap_buffer_cache(z))
           /\ next.h.step = "end" => ~is_existing_vma(b.cache_start, used)
      /\ handler.op # "fault" /\ handler.todo = "last" => next.h.step = "end" /\ next.b = z
  <2>1. CASE handler.op = "fault"
    <3>1. next = [b |-> z, h |-> [handler EXCEPT !.step = "map"]]
      BY <2>1
    <3> HIDE DEF next
    <3> QED BY <1>1, <1>2, <2>1, <3>1, StepIs, NotInVma DEF Turned
  <2>2. CASE handler.op # "fault" /\ handler.todo = "both"
    <3>1. next = UnmapCache(handler, z, used)
      BY <2>2
    <3> HIDE DEF next
    <3> QED BY <1>1, <1>2, <2>2, <3>1, UnmapCacheIs
  <2>3. CASE handler.op # "fault" /\ handler.todo # "both"
    <3>1. next = [b |-> z, h |-> [handler EXCEPT !.step = "end"]]
      BY <2>3
    <3> HIDE DEF next
    <3> QED BY <1>1, <1>2, <2>3, <3>1, StepIs DEF Turned
  <2> QED BY <2>1, <2>2, <2>3
<1> HIDE DEF next
<1>5. /\ handler' = next.h /\ handler' # NONE
      /\ DOMAIN buffers' = DOMAIN buffers /\ Range(buffers') \subseteq Buffer
      /\ buffers'[t] = next.b
      /\ \A u \in DOMAIN buffers : u # t => buffers'[u] = buffers[u]
  BY <1>1, <1>3, <1>4, GoIs
<1>6. Turned([h |-> handler', b |-> buffers'[t]], handler, z, used)
  BY <1>4, <1>5 DEF Turned
<1> HIDE DEF t
<1> QED BY <1>1, <1>3, <1>4, <1>5, <1>6 DEF t, z

LEMMA ZapKeeps ==
  ASSUME FrameInv, Zap
  PROVE  FrameInv' /\ Unmaps
<1> DEFINE t == handler.pid
           b == buffers[t]
           p == b.start
           z == Zapped(b)
           c == buffers'[t]
<1>1. /\ handler # NONE /\ handler \in Handler /\ handler.step = "zap" /\ TypeOK
      /\ t \in DOMAIN buffers /\ t \in Threads /\ p \in Pages /\ b \in Buffer
      /\ pte' = [pte EXCEPT ![p] = NONE] /\ order' = [order EXCEPT ![t] = Without(@, {p})]
      /\ mem' = Mapped(mem)
      /\ UNCHANGED <<live, used, stored, storage, waiting, written, seen>>
      /\ DOMAIN buffers' = DOMAIN buffers /\ Range(buffers') \subseteq Buffer
      /\ \A u \in DOMAIN buffers : u # t => buffers'[u] = buffers[u]
      /\ handler' # NONE /\ Turned([h |-> handler', b |-> c], handler, z, used)
  BY ZapIs DEF FrameInv
<1>2. /\ handler' \in Handler /\ handler'.pid = t /\ handler'.op = handler.op /\ handler'.page = handler.page
      /\ c \in {z, swap_buffer_cache(z)}
      /\ \/ handler'.step = "save" /\ is_existing_vma(c.start, used)
         \/ handler'.step = "map" /\ handler.op = "fault" /\ ~is_existing_vma(c.start, used)
         \/ handler'.step = "end" /\ handler.op # "fault"
  BY <1>1 DEF Turned
<1>3. /\ z \in Buffer /\ z.buffer = b.buffer /\ z.cache = b.cache
      /\ z.start = NONE /\ z.cache_start = b.cache_start
  BY <1>1, ZappedIs
<1>4. /\ pte' \in [Pages -> Frames \cup {NONE}] /\ \A q \in Pages : pte'[q] \in {NONE, pte[q]}
      /\ pte'[p] = NONE
  BY <1>1 DEF TypeOK
<1>5. LeftOf(b, c)
  <2>1. NONE \notin Pages
    BY PageCacheAssumption
  <2>2. Left(p, NONE) /\ Left(b.cache_start, b.cache_start)
    BY <1>4, <2>1 DEF Left
  <2>3. CASE c = z
    BY <1>3, <2>2, <2>3 DEF LeftOf
  <2>4. CASE c = swap_buffer_cache(z)
    <3>1. /\ c.buffer = b.cache /\ c.cache = b.buffer /\ c.start = b.cache_start /\ c.cache_start = NONE
      BY <1>3, <2>4, SwapIs
    <3>2. LET s == swap_buffer_cache(b)
          IN  /\ s.buffer = b.cache /\ s.cache = b.buffer
              /\ s.start = b.cache_start /\ s.cache_start = b.start
      BY <1>1, SwapIs
    <3> QED BY <2>2, <3>1, <3>2 DEF LeftOf
  <2> QED BY <1>2, <2>3, <2>4
<1> HIDE DEF z, c
<1>6. \A u \in DOMAIN buffers' : buffers'[u] \in Buffer
  BY <1>1 DEF Range
<1>7. Unmaps
  <2>1. ASSUME NEW u \in DOMAIN buffers' PROVE LeftOf(buffers[u], buffers'[u])
    <3>1. CASE u = t
      BY <1>5, <3>1 DEF c
    <3>2. CASE u # t
      BY <1>1, <2>1, <3>2, LeftItself
    <3> QED BY <3>1, <3>2
  <2> QED BY <1>1, <1>4, <1>6, <2>1 DEF Unmaps
<1>8. Slots' /\ Apart' /\ NoAlias'
  BY <1>7, UnmapsKeeps DEF FrameInv
<1>9. MappedVma'
  BY <1>1, <1>4 DEF FrameInv, MappedVma, HasVma
<1>10. HandlerInv'
  BY <1>1, <1>2 DEF FrameInv, HandlerInv
<1>11. FrontFree'
  <2>1. ASSUME handler'.step = "map" PROVE \A q \in Pages : q = c.start => pte'[q] = NONE
    BY <1>1, <1>2, <1>4, <2>1, NotFound DEF FrameInv
  <2> QED BY <1>2, <2>1 DEF FrontFree, c
<1>12. mem' \in [Frames -> Values]
  BY <1>1, <1>4, MappedIs DEF TypeOK
<1>13. order' \in [Threads -> Seq(Pages)]
  BY <1>1, WithoutType DEF TypeOK
<1>14. handler'.step \in {"save", "zap"} =>
         handler'.pid \in DOMAIN buffers' /\ buffers'[handler'.pid].start \in Pages
  BY <1>1, <1>2 DEF c, is_existing_vma
<1>15. TypeOK'
  <2> HIDE DEF b, p
  <2> QED BY <1>1, <1>2, <1>4, <1>12, <1>13, <1>14 DEF TypeOK
<1> QED BY <1>7, <1>8, <1>9, <1>10, <1>11, <1>15 DEF FrameInv

\* The buffer that map_page fills.
FrontOf(t) == IF t \in DOMAIN buffers THEN buffers[t] ELSE add_buffer

LEMMA FrontOfIs ==
  ASSUME FrameInv, handler # NONE, handler.step = "map"
  PROVE  LET t == handler.pid
             b == FrontOf(t)
         IN  /\ t \in Threads /\ handler.page \in Pages /\ handler.page \in used /\ handler.op = "fault"
             /\ b \in Buffer /\ b.buffer # b.cache /\ b.buffer \in Frames /\ b.buffer # NONE
             /\ \A q \in Pages : pte[q] # b.buffer /\ (pte[q] = b.cache => q = b.cache_start)
             /\ \A u \in DOMAIN buffers : u # t => FramesOf(b) \cap FramesOf(buffers[u]) = {}
             /\ t \notin DOMAIN buffers => b.start = NONE /\ b.cache_start = NONE
<1> DEFINE t == handler.pid
           b == FrontOf(t)
<1>1. handler \in Handler /\ TypeOK
  BY BuffersTyped DEF FrameInv
<1>2. t \in Threads /\ handler.page \in Pages /\ handler.page \in used /\ handler.op = "fault"
  BY <1>1 DEF Handler, FrameInv, HandlerInv
<1>3. CASE t \in DOMAIN buffers
  <2>1. b = buffers[t]
    BY <1>3 DEF FrontOf
  <2>2. b \in Buffer
    BY <1>1, <1>3, <2>1, BuffersTyped
  <2>3. b.buffer # b.cache /\ \A q \in Pages : pte[q] # b.buffer /\ (pte[q] = b.cache => q = b.cache_start)
    <3>1. b.buffer \in Frames /\ b.buffer # NONE
      BY <2>2, PageCacheAssumption DEF Buffer
    <3> QED BY <1>3, <2>1, <3>1 DEF FrameInv, Slots, FrontFree
  <2>4. \A u \in DOMAIN buffers : u # t => FramesOf(b) \cap FramesOf(buffers[u]) = {}
    BY <1>3, <2>1 DEF FrameInv, Apart
  <2> QED BY <1>2, <1>3, <2>2, <2>3, <2>4, PageCacheAssumption DEF Buffer
<1>4. CASE t \notin DOMAIN buffers
  <2>1. b = add_buffer
    BY <1>4 DEF FrontOf
  <2>2. /\ b \in Buffer /\ b.buffer # b.cache /\ b.start = NONE /\ b.cache_start = NONE
        /\ FramesOf(b) \cap Buffered = {} /\ \A q \in Pages : pte[q] \notin FramesOf(b)
    BY <1>1, <1>2, <1>4, <2>1, AddBufferIs
  <2>3. \A u \in DOMAIN buffers : FramesOf(buffers[u]) \subseteq Buffered
    BY DEF FramesOf, Buffered
  <2>4. b.buffer \in Frames /\ b.buffer # NONE
    BY <2>2, PageCacheAssumption DEF Buffer
  <2>5. b.buffer \in FramesOf(b) /\ b.cache \in FramesOf(b)
    BY DEF FramesOf
  <2> HIDE DEF b
  <2> QED BY <1>2, <1>4, <2>2, <2>3, <2>4, <2>5 DEF b
<1> QED BY <1>3, <1>4

\* What map_page does, its errors and its success.
LEMMA MapIs ==
  ASSUME FrameInv, Map
  PROVE  LET t == handler.pid
             p == handler.page
             b == FrontOf(t)
             v == Loaded(<<t, p>>)
         IN  /\ handler # NONE /\ handler.step = "map" /\ handler' = NONE
             /\ waiting' = [waiting EXCEPT ![t] = NONE]
             /\ UNCHANGED <<live, used, stored, storage, written, seen>>
             /\ \/ Faults # {} /\ buffers' \in {buffers, With(buffers, t, b)} /\ UNCHANGED <<mem, pte, order>>
                \/ /\ pte[p] # NONE /\ buffers' = With(buffers, t, b) /\ UNCHANGED <<pte, order>>
                   /\ mem' = Mapped([mem EXCEPT ![b.buffer] = v])
                \/ /\ pte[p] = NONE /\ buffers' = With(buffers, t, [b EXCEPT !.start = p])
                   /\ pte' = [pte EXCEPT ![p] = b.buffer] /\ order' = [order EXCEPT ![t] = Append(@, p)]
                   /\ mem' = Mapped([mem EXCEPT ![b.buffer] = v])
  BY DEF Map, FrontOf

LEMMA MapKeeps ==
  ASSUME FrameInv, Map
  PROVE  FrameInv'
<1> DEFINE t == handler.pid
           p == handler.page
           b == FrontOf(t)
           v == Loaded(<<t, p>>)
           m == [mem EXCEPT ![b.buffer] = v]
           f == [b EXCEPT !.start = p]
<1>1. /\ t \in Threads /\ p \in Pages /\ p \in used
      /\ b \in Buffer /\ b.buffer # b.cache /\ b.buffer \in Frames /\ b.buffer # NONE
      /\ \A q \in Pages : pte[q] # b.buffer /\ (pte[q] = b.cache => q = b.cache_start)
      /\ \A u \in DOMAIN buffers : u # t => FramesOf(b) \cap FramesOf(buffers[u]) = {}
  BY FrontOfIs DEF Map
<1>2. /\ handler # NONE /\ handler.step = "map" /\ handler' = NONE
      /\ waiting' = [waiting EXCEPT ![t] = NONE]
      /\ UNCHANGED <<live, used, stored, storage, written, seen>>
      /\ \/ buffers' \in {buffers, With(buffers, t, b)} /\ UNCHANGED <<mem, pte, order>>
         \/ buffers' = With(buffers, t, b) /\ UNCHANGED <<pte, order>> /\ mem' = Mapped(m)
         \/ /\ pte[p] = NONE /\ buffers' = With(buffers, t, f)
            /\ pte' = [pte EXCEPT ![p] = b.buffer] /\ order' = [order EXCEPT ![t] = Append(@, p)]
            /\ mem' = Mapped(m)
  BY MapIs, Zenon
<1>3. TypeOK /\ v \in Values
  BY LoadedIs DEF FrameInv
<1>4. m \in [Frames -> Values]
  BY <1>1, <1>3 DEF TypeOK
<1>5. /\ f \in Buffer /\ f.buffer = b.buffer /\ f.cache = b.cache
      /\ f.start = p /\ f.cache_start = b.cache_start
  BY <1>1 DEF Buffer
<1> HIDE DEF t, p, b, v, m, f
<1>6. waiting' \in [Threads -> Pages \cup {NONE}]
  BY <1>2, <1>3 DEF TypeOK
\* Buffer c is in the place of b, and the page tables are as they were but for
\* a page that it now has in front.
<1>7. ASSUME NEW c \in Buffer, buffers' = With(buffers, t, c), c.buffer = b.buffer, c.cache = b.cache,
             pte' \in [Pages -> Frames \cup {NONE}],
             \A q \in Pages :
               /\ pte'[q] = pte[q] \/ (pte[q] = NONE /\ pte'[q] = b.buffer /\ q = c.start)
               /\ q = b.cache_start => q = c.cache_start
      PROVE  /\ DOMAIN buffers' \subseteq Threads /\ Range(buffers') \subseteq Buffer
             /\ Slots' /\ Apart' /\ NoAlias'
  <2>1. /\ DOMAIN buffers' = DOMAIN buffers \cup {t} /\ buffers'[t] = c
        /\ \A u \in DOMAIN buffers : u # t => buffers'[u] = buffers[u]
    BY <1>7, Zenon DEF With
  <2>2. \A u \in DOMAIN buffers : buffers[u] \in Buffer
    BY <1>3, BuffersTyped
  <2>3. DOMAIN buffers' \subseteq Threads /\ Range(buffers') \subseteq Buffer
    BY <1>1, <1>3, <1>7, <2>1, <2>2 DEF TypeOK, Range
  <2>4. FramesOf(c) = FramesOf(b)
    BY <1>7 DEF FramesOf
  <2>5. Apart'
    <3>1. ASSUME NEW u \in DOMAIN buffers', NEW w \in DOMAIN buffers', u # w
          PROVE  FramesOf(buffers'[u]) \cap FramesOf(buffers'[w]) = {}
      <4>1. CASE u = t
        BY <1>1, <2>1, <2>4, <3>1, <4>1
      <4>2. CASE w = t
        BY <1>1, <2>1, <2>4, <3>1, <4>2
      <4>3. CASE u # t /\ w # t
        BY <2>1, <3>1, <4>3 DEF FrameInv, Apart
      <4> QED BY <4>1, <4>2, <4>3
    <3> QED BY <3>1 DEF Apart
  <2>6. Slots'
    <3>1. ASSUME NEW u \in DOMAIN buffers', u # t
          PROVE  /\ buffers'[u].buffer # buffers'[u].cache
                 /\ \A q \in Pages :
                      /\ pte'[q] = buffers'[u].buffer => q = buffers'[u].start
                      /\ pte'[q] = buffers'[u].cache => q = buffers'[u].cache_start
      <4>1. u \in DOMAIN buffers /\ buffers'[u] = buffers[u]
        BY <2>1, <3>1
      <4>2. b.buffer # buffers[u].buffer /\ b.buffer # buffers[u].cache
        BY <1>1, <3>1, <4>1 DEF FramesOf
      <4> QED BY <1>7, <4>1, <4>2 DEF FrameInv, Slots
    <3>2. /\ c.buffer # c.cache
          /\ \A q \in Pages :
               /\ pte'[q] = c.buffer => q = c.start
               /\ pte'[q] = c.cache => q = c.cache_start
      BY <1>1, <1>7
    <3> QED BY <2>1, <3>1, <3>2 DEF Slots
  <2>7. NoAlias'
    BY <1>1, <1>7 DEF FrameInv, NoAlias
  <2> QED BY <2>3, <2>5, <2>6, <2>7
<1>8. CASE buffers' = buffers /\ UNCHANGED <<mem, pte, order>>
  BY <1>2, <1>3, <1>6, <1>8 DEF FrameInv, TypeOK, Slots, Apart, NoAlias, MappedVma, HasVma, HandlerInv, FrontFree
<1>9. CASE buffers' = With(buffers, t, b) /\ UNCHANGED <<pte, order>>
  <2>1. /\ DOMAIN buffers' \subseteq Threads /\ Range(buffers') \subseteq Buffer
        /\ Slots' /\ Apart' /\ NoAlias'
    BY <1>1, <1>3, <1>7, <1>9 DEF TypeOK
  <2>2. mem' \in [Frames -> Values]
    <3>1. mem' = mem \/ mem' = Mapped(m)
      BY <1>2
    <3> QED BY <1>3, <1>4, <1>9, <3>1, MappedIs DEF TypeOK
  <2>3. TypeOK'
    BY <1>2, <1>3, <1>6, <1>9, <2>1, <2>2 DEF TypeOK
  <2> QED BY <1>2, <1>9, <2>1, <2>3 DEF FrameInv, MappedVma, HasVma, HandlerInv, FrontFree
<1>10. CASE /\ pte[p] = NONE /\ buffers' = With(buffers, t, f) /\ mem' = Mapped(m)
            /\ pte' = [pte EXCEPT ![p] = b.buffer] /\ order' = [order EXCEPT ![t] = Append(@, p)]
  <2>1. /\ pte' \in [Pages -> Frames \cup {NONE}]
        /\ \A q \in Pages : pte'[q] = IF q = p THEN b.buffer ELSE pte[q]
    BY <1>1, <1>3, <1>10 DEF TypeOK
  <2>2. /\ DOMAIN buffers' \subseteq Threads /\ Range(buffers') \subseteq Buffer
        /\ Slots' /\ Apart' /\ NoAlias'
    BY <1>1, <1>5, <1>7, <1>10, <2>1
  <2>3. mem' \in [Frames -> Values]
    BY <1>4, <1>10, <2>1, MappedIs
  <2>4. order' \in [Threads -> Seq(Pages)]
    BY <1>1, <1>3, <1>10, AppendProperties DEF TypeOK
  <2>5. TypeOK'
    BY <1>2, <1>3, <1>6, <2>1, <2>2, <2>3, <2>4 DEF TypeOK
  <2>6. MappedVma'
    BY <1>1, <1>2, <2>1 DEF FrameInv, MappedVma, HasVma
  <2> QED BY <1>2, <2>2, <2>5, <2>6 DEF FrameInv, HandlerInv, FrontFree
<1> QED BY <1>2, <1>8, <1>9, <1>10, Zenon

LEMMA MallocEndKeeps ==
  ASSUME FrameInv, MallocEnd
  PROVE  FrameInv'
<1> DEFINE p == handler.page
           v == View(p)
<1>1. /\ handler # NONE /\ handler.op = "malloc" /\ handler' = NONE
      /\ live' = live \cup {p} /\ written' = With(written, p, v)
      /\ UNCHANGED <<used, pte, mem, buffers, stored, storage, waiting, order, seen>>
  BY DEF MallocEnd
<1>2. TypeOK /\ p \in Pages /\ p \in used /\ v \in Values
  BY <1>1, BuffersTyped, LoadedIs DEF FrameInv, HandlerInv, Handler
<1> HIDE DEF p, v
<1>3. written' \in [live' -> Values]
  BY <1>1, <1>2 DEF TypeOK, With
<1>4. TypeOK'
  BY <1>1, <1>2, <1>3 DEF TypeOK
<1> QED BY <1>1, <1>4 DEF FrameInv, Slots, Apart, NoAlias, MappedVma, HasVma, HandlerInv, FrontFree

\* What a change of the areas does when no call is under way any more.
LEMMA AreaGone ==
  ASSUME FrameInv, used' \subseteq used, live' \subseteq used', NEW a \in Areas, do_munmap(a),
         \A p \in Pages : AreaOf[p] # a => (p \in used' <=> p \in used),
         handler' = NONE, waiting' = waiting, seen' = seen, written' \in [live' -> Values],
         stored' \subseteq Threads \X Pages,
         DOMAIN storage' \subseteq Threads \X Pages, Range(storage') \subseteq Values
  PROVE  FrameInv'
<1>1. TypeOK /\ used' \subseteq Pages
  BY DEF FrameInv, TypeOK
<1>2. /\ Unmaps
      /\ \A p \in Pages : pte'[p] = IF AreaOf[p] = a THEN NONE ELSE pte[p]
      /\ DOMAIN buffers' \subseteq Threads /\ Range(buffers') \subseteq Buffer
      /\ mem' \in [Frames -> Values] /\ order' \in [Threads -> Seq(Pages)]
  BY <1>1, MunmapIs
<1>3. Slots' /\ Apart' /\ NoAlias'
  BY <1>2, UnmapsKeeps DEF FrameInv
<1>4. MappedVma'
  BY <1>2 DEF FrameInv, TypeOK, MappedVma, HasVma
<1>5. TypeOK'
  BY <1>1, <1>2 DEF TypeOK, Unmaps
<1> QED BY <1>3, <1>4, <1>5 DEF FrameInv, HandlerInv, FrontFree

LEMMA FreeEndKeeps ==
  ASSUME FrameInv, FreeEnd
  PROVE  FrameInv'
<1> DEFINE t == handler.pid
           p == handler.page
           a == AreaOf[p]
<1>1. /\ handler # NONE /\ handler' = NONE /\ handler \in Handler /\ TypeOK
      /\ UNCHANGED <<live, waiting, written, seen>>
      /\ p \in Pages /\ p \notin live /\ a \in Areas
  BY BuffersTyped, PageCacheAssumption DEF FreeEnd, FrameInv, Handler, HandlerInv
<1>2. CASE UNCHANGED <<used, pte, mem, buffers, stored, storage, order>>
  BY <1>1, <1>2 DEF FrameInv, TypeOK, Slots, Apart, NoAlias, MappedVma, HasVma, HandlerInv, FrontFree
<1>3. CASE /\ remove_storage_pages(t, {p}) /\ used' = used \ {p}
           /\ HasVma(a, used') /\ UNCHANGED <<pte, mem, buffers, order>>
  <2>1. /\ stored' \subseteq Threads \X Pages
        /\ DOMAIN storage' \subseteq Threads \X Pages /\ Range(storage') \subseteq Values
    BY <1>1, <1>3, RemoveStorageIs
  <2>2. TypeOK'
    BY <1>1, <1>3, <2>1 DEF TypeOK
  <2>3. MappedVma'
    BY <1>1, <1>3 DEF FrameInv, MappedVma, HasVma
  <2> QED BY <1>1, <1>3, <2>2, <2>3 DEF FrameInv, Slots, Apart, NoAlias, HandlerInv, FrontFree
<1>4. CASE remove_storage_pages(t, {p}) /\ used' = used \ {p} /\ do_munmap(a)
  <2>1. /\ stored' \subseteq Threads \X Pages
        /\ DOMAIN storage' \subseteq Threads \X Pages /\ Range(storage') \subseteq Values
    BY <1>1, <1>4, RemoveStorageIs
  <2>2. /\ used' \subseteq used /\ live' \subseteq used' /\ written' \in [live' -> Values]
        /\ \A q \in Pages : AreaOf[q] # a => (q \in used' <=> q \in used)
    BY <1>1, <1>4 DEF TypeOK
  <2> QED BY <1>1, <1>4, <2>1, <2>2, AreaGone
<1> QED BY <1>2, <1>3, <1>4 DEF FreeEnd

LEMMA CloseKeeps ==
  ASSUME FrameInv, NEW a \in Areas, Close(a)
  PROVE  FrameInv'
<1> DEFINE pages == {p \in Pages : AreaOf[p] = a}
<1>1. /\ Release(pages) /\ used' = used \ pages /\ do_munmap(a)
      /\ remove_storage_pages(PidOf[a], pages \cap used)
      /\ UNCHANGED <<waiting, handler>> /\ handler = NONE /\ TypeOK
  BY DEF Close, MayWrite, FrameInv
<1>2. /\ stored' \subseteq Threads \X Pages
      /\ DOMAIN storage' \subseteq Threads \X Pages /\ Range(storage') \subseteq Values
  BY <1>1, RemoveStorageIs
<1>3. live' = live \ pages /\ written' \in [live' -> Values] /\ seen' = seen
  BY <1>1, ReleaseIs
<1>4. /\ used' \subseteq used /\ live' \subseteq used'
      /\ \A q \in Pages : AreaOf[q] # a => (q \in used' <=> q \in used)
  BY <1>1, <1>3 DEF TypeOK
<1> QED BY <1>1, <1>2, <1>3, <1>4, AreaGone

LEMMA FrameInit == Init => FrameInv
<1> SUFFICES ASSUME Init PROVE FrameInv
  OBVIOUS
<1>1. Range(buffers) = {} /\ DOMAIN buffers = {} /\ Range(storage) = {} /\ DOMAIN storage = {}
  BY DEF Init, Range
<1>2. TypeOK
  BY <1>1, EmptySeq, PageCacheAssumption DEF Init, TypeOK
<1>3. \A p \in Pages : pte[p] = NONE
  BY DEF Init
<1>4. Slots /\ Apart
  BY <1>1 DEF Slots, Apart
<1> QED BY <1>2, <1>3, <1>4 DEF Init, FrameInv, NoAlias, MappedVma, HandlerInv, FrontFree

LEMMA FrameNext == FrameInv /\ [Next]_vars => FrameInv'
<1> SUFFICES ASSUME FrameInv, [Next]_vars PROVE FrameInv'
  OBVIOUS
<1>1. ASSUME NEW t \in Threads, NEW p \in Pages, NEW v \in Values \ {Zero}, Write(t, p, v) PROVE FrameInv'
  BY <1>1, WriteKeeps
<1>2. ASSUME NEW t \in Threads, NEW p \in Pages, Read(t, p) PROVE FrameInv'
  BY <1>2, ReadKeeps
<1>3. ASSUME NEW t \in Threads, NEW p \in Pages, Miss(t, p) PROVE FrameInv'
  BY <1>3, MissKeeps
<1>4. ASSUME NEW t \in Threads, NEW p \in Pages, MallocStart(t, p) PROVE FrameInv'
  BY <1>4, MallocStartKeeps
<1>5. ASSUME NEW t \in Threads, NEW p \in Pages, FreeStart(t, p) PROVE FrameInv'
  BY <1>5, FreeStartKeeps
<1>6. ASSUME NEW t \in Threads, FaultStart(t) PROVE FrameInv'
  BY <1>6, FaultStartKeeps
<1>7. CASE Save
  BY <1>7, SaveKeeps
<1>8. CASE Zap
  BY <1>8, ZapKeeps
<1>9. CASE Map
  BY <1>9, MapKeeps
<1>10. CASE MallocEnd
  BY <1>10, MallocEndKeeps
<1>11. CASE FreeEnd
  BY <1>11, FreeEndKeeps
<1>12. ASSUME NEW a \in Areas, Close(a) PROVE FrameInv'
  BY <1>12, CloseKeeps
<1>13. CASE UNCHANGED vars
  BY <1>13 DEF vars, kernel, FrameInv, TypeOK, Slots, Apart, NoAlias, MappedVma, HasVma, HandlerInv, FrontFree
<1> QED BY <1>1, <1>2, <1>3, <1>4, <1>5, <1>6, <1>7, <1>8, <1>9, <1>10, <1>11, <1>12, <1>13
        DEF Next, Program, Module

LEMMA FrameAlways == Spec => []FrameInv
  BY FrameInit, FrameNext, PTL DEF Spec

\* Every variable keeps its type, and what copy_page_from_user and remove_user_page
\* are about to take is a page of a buffer that exists, whatever fails
\* (generic_malloc.c:139-225).
THEOREM CacheTypes == Spec => []TypeOK
<1>1. FrameInv => TypeOK
  BY DEF FrameInv
<1> QED BY <1>1, FrameAlways, PTL

\* No frame is ever mapped at two addresses, whichever pages the threads touch and
\* free and whatever fails: map_page only fills a frame that no page maps
\* (mapped_buffer.c:27-44, generic_malloc.c:199-262).
THEOREM FramesApart == Spec => []NoAlias
<1>1. FrameInv => NoAlias
  BY DEF FrameInv
<1> QED BY <1>1, FrameAlways, PTL

-----------------------------------------------------------------------------
(* Threads that keep to their own memory.                                  *)

LEMMA PidIs ==
  ASSUME NEW p \in Pages
  PROVE  Pid(p) \in Threads /\ AreaOf[p] \in Areas /\ Pid(p) = PidOf[AreaOf[p]]
  BY PageCacheAssumption DEF Pid

LEMMA LoadedKept ==
  ASSUME NEW k, k \in stored' <=> k \in stored, k \in DOMAIN storage' <=> k \in DOMAIN storage,
         k \in DOMAIN storage => storage'[k] = storage[k],
         NEW t, NEW p, k = <<t, p>>
  PROVE  Loaded(k)' = Loaded(k)
  BY DEF Loaded, is_stored_page

LEMMA ViewKept ==
  ASSUME NEW p \in Pages, pte'[p] = pte[p], pte[p] # NONE => mem'[pte[p]] = mem[pte[p]],
         LET k == <<Pid(p), p>>
         IN  /\ k \in stored' <=> k \in stored
             /\ k \in DOMAIN storage' <=> k \in DOMAIN storage
             /\ k \in DOMAIN storage => storage'[k] = storage[k]
  PROVE  View(p)' = View(p)
<1>1. Loaded(<<Pid(p), p>>)' = Loaded(<<Pid(p), p>>)
  BY LoadedKept
<1> QED BY <1>1 DEF View, Pid

LEMMA ViewsKept ==
  ASSUME UNCHANGED <<pte, mem, stored, storage>>
  PROVE  \A p \in Pages : View(p)' = View(p)
  BY DEF View, Loaded, Pid

\* Buffers that lose pages keep those of their threads.
LEMMA UnmapsOwn ==
  ASSUME TypeOK, Own, Cached, Unmaps,
         \A p \in Pages : pte'[p] # NONE => Pid(p) \in DOMAIN buffers'
  PROVE  Own' /\ Cached'
<1>1. ASSUME NEW t \in DOMAIN buffers'
      PROVE  t \in DOMAIN buffers /\ buffers[t] \in Buffer /\ LeftOf(buffers[t], buffers'[t])
  BY BuffersTyped DEF Unmaps
<1>2. ASSUME NEW t \in DOMAIN buffers'
      PROVE  /\ \A p \in Pages : p \in SlotsOf(buffers'[t]) => p \in SlotsOf(buffers[t])
             /\ \A p \in Pages : p \in SlotsOf(buffers[t]) /\ pte'[p] # NONE => p \in SlotsOf(buffers'[t])
  BY <1>1, LeftOfIs
<1>3. Own'
  BY <1>1, <1>2 DEF Own, Pid, SlotsOf
<1>4. Cached'
  BY <1>2 DEF Cached, Unmaps, Pid, SlotsOf
<1> QED BY <1>3, <1>4

LEMMA WritePrivate ==
  ASSUME OwnInv, ~Shared, NEW t \in Threads, NEW p \in Pages, NEW v \in Values, Write(t, p, v)
  PROVE  PrivateInv'
<1>1. /\ pte'[p] # NONE /\ mem'[pte'[p]] = v /\ pte[p] # NONE
      /\ \A q \in Pages : q # p => pte'[q] = pte[q] /\ pte'[q] # pte'[p]
      /\ \A q \in Pages : q # p /\ pte[q] # NONE => mem'[pte[q]] = mem[pte[q]]
  BY WriteIs DEF Write, OwnInv
<1>2. /\ UNCHANGED <<live, used, buffers, stored, storage, waiting, handler, order, seen>>
      /\ written' = [written EXCEPT ![p] = v] /\ p \in live /\ Pid(p) = t /\ ~Inside(t)
  BY DEF Write, Touches, Running
<1>3. TypeOK
  BY DEF OwnInv, FrameInv
<1>4. Own'
  BY <1>2 DEF OwnInv, PrivateInv, Own, Pid, SlotsOf
<1>5. Cached'
  BY <1>1, <1>2 DEF OwnInv, PrivateInv, Cached, Pid, SlotsOf
<1>6. Waits' /\ Calls'
  BY <1>1, <1>2, <1>3 DEF OwnInv, PrivateInv, Waits, Calls, Pid, MayRead, TypeOK
<1>7. ZapInv'
  <2> SUFFICES ASSUME handler # NONE, handler.step = "zap" PROVE ZapInv'
    BY <1>2 DEF ZapInv
  <2> DEFINE u == handler.pid
             q == buffers[u].start
  <2>1. u \in DOMAIN buffers /\ q \in Pages /\ u # t
    BY <1>2, <1>3 DEF TypeOK, Inside
  <2>2. Pid(q) = u
    BY <2>1 DEF OwnInv, PrivateInv, Own, SlotsOf
  <2>3. q # p
    BY <1>2, <2>1, <2>2
  <2> QED BY <1>1, <1>2, <2>1, <2>3 DEF OwnInv, PrivateInv, ZapInv
<1>8. Content'
  <2>1. ASSUME NEW q \in live, q # p PROVE View(q)' = written'[q]
    <3>1. q \in Pages /\ View(q) = written[q] /\ written'[q] = written[q]
      BY <1>2, <1>3, <2>1 DEF TypeOK, OwnInv, PrivateInv, Content
    <3>2. View(q)' = View(q)
      BY <1>1, <1>2, <2>1, <3>1, ViewKept
    <3> QED BY <3>1, <3>2
  <2>2. View(p)' = written'[p]
    BY <1>1, <1>2, <1>3 DEF View, TypeOK
  <2> QED BY <1>2, <2>1, <2>2 DEF Content
<1> QED BY <1>4, <1>5, <1>6, <1>7, <1>8 DEF PrivateInv

LEMMA ReadPrivate ==
  ASSUME OwnInv, NEW t \in Threads, NEW p \in Pages, Read(t, p)
  PROVE  PrivateInv'
<1>1. UNCHANGED <<kernel, live, mem, written>>
  BY DEF Read, vars
<1>2. \A q \in Pages : View(q)' = View(q)
  BY <1>1, ViewsKept DEF kernel
<1>3. Content'
  BY <1>1, <1>2 DEF OwnInv, FrameInv, TypeOK, PrivateInv, Content
<1> QED BY <1>1, <1>3 DEF kernel, OwnInv, PrivateInv, Own, Cached, Waits, Calls, ZapInv, Pid, SlotsOf, MayRead

LEMMA MissPrivate ==
  ASSUME OwnInv, ~Shared, NEW t \in Threads, NEW p \in Pages, Miss(t, p)
  PROVE  PrivateInv'
<1>1. /\ UNCHANGED <<live, used, pte, mem, buffers, stored, storage, handler, order, written, seen>>
      /\ waiting' = [waiting EXCEPT ![t] = p] /\ p \in live /\ Pid(p) = t /\ pte[p] = NONE /\ MayRead
      /\ ~Inside(t)
  BY DEF Miss, Touches, Running
<1>2. \A q \in Pages : View(q)' = View(q)
  BY <1>1, ViewsKept
<1>3. Content'
  BY <1>1, <1>2 DEF OwnInv, FrameInv, TypeOK, PrivateInv, Content
<1>4. Waits'
  BY <1>1 DEF OwnInv, FrameInv, TypeOK, PrivateInv, Waits, MayRead, Pid
<1>5. Calls'
  BY <1>1 DEF OwnInv, FrameInv, TypeOK, PrivateInv, Calls, Inside, Pid
<1> QED BY <1>1, <1>3, <1>4, <1>5 DEF OwnInv, PrivateInv, Own, Cached, ZapInv, Pid, SlotsOf

\* The beginning of a call.
LEMMA BegunPrivate ==
  ASSUME OwnInv, NEW h \in Handler, Begun(h, used'), UNCHANGED <<pte, mem, stored, storage, waiting>>,
         Unmaps, Pid(h.page) = h.pid,
         IF h.op = "fault" THEN waiting[h.pid] = h.page ELSE \A t \in Threads : waiting[t] = NONE,
         h.op = "fault" => live' = live,
         live' \subseteq live, \A p \in live' : written'[p] = written[p]
  PROVE  PrivateInv'
<1>1. /\ DOMAIN buffers' = DOMAIN buffers /\ handler'.step # "zap" /\ handler' # NONE
      /\ handler'.pid = h.pid /\ handler'.op = h.op /\ handler'.page = h.page
  BY DEF Begun
<1>2. TypeOK /\ Own /\ Cached /\ Waits /\ Content
  BY DEF OwnInv, FrameInv, PrivateInv
<1>3. Own' /\ Cached'
  <2>1. \A p \in Pages : pte'[p] # NONE => Pid(p) \in DOMAIN buffers'
    BY <1>1, <1>2 DEF Cached
  <2> QED BY <1>2, <2>1, UnmapsOwn
<1>4. Waits'
  BY <1>1, <1>2 DEF Waits, MayRead, Pid
<1>5. Calls' /\ ZapInv'
  BY <1>1 DEF Calls, ZapInv, Pid
<1>6. \A p \in Pages : View(p)' = View(p)
  BY ViewsKept
<1>7. Content'
  BY <1>2, <1>6 DEF Content, TypeOK
<1> QED BY <1>3, <1>4, <1>5, <1>7 DEF PrivateInv

LEMMA FaultStartPrivate ==
  ASSUME OwnInv, NEW t \in Threads, FaultStart(t)
  PROVE  PrivateInv'
<1>1. /\ handler = NONE /\ waiting[t] # NONE /\ waiting[t] \in Pages
      /\ UNCHANGED <<live, used, pte, mem, stored, storage, order, written, seen>>
      /\ Pid(waiting[t]) = t
  BY DEF FaultStart, OwnInv, FrameInv, TypeOK, PrivateInv, Waits
<1>2. CASE waiting[t] \in used
  <2> DEFINE h == Call(t, "fault", waiting[t])
  <2>1. h \in Handler /\ h.todo = "both" /\ h.op = "fault" /\ h.page = waiting[t] /\ h.pid = t
    BY <1>1, CallIs
  <2> HIDE DEF h
  <2>2. Go(UnmapOldest(h, used)) /\ UNCHANGED waiting
    BY <1>2 DEF FaultStart, h
  <2>3. Begun(h, used')
    BY <1>1, <2>1, <2>2, Beginning DEF OwnInv, FrameInv
  <2>4. /\ used' \subseteq Pages /\ used \subseteq used' /\ pte' = pte /\ h.page \in used' /\ FrameInv
    BY <1>1, <1>2, <2>1 DEF OwnInv, FrameInv, TypeOK
  <2>5. Unmaps
    BY <2>1, <2>3, <2>4, BegunKeeps
  <2> QED BY <1>1, <2>1, <2>2, <2>3, <2>5, BegunPrivate
<1>3. CASE waiting[t] \notin used
  BY <1>1, <1>3 DEF OwnInv, FrameInv, TypeOK, PrivateInv, Waits
<1> QED BY <1>2, <1>3

LEMMA MallocStartPrivate ==
  ASSUME OwnInv, NEW t \in Threads, NEW p \in Pages, MallocStart(t, p)
  PROVE  PrivateInv'
<1> DEFINE h == Call(t, "malloc", p)
<1>1. h \in Handler /\ h.todo = "both" /\ h.op = "malloc" /\ h.page = p /\ h.pid = t
  BY CallIs
<1> HIDE DEF h
<1>2. /\ p \notin used /\ used' = used \cup {p} /\ Go(UnmapBoth(h, used'))
      /\ UNCHANGED <<live, pte, mem, stored, storage, waiting, order, written, seen>>
      /\ Pid(p) = t /\ \A u \in Threads : waiting[u] = NONE
  BY DEF MallocStart, MayWrite, h
<1>3. Begun(h, used')
  BY <1>1, <1>2, Beginning DEF OwnInv, FrameInv
<1>4. /\ FrameInv /\ used' \subseteq Pages /\ used \subseteq used' /\ pte' = pte
      /\ h.page \in used' /\ h.page \notin live'
  BY <1>1, <1>2 DEF OwnInv, FrameInv, TypeOK
<1>5. Unmaps
  BY <1>1, <1>3, <1>4, BegunKeeps
<1> QED BY <1>1, <1>2, <1>3, <1>5, BegunPrivate

LEMMA FreeStartPrivate ==
  ASSUME OwnInv, ~Shared, NEW t \in Threads, NEW p \in Pages, FreeStart(t, p)
  PROVE  PrivateInv'
<1> DEFINE h == Call(t, "free", p)
<1>1. h \in Handler /\ h.todo = "both" /\ h.op = "free" /\ h.page = p /\ h.pid = t
  BY CallIs
<1> HIDE DEF h
<1>2. /\ Release({p}) /\ Go(UnmapBoth(h, used))
      /\ UNCHANGED <<used, pte, mem, stored, storage, waiting, order>>
      /\ Pid(p) = t /\ \A u \in Threads : waiting[u] = NONE
  BY DEF FreeStart, MayWrite, Touches, h
<1>3. live' = live \ {p} /\ \A q \in live' : written'[q] = written[q]
  BY <1>2, ReleaseIs DEF OwnInv, FrameInv
<1>4. Begun(h, used')
  BY <1>1, <1>2, Beginning DEF OwnInv, FrameInv
<1>5. /\ FrameInv /\ used' \subseteq Pages /\ used \subseteq used' /\ pte' = pte /\ h.page \notin live'
  BY <1>1, <1>2, <1>3 DEF OwnInv, FrameInv, TypeOK
<1>6. Unmaps
  BY <1>1, <1>4, <1>5, BegunKeeps
<1> QED BY <1>1, <1>2, <1>3, <1>4, <1>6, BegunPrivate

LEMMA FailPrivate ==
  ASSUME OwnInv, handler # NONE, Fail
  PROVE  Own' /\ Cached' /\ Waits' /\ Calls' /\ ZapInv'
<1>1. /\ handler' # NONE =>
           /\ handler'.pid = handler.pid /\ handler'.op = handler.op /\ handler'.page = handler.page
           /\ handler'.step = "end" /\ handler.op = "free"
      /\ UNCHANGED <<live, used, pte, mem, buffers, order, written, seen>>
  BY FailIs DEF OwnInv, FrameInv
<1>2. Own' /\ Cached' /\ Calls' /\ ZapInv'
  BY <1>1 DEF OwnInv, PrivateInv, Own, Cached, Calls, ZapInv, Pid, SlotsOf
<1>3. \A u \in Threads : waiting'[u] \in {waiting[u], NONE}
  BY DEF Fail, OwnInv, FrameInv, TypeOK
<1>4. Waits'
  BY <1>1, <1>3 DEF OwnInv, PrivateInv, Waits, MayRead, Pid
<1> QED BY <1>2, <1>4

LEMMA SavePrivate ==
  ASSUME OwnInv, Save
  PROVE  PrivateInv'
<1> DEFINE t == handler.pid
           p == buffers[t].start
           k == <<t, p>>
           v == mem[pte[p]]
<1>1. /\ handler # NONE /\ handler \in Handler /\ handler.step = "save"
      /\ t \in DOMAIN buffers /\ t \in Threads /\ p \in Pages
      /\ UNCHANGED <<live, used, pte, mem, buffers, order, written, seen>>
      /\ \/ /\ pte[p] = NONE
            /\ handler' = [handler EXCEPT !.step = "stuck"] /\ UNCHANGED <<stored, storage, waiting>>
         \/ Fail /\ UNCHANGED <<stored, storage>>
         \/ /\ pte[p] # NONE /\ storage' = With(storage, k, v)
            /\ \/ Fail /\ UNCHANGED stored
               \/ /\ stored' = stored \cup {k} /\ UNCHANGED waiting
                  /\ handler' = [handler EXCEPT !.step = "zap"]
  BY SaveIs DEF OwnInv
<1>2. TypeOK /\ Content /\ FrameInv
  BY DEF OwnInv, FrameInv, PrivateInv
<1>3. Own' /\ Cached' /\ Waits' /\ Calls' /\ ZapInv'
  <2>1. CASE Fail
    BY <1>1, <2>1, FailPrivate
  <2>2. CASE handler' = [handler EXCEPT !.step = "stuck"] /\ UNCHANGED waiting
    <3>1. /\ handler' # NONE /\ handler'.pid = t /\ handler'.op = handler.op /\ handler'.page = handler.page
          /\ handler'.step = "stuck"
      BY <1>1, <2>2, StepIs
    <3> QED BY <1>1, <2>2, <3>1 DEF OwnInv, PrivateInv, Own, Cached, Waits, Calls, ZapInv, Pid, SlotsOf, MayRead
  <2>3. CASE /\ handler' = [handler EXCEPT !.step = "zap"] /\ UNCHANGED waiting /\ pte[p] # NONE
             /\ stored' = stored \cup {k} /\ storage' = With(storage, k, v)
    <3>1. /\ handler' # NONE /\ handler'.pid = t /\ handler'.op = handler.op /\ handler'.page = handler.page
      BY <1>1, <2>3, StepIs
    <3>2. k \in stored' /\ k \in DOMAIN storage' /\ storage'[k] = v
      <4> HIDE DEF k, v
      <4> QED BY <2>3 DEF With
    <3>3. ZapInv'
      BY <1>1, <2>3, <3>1, <3>2 DEF ZapInv
    <3> QED BY <1>1, <2>3, <3>1, <3>3 DEF OwnInv, PrivateInv, Own, Cached, Waits, Calls, Pid, SlotsOf, MayRead
  <2> QED BY <1>1, <2>1, <2>2, <2>3
<1>4. ASSUME NEW q \in Pages PROVE View(q)' = View(q)
  <2> DEFINE c == <<Pid(q), q>>
  <2>1. CASE pte[q] # NONE
    BY <1>1, <2>1 DEF View
  <2>2. CASE pte[q] = NONE
    <3>1. CASE UNCHANGED <<stored, storage>>
      BY <1>1, <3>1, ViewsKept
    <3>2. CASE /\ pte[p] # NONE /\ storage' = With(storage, k, v) /\ stored' \in {stored, stored \cup {k}}
      <4>1. c # k
        BY <2>2, <3>2
      <4> HIDE DEF k, v
      <4>2. /\ c \in stored' <=> c \in stored
            /\ c \in DOMAIN storage' <=> c \in DOMAIN storage
            /\ c \in DOMAIN storage => storage'[c] = storage[c]
        BY <3>2, <4>1 DEF With
      <4> QED BY <1>1, <4>2, ViewKept
    <3> QED BY <1>1, <3>1, <3>2
  <2> QED BY <2>1, <2>2
<1>5. Content'
  BY <1>1, <1>2, <1>4 DEF Content, TypeOK
<1> QED BY <1>3, <1>5 DEF PrivateInv

LEMMA ZapPrivate ==
  ASSUME OwnInv, Zap
  PROVE  PrivateInv'
<1> DEFINE t == handler.pid
           b == buffers[t]
           p == b.start
           k == <<t, p>>
           c == buffers'[t]
<1>1. /\ handler # NONE /\ handler.step = "zap"
      /\ t \in DOMAIN buffers /\ t \in Threads /\ p \in Pages
      /\ pte' = [pte EXCEPT ![p] = NONE] /\ mem' = Mapped(mem)
      /\ UNCHANGED <<live, used, stored, storage, waiting, written, seen>>
      /\ DOMAIN buffers' = DOMAIN buffers
      /\ handler' # NONE /\ Turned([h |-> handler', b |-> c], handler, Zapped(b), used)
  BY ZapIs DEF OwnInv
<1>2. /\ handler'.pid = handler.pid /\ handler'.op = handler.op /\ handler'.page = handler.page
      /\ handler'.step # "zap"
  BY <1>1 DEF Turned
<1>3. TypeOK /\ Own /\ Cached /\ Content /\ Unmaps
  BY ZapKeeps DEF OwnInv, FrameInv, PrivateInv
<1>4. /\ pte' \in [Pages -> Frames \cup {NONE}] /\ pte'[p] = NONE
      /\ \A q \in Pages : q # p => pte'[q] = pte[q]
  BY <1>1, <1>3 DEF TypeOK
<1>5. \A q \in Pages : pte'[q] # NONE => mem'[pte'[q]] = mem[pte'[q]]
  BY <1>1, <1>3, <1>4, MappedIs DEF TypeOK
<1>6. Own' /\ Cached'
  <2>1. \A q \in Pages : pte'[q] # NONE => Pid(q) \in DOMAIN buffers'
    BY <1>1, <1>3, <1>4 DEF Cached
  <2> QED BY <1>3, <2>1, UnmapsOwn
<1>7. Waits' /\ Calls' /\ ZapInv'
  <2>1. \A q \in Pages : pte[q] = NONE => pte'[q] = NONE
    BY <1>4
  <2>2. waiting \in [Threads -> Pages \cup {NONE}]
    BY <1>3 DEF TypeOK
  <2> HIDE DEF t, b, p, c
  <2> QED BY <1>1, <1>2, <2>1, <2>2 DEF OwnInv, PrivateInv, Waits, Calls, ZapInv, Pid, MayRead
<1>8. Content'
  <2>1. ASSUME NEW q \in live, q # p PROVE View(q)' = View(q)
    <3>1. q \in Pages
      BY <1>3 DEF TypeOK
    <3> QED BY <1>1, <1>4, <1>5, <2>1, <3>1, ViewKept
  <2>2. ASSUME NEW q \in live, q = p PROVE View(q)' = View(q)
    <3>1. q \in Pages /\ Pid(q) = t
      BY <1>1, <1>3, <2>2 DEF Own, SlotsOf
    <3> DEFINE key == <<Pid(q), q>>
    <3>2. pte[q] # NONE /\ key \in stored /\ key \in DOMAIN storage /\ storage[key] = mem[pte[q]]
      BY <1>1, <2>2, <3>1 DEF OwnInv, PrivateInv, ZapInv
    <3>3. View(q) = mem[pte[q]]
      BY <3>2 DEF View
    <3>4. pte'[q] = NONE /\ stored' = stored /\ storage' = storage
      BY <1>1, <1>4, <2>2
    <3>5. View(q)' = storage[key]
      BY <3>2, <3>4 DEF View, Loaded, is_stored_page, Pid
    <3> QED BY <3>2, <3>3, <3>5
  <2>3. ASSUME NEW q \in live PROVE View(q)' = View(q)
    BY <2>1, <2>2
  <2> QED BY <1>1, <1>3, <2>3 DEF Content
<1> QED BY <1>6, <1>7, <1>8 DEF PrivateInv

LEMMA MapPrivate ==
  ASSUME OwnInv, Map
  PROVE  PrivateInv'
<1> DEFINE t == handler.pid
           p == handler.page
           b == FrontOf(t)
           v == Loaded(<<t, p>>)
           m == [mem EXCEPT ![b.buffer] = v]
           f == [b EXCEPT !.start = p]
<1>1. /\ t \in Threads /\ p \in Pages /\ handler.op = "fault"
      /\ b \in Buffer /\ b.buffer \in Frames /\ b.buffer # NONE
      /\ \A q \in Pages : pte[q] # b.buffer
      /\ t \notin DOMAIN buffers => b.start = NONE /\ b.cache_start = NONE
      /\ t \in DOMAIN buffers => b = buffers[t]
  BY FrontOfIs DEF Map, OwnInv, FrontOf
<1>2. /\ handler # NONE /\ handler.step = "map" /\ handler' = NONE
      /\ waiting' = [waiting EXCEPT ![t] = NONE]
      /\ UNCHANGED <<live, used, stored, storage, written, seen>>
      /\ \/ buffers' \in {buffers, With(buffers, t, b)} /\ UNCHANGED <<mem, pte, order>>
         \/ buffers' = With(buffers, t, b) /\ UNCHANGED <<pte, order>> /\ mem' = Mapped(m)
         \/ /\ pte[p] = NONE /\ buffers' = With(buffers, t, f)
            /\ pte' = [pte EXCEPT ![p] = b.buffer] /\ mem' = Mapped(m)
  BY MapIs DEF OwnInv
<1>3. TypeOK /\ v \in Values /\ Own /\ Cached /\ Waits /\ Content
  BY LoadedIs DEF OwnInv, FrameInv, PrivateInv
<1>4. /\ f.start = p /\ f.cache_start = b.cache_start
  BY <1>1 DEF Buffer
<1>5. Pid(p) = t /\ waiting[t] = p
  BY <1>1, <1>2 DEF OwnInv, PrivateInv, Calls
<1>6. t \in DOMAIN buffers => \A q \in Pages : q = b.start => pte[q] = NONE
  BY <1>1, <1>2 DEF OwnInv, FrameInv, FrontFree
<1>7. m \in [Frames -> Values]
  BY <1>1, <1>3 DEF TypeOK
<1>8. \A q \in Pages : q \in SlotsOf(b) => Pid(q) = t
  BY <1>1, <1>3, PageCacheAssumption DEF Own, SlotsOf
<1>9. /\ pte' \in [Pages -> Frames \cup {NONE}]
      /\ \A q \in Pages : pte'[q] = pte[q] \/ (q = p /\ pte[p] = NONE /\ pte'[p] = b.buffer)
  <2> HIDE DEF b, p, t, f, m
  <2> QED BY <1>1, <1>2, <1>3 DEF TypeOK
<1>10. \/ buffers' = buffers /\ pte' = pte
       \/ /\ DOMAIN buffers' = DOMAIN buffers \cup {t}
          /\ \A u \in DOMAIN buffers : u # t => buffers'[u] = buffers[u]
          /\ \/ buffers'[t] = b /\ pte' = pte
             \/ buffers'[t] = f
  <2> HIDE DEF b, p, t, f, m
  <2> QED BY <1>2 DEF With
<1>11. \A q \in Pages : pte'[q] # NONE /\ pte[q] # NONE => mem'[pte[q]] = mem[pte[q]]
  <2> HIDE DEF b, p, t, v, f
  <2>1. CASE mem' = mem
    BY <2>1
  <2>2. CASE mem' = Mapped(m)
    <3>1. \A q \in Pages : pte'[q] # NONE => mem'[pte'[q]] = m[pte'[q]]
      BY <1>7, <1>9, <2>2, MappedIs
    <3>2. \A q \in Pages : pte[q] # NONE => pte[q] \in Frames /\ pte[q] # b.buffer
      BY <1>1, <1>3 DEF TypeOK
    <3>3. \A q \in Pages : pte[q] # NONE => m[pte[q]] = mem[pte[q]]
      BY <1>3, <3>2 DEF TypeOK
    <3>4. \A q \in Pages : pte[q] # NONE => pte'[q] = pte[q]
      BY <1>9
    <3> QED BY <3>1, <3>3, <3>4
  <2> QED BY <1>2, <2>1, <2>2
<1>12. \A u \in DOMAIN buffers : u # t => buffers'[u] = buffers[u] /\ u \in DOMAIN buffers'
  BY <1>10
<1>13. Own'
  <2> SUFFICES ASSUME NEW u \in DOMAIN buffers', NEW q \in Pages, q \in SlotsOf(buffers'[u])
               PROVE  Pid(q) = u
    BY DEF Own, Pid, SlotsOf
  <2>1. CASE u = t /\ t \in DOMAIN buffers' /\ buffers'[t] \in {b, f}
    <3>1. q \in SlotsOf(b) \/ q = p
      BY <1>4, <2>1 DEF SlotsOf
    <3> QED BY <1>5, <1>8, <2>1, <3>1
  <2>2. CASE u \in DOMAIN buffers /\ buffers'[u] = buffers[u]
    BY <1>3, <2>2 DEF Own
  <2> HIDE DEF b, f
  <2> QED BY <1>10, <2>1, <2>2
<1>14. Cached'
  <2> SUFFICES ASSUME NEW q \in Pages, pte'[q] # NONE
               PROVE  Pid(q) \in DOMAIN buffers' /\ q \in SlotsOf(buffers'[Pid(q)])
    BY DEF Cached, Pid, SlotsOf
  <2>1. CASE pte[q] = NONE
    <3>1. q = p /\ pte'[q] # pte[q]
      BY <1>9, <2>1
    <3>2. buffers'[t] = f /\ t \in DOMAIN buffers'
      BY <1>10, <3>1
    <3> QED BY <1>4, <1>5, <3>1, <3>2 DEF SlotsOf
  <2>2. CASE pte[q] # NONE
    <3>1. Pid(q) \in DOMAIN buffers /\ q \in SlotsOf(buffers[Pid(q)])
      BY <1>3, <2>2 DEF Cached
    <3>2. CASE Pid(q) # t
      BY <1>12, <3>1, <3>2
    <3>3. CASE Pid(q) = t
      <4>1. t \in DOMAIN buffers /\ b = buffers[t] /\ q \in SlotsOf(b) /\ q # b.start
        BY <1>1, <1>6, <2>2, <3>1, <3>3
      <4>2. q = b.cache_start
        BY <4>1 DEF SlotsOf
      <4>3. buffers'[t] \in {b, f} /\ t \in DOMAIN buffers'
        BY <1>10, <4>1
      <4> QED BY <1>4, <3>3, <4>1, <4>2, <4>3 DEF SlotsOf
    <3> QED BY <3>2, <3>3
  <2> QED BY <2>1, <2>2
<1>15. Waits'
  <2> SUFFICES ASSUME NEW u \in Threads, waiting'[u] # NONE
               PROVE  waiting'[u] \in live /\ Pid(waiting'[u]) = u /\ pte'[waiting'[u]] = NONE
    BY <1>2 DEF Waits, MayRead, Pid
  <2>1. u # t /\ waiting'[u] = waiting[u] /\ waiting[u] \in Pages
    BY <1>2, <1>3 DEF TypeOK
  <2>2. waiting[u] \in live /\ Pid(waiting[u]) = u /\ pte[waiting[u]] = NONE
    BY <1>3, <2>1 DEF Waits
  <2>3. waiting[u] # p
    BY <1>5, <2>1, <2>2
  <2> QED BY <1>9, <2>1, <2>2, <2>3
<1>16. Calls' /\ ZapInv'
  BY <1>2 DEF Calls, ZapInv
<1>17. Content'
  <2>1. ASSUME NEW q \in Pages, pte'[q] = pte[q] PROVE View(q)' = View(q)
    BY <1>2, <1>11, <2>1, ViewKept
  <2>2. ASSUME NEW q \in Pages, q = p, pte'[q] # pte[q] PROVE View(q)' = View(q)
    <3>1. pte[q] = NONE /\ pte'[q] = b.buffer /\ pte'[q] # NONE
      BY <1>1, <1>9, <2>2
    <3>2. mem' = Mapped(m)
      BY <1>2, <2>2
    <3> HIDE DEF m
    <3>3. mem'[pte'[q]] = m[pte'[q]]
      BY <1>7, <1>9, <3>1, <3>2, MappedIs
    <3>4. m[b.buffer] = v
      BY <1>1, <1>3 DEF TypeOK, m
    <3>5. View(q)' = v
      BY <3>1, <3>3, <3>4 DEF View
    <3>6. View(q) = v
      BY <1>5, <2>2, <3>1 DEF View
    <3> QED BY <3>5, <3>6
  <2>3. ASSUME NEW q \in live PROVE View(q)' = View(q)
    <3>1. q \in Pages
      BY <1>3 DEF TypeOK
    <3>2. pte'[q] = pte[q] \/ q = p
      BY <1>9, <3>1
    <3> QED BY <2>1, <2>2, <3>1, <3>2
  <2> QED BY <1>2, <1>3, <2>3 DEF Content
<1> QED BY <1>13, <1>14, <1>15, <1>16, <1>17 DEF PrivateInv

LEMMA MallocEndPrivate ==
  ASSUME OwnInv, MallocEnd
  PROVE  PrivateInv'
<1> DEFINE p == handler.page
           v == View(p)
<1>1. /\ handler # NONE /\ handler.op = "malloc" /\ handler' = NONE
      /\ live' = live \cup {p} /\ written' = With(written, p, v)
      /\ UNCHANGED <<used, pte, mem, buffers, stored, storage, waiting, order, seen>>
  BY DEF MallocEnd
<1>2. TypeOK /\ Content /\ Waits /\ p \in Pages
  BY <1>1, BuffersTyped DEF OwnInv, FrameInv, PrivateInv, Handler
<1>3. ASSUME NEW q \in live' PROVE written'[q] = View(q)'
  <2>1. q \in Pages /\ View(q)' = View(q)
    BY <1>1, <1>2, ViewsKept DEF TypeOK
  <2>2. CASE q = p
    BY <1>1, <2>1, <2>2 DEF With
  <2>3. CASE q # p
    <3> HIDE DEF p, v
    <3>1. q \in live /\ q \in DOMAIN written
      BY <1>1, <1>2, <2>3 DEF TypeOK
    <3>2. written'[q] = written[q]
      BY <1>1, <2>3, <3>1 DEF With
    <3> QED BY <1>2, <2>1, <3>1, <3>2 DEF Content
  <2> QED BY <2>2, <2>3
<1>4. Content'
  BY <1>3 DEF Content
<1>5. Waits' /\ Calls' /\ ZapInv'
  BY <1>1, <1>2 DEF Waits, Calls, ZapInv, MayRead, Pid
<1> QED BY <1>1, <1>4, <1>5 DEF OwnInv, PrivateInv, Own, Cached, Pid, SlotsOf

LEMMA AreaGonePrivate ==
  ASSUME OwnInv, FrameInv', NEW a \in Areas, do_munmap(a),
         NEW t \in Threads, NEW pages \in SUBSET Pages, remove_storage_pages(t, pages),
         handler' = NONE, waiting' = waiting, \A u \in Threads : waiting[u] = NONE,
         live' \subseteq live, \A p \in live' : written'[p] = written[p] /\ p \notin pages /\ AreaOf[p] # a
  PROVE  PrivateInv'
<1>1. TypeOK /\ Own /\ Cached /\ Content /\ used' \subseteq Pages /\ MappedVma'
  BY DEF OwnInv, PrivateInv, FrameInv, TypeOK
<1>2. /\ Unmaps
      /\ \A p \in Pages : pte'[p] = IF AreaOf[p] = a THEN NONE ELSE pte[p]
      /\ \A u \in DOMAIN buffers : u \notin DOMAIN buffers' =>
           u = PidOf[a] /\ \A c \in Areas : PidOf[c] = u => ~HasVma(c, used')
      /\ \A p \in Pages : pte'[p] # NONE => mem'[pte'[p]] = mem[pte'[p]]
  BY <1>1, MunmapIs
<1>3. /\ \A k : k \in stored' <=> k \in stored /\ k \notin {t} \X pages
      /\ \A k : k \notin {t} \X pages =>
           /\ k \in DOMAIN storage' <=> k \in DOMAIN storage
           /\ k \in DOMAIN storage => storage'[k] = storage[k]
  BY <1>1, RemoveStorageIs
<1>4. \A p \in Pages : pte'[p] # NONE => Pid(p) \in DOMAIN buffers'
  <2> SUFFICES ASSUME NEW p \in Pages, pte'[p] # NONE PROVE Pid(p) \in DOMAIN buffers'
    OBVIOUS
  <2>1. Pid(p) \in DOMAIN buffers
    BY <1>1, <1>2 DEF Cached
  <2>2. HasVma(AreaOf[p], used')
    BY <1>1 DEF MappedVma, HasVma
  <2> QED BY <1>2, <2>1, <2>2, PidIs
<1>5. Own' /\ Cached'
  BY <1>1, <1>2, <1>4, UnmapsOwn
<1>6. Waits' /\ Calls' /\ ZapInv'
  BY DEF Waits, Calls, ZapInv
<1>7. ASSUME NEW p \in live' PROVE View(p)' = written'[p]
  <2>1. p \in Pages /\ View(p) = written'[p] /\ p \notin pages /\ pte'[p] = pte[p]
    BY <1>1, <1>2 DEF TypeOK, Content
  <2>2. <<Pid(p), p>> \notin {t} \X pages
    BY <2>1
  <2>3. View(p)' = View(p)
    BY <1>2, <1>3, <2>1, <2>2, ViewKept
  <2> QED BY <2>1, <2>3
<1>8. Content'
  BY <1>7 DEF Content
<1> QED BY <1>5, <1>6, <1>8 DEF PrivateInv

LEMMA FreeEndPrivate ==
  ASSUME OwnInv, FreeEnd
  PROVE  PrivateInv'
<1> DEFINE t == handler.pid
           p == handler.page
           a == AreaOf[p]
<1>1. /\ handler # NONE /\ handler' = NONE /\ handler \in Handler /\ TypeOK /\ Content /\ Waits
      /\ UNCHANGED <<live, waiting, written, seen>> /\ handler.op = "free"
      /\ p \in Pages /\ p \notin live /\ a \in Areas /\ t \in Threads /\ FrameInv
  BY BuffersTyped, PageCacheAssumption DEF FreeEnd, OwnInv, PrivateInv, FrameInv, Handler, HandlerInv
<1>2. \A u \in Threads : waiting[u] = NONE
  BY <1>1 DEF Waits, MayRead
<1>3. Waits' /\ Calls' /\ ZapInv'
  BY <1>1, <1>2 DEF Waits, Calls, ZapInv
<1>4. CASE UNCHANGED <<used, pte, mem, buffers, stored, storage, order>>
  <2>1. \A q \in Pages : View(q)' = View(q)
    BY <1>4, ViewsKept
  <2>2. Content'
    BY <1>1, <2>1 DEF Content, TypeOK
  <2> QED BY <1>3, <1>4, <2>2 DEF OwnInv, PrivateInv, Own, Cached, Pid, SlotsOf
<1>5. CASE remove_storage_pages(t, {p}) /\ UNCHANGED <<pte, mem, buffers, order>>
  <2>1. /\ \A k : k \in stored' <=> k \in stored /\ k \notin {t} \X {p}
        /\ \A k : k \notin {t} \X {p} =>
             /\ k \in DOMAIN storage' <=> k \in DOMAIN storage
             /\ k \in DOMAIN storage => storage'[k] = storage[k]
    BY <1>1, <1>5, RemoveStorageIs
  <2>2. ASSUME NEW q \in live PROVE View(q)' = View(q)
    <3>1. q \in Pages /\ q # p
      BY <1>1 DEF TypeOK
    <3>2. <<Pid(q), q>> \notin {t} \X {p}
      BY <3>1
    <3> QED BY <1>5, <2>1, <3>1, <3>2, ViewKept
  <2>3. Content'
    BY <1>1, <2>2 DEF Content, TypeOK
  <2> QED BY <1>3, <1>5, <2>3 DEF OwnInv, PrivateInv, Own, Cached, Pid, SlotsOf
<1>6. CASE /\ remove_storage_pages(t, {p}) /\ used' = used \ {p} /\ ~HasVma(a, used') /\ do_munmap(a)
  <2>1. FrameInv'
    BY <1>1, FreeEndKeeps
  <2>2. \A q \in live : q # p /\ AreaOf[q] # a
    BY <1>1, <1>6 DEF TypeOK, HasVma
  <2> DEFINE pages == {p}
  <2>3. pages \in SUBSET Pages /\ remove_storage_pages(t, pages) /\ \A q \in live : q \notin pages
    BY <1>1, <1>6, <2>2
  <2> HIDE DEF pages, a, t
  <2> QED BY <1>1, <1>2, <1>6, <2>1, <2>2, <2>3, AreaGonePrivate
<1> QED BY <1>4, <1>5, <1>6 DEF FreeEnd

LEMMA ClosePrivate ==
  ASSUME OwnInv, NEW a \in Areas, Close(a)
  PROVE  PrivateInv'
<1> DEFINE all == {p \in Pages : AreaOf[p] = a}
           pages == all \cap used
           t == PidOf[a]
<1>1. /\ Release(all) /\ used' = used \ all /\ do_munmap(a) /\ remove_storage_pages(t, pages)
      /\ waiting' = waiting /\ handler' = NONE /\ \A u \in Threads : waiting[u] = NONE
  BY DEF Close, MayWrite
<1>2. FrameInv' /\ TypeOK
  BY CloseKeeps DEF OwnInv, FrameInv
<1>3. live' = live \ all /\ \A p \in live' : written'[p] = written[p]
  BY <1>1, <1>2, ReleaseIs
<1>4. /\ live' \subseteq live /\ pages \in SUBSET Pages /\ t \in Threads
      /\ \A p \in live' : written'[p] = written[p] /\ p \notin pages /\ AreaOf[p] # a
  BY <1>2, <1>3, PageCacheAssumption DEF TypeOK
<1> HIDE DEF t, pages, all
<1> QED BY <1>1, <1>2, <1>4, AreaGonePrivate

LEMMA OwnInit == Init => OwnInv
<1> SUFFICES ASSUME Init PROVE OwnInv
  OBVIOUS
<1>1. FrameInv
  BY FrameInit
<1>2. DOMAIN buffers = {} /\ live = {} /\ handler = NONE
  BY DEF Init
<1>3. (\A p \in Pages : pte[p] = NONE) /\ (\A t \in Threads : waiting[t] = NONE)
  BY DEF Init
<1> QED BY <1>1, <1>2, <1>3 DEF OwnInv, PrivateInv, Own, Cached, Waits, Calls, ZapInv, Content

LEMMA OwnNext == ~Shared /\ OwnInv /\ [Next]_vars => OwnInv'
<1> SUFFICES ASSUME ~Shared, OwnInv, [Next]_vars PROVE PrivateInv'
  BY FrameNext DEF OwnInv
<1>1. ASSUME NEW t \in Threads, NEW p \in Pages, NEW v \in Values \ {Zero}, Write(t, p, v) PROVE PrivateInv'
  BY <1>1, WritePrivate
<1>2. ASSUME NEW t \in Threads, NEW p \in Pages, Read(t, p) PROVE PrivateInv'
  BY <1>2, ReadPrivate
<1>3. ASSUME NEW t \in Threads, NEW p \in Pages, Miss(t, p) PROVE PrivateInv'
  BY <1>3, MissPrivate
<1>4. ASSUME NEW t \in Threads, NEW p \in Pages, MallocStart(t, p) PROVE PrivateInv'
  BY <1>4, MallocStartPrivate
<1>5. ASSUME NEW t \in Threads, NEW p \in Pages, FreeStart(t, p) PROVE PrivateInv'
  BY <1>5, FreeStartPrivate
<1>6. ASSUME NEW t \in Threads, FaultStart(t) PROVE PrivateInv'
  BY <1>6, FaultStartPrivate
<1>7. CASE Save
  BY <1>7, SavePrivate
<1>8. CASE Zap
  BY <1>8, ZapPrivate
<1>9. CASE Map
  BY <1>9, MapPrivate
<1>10. CASE MallocEnd
  BY <1>10, MallocEndPrivate
<1>11. CASE FreeEnd
  BY <1>11, FreeEndPrivate
<1>12. ASSUME NEW a \in Areas, Close(a) PROVE PrivateInv'
  BY <1>12, ClosePrivate
<1>13. CASE UNCHANGED vars
  <2>1. \A q \in Pages : View(q)' = View(q)
    BY <1>13, ViewsKept DEF vars, kernel
  <2>2. Content'
    BY <1>13, <2>1 DEF vars, OwnInv, FrameInv, TypeOK, PrivateInv, Content
  <2> QED BY <1>13, <2>2 DEF vars, kernel, OwnInv, PrivateInv, Own, Cached, Waits, Calls, ZapInv, Pid, SlotsOf, MayRead
<1> QED BY <1>1, <1>2, <1>3, <1>4, <1>5, <1>6, <1>7, <1>8, <1>9, <1>10, <1>11, <1>12, <1>13
        DEF Next, Program, Module

\* Every step reads, writes, allocates or releases memory as Memory does, or
\* leaves it as it is.
LEMMA MemoryInit == Init => M!Init
  BY PageCacheAssumption DEF Init, M!Init

LEMMA MemoryStep == ~Shared /\ OwnInv /\ [Next]_vars => [M!Next]_(M!vars)
<1> SUFFICES ASSUME ~Shared, OwnInv, [Next]_vars PROVE M!Next \/ UNCHANGED <<live, written, seen>>
  BY DEF M!vars
<1>1. TypeOK /\ Content /\ FrameInv
  BY DEF OwnInv, PrivateInv, FrameInv
<1>2. ASSUME NEW t \in Threads, NEW p \in Pages, NEW v \in Values \ {Zero}, Write(t, p, v) PROVE M!Next
  <2>1. p \in live /\ written' = [written EXCEPT ![p] = v] /\ UNCHANGED <<live, seen>>
    BY <1>2 DEF Write, Touches
  <2> QED BY <2>1 DEF M!Next, M!Write
<1>3. ASSUME NEW t \in Threads, NEW p \in Pages, Read(t, p) PROVE M!Next
  <2>1. p \in live /\ pte[p] # NONE /\ seen' = [seen EXCEPT ![t] = mem[pte[p]]] /\ UNCHANGED <<live, written>>
    BY <1>3 DEF Read, Touches
  <2>2. mem[pte[p]] = written[p]
    BY <1>1, <2>1 DEF Content, View
  <2> QED BY <2>1, <2>2 DEF M!Next, M!Read
<1>4. ASSUME NEW t \in Threads, NEW p \in Pages, Miss(t, p) PROVE UNCHANGED <<live, written, seen>>
  BY <1>4 DEF Miss
<1>5. ASSUME NEW t \in Threads, NEW p \in Pages, MallocStart(t, p) PROVE UNCHANGED <<live, written, seen>>
  BY <1>5 DEF MallocStart
<1>6. ASSUME NEW t \in Threads, NEW p \in Pages, FreeStart(t, p) PROVE M!Next
  BY <1>6 DEF FreeStart, Release, M!Next, M!Release
<1>7. ASSUME NEW t \in Threads, FaultStart(t) PROVE UNCHANGED <<live, written, seen>>
  BY <1>7 DEF FaultStart
<1>8. CASE Save
  BY <1>1, <1>8, SaveIs
<1>9. CASE Zap
  BY <1>9 DEF Zap
<1>10. CASE Map
  BY <1>10 DEF Map
<1>11. CASE MallocEnd
  <2> DEFINE p == handler.page
             v == View(p)
  <2>1. /\ handler # NONE /\ handler.op = "malloc"
        /\ live' = live \cup {p} /\ written' = With(written, p, v) /\ seen' = seen
    BY <1>11 DEF MallocEnd
  <2>2. p \in Pages /\ p \notin live /\ v \in Values
    BY <1>1, <2>1, BuffersTyped, LoadedIs DEF FrameInv, HandlerInv, Handler
  <2> HIDE DEF p, v
  <2>3. written' = [q \in live' |-> IF q = p THEN v ELSE written[q]]
    BY <1>1, <2>1 DEF With, TypeOK
  <2> QED BY <2>1, <2>2, <2>3 DEF M!Next, M!Allocate
<1>12. CASE FreeEnd
  BY <1>12 DEF FreeEnd
<1>13. ASSUME NEW a \in Areas, Close(a) PROVE M!Next
  BY <1>13 DEF Close, Release, M!Next, M!Release
<1>14. CASE UNCHANGED vars
  BY <1>14 DEF vars
<1> QED BY <1>2, <1>3, <1>4, <1>5, <1>6, <1>7, <1>8, <1>9, <1>10, <1>11, <1>12, <1>13, <1>14
        DEF Next, Program, Module

LEMMA OwnAlways ==
  ASSUME ~Shared
  PROVE  Spec => []OwnInv
<1>1. OwnInv /\ [Next]_vars => OwnInv'
  BY OwnNext
<1> QED BY <1>1, OwnInit, PTL DEF Spec

\* Threads that keep to their own memory read what was written last, through
\* unmap_page, the storage and map_page, even when saving, loading or getting
\* memory fails: PageCache implements Memory (generic_malloc.c:139-345).
THEOREM CacheIsMemory ==
  ASSUME ~Shared
  PROVE  Spec => MemorySpec
<1>1. OwnInv /\ [Next]_vars => [M!Next]_(M!vars)
  BY MemoryStep
<1> QED BY <1>1, OwnAlways, MemoryInit, PTL DEF Spec, MemorySpec, M!Spec

\* A page that is mapped is in the mapped_buffer of its thread, so that some later
\* unmap_page saves it, whatever fails (generic_malloc.c:199-262).
THEOREM MappedIsKnown ==
  ASSUME ~Shared
  PROVE  Spec => []MappedKnown
<1>1. OwnInv => MappedKnown
  BY DEF OwnInv, PrivateInv, Cached, MappedKnown, SlotsOf
<1> QED BY <1>1, OwnAlways, PTL

-----------------------------------------------------------------------------
(* Pages that are always saved.                                            *)

SavesWork == ~Shared /\ "save" \notin Faults /\ "stored" \notin Faults

LEMMA BegunFreed ==
  ASSUME KeptInv, NEW h \in Handler, Begun(h, used'), UNCHANGED <<pte, stored>>,
         used \subseteq used'
  PROVE  FreedInv'
<1>1. /\ handler' # NONE /\ handler'.pid = h.pid /\ handler'.op = h.op
      /\ handler'.step \in IF h.op = "fault" THEN {"save", "map"} ELSE {"save", "end"}
      /\ DOMAIN buffers' = DOMAIN buffers
      /\ handler'.step = "end" /\ h.pid \in DOMAIN buffers =>
           \A s \in SlotsOf(buffers[h.pid]) : ~is_existing_vma(s, used')
      /\ handler'.step = "save" /\ handler'.todo = "last" /\ h.op # "fault" =>
           ~is_existing_vma(buffers'[h.pid].cache_start, used')
  BY DEF Begun
<1>2. MappedVma /\ Cached
  BY DEF KeptInv, OwnInv, FrameInv, PrivateInv
<1>3. MappedUsed' /\ StoredUsed'
  BY DEF KeptInv, FreedInv, MappedUsed, StoredUsed, Pid
<1>4. ASSUME handler'.step = "end", NEW p \in Pages, Pid(p) = h.pid PROVE pte[p] = NONE
  <2> SUFFICES ASSUME pte[p] # NONE PROVE FALSE
    OBVIOUS
  <2>1. h.pid \in DOMAIN buffers /\ p \in SlotsOf(buffers[h.pid])
    BY <1>2, <1>4 DEF Cached
  <2>2. ~is_existing_vma(p, used')
    BY <1>1, <1>4, <2>1
  <2> QED BY <1>2, <2>2, NotFound
<1>5. ASSUME handler'.step = "save", handler'.todo = "last", h.op # "fault",
             NEW p \in Pages, p = buffers'[h.pid].cache_start
      PROVE  pte[p] = NONE
  BY <1>1, <1>2, <1>5, NotFound
<1>6. Unmapped'
  BY <1>1, <1>4, <1>5 DEF Unmapped, Pid
<1> QED BY <1>3, <1>6 DEF FreedInv

LEMMA ProgramFreed ==
  ASSUME KeptInv, ~Shared, NEW t \in Threads, NEW p \in Pages,
         \/ \E v \in Values \ {Zero} : Write(t, p, v)
         \/ Read(t, p) \/ Miss(t, p) \/ MallocStart(t, p) \/ FreeStart(t, p)
  PROVE  FreedInv'
<1>1. FrameInv /\ TypeOK
  BY DEF KeptInv, OwnInv, FrameInv
<1>2. ASSUME NEW v \in Values \ {Zero}, Write(t, p, v) PROVE FreedInv'
  <2>1. /\ pte[p] # NONE /\ \A q \in Pages : q # p => pte'[q] = pte[q]
        /\ UNCHANGED <<used, buffers, stored, handler>>
    BY <1>1, <1>2, WriteIs DEF Write
  <2> QED BY <2>1 DEF KeptInv, FreedInv, Unmapped, MappedUsed, StoredUsed, Pid
<1>3. CASE Read(t, p)
  BY <1>3 DEF Read, kernel, KeptInv, FreedInv, Unmapped, MappedUsed, StoredUsed, Pid
<1>4. CASE Miss(t, p)
  BY <1>4 DEF Miss, KeptInv, FreedInv, Unmapped, MappedUsed, StoredUsed, Pid
<1>5. CASE MallocStart(t, p)
  <2> DEFINE h == Call(t, "malloc", p)
  <2>1. h \in Handler /\ h.todo = "both" /\ h.op = "malloc"
    BY CallIs
  <2> HIDE DEF h
  <2>2. Go(UnmapBoth(h, used')) /\ UNCHANGED <<pte, stored>> /\ used \subseteq used'
    BY <1>5 DEF MallocStart, h
  <2> QED BY <1>1, <2>1, <2>2, Beginning, BegunFreed
<1>6. CASE FreeStart(t, p)
  <2> DEFINE h == Call(t, "free", p)
  <2>1. h \in Handler /\ h.todo = "both" /\ h.op = "free"
    BY CallIs
  <2> HIDE DEF h
  <2>2. Go(UnmapBoth(h, used')) /\ UNCHANGED <<pte, stored>> /\ used \subseteq used'
    BY <1>6 DEF FreeStart, h
  <2> QED BY <1>1, <2>1, <2>2, Beginning, BegunFreed
<1> QED BY <1>2, <1>3, <1>4, <1>5, <1>6

LEMMA FaultStartFreed ==
  ASSUME KeptInv, NEW t \in Threads, FaultStart(t)
  PROVE  FreedInv'
<1>1. /\ TypeOK /\ waiting[t] \in Pages /\ UNCHANGED <<used, pte, stored>>
  BY DEF FaultStart, KeptInv, OwnInv, FrameInv, TypeOK
<1>2. CASE waiting[t] \in used
  <2> DEFINE h == Call(t, "fault", waiting[t])
  <2>1. h \in Handler /\ h.todo = "both" /\ h.op = "fault"
    BY <1>1, CallIs
  <2> HIDE DEF h
  <2>2. Go(UnmapOldest(h, used'))
    BY <1>1, <1>2 DEF FaultStart, h
  <2> QED BY <1>1, <2>1, <2>2, Beginning, BegunFreed
<1>3. CASE waiting[t] \notin used
  BY <1>1, <1>3 DEF FaultStart, KeptInv, FreedInv, Unmapped, MappedUsed, StoredUsed, Pid
<1> QED BY <1>2, <1>3

LEMMA SaveFreed ==
  ASSUME KeptInv, SavesWork, Save
  PROVE  FreedInv'
<1> DEFINE t == handler.pid
           p == buffers[t].start
           k == <<t, p>>
<1>1. /\ handler # NONE /\ handler \in Handler /\ handler.step = "save"
      /\ t \in DOMAIN buffers /\ t \in Threads /\ p \in Pages
      /\ UNCHANGED <<used, pte, buffers>>
      /\ \/ handler' = [handler EXCEPT !.step = "stuck"] /\ stored' = stored
         \/ pte[p] # NONE /\ handler' = [handler EXCEPT !.step = "zap"] /\ stored' = stored \cup {k}
  BY SaveIs DEF KeptInv, OwnInv, SavesWork
<1>2. MappedUsed' /\ (pte[p] # NONE => p \in used /\ Pid(p) = t)
  BY <1>1 DEF KeptInv, FreedInv, MappedUsed, OwnInv, PrivateInv, Own, SlotsOf
<1>3. StoredUsed'
  BY <1>1, <1>2 DEF KeptInv, FreedInv, StoredUsed, Pid
<1>4. /\ handler'.pid = t /\ handler'.op = handler.op /\ handler'.step \in {"stuck", "zap"}
      /\ handler'.todo = handler.todo /\ handler' # NONE
  <2>1. CASE handler' = [handler EXCEPT !.step = "stuck"]
    BY <1>1, <2>1, StepIs
  <2>2. CASE handler' = [handler EXCEPT !.step = "zap"]
    BY <1>1, <2>2, StepIs
  <2> QED BY <1>1, <2>1, <2>2
<1>5. Unmapped'
  BY <1>1, <1>4 DEF KeptInv, FreedInv, Unmapped, Pid
<1> QED BY <1>2, <1>3, <1>5 DEF FreedInv

LEMMA ZapFreed ==
  ASSUME KeptInv, Zap
  PROVE  FreedInv'
<1> DEFINE t == handler.pid
           b == buffers[t]
           p == b.start
           z == Zapped(b)
           c == buffers'[t]
<1>1. /\ handler # NONE /\ handler.step = "zap" /\ handler \in Handler
      /\ t \in DOMAIN buffers /\ t \in Threads /\ p \in Pages /\ b \in Buffer
      /\ pte' = [pte EXCEPT ![p] = NONE] /\ UNCHANGED <<used, stored>>
      /\ handler' # NONE /\ Turned([h |-> handler', b |-> c], handler, z, used)
      /\ handler.op # "fault" /\ handler.todo = "both" =>
           /\ handler'.todo = "last" /\ (handler'.step = "save" => c = swap_buffer_cache(z))
           /\ handler'.step = "end" => ~is_existing_vma(b.cache_start, used)
      /\ handler.op # "fault" /\ handler.todo = "last" => handler'.step = "end"
  BY ZapIs DEF KeptInv, OwnInv
<1>2. /\ handler'.pid = handler.pid /\ handler'.op = handler.op /\ handler'.step # "zap"
  BY <1>1 DEF Turned
<1>3. TypeOK /\ MappedVma /\ Cached /\ Unmapped /\ MappedUsed /\ StoredUsed
  BY DEF KeptInv, FreedInv, OwnInv, FrameInv, PrivateInv
<1>4. pte'[p] = NONE /\ \A q \in Pages : q # p => pte'[q] = pte[q]
  BY <1>1, <1>3 DEF TypeOK
<1>5. MappedUsed' /\ StoredUsed'
  BY <1>1, <1>3, <1>4 DEF MappedUsed, StoredUsed, Pid
<1>6. handler.todo \in {"both", "last"}
  BY <1>1 DEF Handler
<1>7. ASSUME handler'.step = "end", handler.op # "fault", NEW q \in Pages, Pid(q) = t
      PROVE  pte'[q] = NONE
  <2> SUFFICES ASSUME q # p, pte[q] # NONE PROVE FALSE
    BY <1>4
  <2>1. q = b.cache_start
    BY <1>3, <1>7 DEF Cached, SlotsOf
  <2>2. CASE handler.todo = "both"
    BY <1>1, <1>3, <1>7, <2>1, <2>2, NotFound
  <2>3. CASE handler.todo = "last"
    BY <1>1, <1>3, <1>7, <2>1, <2>3 DEF Unmapped
  <2> QED BY <1>6, <2>2, <2>3
<1>8. ASSUME handler'.step = "save", handler.op # "fault", NEW q \in Pages
      PROVE  q # c.cache_start
  <2>1. c = swap_buffer_cache(z)
    BY <1>1, <1>6, <1>8
  <2>2. z \in Buffer /\ z.start = NONE
    BY <1>1, ZappedIs
  <2>3. c.cache_start = NONE
    BY <2>1, <2>2, SwapIs
  <2> QED BY <2>3, PageCacheAssumption
<1>9. Unmapped'
  BY <1>1, <1>2, <1>7, <1>8 DEF Unmapped, Pid
<1> QED BY <1>5, <1>9 DEF FreedInv

LEMMA MapFreed ==
  ASSUME KeptInv, Map
  PROVE  FreedInv'
<1> DEFINE p == handler.page
<1>1. /\ p \in Pages /\ p \in used /\ TypeOK
  BY FrontOfIs DEF Map, KeptInv, OwnInv, FrameInv
<1>2. handler' = NONE /\ UNCHANGED <<used, stored>> /\ \A q \in Pages : q # p => pte'[q] = pte[q]
  BY <1>1 DEF Map, TypeOK
<1> QED BY <1>1, <1>2 DEF KeptInv, FreedInv, Unmapped, MappedUsed, StoredUsed, Pid

LEMMA FreeEndFreed ==
  ASSUME KeptInv, FreeEnd
  PROVE  FreedInv'
<1> DEFINE t == handler.pid
           p == handler.page
           a == AreaOf[p]
<1>1. /\ handler # NONE /\ handler' = NONE /\ handler \in Handler /\ TypeOK
      /\ handler.op = "free" /\ handler.step = "end"
      /\ p \in Pages /\ a \in Areas /\ t \in Threads /\ Pid(p) = t
  BY BuffersTyped, PageCacheAssumption
  DEF FreeEnd, KeptInv, OwnInv, PrivateInv, FrameInv, Handler, Calls
<1>2. pte[p] = NONE
  BY <1>1 DEF KeptInv, FreedInv, Unmapped
<1>3. Unmapped'
  BY <1>1 DEF Unmapped
<1>4. CASE UNCHANGED <<used, pte, mem, buffers, stored, storage, order>>
  BY <1>3, <1>4 DEF KeptInv, FreedInv, MappedUsed, StoredUsed, Pid
<1>5. CASE /\ remove_storage_pages(t, {p}) /\ used' = used \ {p}
           /\ pte' = pte \/ do_munmap(a)
  <2>1. \A k : k \in stored' <=> k \in stored /\ k \notin {t} \X {p}
    BY <1>1, <1>5, RemoveStorageIs
  <2>2. StoredUsed'
    <3> SUFFICES ASSUME NEW k \in stored' PROVE k[2] \in used' /\ Pid(k[2]) = k[1]
      BY DEF StoredUsed, Pid
    <3>1. k \in stored /\ k \notin {t} \X {p}
      BY <2>1
    <3>2. k[2] \in used /\ Pid(k[2]) = k[1] /\ k = <<k[1], k[2]>>
      BY <1>1, <3>1 DEF KeptInv, FreedInv, StoredUsed, TypeOK
    <3>3. k[2] # p
      BY <1>1, <3>1, <3>2
    <3> QED BY <1>5, <3>2, <3>3
  <2>3. \A q \in Pages : pte'[q] \in {NONE, pte[q]}
    <3>1. CASE pte' = pte
      BY <3>1
    <3>2. CASE do_munmap(a)
      BY <1>1, <3>2 DEF do_munmap
    <3> QED BY <1>5, <3>1, <3>2
  <2>4. MappedUsed'
    BY <1>2, <1>5, <2>3 DEF KeptInv, FreedInv, MappedUsed
  <2> QED BY <1>3, <2>2, <2>4 DEF FreedInv
<1> QED BY <1>4, <1>5 DEF FreeEnd

LEMMA CloseFreed ==
  ASSUME KeptInv, NEW a \in Areas, Close(a)
  PROVE  FreedInv'
<1> DEFINE all == {p \in Pages : AreaOf[p] = a}
           pages == all \cap used
           t == PidOf[a]
<1>1. /\ used' = used \ all /\ do_munmap(a) /\ remove_storage_pages(t, pages) /\ handler' = NONE /\ TypeOK
  BY DEF Close, MayWrite, KeptInv, OwnInv, FrameInv
<1>2. \A k : k \in stored' <=> k \in stored /\ k \notin {t} \X pages
  BY <1>1, RemoveStorageIs
<1>3. StoredUsed'
  <2> SUFFICES ASSUME NEW k \in stored' PROVE k[2] \in used' /\ Pid(k[2]) = k[1]
    BY DEF StoredUsed, Pid
  <2>1. k \in stored /\ k \notin {t} \X pages
    BY <1>2
  <2>2. k[2] \in used /\ Pid(k[2]) = k[1] /\ k = <<k[1], k[2]>>
    BY <1>1, <2>1 DEF KeptInv, FreedInv, StoredUsed, TypeOK
  <2>3. k[2] \notin all
    BY <2>1, <2>2 DEF Pid
  <2> QED BY <1>1, <2>2, <2>3
<1>4. MappedUsed'
  BY <1>1 DEF do_munmap, KeptInv, FreedInv, MappedUsed
<1> QED BY <1>1, <1>3, <1>4 DEF FreedInv, Unmapped

LEMMA KeptInit == Init => KeptInv
<1> SUFFICES ASSUME Init PROVE FreedInv
  BY OwnInit DEF KeptInv
<1>1. (\A p \in Pages : pte[p] = NONE) /\ handler = NONE /\ stored = {}
  BY DEF Init
<1> QED BY <1>1 DEF FreedInv, Unmapped, MappedUsed, StoredUsed

LEMMA KeptNext == SavesWork /\ KeptInv /\ [Next]_vars => KeptInv'
<1> SUFFICES ASSUME SavesWork, KeptInv, [Next]_vars PROVE FreedInv'
  BY OwnNext DEF KeptInv, SavesWork
<1>1. CASE Program
  BY <1>1, ProgramFreed DEF Program, SavesWork
<1>2. ASSUME NEW t \in Threads, FaultStart(t) PROVE FreedInv'
  BY <1>2, FaultStartFreed
<1>3. CASE Save
  BY <1>3, SaveFreed
<1>4. CASE Zap
  BY <1>4, ZapFreed
<1>5. CASE Map
  BY <1>5, MapFreed
<1>6. CASE MallocEnd
  BY <1>6 DEF MallocEnd, KeptInv, FreedInv, Unmapped, MappedUsed, StoredUsed, Pid
<1>7. CASE FreeEnd
  BY <1>7, FreeEndFreed
<1>8. ASSUME NEW a \in Areas, Close(a) PROVE FreedInv'
  BY <1>8, CloseFreed
<1>9. CASE UNCHANGED vars
  BY <1>9 DEF vars, kernel, KeptInv, FreedInv, Unmapped, MappedUsed, StoredUsed, Pid
<1> QED BY <1>1, <1>2, <1>3, <1>4, <1>5, <1>6, <1>7, <1>8, <1>9 DEF Next, Module

LEMMA KeptAlways ==
  ASSUME SavesWork
  PROVE  Spec => []KeptInv
<1>1. KeptInv /\ [Next]_vars => KeptInv'
  BY KeptNext
<1> QED BY <1>1, KeptInit, PTL DEF Spec

\* The storage keeps no page of a freed region, as long as no save and no entry of
\* stored_pages fails: netfree unmaps its page before it takes it from the storage
\* (generic_malloc.c:82-136, 366-368).
THEOREM StoredIsUsed ==
  ASSUME SavesWork
  PROVE  Spec => []StoredInUse
<1>1. KeptInv => StoredInUse
  BY DEF KeptInv, FreedInv, StoredUsed, StoredInUse
<1> QED BY <1>1, KeptAlways, PTL

\* A fault is served with its page mapped, or not at all: with no failure, a thread
\* that waits for a page of its own finds it mapped when it goes on
\* (generic_malloc.c:228-262, 307-345).
THEOREM FaultsMap ==
  ASSUME ~Shared, Faults = {}
  PROVE  Spec => FaultMaps
<1> DEFINE Served == \A t \in Threads : waiting[t] # NONE /\ waiting'[t] = NONE =>
                       pte[waiting[t]] = NONE /\ pte'[waiting[t]] # NONE
<1>1. OwnInv /\ [Next]_vars => [Served]_vars
  <2> SUFFICES ASSUME OwnInv, Next, NEW t \in Threads, waiting[t] # NONE, waiting'[t] = NONE
               PROVE  pte[waiting[t]] = NONE /\ pte'[waiting[t]] # NONE
    OBVIOUS
  <2> DEFINE p == waiting[t]
  <2>1. /\ FrameInv /\ TypeOK /\ p \in Pages /\ p \in used /\ p \in live /\ pte[p] = NONE
        /\ waiting \in [Threads -> Pages \cup {NONE}]
    BY DEF OwnInv, FrameInv, TypeOK, PrivateInv, Waits
  <2>2. waiting' # waiting
    OBVIOUS
  <2>3. CASE Map
    <3> DEFINE b == FrontOf(handler.pid)
    <3>1. /\ handler # NONE /\ handler.step = "map" /\ handler.op = "fault"
          /\ handler.pid \in Threads /\ b.buffer # NONE
      BY <2>1, <2>3, FrontOfIs DEF Map
    <3>2. waiting' = [waiting EXCEPT ![handler.pid] = NONE]
      BY <2>3 DEF Map
    <3>3. handler.pid = t
      BY <2>1, <3>2
    <3>4. handler.page = p
      BY <3>1, <3>3 DEF OwnInv, PrivateInv, Calls
    <3> HIDE DEF p, b
    <3>5. pte' = [pte EXCEPT ![p] = b.buffer]
      BY <2>1, <2>3, <3>4, MapIs DEF b
    <3> QED BY <2>1, <3>1, <3>5 DEF TypeOK, p
  <2>4. CASE Save
    <3>1. waiting' = waiting
      BY <2>1, <2>4, SaveIs
    <3> QED BY <2>2, <3>1
  <2>5. ASSUME NEW u \in Threads, FaultStart(u) PROVE FALSE
    <3>1. waiting[u] \in used
      BY <2>5 DEF FaultStart, OwnInv, FrameInv, TypeOK, PrivateInv, Waits
    <3> QED BY <2>2, <2>5, <3>1 DEF FaultStart
  <2>6. ASSUME NEW u \in Threads, NEW q \in Pages, Miss(u, q) PROVE FALSE
    <3>1. waiting' = [waiting EXCEPT ![u] = q]
      BY <2>6 DEF Miss
    <3> QED BY <2>1, <3>1, PageCacheAssumption
  <2>7. CASE Zap \/ MallocEnd \/ FreeEnd
    BY <2>2, <2>7 DEF Zap, MallocEnd, FreeEnd
  <2>8. ASSUME NEW a \in Areas, Close(a) PROVE FALSE
    BY <2>2, <2>8 DEF Close
  <2>9. ASSUME NEW u \in Threads, NEW q \in Pages,
               \/ \E v \in Values \ {Zero} : Write(u, q, v)
               \/ Read(u, q) \/ MallocStart(u, q) \/ FreeStart(u, q)
        PROVE  FALSE
    BY <2>2, <2>9 DEF Write, Read, kernel, MallocStart, FreeStart
  <2> QED BY <2>3, <2>4, <2>5, <2>6, <2>7, <2>8, <2>9 DEF Next, Program, Module
<1> QED BY <1>1, OwnAlways, PTL DEF Spec, FaultMaps

-----------------------------------------------------------------------------
(* Areas that end by netfree alone.                                        *)

LEMMA BegunSlots ==
  ASSUME FreeInv, NEW h \in Handler, Begun(h, used'), pte' = pte
  PROVE  SlotsMapped' /\ NeverStuck'
<1>1. /\ handler' # NONE /\ handler'.step \in IF h.op = "fault" THEN {"save", "map"} ELSE {"save", "end"}
      /\ DOMAIN buffers' = DOMAIN buffers
      /\ \A t \in DOMAIN buffers : buffers'[t] \in {buffers[t], swap_buffer_cache(buffers[t])}
  BY DEF Begun
<1>2. TypeOK /\ SlotsMapped
  BY DEF FreeInv, KeptInv, OwnInv, FrameInv
<1>3. ASSUME NEW t \in DOMAIN buffers
      PROVE  /\ SlotsOf(buffers'[t]) = SlotsOf(buffers[t])
             /\ buffers'[t].start = buffers'[t].cache_start =>
                  buffers[t].start = buffers[t].cache_start /\ buffers'[t].start = buffers[t].start
  <2>1. CASE buffers'[t] = buffers[t]
    BY <2>1
  <2>2. CASE buffers'[t] = swap_buffer_cache(buffers[t])
    BY <1>2, <2>2, BuffersTyped, SwapIs DEF SlotsOf
  <2> QED BY <1>1, <2>1, <2>2
<1>4. SlotsMapped'
  BY <1>1, <1>2, <1>3 DEF SlotsMapped, SlotsOf
<1> QED BY <1>1, <1>4 DEF NeverStuck

LEMMA StartSlots ==
  ASSUME FreeInv, NEW t \in Threads, NEW p \in Pages,
         FaultStart(t) \/ MallocStart(t, p) \/ FreeStart(t, p)
  PROVE  SlotsMapped' /\ NeverStuck'
<1>1. TypeOK
  BY DEF FreeInv, KeptInv, OwnInv, FrameInv
<1>2. CASE FaultStart(t)
  <2>1. waiting[t] \in Pages /\ handler = NONE /\ UNCHANGED <<used, pte>>
    BY <1>1, <1>2 DEF FaultStart, TypeOK
  <2>2. CASE waiting[t] \in used
    <3> DEFINE h == Call(t, "fault", waiting[t])
    <3>1. h \in Handler /\ h.todo = "both" /\ h.op = "fault"
      BY <2>1, CallIs
    <3> HIDE DEF h
    <3>2. Go(UnmapOldest(h, used'))
      BY <1>2, <2>1, <2>2 DEF FaultStart, h
    <3> QED BY <1>1, <2>1, <3>1, <3>2, Beginning, BegunSlots
  <2>3. CASE waiting[t] \notin used
    BY <1>2, <2>1, <2>3 DEF FaultStart, FreeInv, SlotsMapped, SlotsOf, NeverStuck
  <2> QED BY <2>2, <2>3
<1>3. CASE MallocStart(t, p)
  <2> DEFINE h == Call(t, "malloc", p)
  <2>1. h \in Handler /\ h.todo = "both" /\ h.op = "malloc"
    BY CallIs
  <2> HIDE DEF h
  <2>2. Go(UnmapBoth(h, used')) /\ pte' = pte
    BY <1>3 DEF MallocStart, h
  <2> QED BY <1>1, <2>1, <2>2, Beginning, BegunSlots
<1>4. CASE FreeStart(t, p)
  <2> DEFINE h == Call(t, "free", p)
  <2>1. h \in Handler /\ h.todo = "both" /\ h.op = "free"
    BY CallIs
  <2> HIDE DEF h
  <2>2. Go(UnmapBoth(h, used')) /\ pte' = pte
    BY <1>4 DEF FreeStart, h
  <2> QED BY <1>1, <2>1, <2>2, Beginning, BegunSlots
<1> QED BY <1>2, <1>3, <1>4

LEMMA ZapSlots ==
  ASSUME FreeInv, Zap
  PROVE  SlotsMapped' /\ NeverStuck'
<1> DEFINE t == handler.pid
           b == buffers[t]
           p == b.start
           z == Zapped(b)
           c == buffers'[t]
<1>1. /\ handler # NONE /\ t \in DOMAIN buffers /\ p \in Pages /\ b \in Buffer
      /\ pte' = [pte EXCEPT ![p] = NONE] /\ DOMAIN buffers' = DOMAIN buffers
      /\ \A u \in DOMAIN buffers : u # t => buffers'[u] = buffers[u]
      /\ handler' # NONE /\ Turned([h |-> handler', b |-> c], handler, z, used)
  BY ZapIs DEF FreeInv, KeptInv, OwnInv
<1>2. c \in {z, swap_buffer_cache(z)} /\ handler'.step \in {"save", "map", "end"}
  BY <1>1 DEF Turned
<1>3. TypeOK /\ SlotsMapped /\ Own /\ NONE \notin Pages
  BY PageCacheAssumption DEF FreeInv, KeptInv, OwnInv, FrameInv, PrivateInv
<1>4. \A q \in Pages : q # p => pte'[q] = pte[q]
  BY <1>1, <1>3 DEF TypeOK
<1>5. SlotsOf(c) = {NONE, b.cache_start}
  <2>1. z \in Buffer /\ z.start = NONE /\ z.cache_start = b.cache_start
    BY <1>1, ZappedIs
  <2>2. CASE c = z
    BY <2>1, <2>2 DEF SlotsOf
  <2>3. CASE c = swap_buffer_cache(z)
    BY <2>1, <2>3, SwapIs DEF SlotsOf
  <2> QED BY <1>2, <2>2, <2>3
<1> HIDE DEF c
<1>6. /\ \A q \in Pages : q \in SlotsOf(c) => pte'[q] # NONE
      /\ c.start = c.cache_start => c.start \notin Pages
  <2>1. \A q \in Pages : q = b.cache_start => q # p /\ pte[q] # NONE
    BY <1>1, <1>3 DEF SlotsMapped, SlotsOf
  <2>2. c.start = c.cache_start => c.start = NONE
    BY <1>5 DEF SlotsOf
  <2> QED BY <1>3, <1>4, <1>5, <2>1, <2>2
<1>7. ASSUME NEW u \in DOMAIN buffers, u # t, NEW q \in Pages, q \in SlotsOf(buffers[u])
      PROVE  pte'[q] # NONE
  <2>1. Pid(q) = u /\ Pid(p) = t
    BY <1>1, <1>3, <1>7 DEF Own, SlotsOf
  <2> QED BY <1>3, <1>4, <1>7, <2>1 DEF SlotsMapped
<1>8. SlotsMapped'
  BY <1>1, <1>3, <1>6, <1>7 DEF SlotsMapped, SlotsOf, c
<1> QED BY <1>2, <1>8 DEF NeverStuck

LEMMA MapSlots ==
  ASSUME FreeInv, Map
  PROVE  SlotsMapped' /\ NeverStuck'
<1> DEFINE t == handler.pid
           p == handler.page
           b == FrontOf(t)
           f == [b EXCEPT !.start = p]
<1>1. /\ t \in Threads /\ p \in Pages /\ b \in Buffer /\ b.buffer # NONE
      /\ t \notin DOMAIN buffers => b.start = NONE /\ b.cache_start = NONE
      /\ t \in DOMAIN buffers => b = buffers[t]
  BY FrontOfIs DEF Map, FreeInv, KeptInv, OwnInv, FrontOf
<1>2. /\ handler' = NONE
      /\ \/ buffers' \in {buffers, With(buffers, t, b)} /\ pte' = pte
         \/ /\ pte[p] = NONE /\ buffers' = With(buffers, t, f)
            /\ pte' = [pte EXCEPT ![p] = b.buffer]
  BY MapIs DEF FreeInv, KeptInv, OwnInv
<1>3. TypeOK /\ SlotsMapped /\ NONE \notin Pages
  BY PageCacheAssumption DEF FreeInv, KeptInv, OwnInv, FrameInv
<1>4. /\ \A q \in Pages : q \in SlotsOf(b) => pte[q] # NONE
      /\ b.start = b.cache_start => b.start \notin Pages
  <2>1. CASE t \in DOMAIN buffers
    BY <1>1, <1>3, <2>1 DEF SlotsMapped
  <2>2. CASE t \notin DOMAIN buffers
    BY <1>1, <1>3, <2>2 DEF SlotsOf
  <2> QED BY <2>1, <2>2
<1>5. f.start = p /\ f.cache_start = b.cache_start
  BY <1>1 DEF Buffer
<1> HIDE DEF t, p, b, f
<1>a. SUFFICES SlotsMapped'
  BY <1>2 DEF NeverStuck
<1>6. CASE buffers' = buffers /\ pte' = pte
  BY <1>3, <1>6 DEF SlotsMapped, SlotsOf
<1>7. CASE buffers' = With(buffers, t, b) /\ pte' = pte
  <2>1. /\ DOMAIN buffers' = DOMAIN buffers \cup {t} /\ buffers'[t] = b
        /\ \A u \in DOMAIN buffers : u # t => buffers'[u] = buffers[u]
    BY <1>7, Zenon DEF With
  <2> QED BY <1>3, <1>4, <1>7, <2>1 DEF SlotsMapped, SlotsOf
<1>8. CASE pte[p] = NONE /\ buffers' = With(buffers, t, f) /\ pte' = [pte EXCEPT ![p] = b.buffer]
  <2>1. /\ DOMAIN buffers' = DOMAIN buffers \cup {t} /\ buffers'[t] = f
        /\ \A u \in DOMAIN buffers : u # t => buffers'[u] = buffers[u]
    BY <1>8, Zenon DEF With
  <2>2. pte'[p] # NONE /\ \A q \in Pages : pte[q] # NONE => pte'[q] # NONE
    BY <1>1, <1>3, <1>8 DEF TypeOK
  <2>3. b.cache_start # p
    BY <1>1, <1>4, <1>8 DEF SlotsOf
  <2>4. /\ \A q \in Pages : q \in SlotsOf(f) => pte'[q] # NONE
        /\ f.start # f.cache_start
    BY <1>4, <1>5, <2>2, <2>3 DEF SlotsOf
  <2> QED BY <1>3, <2>1, <2>2, <2>4 DEF SlotsMapped, SlotsOf
<1> QED BY <1>2, <1>6, <1>7, <1>8

LEMMA FreeEndSlots ==
  ASSUME FreeInv, FreeEnd
  PROVE  SlotsMapped' /\ NeverStuck'
<1> DEFINE t == handler.pid
           p == handler.page
           a == AreaOf[p]
<1>1. /\ handler # NONE /\ handler' = NONE /\ handler \in Handler /\ TypeOK
      /\ handler.op = "free" /\ handler.step = "end" /\ used' \subseteq used
      /\ p \in Pages /\ a \in Areas /\ t \in Threads /\ Pid(p) = t
  BY BuffersTyped, PageCacheAssumption
  DEF FreeEnd, FreeInv, KeptInv, OwnInv, PrivateInv, FrameInv, Handler, Calls
<1>2. \A q \in Pages : Pid(q) = t => pte[q] = NONE
  BY <1>1 DEF FreeInv, KeptInv, FreedInv, Unmapped
<1>3. SlotsMapped /\ Own
  BY DEF FreeInv, KeptInv, OwnInv, PrivateInv
<1>a. SUFFICES SlotsMapped'
  BY <1>1 DEF NeverStuck
<1>4. CASE UNCHANGED <<pte, buffers>>
  BY <1>3, <1>4 DEF SlotsMapped, SlotsOf
<1>5. CASE do_munmap(a)
  <2>1. used' \subseteq Pages
    BY <1>1 DEF TypeOK
  <2>2. /\ Unmaps
        /\ \A q \in Pages : pte'[q] = IF AreaOf[q] = a THEN NONE ELSE pte[q]
        /\ \A u \in DOMAIN buffers' :
             (\A q \in Pages : q \in SlotsOf(buffers[u]) => AreaOf[q] # a) => buffers'[u] = buffers[u]
    BY <1>1, <1>5, <2>1, MunmapIs
  <2>3. ASSUME NEW u \in DOMAIN buffers, NEW q \in Pages, q \in SlotsOf(buffers[u])
        PROVE  AreaOf[q] # a
    BY <1>1, <1>2, <1>3, <2>3 DEF SlotsMapped, Pid
  <2>4. DOMAIN buffers' \subseteq DOMAIN buffers
    BY <2>2 DEF Unmaps
  <2> QED BY <1>3, <2>2, <2>3, <2>4 DEF SlotsMapped, SlotsOf
<1> QED BY <1>1, <1>4, <1>5 DEF FreeEnd

LEMMA FreeNext == SavesWork /\ FreeInv /\ [Program \/ Module]_vars => FreeInv'
<1> SUFFICES ASSUME SavesWork, FreeInv, [Program \/ Module]_vars PROVE SlotsMapped' /\ NeverStuck'
  BY KeptNext DEF FreeInv, Next
<1>1. ASSUME NEW t \in Threads, NEW p \in Pages, NEW v \in Values \ {Zero}, Write(t, p, v)
      PROVE  SlotsMapped' /\ NeverStuck'
  <2>1. /\ pte'[p] # NONE /\ \A q \in Pages : q # p => pte'[q] = pte[q]
        /\ UNCHANGED <<buffers, handler>>
    BY <1>1, WriteIs DEF Write, FreeInv, KeptInv, OwnInv
  <2> QED BY <2>1 DEF FreeInv, SlotsMapped, SlotsOf, NeverStuck
<1>2. ASSUME NEW t \in Threads, NEW p \in Pages, Read(t, p) \/ Miss(t, p)
      PROVE  SlotsMapped' /\ NeverStuck'
  BY <1>2 DEF Read, Miss, kernel, FreeInv, SlotsMapped, SlotsOf, NeverStuck
<1>3. ASSUME NEW t \in Threads, NEW p \in Pages, MallocStart(t, p) \/ FreeStart(t, p)
      PROVE  SlotsMapped' /\ NeverStuck'
  BY <1>3, StartSlots
<1>4. ASSUME NEW t \in Threads, FaultStart(t)
      PROVE  SlotsMapped' /\ NeverStuck'
  <2>1. waiting[t] \in Pages
    BY <1>4 DEF FaultStart, FreeInv, KeptInv, OwnInv, FrameInv, TypeOK
  <2> QED BY <1>4, <2>1, StartSlots
<1>5. CASE Save
  <2> DEFINE p == buffers[handler.pid].start
  <2>1. /\ handler # NONE /\ handler \in Handler /\ handler.pid \in DOMAIN buffers /\ p \in Pages
        /\ UNCHANGED <<pte, buffers>>
        /\ pte[p] = NONE \/ handler' = [handler EXCEPT !.step = "zap"]
    BY <1>5, SaveIs DEF FreeInv, KeptInv, OwnInv, SavesWork
  <2>2. pte[p] # NONE
    BY <2>1 DEF FreeInv, SlotsMapped, SlotsOf
  <2>3. handler' = [handler EXCEPT !.step = "zap"]
    BY <2>1, <2>2
  <2>4. handler'.step = "zap"
    BY <2>1, <2>3, StepIs
  <2> QED BY <2>1, <2>4 DEF FreeInv, SlotsMapped, SlotsOf, NeverStuck
<1>6. CASE Zap
  BY <1>6, ZapSlots
<1>7. CASE Map
  BY <1>7, MapSlots
<1>8. CASE MallocEnd
  BY <1>8 DEF MallocEnd, FreeInv, SlotsMapped, SlotsOf, NeverStuck
<1>9. CASE FreeEnd
  BY <1>9, FreeEndSlots
<1>10. CASE UNCHANGED vars
  BY <1>10 DEF vars, kernel, FreeInv, SlotsMapped, SlotsOf, NeverStuck
<1> QED BY <1>1, <1>2, <1>3, <1>4, <1>5, <1>6, <1>7, <1>8, <1>9, <1>10 DEF Program, Module

LEMMA FreeAlways ==
  ASSUME SavesWork
  PROVE  FreeSpec => []FreeInv
<1>1. Init => FreeInv
  <2>1. Init => SlotsMapped /\ NeverStuck
    BY DEF Init, SlotsMapped, NeverStuck
  <2> QED BY <2>1, KeptInit DEF FreeInv
<1>2. FreeInv /\ [Program \/ Module]_vars => FreeInv'
  BY FreeNext
<1> QED BY <1>1, <1>2, PTL DEF FreeSpec

\* copy_page_from_user never faults on the page it copies, which would wait for the
\* semaphore its own thread holds: what is in a buffer is mapped, as long as saves
\* work and areas end by netfree (generic_malloc.c:146).
THEOREM NeverFaultsInside ==
  ASSUME SavesWork
  PROVE  FreeSpec => []NeverStuck
<1>1. FreeInv => NeverStuck
  BY DEF FreeInv
<1> QED BY <1>1, FreeAlways, PTL

-----------------------------------------------------------------------------
(* The older page goes first. A thread has at most two pages, so its lists  *)
(* have at most two elements.                                              *)

LEMMA ChosenFew ==
  ASSUME NEW s
  PROVE  /\ Chosen(s, {}) = <<>>
         /\ Chosen(s, {1}) = <<s[1]>>
         /\ Chosen(s, {2}) = <<s[2]>>
         /\ Chosen(s, {1, 2}) = <<s[1], s[2]>>
<1>1. /\ \A x : Cardinality({x}) = 1
      /\ Cardinality({}) = 0 /\ Cardinality({1, 2}) = 2
  <2>1. IsFiniteSet({1}) /\ Cardinality({1}) = 1 /\ {1, 2} = {1} \cup {2}
    BY FS_Singleton
  <2>2. Cardinality({1} \cup {2}) = 2
    BY <2>1, FS_AddElement
  <2> QED BY <2>1, <2>2, FS_EmptySet, FS_Singleton
<1>2. Chosen(s, {}) = <<>>
  BY <1>1 DEF Chosen
<1>3. ASSUME NEW i \in {1, 2} PROVE Chosen(s, {i}) = <<s[i]>>
  <2> DEFINE nth(n) == CHOOSE k \in {i} : Cardinality({j \in {i} : j <= k}) = n
  <2>1. {j \in {i} : j <= i} = {i}
    OBVIOUS
  <2>2. nth(1) = i
    BY <1>1, <2>1
  <2>3. Chosen(s, {i}) = [n \in 1..1 |-> s[nth(n)]]
    BY <1>1, Zenon DEF Chosen
  <2> HIDE DEF nth
  <2> QED BY <2>2, <2>3
<1>4. Chosen(s, {1, 2}) = <<s[1], s[2]>>
  <2> DEFINE two == {1, 2}
             below(k) == {j \in two : j <= k}
             nth(n) == CHOOSE k \in two : Cardinality(below(k)) = n
  <2>1. below(1) = {1} /\ below(2) = {1, 2}
    OBVIOUS
  <2> HIDE DEF below
  <2>2. Cardinality(below(1)) = 1 /\ Cardinality(below(2)) = 2
    BY <1>1, <2>1
  <2>3. nth(1) = 1 /\ nth(2) = 2
    BY <2>2
  <2>4. Chosen(s, {1, 2}) = [n \in 1..2 |-> s[nth(n)]]
    BY <1>1, Zenon DEF Chosen, below
  <2> HIDE DEF nth
  <2> QED BY <2>3, <2>4
<1> QED BY <1>2, <1>3, <1>4

LEMMA FewTaken ==
  ASSUME NEW a, NEW b
  PROVE  /\ Without(<<a>>, {a}) = <<>>
         /\ a # b => Without(<<a, b>>, {a}) = <<b>> /\ Without(<<a, b>>, {b}) = <<a>>
<1>1. DOMAIN <<a>> = {1} /\ DOMAIN <<a, b>> = {1, 2}
  OBVIOUS
<1>2. {i \in {1} : <<a>>[i] \notin {a}} = {}
  OBVIOUS
<1>3. a # b => /\ {i \in {1, 2} : <<a, b>>[i] \notin {a}} = {2}
               /\ {i \in {1, 2} : <<a, b>>[i] \notin {b}} = {1}
  OBVIOUS
<1>4. Chosen(<<a, b>>, {2}) = <<b>> /\ Chosen(<<a, b>>, {1}) = <<a>> /\ Chosen(<<a>>, {}) = <<>>
  BY ChosenFew
<1> QED BY <1>1, <1>2, <1>3, <1>4 DEF Without

LEMMA FewKept ==
  ASSUME NEW a, NEW b, NEW set
  PROVE  /\ Without(<<>>, set) = <<>>
         /\ a \notin set => Without(<<a>>, set) = <<a>>
         /\ a \notin set /\ b \notin set => Without(<<a, b>>, set) = <<a, b>>
<1>1. DOMAIN <<>> = {} /\ DOMAIN <<a>> = {1} /\ DOMAIN <<a, b>> = {1, 2}
  OBVIOUS
<1>2. /\ {i \in {} : <<>>[i] \notin set} = {}
      /\ a \notin set => {i \in {1} : <<a>>[i] \notin set} = {1}
      /\ a \notin set /\ b \notin set => {i \in {1, 2} : <<a, b>>[i] \notin set} = {1, 2}
  OBVIOUS
<1>3. /\ Chosen(<<>>, {}) = <<>> /\ Chosen(<<a>>, {1}) = <<a>>
      /\ Chosen(<<a, b>>, {1, 2}) = <<a, b>>
  BY ChosenFew
<1> QED BY <1>1, <1>2, <1>3 DEF Without

LEMMA FewElements ==
  ASSUME NEW S, NEW s \in Seq(S)
  PROVE  /\ Len(s) = 0 => s = <<>>
         /\ Len(s) = 1 => s = <<s[1]>>
         /\ Len(s) = 2 => s = <<s[1], s[2]>>
<1>1. s \in [1..Len(s) -> S] /\ DOMAIN s = 1..Len(s)
  BY LenProperties
<1>2. ASSUME Len(s) = 1 PROVE s = <<s[1]>>
  BY <1>1, <1>2
<1>3. ASSUME Len(s) = 2 PROVE s = <<s[1], s[2]>>
  BY <1>1, <1>3
<1> QED BY <1>2, <1>3, EmptySeq

LEMMA FewAppend ==
  ASSUME NEW S, NEW a \in S, NEW b \in S
  PROVE  /\ Append(<<>>, a) = <<a>> /\ Append(<<a>>, b) = <<a, b>>
         /\ Front(<<a>>) = <<>> /\ Front(<<a, b>>) = <<a>>
         /\ Len(<<a>>) = 1 /\ Len(<<a, b>>) = 2
         /\ Tail(<<a, b>>) = <<b>>
<1>1. /\ Len(<<a>>) = 1 /\ <<a>>[1] = a /\ <<a>> \in Seq(S)
      /\ Len(<<a, b>>) = 2 /\ <<a, b>>[1] = a /\ <<a, b>>[2] = b /\ <<a, b>> \in Seq(S)
  OBVIOUS
<1>2. Append(<<>>, a) = <<a>>
  OBVIOUS
<1>3. Append(<<a>>, b) = <<a, b>>
  <2> DEFINE s == <<a>>
             r == Append(s, b)
  <2>1. s \in Seq(S)
    BY <1>1
  <2>2. Len(s) = 1 /\ s[1] = a
    BY <1>1
  <2> HIDE DEF s
  <2>3. /\ r \in Seq(S) /\ Len(r) = Len(s) + 1 /\ r[Len(s) + 1] = b
        /\ \A i \in 1..Len(s) : r[i] = s[i]
    BY <2>1, AppendProperties
  <2> HIDE DEF r
  <2>4. r = <<a, b>>
    BY <2>2, <2>3, FewElements
  <2> QED BY <2>4 DEF r, s
<1>4. Front(<<a>>) = <<>>
  BY <1>1, SubSeqEmpty DEF Front
<1>5. Front(<<a, b>>) = <<a>>
  <2> DEFINE s == <<a, b>>
             r == SubSeq(s, 1, 1)
  <2>1. Len(s) = 2 /\ s[1] = a
    BY <1>1
  <2> HIDE DEF s
  <2>2. r \in Seq(S) /\ Len(r) = 1 /\ r[1] = a
    <3>1. \A i \in 1..1 : s[i] \in S
      BY <2>1
    <3>2. /\ r \in Seq(S) /\ Len(r) = IF 1 <= 1 THEN 1 - 1 + 1 ELSE 0
          /\ \A i \in 1..(1 - 1 + 1) : r[i] = s[1 + i - 1]
      BY <3>1, SubSeqProperties
    <3> HIDE DEF r
    <3> QED BY <2>1, <3>2
  <2> HIDE DEF r
  <2>3. r = <<a>>
    BY <2>2, FewElements
  <2>4. Front(s) = r
    BY <2>1 DEF Front, r
  <2> QED BY <2>3, <2>4 DEF s
<1>6. Tail(<<a, b>>) = <<b>>
  <2> DEFINE s == <<a, b>>
             r == Tail(s)
  <2>1. s \in Seq(S) /\ Len(s) = 2 /\ s[2] = b /\ s # <<>>
    BY <1>1, EmptySeq
  <2> HIDE DEF s
  <2>2. r \in Seq(S) /\ Len(r) = Len(s) - 1 /\ \A i \in 1..Len(r) : r[i] = s[i + 1]
    BY <2>1, HeadTailProperties
  <2> HIDE DEF r
  <2>3. r = <<b>>
    BY <2>1, <2>2, FewElements
  <2> QED BY <2>3 DEF r, s
<1> QED BY <1>1, <1>2, <1>3, <1>4, <1>5, <1>6

-----------------------------------------------------------------------------
(* The older page goes first.                                              *)

\* The pages among two slots.
Listed(old, new) ==
  IF old \in Pages THEN IF new \in Pages THEN <<old, new>> ELSE <<old>>
  ELSE IF new \in Pages THEN <<new>> ELSE <<>>

InFault(t) == Inside(t) /\ handler.op = "fault"

\* The order o of the pages in b.  The fault handler has swapped the two frames:
\* the older page is at the front, and goes only if there is another.  Outside the
\* handlers it is in the cache.
Aged(o, b, fault, inside) ==
  IF fault
  THEN o = Listed(b.start, b.cache_start) /\ (b.start \in Pages => b.cache_start \in Pages)
  ELSE /\ o = Listed(b.cache_start, b.start)
       /\ ~inside => (b.cache_start \in Pages => b.start \in Pages)

Ordered ==
  \A t \in Threads :
    IF t \in DOMAIN buffers THEN Aged(order[t], buffers[t], InFault(t), Inside(t))
    ELSE order[t] = <<>>

LEMMA SlotUsed ==
  ASSUME FreeInv, NEW t \in DOMAIN buffers, NEW s \in SlotsOf(buffers[t]), NEW regions,
         used \subseteq regions
  PROVE  s \in Pages <=> is_existing_vma(s, regions)
<1>1. ASSUME s \in Pages PROVE s \in used
  BY <1>1 DEF FreeInv, KeptInv, FreedInv, SlotsMapped, MappedUsed
<1> QED BY <1>1 DEF is_existing_vma, HasVma

LEMMA UnmapBothTurns ==
  ASSUME NEW h \in Handler, h.op # "fault", h.pid \in DOMAIN buffers,
         buffers[h.pid] \in Buffer, NEW regions
  PROVE  \/ UnmapBoth(h, regions).b = buffers[h.pid]
         \/ /\ UnmapBoth(h, regions).b = swap_buffer_cache(buffers[h.pid])
            /\ ~is_existing_vma(buffers[h.pid].start, regions)
<1> DEFINE b == buffers[h.pid]
<1>1. CASE is_existing_vma(b.start, regions)
  <2>1. UnmapBoth(h, regions) = [b |-> b, h |-> [h EXCEPT !.step = "save"]]
    BY <1>1 DEF UnmapBoth
  <2>2. UnmapBoth(h, regions).b = b
    BY <2>1
  <2> QED BY <2>2
<1>2. CASE ~is_existing_vma(b.start, regions)
  <2>1. UnmapBoth(h, regions) = UnmapCache(h, b, regions)
    BY <1>2 DEF UnmapBoth
  <2> QED BY <1>2, <2>1, UnmapCacheIs DEF Turned
<1> QED BY <1>1, <1>2

LEMMA BegunOrdered ==
  ASSUME FreeInv, Ordered, handler = NONE, order' = order, used \subseteq used',
         NEW h \in Handler, h.todo = "both",
         \/ h.op = "fault" /\ Go(UnmapOldest(h, used'))
         \/ h.op # "fault" /\ Go(UnmapBoth(h, used'))
  PROVE  Ordered'
<1> DEFINE u == h.pid
           b == buffers[u]
<1>1. TypeOK /\ u \in Threads
  BY DEF FreeInv, KeptInv, OwnInv, FrameInv, Handler
<1>2. /\ handler' # NONE /\ handler'.pid = u /\ handler'.op = h.op
      /\ DOMAIN buffers' = DOMAIN buffers
  BY <1>1, Beginning DEF Begun
<1>3. \A t \in Threads : t # u => ~Inside(t)' /\ ~InFault(t)' /\ ~Inside(t) /\ ~InFault(t)
  BY <1>2 DEF Inside, InFault
<1>a. ASSUME NEW t \in Threads, t # u, t \in DOMAIN buffers, buffers'[t] = buffers[t]
      PROVE  Aged(order'[t], buffers'[t], InFault(t)', Inside(t)')
  <2>1. Aged(order[t], buffers[t], InFault(t), Inside(t))
    BY <1>a DEF Ordered
  <2>2. ~InFault(t) /\ ~InFault(t)' /\ ~Inside(t) /\ ~Inside(t)'
    BY <1>3, <1>a
  <2> QED BY <1>a, <2>1, <2>2 DEF Aged
<1>4. /\ Inside(u)' /\ (InFault(u)' <=> h.op = "fault") /\ ~Inside(u) /\ ~InFault(u)
  BY <1>2 DEF Inside, InFault
<1>5. CASE u \notin DOMAIN buffers
  <2>1. buffers' = buffers
    BY <1>5, NoBuffer DEF Go
  <2>2. ASSUME NEW t \in Threads, t \in DOMAIN buffers
        PROVE  Aged(order'[t], buffers'[t], InFault(t)', Inside(t)')
    <3>1. t # u
      BY <1>5, <2>2
    <3> QED BY <1>a, <2>1, <2>2, <3>1
  <2> QED BY <1>5, <2>1, <2>2 DEF Ordered
<1>6. CASE u \in DOMAIN buffers
  <2>1. b \in Buffer
    BY <1>1, <1>6, BuffersTyped
  <2>2. Aged(order[u], b, InFault(u), Inside(u))
    BY <1>1, <1>6 DEF Ordered
  <2>3. order[u] = Listed(b.cache_start, b.start) /\ (b.cache_start \in Pages => b.start \in Pages)
    BY <1>4, <2>2 DEF Aged
  <2>4. /\ \A t \in DOMAIN buffers : t # u => buffers'[t] = buffers[t]
        /\ h.op = "fault" => buffers'[u] = swap_buffer_cache(b)
        /\ h.op # "fault" => \/ buffers'[u] = b
                             \/ buffers'[u] = swap_buffer_cache(b) /\ b.start \notin Pages
    <3>1. CASE h.op = "fault"
      <4> DEFINE next == UnmapOldest(h, used')
      <4>1. Turned(next, h, b, used') /\ next.b = swap_buffer_cache(b)
        BY <1>6, <2>1, <3>1, UnmapOldestIs
      <4>2. Go(next)
        BY <3>1
      <4> HIDE DEF next
      <4> QED BY <1>1, <1>6, <3>1, <4>1, <4>2, GoIs
    <3>2. CASE h.op # "fault"
      <4> DEFINE next == UnmapBoth(h, used')
      <4>1. Turned(next, h, b, used')
        BY <1>6, <2>1, <3>2, UnmapBothIs
      <4>2. \/ next.b = b
            \/ next.b = swap_buffer_cache(b) /\ ~is_existing_vma(b.start, used')
        <5>1. h.pid \in DOMAIN buffers /\ buffers[h.pid] \in Buffer
          BY <1>6, <2>1
        <5>2. \/ UnmapBoth(h, used').b = buffers[h.pid]
              \/ /\ UnmapBoth(h, used').b = swap_buffer_cache(buffers[h.pid])
                 /\ ~is_existing_vma(buffers[h.pid].start, used')
          BY <3>2, <5>1, UnmapBothTurns
        <5> QED BY <5>2
      <4>3. Go(next)
        BY <3>2
      <4> HIDE DEF next
      <4>4. b.start \in Pages => is_existing_vma(b.start, used')
        BY <1>6, SlotUsed DEF SlotsOf
      <4> QED BY <1>1, <1>6, <3>2, <4>1, <4>2, <4>3, <4>4, GoIs
    <3> QED BY <3>1, <3>2
  <2> DEFINE c == buffers'[u]
  <2>5. Aged(order[u], c, h.op = "fault", TRUE)
    <3>1. CASE c = swap_buffer_cache(b)
      <4>1. c.start = b.cache_start /\ c.cache_start = b.start
        BY <2>1, <3>1, SwapIs
      <4> HIDE DEF c, b, u
      <4>2. CASE h.op = "fault"
        BY <2>3, <4>1, <4>2 DEF Aged
      <4>3. CASE h.op # "fault" /\ b.start \notin Pages
        BY <2>3, <4>1, <4>3 DEF Aged, Listed
      <4>4. h.op # "fault" => b.start \notin Pages \/ c = b
        BY <2>4 DEF b, c, u
      <4>5. CASE h.op # "fault" /\ c = b
        BY <2>3, <4>5 DEF Aged
      <4> QED BY <4>2, <4>3, <4>4, <4>5
    <3>2. CASE c = b /\ h.op # "fault"
      BY <2>3, <3>2 DEF Aged
    <3> QED BY <2>4, <3>1, <3>2
  <2>6. Aged(order'[u], buffers'[u], InFault(u)', Inside(u)')
    <3>1. InFault(u)' = (h.op = "fault") /\ Inside(u)' = TRUE
      BY <1>4, Zenon DEF InFault, Inside
    <3> QED BY <2>5, <3>1
  <2> QED BY <1>a, <1>2, <1>6, <2>4, <2>6 DEF Ordered
<1> QED BY <1>5, <1>6

\* A step of remove_user_page that takes a page away.
LEMMA ZapOrdered ==
  ASSUME FreeInv, Ordered, Zap
  PROVE  /\ Ordered'
         /\ handler.op = "fault" => Len(order[handler.pid]) = 2 /\ order'[handler.pid] = Tail(order[handler.pid])
         /\ \A t \in Threads : t # handler.pid => order'[t] = order[t]
<1> DEFINE u == handler.pid
           b == buffers[u]
           p == b.start
           z == Zapped(b)
           c == buffers'[u]
<1>1. /\ FrameInv /\ TypeOK /\ SlotsMapped /\ NONE \notin Pages
      /\ order \in [Threads -> Seq(Pages)]
  BY PageCacheAssumption DEF FreeInv, KeptInv, OwnInv, FrameInv, TypeOK
<1>2. /\ handler # NONE /\ u \in DOMAIN buffers /\ u \in Threads /\ p \in Pages /\ b \in Buffer
      /\ order' = [order EXCEPT ![u] = Without(@, {p})]
      /\ DOMAIN buffers' = DOMAIN buffers
      /\ \A t \in DOMAIN buffers : t # u => buffers'[t] = buffers[t]
      /\ handler' # NONE /\ handler'.pid = u /\ handler'.op = handler.op
      /\ c \in {z, swap_buffer_cache(z)} /\ (handler.op = "fault" => c = z)
  BY <1>1, ZapIs DEF Turned
<1>3. p # b.cache_start
  BY <1>1, <1>2 DEF SlotsMapped
<1>4. z \in Buffer /\ z.start = NONE /\ z.cache_start = b.cache_start
  BY <1>2, ZappedIs
<1>5. swap_buffer_cache(z).start = b.cache_start /\ swap_buffer_cache(z).cache_start = NONE
  BY <1>4, SwapIs
<1>6. Aged(order[u], b, handler.op = "fault", TRUE)
  <2>1. Aged(order[u], b, InFault(u), Inside(u))
    BY <1>2 DEF Ordered
  <2>2. Inside(u) /\ (InFault(u) <=> handler.op = "fault")
    BY <1>2 DEF Inside, InFault
  <2> HIDE DEF b, u
  <2> QED BY <2>1, <2>2 DEF Aged
<1>7. \A t \in Threads : t # u => order'[t] = order[t]
  BY <1>1, <1>2
<1>8. order'[u] = Without(order[u], {p})
  BY <1>1, <1>2
<1> HIDE DEF z, c, p
<1>9. ASSUME handler.op = "fault"
      PROVE  /\ order[u] = <<p, b.cache_start>> /\ order'[u] = <<b.cache_start>>
             /\ b.cache_start \in Pages
  <2>1. b.cache_start \in Pages /\ order[u] = <<p, b.cache_start>>
    BY <1>2, <1>6, <1>9 DEF Aged, Listed, p
  <2>2. Without(<<p, b.cache_start>>, {p}) = <<b.cache_start>>
    BY <1>3, FewTaken
  <2> QED BY <1>8, <2>1, <2>2
<1>10. ASSUME handler.op # "fault"
       PROVE  order'[u] = IF b.cache_start \in Pages THEN <<b.cache_start>> ELSE <<>>
  <2>1. order[u] = IF b.cache_start \in Pages THEN <<b.cache_start, p>> ELSE <<p>>
    BY <1>2, <1>6, <1>10 DEF Aged, Listed, p
  <2>2. Without(<<b.cache_start, p>>, {p}) = <<b.cache_start>> /\ Without(<<p>>, {p}) = <<>>
    BY <1>3, FewTaken
  <2> QED BY <1>8, <2>1, <2>2
<1>11. Aged(order'[u], c, handler.op = "fault", TRUE)
  <2>1. CASE handler.op = "fault"
    <3>1. c.start = NONE /\ c.cache_start = b.cache_start
      BY <1>2, <1>4, <2>1
    <3> QED BY <1>1, <1>9, <2>1, <3>1 DEF Aged, Listed
  <2>2. CASE handler.op # "fault"
    <3>1. \/ c.start = NONE /\ c.cache_start = b.cache_start
          \/ c.start = b.cache_start /\ c.cache_start = NONE
      BY <1>2, <1>4, <1>5
    <3> QED BY <1>1, <1>10, <2>2, <3>1 DEF Aged, Listed
  <2> QED BY <2>1, <2>2
<1>12. Aged(order'[u], buffers'[u], InFault(u)', Inside(u)')
  <2>1. Inside(u)' /\ (InFault(u)' <=> handler.op = "fault")
    BY <1>2 DEF Inside, InFault
  <2>2. buffers'[u] = c
    BY DEF c
  <2> HIDE DEF b, u
  <2> QED BY <1>11, <2>1, <2>2 DEF Aged
<1>13. ASSUME NEW t \in Threads, t # u
       PROVE  IF t \in DOMAIN buffers' THEN Aged(order'[t], buffers'[t], InFault(t)', Inside(t)')
              ELSE order'[t] = <<>>
  <2>1. ~Inside(t) /\ ~InFault(t) /\ ~Inside(t)' /\ ~InFault(t)'
    BY <1>2, <1>13 DEF Inside, InFault
  <2>2. t \notin DOMAIN buffers => order[t] = <<>>
    BY DEF Ordered
  <2>3. t \in DOMAIN buffers => Aged(order[t], buffers[t], InFault(t), Inside(t))
    BY DEF Ordered
  <2> QED BY <1>2, <1>7, <1>13, <2>1, <2>2, <2>3 DEF Aged
<1>14. Ordered'
  BY <1>2, <1>12, <1>13 DEF Ordered
<1>15. handler.op = "fault" => Len(order[u]) = 2 /\ order'[u] = Tail(order[u])
  <2>1. p \in Pages
    BY <1>2 DEF p
  <2>2. ASSUME b.cache_start \in Pages
        PROVE  /\ Len(<<p, b.cache_start>>) = 2
               /\ Tail(<<p, b.cache_start>>) = <<b.cache_start>>
    BY <2>1, <2>2, FewAppend
  <2> QED BY <1>9, <2>2
<1> QED BY <1>7, <1>14, <1>15

\* A step of map_page that maps a page.
LEMMA MapOrdered ==
  ASSUME Faults = {}, FreeInv, Ordered, Map, NEW u, u = handler.pid
  PROVE  /\ Ordered'
         /\ Len(order[u]) < 2 /\ order[u] = Front(order'[u])
         /\ \A t \in Threads : t # u => order'[t] = order[t]
<1> DEFINE p == handler.page
           b == FrontOf(u)
           c == [b EXCEPT !.start = p]
<1>1. /\ FrameInv /\ TypeOK /\ SlotsMapped /\ NONE \notin Pages
      /\ order \in [Threads -> Seq(Pages)]
  BY PageCacheAssumption DEF FreeInv, KeptInv, OwnInv, FrameInv, TypeOK
<1>2. /\ handler # NONE /\ handler.step = "map" /\ handler.op = "fault"
      /\ u \in Threads /\ p \in Pages /\ b \in Buffer
      /\ u \notin DOMAIN buffers => b.start = NONE /\ b.cache_start = NONE
  BY <1>1, FrontOfIs DEF Map
<1>3. pte[p] = NONE
  <2>1. waiting[u] = p
    BY <1>2 DEF FreeInv, KeptInv, OwnInv, PrivateInv, Calls
  <2>2. p # NONE
    BY <1>1, <1>2
  <2> HIDE DEF p
  <2> QED BY <1>2, <2>1, <2>2 DEF FreeInv, KeptInv, OwnInv, PrivateInv, Waits
<1>4. /\ handler' = NONE /\ buffers' = With(buffers, u, c)
      /\ order' = [order EXCEPT ![u] = Append(@, p)]
  BY <1>1, <1>3, MapIs
<1>5. b.start \notin Pages
  <2>1. CASE u \in DOMAIN buffers
    <3>1. b = buffers[u]
      BY <2>1 DEF FrontOf
    <3>2. FrontFree
      BY <1>1 DEF FrameInv
    <3> QED BY <1>1, <1>2, <2>1, <3>1, <3>2 DEF SlotsMapped, SlotsOf, FrontFree
  <2>2. CASE u \notin DOMAIN buffers
    BY <1>1, <1>2, <2>2
  <2> QED BY <2>1, <2>2
<1>6. order[u] = IF b.cache_start \in Pages THEN <<b.cache_start>> ELSE <<>>
  <2>1. CASE u \in DOMAIN buffers
    <3>1. Aged(order[u], b, InFault(u), Inside(u))
      BY <1>2, <2>1 DEF Ordered, FrontOf
    <3>2. InFault(u)
      BY <1>2 DEF InFault, Inside
    <3> HIDE DEF b
    <3> QED BY <1>5, <3>1, <3>2 DEF Aged, Listed
  <2>2. CASE u \notin DOMAIN buffers
    BY <1>1, <1>2, <2>2 DEF Ordered
  <2> QED BY <2>1, <2>2
<1>7. c.start = p /\ c.cache_start = b.cache_start
  BY <1>2 DEF Buffer
<1>8. /\ DOMAIN buffers' = DOMAIN buffers \cup {u} /\ buffers'[u] = c
      /\ \A t \in DOMAIN buffers : t # u => buffers'[t] = buffers[t]
  BY <1>4, WithIs DEF With
<1>9. order'[u] = Append(order[u], p) /\ \A t \in Threads : t # u => order'[t] = order[t]
  BY <1>1, <1>2, <1>4
<1> HIDE DEF c, b, p
<1>10. /\ order'[u] = Listed(c.cache_start, c.start)
       /\ order[u] = Front(order'[u]) /\ Len(order[u]) < 2
  <2>1. CASE b.cache_start \in Pages
    <3> DEFINE q == b.cache_start
    <3>1. /\ Append(<<q>>, p) = <<q, p>> /\ Front(<<q, p>>) = <<q>> /\ Len(<<q>>) = 1
      BY <1>2, <2>1, FewAppend
    <3> HIDE DEF q
    <3>2. order[u] = <<q>> /\ order'[u] = <<q, p>>
      BY <1>6, <1>9, <2>1, <3>1 DEF q
    <3>3. Listed(c.cache_start, c.start) = <<q, p>>
      BY <1>2, <1>7, <2>1 DEF Listed, q
    <3> QED BY <3>1, <3>2, <3>3
  <2>2. CASE b.cache_start \notin Pages
    <3>1. /\ Append(<<>>, p) = <<p>> /\ Front(<<p>>) = <<>>
      BY <1>2, FewAppend
    <3>2. Len(<<>>) = 0
      OBVIOUS
    <3> QED BY <1>2, <1>6, <1>7, <1>9, <2>2, <3>1, <3>2 DEF Listed
  <2> QED BY <2>1, <2>2
<1>11. \A t \in Threads : ~Inside(t)' /\ ~InFault(t)'
  BY <1>4 DEF Inside, InFault
<1>12. Aged(order'[u], buffers'[u], InFault(u)', Inside(u)')
  <2>1. ~Inside(u)' /\ ~InFault(u)'
    BY <1>2, <1>11
  <2> QED BY <1>2, <1>7, <1>8, <1>10, <2>1 DEF Aged
<1>13. ASSUME NEW t \in Threads, t # u
       PROVE  IF t \in DOMAIN buffers' THEN Aged(order'[t], buffers'[t], InFault(t)', Inside(t)')
              ELSE order'[t] = <<>>
  <2>1. ~Inside(t) /\ ~InFault(t) /\ ~Inside(t)' /\ ~InFault(t)'
    BY <1>11, <1>13 DEF Inside, InFault
  <2>2. t \notin DOMAIN buffers => order[t] = <<>>
    BY DEF Ordered
  <2>3. t \in DOMAIN buffers => Aged(order[t], buffers[t], InFault(t), Inside(t))
    BY DEF Ordered
  <2> QED BY <1>8, <1>9, <1>13, <2>1, <2>2, <2>3 DEF Aged
<1>14. Ordered'
  BY <1>8, <1>12, <1>13 DEF Ordered
<1> QED BY <1>9, <1>10, <1>14

\* netmalloc and netfree end with nothing mapped.
LEMMA EndEmpty ==
  ASSUME FreeInv, handler # NONE, handler.op # "fault", handler.step = "end",
         handler.pid \in DOMAIN buffers
  PROVE  buffers[handler.pid].start \notin Pages /\ buffers[handler.pid].cache_start \notin Pages
<1> DEFINE b == buffers[handler.pid]
<1>1. ASSUME NEW p \in Pages, p \in SlotsOf(b) PROVE FALSE
  <2>1. pte[p] # NONE /\ Pid(p) = handler.pid
    BY <1>1 DEF FreeInv, KeptInv, OwnInv, PrivateInv, Own, SlotsMapped
  <2> QED BY <2>1 DEF FreeInv, KeptInv, FreedInv, Unmapped
<1> QED BY <1>1 DEF SlotsOf

LEMMA EndOrdered ==
  ASSUME FreeInv, Ordered, handler # NONE, handler.op # "fault", handler.step = "end",
         handler' = NONE, UNCHANGED <<buffers, order>>
  PROVE  Ordered'
<1>1. ASSUME NEW t \in Threads, t \in DOMAIN buffers
      PROVE  Aged(order[t], buffers[t], InFault(t)', Inside(t)')
  <2>1. Aged(order[t], buffers[t], InFault(t), Inside(t))
    BY <1>1 DEF Ordered
  <2>2. ~InFault(t) /\ ~InFault(t)' /\ ~Inside(t)' /\ (t # handler.pid => ~Inside(t))
    BY DEF Inside, InFault
  <2>3. t = handler.pid => buffers[t].cache_start \notin Pages
    BY <1>1, EndEmpty
  <2> QED BY <2>1, <2>2, <2>3 DEF Aged
<1> QED BY <1>1 DEF Ordered

LEMMA ListedKept ==
  ASSUME NEW x, NEW y, NEW set, x \in Pages => x \notin set, y \in Pages => y \notin set
  PROVE  Without(Listed(x, y), set) = Listed(x, y)
<1>1. Without(<<>>, set) = <<>>
  BY FewKept
<1>2. x \in Pages => Without(<<x>>, set) = <<x>>
  BY FewKept
<1>3. y \in Pages => Without(<<y>>, set) = <<y>>
  BY FewKept
<1>4. x \in Pages /\ y \in Pages => Without(<<x, y>>, set) = <<x, y>>
  BY FewKept
<1> QED BY <1>1, <1>2, <1>3, <1>4 DEF Listed

LEMMA FreeEndOrdered ==
  ASSUME FreeInv, Ordered, FreeEnd
  PROVE  Ordered'
<1> DEFINE u == handler.pid
           a == AreaOf[handler.page]
           set == {p \in Pages : AreaOf[p] = a}
<1>1. /\ handler # NONE /\ handler' = NONE /\ handler \in Handler /\ TypeOK
      /\ handler.op = "free" /\ handler.step = "end" /\ used' \subseteq used
      /\ a \in Areas /\ u \in Threads /\ PidOf[a] = u
      /\ order \in [Threads -> Seq(Pages)]
  BY BuffersTyped, PageCacheAssumption
  DEF FreeEnd, FreeInv, KeptInv, OwnInv, PrivateInv, FrameInv, Handler, Calls, Pid, TypeOK
<1>2. CASE UNCHANGED <<buffers, order>>
  BY <1>1, <1>2, EndOrdered
<1>3. CASE do_munmap(a)
  <2>1. used' \subseteq Pages
    BY <1>1 DEF TypeOK
  <2>2. /\ DOMAIN buffers' \subseteq DOMAIN buffers
        /\ \A t \in DOMAIN buffers : t \notin DOMAIN buffers' => t = u
        /\ \A t \in DOMAIN buffers' :
             (\A q \in Pages : q \in SlotsOf(buffers[t]) => AreaOf[q] # a) => buffers'[t] = buffers[t]
    <3>a. a \in Areas /\ do_munmap(a) /\ TypeOK
      BY <1>1, <1>3
    <3> HIDE DEF a, u
    <3>b. /\ Unmaps
          /\ \A t \in DOMAIN buffers : t \notin DOMAIN buffers' => t = PidOf[a]
      BY <2>1, <3>a, MunmapIs
    <3>c. \A t \in DOMAIN buffers' :
            (\A q \in Pages : q \in SlotsOf(buffers[t]) => AreaOf[q] # a) => buffers'[t] = buffers[t]
      BY <2>1, <3>a, MunmapIs
    <3>1. Unmaps /\ \A t \in DOMAIN buffers : t \notin DOMAIN buffers' => t = PidOf[a]
      BY <3>b
    <3> QED BY <1>1, <3>1, <3>c DEF Unmaps
  <2>3. \A t \in Threads : order'[t] = Without(order[t], set)
    BY <1>3 DEF do_munmap
  <2>4. ASSUME NEW t \in DOMAIN buffers, NEW q \in Pages, q \in SlotsOf(buffers[t])
        PROVE  q \notin set
    <3>1. Pid(q) = t /\ pte[q] # NONE
      BY <2>4 DEF FreeInv, KeptInv, OwnInv, PrivateInv, Own, SlotsMapped
    <3>2. t # u
      BY <1>1, <2>4, <3>1 DEF FreeInv, KeptInv, FreedInv, Unmapped
    <3> QED BY <1>1, <3>1, <3>2 DEF Pid
  <2> HIDE DEF set
  <2>5. ASSUME NEW t \in Threads, t \in DOMAIN buffers
        PROVE  /\ order[t] \in {Listed(buffers[t].start, buffers[t].cache_start),
                                Listed(buffers[t].cache_start, buffers[t].start)}
               /\ order'[t] = order[t]
    <3> DEFINE x == buffers[t].start
               y == buffers[t].cache_start
    <3>1. Aged(order[t], buffers[t], InFault(t), Inside(t))
      BY <2>5 DEF Ordered
    <3>2. order[t] \in {Listed(x, y), Listed(y, x)}
      BY <3>1 DEF Aged
    <3>3. (x \in Pages => x \notin set) /\ (y \in Pages => y \notin set)
      BY <2>4, <2>5 DEF SlotsOf
    <3> HIDE DEF x, y
    <3>4. Without(Listed(x, y), set) = Listed(x, y) /\ Without(Listed(y, x), set) = Listed(y, x)
      BY <3>3, ListedKept
    <3>5. order'[t] = order[t]
      BY <2>3, <3>2, <3>4
    <3> QED BY <3>2, <3>5 DEF x, y
  <2>6. ASSUME NEW t \in Threads, t \in DOMAIN buffers'
        PROVE  Aged(order'[t], buffers'[t], InFault(t)', Inside(t)')
    <3>1. t \in DOMAIN buffers /\ order'[t] = order[t]
      BY <2>2, <2>5, <2>6
    <3>2. buffers'[t] = buffers[t]
      BY <2>2, <2>4, <2>6, <3>1 DEF set
    <3>3. Aged(order[t], buffers[t], InFault(t), Inside(t))
      BY <3>1 DEF Ordered
    <3>4. ~InFault(t) /\ ~InFault(t)' /\ ~Inside(t)' /\ (t # u => ~Inside(t))
      BY <1>1 DEF Inside, InFault
    <3>5. t = u => buffers[t].cache_start \notin Pages
      BY <1>1, <3>1, EndEmpty
    <3> HIDE DEF u
    <3> QED BY <3>1, <3>2, <3>3, <3>4, <3>5 DEF Aged
  <2>7. ASSUME NEW t \in Threads, t \notin DOMAIN buffers' PROVE order'[t] = <<>>
    <3>1. CASE t \notin DOMAIN buffers
      <4>1. order[t] = <<>>
        BY <3>1 DEF Ordered
      <4> QED BY <2>3, <4>1, FewKept
    <3>2. CASE t \in DOMAIN buffers
      <4>1. t = u
        BY <2>2, <2>7, <3>2
      <4>2. buffers[t].start \notin Pages /\ buffers[t].cache_start \notin Pages
        BY <1>1, <3>2, <4>1, EndEmpty
      <4> QED BY <2>5, <3>2, <4>2 DEF Listed
    <3> QED BY <3>1, <3>2
  <2> QED BY <2>6, <2>7 DEF Ordered
<1> QED BY <1>1, <1>2, <1>3 DEF FreeEnd

LEMMA OrderedSame ==
  ASSUME Ordered, UNCHANGED <<buffers, order>>,
         handler' = handler \/ \E s : handler # NONE /\ handler' # NONE /\ handler' = [handler EXCEPT !.step = s]
  PROVE  Ordered'
<1>1. ASSUME NEW t \in Threads
      PROVE  (Inside(t)' <=> Inside(t)) /\ (InFault(t)' <=> InFault(t))
  <2>1. CASE handler' = handler
    BY <2>1 DEF Inside, InFault
  <2>2. CASE \E s : handler # NONE /\ handler' # NONE /\ handler' = [handler EXCEPT !.step = s]
    BY <2>2 DEF Inside, InFault
  <2> QED BY <2>1, <2>2
<1>2. ASSUME NEW t \in Threads, t \in DOMAIN buffers
      PROVE  Aged(order'[t], buffers'[t], InFault(t)', Inside(t)')
  <2>1. Aged(order[t], buffers[t], InFault(t), Inside(t))
    BY <1>2 DEF Ordered
  <2> QED BY <1>1, <2>1 DEF Aged
<1> QED BY <1>2 DEF Ordered

LEMMA OrderedNext ==
  ASSUME ~Shared, Faults = {}, FreeInv, Ordered, [Program \/ Module]_vars
  PROVE  Ordered'
<1>1. TypeOK /\ FrameInv
  BY DEF FreeInv, KeptInv, OwnInv, FrameInv
<1>2. ASSUME NEW t \in Threads, NEW p \in Pages,
             \/ \E v \in Values \ {Zero} : Write(t, p, v)
             \/ Read(t, p) \/ Miss(t, p)
      PROVE  Ordered'
  BY <1>2, OrderedSame DEF Write, Read, Miss, kernel
<1>3. ASSUME NEW t \in Threads, NEW p \in Pages, MallocStart(t, p) \/ FreeStart(t, p)
      PROVE  Ordered'
  <2>1. CASE MallocStart(t, p)
    <3> DEFINE h == Call(t, "malloc", p)
    <3>1. h \in Handler /\ h.todo = "both" /\ h.op = "malloc"
      BY CallIs
    <3> HIDE DEF h
    <3>2. /\ Go(UnmapBoth(h, used')) /\ handler = NONE /\ order' = order /\ used \subseteq used'
      BY <2>1 DEF MallocStart, MayWrite, h
    <3> QED BY <3>1, <3>2, BegunOrdered
  <2>2. CASE FreeStart(t, p)
    <3> DEFINE h == Call(t, "free", p)
    <3>1. h \in Handler /\ h.todo = "both" /\ h.op = "free"
      BY CallIs
    <3> HIDE DEF h
    <3>2. /\ Go(UnmapBoth(h, used')) /\ handler = NONE /\ order' = order /\ used \subseteq used'
      BY <2>2 DEF FreeStart, MayWrite, h
    <3> QED BY <3>1, <3>2, BegunOrdered
  <2> QED BY <1>3, <2>1, <2>2
<1>4. ASSUME NEW t \in Threads, FaultStart(t) PROVE Ordered'
  <2>1. waiting[t] \in Pages /\ waiting[t] \in used
    BY <1>1, <1>4 DEF FaultStart, TypeOK, FreeInv, KeptInv, OwnInv, PrivateInv, Waits
  <2> DEFINE h == Call(t, "fault", waiting[t])
  <2>2. h \in Handler /\ h.todo = "both" /\ h.op = "fault"
    BY <2>1, CallIs
  <2> HIDE DEF h
  <2>3. /\ Go(UnmapOldest(h, used')) /\ handler = NONE /\ order' = order /\ used \subseteq used'
    BY <1>4, <2>1 DEF FaultStart, h
  <2> QED BY <2>2, <2>3, BegunOrdered
<1>5. CASE Save
  <2> DEFINE p == buffers[handler.pid].start
  <2>1. /\ handler # NONE /\ handler.pid \in DOMAIN buffers /\ p \in Pages
        /\ UNCHANGED <<buffers, order>> /\ handler \in Handler
        /\ pte[p] = NONE \/ handler' = [handler EXCEPT !.step = "zap"]
    BY <1>1, <1>5, SaveIs
  <2>2. pte[p] # NONE
    BY <2>1 DEF FreeInv, SlotsMapped, SlotsOf
  <2>3. handler' = [handler EXCEPT !.step = "zap"] /\ handler' # NONE
    BY <2>1, <2>2, PageCacheAssumption DEF Handler
  <2> QED BY <2>1, <2>3, OrderedSame
<1>6. CASE Zap
  BY <1>6, ZapOrdered
<1>7. CASE Map
  BY <1>7, MapOrdered
<1>8. CASE MallocEnd
  <2>1. /\ handler # NONE /\ handler.op # "fault" /\ handler.step = "end" /\ handler' = NONE
        /\ UNCHANGED <<buffers, order>>
    BY <1>8 DEF MallocEnd
  <2> QED BY <2>1, EndOrdered
<1>9. CASE FreeEnd
  BY <1>9, FreeEndOrdered
<1>10. CASE UNCHANGED vars
  BY <1>10, OrderedSame DEF vars, kernel
<1>11. CASE Program
  <2>1. PICK t \in Threads, p \in Pages :
          \/ \E v \in Values \ {Zero} : Write(t, p, v)
          \/ Read(t, p) \/ Miss(t, p) \/ MallocStart(t, p) \/ FreeStart(t, p)
    BY <1>11 DEF Program
  <2> QED BY <1>2, <1>3, <2>1
<1>12. CASE Module
  BY <1>4, <1>5, <1>6, <1>7, <1>8, <1>9, <1>12 DEF Module
<1> QED BY <1>10, <1>11, <1>12

\* A fault takes a page away only when the thread has two, and takes the one it mapped
\* first: the swaps of unmap_page and map_page keep the older page in the cache
\* (mapped_buffer.c:46-60, generic_malloc.c:199-262).
THEOREM OldestLeaves ==
  ASSUME ~Shared, Faults = {}
  PROVE  FreeSpec => OldestEvicted
<1> DEFINE Evicts ==
      \A t \in Threads :
        handler # NONE /\ handler.pid = t /\ handler.op = "fault" /\ order'[t] # order[t]
          => \/ Len(order[t]) = 2 /\ order'[t] = Tail(order[t])
             \/ order[t] = Front(order'[t]) /\ Len(order[t]) < 2
<1>1. Init => Ordered
  BY DEF Init, Ordered
<1>2. FreeInv /\ Ordered /\ [Program \/ Module]_vars => Ordered'
  BY OrderedNext
<1>3. FreeInv /\ Ordered /\ [Program \/ Module]_vars => [Evicts]_vars
  <2> SUFFICES ASSUME FreeInv, Ordered, Program \/ Module, NEW t \in Threads,
                      handler # NONE, handler.pid = t, handler.op = "fault", order'[t] # order[t]
               PROVE  \/ Len(order[t]) = 2 /\ order'[t] = Tail(order[t])
                      \/ order[t] = Front(order'[t]) /\ Len(order[t]) < 2
    OBVIOUS
  <2>1. CASE Zap
    BY <2>1, ZapOrdered
  <2>2. CASE Map
    BY <2>2, MapOrdered
  <2>3. CASE Save
    <3>1. order' = order
      BY <2>3, SaveIs DEF FreeInv, KeptInv, OwnInv
    <3> QED BY <3>1
  <2>4. CASE MallocEnd \/ FreeEnd
    BY <2>4 DEF MallocEnd, FreeEnd
  <2>5. ASSUME NEW u \in Threads, NEW p \in Pages,
               \/ \E v \in Values \ {Zero} : Write(u, p, v)
               \/ Read(u, p) \/ Miss(u, p) \/ MallocStart(u, p) \/ FreeStart(u, p)
        PROVE  FALSE
    BY <2>5 DEF Write, Read, Miss, kernel, MallocStart, FreeStart
  <2>6. ASSUME NEW u \in Threads, FaultStart(u) PROVE FALSE
    BY <2>6 DEF FaultStart
  <2> QED BY <2>1, <2>2, <2>3, <2>4, <2>5, <2>6 DEF Program, Module
<1>4. SavesWork
  BY DEF SavesWork
<1> QED BY <1>1, <1>2, <1>3, <1>4, FreeAlways, PTL DEF FreeSpec, OldestEvicted

=============================================================================
