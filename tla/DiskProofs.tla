------------------------------ MODULE DiskProofs ------------------------------
(***************************************************************************)
(* Proofs about Disk, for every number of descriptors and processes and    *)
(* every width of the ring indices that is a multiple of NUM.              *)
(*                                                                         *)
(* The invariant says how the descriptors of each request are formatted    *)
(* and who owns which, and that the head of a request in flight is in      *)
(* exactly one of the available ring, the device, the used ring and the    *)
(* finished requests.  As every request takes three descriptors, a ring    *)
(* never fills up, and its window is a queue without repetitions.          *)
(***************************************************************************)
EXTENDS Disk, FiniteSetTheorems, WellFoundedInduction, TLAPS

-----------------------------------------------------------------------------
(* The invariant *)

Addrs == {<<"null">>} \cup ({"op", "status"} \X Descs) \cup ({"buf"} \X Procs)
Idxs == 0 .. IdxMod - 1
Points == {"idle", "alloc", "sleep_free", "wait", "sleep_done", "check"}

TypeInv ==
  /\ free \in SUBSET Descs /\ pending \in SUBSET Descs
  /\ desc \in [Descs -> [addr : Addrs, next : Descs, more : BOOLEAN]]
  /\ ops \in [Descs -> [write : BOOLEAN, block : Procs \cup {NoBlock}]]
  /\ status \in [Descs -> {"ok", "unset"}] /\ done \in [Descs -> BOOLEAN]
  /\ avail \in [Descs -> Descs] /\ usedRing \in [Descs -> Descs]
  /\ availIdx \in Idxs /\ usedRingIdx \in Idxs /\ used_idx \in Idxs /\ devIdx \in Idxs
  /\ irq \in BOOLEAN /\ handler \in BOOLEAN /\ panicked \in BOOLEAN
  /\ disk \in [Procs -> Vals] /\ buf \in [Procs -> Vals]
  /\ pc \in [Procs -> Points]
  /\ req \in [Procs -> [head : Descs, write : BOOLEAN]]

\* The number of entries between two indices, and the place of the k-th.
Count(from, to) == (to - from + IdxMod) % IdxMod
Place(from, k) == (from + k) % NUM

\* The window of a ring has room left, and no entry twice.
IsQueue(ring, from, to) ==
  /\ Count(from, to) < NUM
  /\ \A j, k \in 0 .. Count(from, to) - 1 : ring[Place(from, j)] = ring[Place(from, k)] => j = k
Available == Window(avail, devIdx, availIdx)
Used == Window(usedRing, used_idx, usedRingIdx)

\* The descriptors of a request and what is in them.
First(p) == req[p].head
Second(p) == desc[First(p)].next
Third(p) == desc[Second(p)].next
Own(p) == {First(p), Second(p), Third(p)}
Formatted(p) ==
  /\ First(p) # Second(p) /\ First(p) # Third(p) /\ Second(p) # Third(p)
  /\ desc[First(p)].addr = <<"op", First(p)>> /\ desc[First(p)].more
  /\ desc[Second(p)].addr = <<"buf", p>> /\ desc[Second(p)].more
  /\ desc[Third(p)].addr = <<"status", First(p)>> /\ ~desc[Third(p)].more
  /\ ops[First(p)] = Header(p)

\* Every descriptor is free or belongs to one request.
OwnInv ==
  /\ \A p \in InFlight : Formatted(p) /\ Own(p) \cap free = {}
  /\ \A p, q \in InFlight : Own(p) \cap Own(q) # {} => p = q
  /\ \A i \in Descs : i \in free \/ \E p \in InFlight : i \in Own(p)

\* Where the head of a request is.
Busy == Available \cup pending \cup Used
StageInv ==
  /\ Available \cap pending = {} /\ Available \cap Used = {} /\ pending \cap Used = {}
  /\ \A h \in Busy : ~done[h] /\ \E p \in InFlight : First(p) = h
  /\ \A p \in InFlight : done[First(p)] \/ First(p) \in Busy
  /\ \A p \in Procs : pc[p] = "sleep_done" => ~done[First(p)]

\* What has been transferred when.
MovedInv ==
  /\ Transferred
  /\ \A p \in InFlight : done[First(p)] \/ First(p) \in Used =>
       status[First(p)] = "ok" /\ buf[p] = disk[p]

WakeInv ==
  /\ used_idx # usedRingIdx => irq \/ handler
  /\ Cardinality(free) >= 3 => \A p \in Procs : pc[p] # "sleep_free"

RingInv == IsQueue(avail, devIdx, availIdx) /\ IsQueue(usedRing, used_idx, usedRingIdx)
DiskInv == TypeInv /\ RingInv /\ OwnInv /\ StageInv /\ MovedInv /\ WakeInv

\* The facts that counting shows: a window that misses two descriptors has room for
\* another entry, and alloc3_desc() finds three different descriptors.
RoomLeft ==
  \A ring \in [Descs -> Descs], from \in Idxs, to \in Idxs, x \in Descs, y \in Descs :
    /\ IsQueue(ring, from, to) /\ x # y
    /\ x \notin Window(ring, from, to) /\ y \notin Window(ring, from, to)
    => Count(from, to) + 1 < NUM
FreeCounted ==
  /\ Cardinality(free) \in Nat
  /\ Cardinality(free) >= 3 => /\ Idx0 \in free /\ Idx1 \in free /\ Idx2 \in free
                               /\ Idx0 # Idx1 /\ Idx0 # Idx2 /\ Idx1 # Idx2

-----------------------------------------------------------------------------
(* Ring indices *)

\* A remainder is in range, and what it is next to the range.
LEMMA ModNear ==
  ASSUME NEW m \in Nat \ {0}, NEW x \in Int
  PROVE  /\ x % m \in 0 .. m - 1
         /\ 0 <= x /\ x < m => x % m = x
         /\ m <= x /\ x < 2 * m => x % m = x - m
OBVIOUS

\* Quotient and remainder.
LEMMA DivMod ==
  ASSUME NEW m \in Nat \ {0}, NEW x \in Int
  PROVE  x \div m \in Int /\ x = m * (x \div m) + (x % m)
OBVIOUS

\* A positive multiple of m is at least m.
LEMMA AtLeastOnce ==
  ASSUME NEW m \in Nat \ {0}, NEW k \in Int, k >= 1
  PROVE  k * m >= m
OBVIOUS

\* Numbers with the same remainder that are close are equal.
LEMMA ModClose ==
  ASSUME NEW m \in Nat \ {0}, NEW x \in Int, NEW y \in Int, NEW t \in Int,
         x = y + t * m, x - y < m, y - x < m
  PROVE  x = y
<1>1. CASE t = 0
  BY <1>1
<1>2. CASE t >= 1
  BY <1>2, AtLeastOnce
<1>3. CASE -t >= 1
  <2>1. (-t) * m >= m
    BY <1>3, AtLeastOnce
  <2>. QED BY <2>1
<1>. QED BY <1>1, <1>2, <1>3

\* Numbers with the same remainder differ by a multiple of m ...
LEMMA ModDiff ==
  ASSUME NEW m \in Nat \ {0}, NEW x \in Int, NEW y \in Int, x % m = y % m
  PROVE  \E t \in Int : x = y + t * m
<1> DEFINE a == x \div m
           b == y \div m
<1>1. a \in Int /\ x = m * a + (x % m) /\ x % m \in 0 .. m - 1
  BY DivMod, ModNear, Zenon
<1>2. b \in Int /\ y = m * b + (y % m) /\ y % m \in 0 .. m - 1
  BY DivMod, ModNear, Zenon
<1> HIDE DEF a, b
<1>3. a - b \in Int /\ x = y + (a - b) * m
  BY <1>1, <1>2
<1>. QED BY <1>3, Zenon

\* ... and the other way round.
LEMMA ModShift ==
  ASSUME NEW m \in Nat \ {0}, NEW x \in Int, NEW y \in Int, NEW t \in Int, x = y + t * m
  PROVE  x % m = y % m
<1> DEFINE a == x \div m
           b == y \div m
<1>1. a \in Int /\ x = m * a + (x % m) /\ x % m \in 0 .. m - 1
  BY DivMod, ModNear, Zenon
<1>2. b \in Int /\ y = m * b + (y % m) /\ y % m \in 0 .. m - 1
  BY DivMod, ModNear, Zenon
<1> HIDE DEF a, b
<1>3. b + t - a \in Int /\ x % m = (y % m) + (b + t - a) * m
  BY <1>1, <1>2
<1>4. PICK r \in Int, d \in Int : r = x % m /\ d = b + t - a
  BY <1>1, <1>3
<1>5. PICK e \in Int : e = y % m
  BY <1>2
<1>6. r = e + d * m /\ r - e < m /\ e - r < m
  BY <1>1, <1>2, <1>3, <1>4, <1>5
<1>7. r = e
  BY <1>6, ModClose, Zenon
<1>. QED BY <1>4, <1>5, <1>7, Zenon

\* The sizes are positive.
LEMMA Sizes == NUM \in Nat \ {0} /\ IdxMod \in Nat \ {0}
  BY DiskAssumption, Zenon

\* The ring indices go around a whole number of times.
LEMMA Multiple == \E u \in Int : IdxMod = u * NUM /\ u >= 1
<1>1. IdxMod \div NUM \in Int /\ IdxMod = NUM * (IdxMod \div NUM) + (IdxMod % NUM)
  BY Sizes, DivMod
<1>2. PICK u \in Int : IdxMod = NUM * u
  BY <1>1, DiskAssumption, Sizes
<1>3. IdxMod = u * NUM /\ u >= 1
  BY <1>2, Sizes
<1>. QED BY <1>3, Zenon

\* A ring index can tell all entries of a ring apart.
LEMMA NumFits == NUM <= IdxMod
  BY Multiple, Sizes, AtLeastOnce, Zenon

\* An index that wraps stays at its place in the ring.
LEMMA WrapPlace == ASSUME NEW x \in Int PROVE (x % IdxMod) % NUM = x % NUM
<1>1. PICK u \in Int : IdxMod = u * NUM
  BY Multiple, Zenon
<1>2. PICK a \in Int : x = IdxMod * a + (x % IdxMod)
  BY Sizes, DivMod, Zenon
<1>3. x % IdxMod \in Int
  BY Sizes, ModNear
<1>4. PICK t \in Int : t = (-a) * u
  BY <1>1
<1>5. t * NUM = -(IdxMod * a)
  BY <1>1, <1>4, Sizes
<1>6. x % IdxMod = x + t * NUM
  BY <1>2, <1>3, <1>5, Sizes
<1>. QED BY <1>3, <1>6, ModShift, Sizes, ZenonT(40)

\* Places are descriptors.
LEMMA PlaceType == ASSUME NEW x \in Int, NEW k \in Int PROVE Place(x, k) \in Descs
  BY ModNear, Sizes DEF Place, Descs

\* The places of NUM entries in a row are different.
LEMMA PlaceDiff ==
  ASSUME NEW x \in Int, NEW j \in 0 .. NUM - 1, NEW k \in 0 .. NUM - 1, Place(x, j) = Place(x, k)
  PROVE  j = k
<1>1. NUM \in Nat \ {0} /\ x + j \in Int /\ x + k \in Int
  BY Sizes
<1>2. PICK t \in Int : x + j = (x + k) + t * NUM
  BY <1>1, ModDiff, Zenon DEF Place
<1>3. x + j = x + k
  BY <1>1, <1>2, ModClose
<1>. QED BY <1>3

\* One index further on is one place further on.
LEMMA PlaceNext ==
  ASSUME NEW x \in Idxs, NEW k \in Nat PROVE Inc(x) \in Idxs /\ Place(Inc(x), k) = Place(x, k + 1)
<1>1. x \in Int /\ k \in Int /\ IdxMod \in Nat \ {0} /\ NUM \in Nat \ {0}
  BY Sizes DEF Idxs
<1>2. Inc(x) \in Idxs
  BY <1>1, ModNear DEF Inc, Idxs
<1>3. x + 1 \in Int /\ Inc(x) \in Int
  BY <1>1, <1>2 DEF Idxs
<1>4. Inc(x) % NUM = (x + 1) % NUM
  BY <1>3, WrapPlace, Zenon DEF Inc
<1>5. PICK t \in Int : Inc(x) = (x + 1) + t * NUM
  BY <1>3, <1>1, <1>4, ModDiff, Zenon
<1>6. Inc(x) + k = (x + (k + 1)) + t * NUM /\ Inc(x) + k \in Int /\ x + (k + 1) \in Int
  BY <1>3, <1>1, <1>5
<1>7. (Inc(x) + k) % NUM = (x + (k + 1)) % NUM
  BY <1>1, <1>6, ModShift, Zenon
<1>. QED BY <1>2, <1>7, Zenon DEF Place

\* How many entries there are between two indices.
LEMMA CountType ==
  ASSUME NEW from \in Idxs, NEW to \in Idxs
  PROVE  /\ Count(from, to) = IF to >= from THEN to - from ELSE to - from + IdxMod
         /\ Count(from, to) \in 0 .. IdxMod - 1
<1>1. from \in 0 .. IdxMod - 1 /\ to \in 0 .. IdxMod - 1 /\ IdxMod \in Nat \ {0}
  BY Sizes, Zenon DEF Idxs
<1>2. PICK v \in Int : v = to - from + IdxMod
  BY <1>1
<1>3. /\ 0 <= v /\ v < IdxMod => v % IdxMod = v
      /\ IdxMod <= v /\ v < 2 * IdxMod => v % IdxMod = v - IdxMod
  BY <1>1, ModNear, Zenon
<1>4. Count(from, to) = IF to >= from THEN to - from ELSE to - from + IdxMod
  <2>1. CASE to >= from
    BY <1>1, <1>2, <1>3, <2>1 DEF Count
  <2>2. CASE ~(to >= from)
    BY <1>1, <1>2, <1>3, <2>2 DEF Count
  <2>. QED BY <2>1, <2>2, Zenon
<1>. QED BY <1>1, <1>4

\* What the next index is.
LEMMA IncIs == ASSUME NEW x \in Idxs PROVE Inc(x) = IF x + 1 = IdxMod THEN 0 ELSE x + 1
<1>1. x \in 0 .. IdxMod - 1 /\ IdxMod \in Nat \ {0}
  BY Sizes, Zenon DEF Idxs
<1>2. PICK v \in Int : v = x + 1
  BY <1>1
<1>3. /\ 0 <= v /\ v < IdxMod => v % IdxMod = v
      /\ IdxMod <= v /\ v < 2 * IdxMod => v % IdxMod = v - IdxMod
  BY <1>1, ModNear, Zenon
<1>. QED BY <1>1, <1>2, <1>3 DEF Inc

\* Appending an entry makes one more ...
LEMMA CountPush ==
  ASSUME NEW from \in Idxs, NEW to \in Idxs, Count(from, to) + 1 < IdxMod
  PROVE  Count(from, Inc(to)) = Count(from, to) + 1
<1>1. from \in 0 .. IdxMod - 1 /\ to \in 0 .. IdxMod - 1 /\ IdxMod \in Nat \ {0}
  BY Sizes, Zenon DEF Idxs
<1>2. PICK v \in Idxs : v = Inc(to)
  BY PlaceNext, 0 \in Nat, Zenon
<1>3. v \in 0 .. IdxMod - 1 /\ v = IF to + 1 = IdxMod THEN 0 ELSE to + 1
  BY <1>2, IncIs, Zenon DEF Idxs
<1>4. /\ Count(from, to) = IF to >= from THEN to - from ELSE to - from + IdxMod
      /\ Count(from, v) = IF v >= from THEN v - from ELSE v - from + IdxMod
  BY CountType, Zenon
<1>5. Count(from, v) = Count(from, to) + 1
  BY <1>1, <1>3, <1>4
<1>. QED BY <1>2, <1>5, Zenon

\* ... and taking one, one less.
LEMMA CountPop ==
  ASSUME NEW from \in Idxs, NEW to \in Idxs, from # to
  PROVE  Count(from, to) >= 1 /\ Count(Inc(from), to) = Count(from, to) - 1
<1>1. from \in 0 .. IdxMod - 1 /\ to \in 0 .. IdxMod - 1 /\ IdxMod \in Nat \ {0}
  BY Sizes, Zenon DEF Idxs
<1>2. PICK v \in Idxs : v = Inc(from)
  BY PlaceNext, 0 \in Nat, Zenon
<1>3. v \in 0 .. IdxMod - 1 /\ v = IF from + 1 = IdxMod THEN 0 ELSE from + 1
  BY <1>2, IncIs, Zenon DEF Idxs
<1>4. /\ Count(from, to) = IF to >= from THEN to - from ELSE to - from + IdxMod
      /\ Count(v, to) = IF to >= v THEN to - v ELSE to - v + IdxMod
  BY CountType, Zenon
<1>5. Count(from, to) >= 1 /\ Count(v, to) = Count(from, to) - 1
  BY <1>1, <1>3, <1>4
<1>. QED BY <1>2, <1>5, Zenon

\* A new entry goes to the place after the last, and the first is at the start.
LEMMA EndPlace ==
  ASSUME NEW from \in Idxs, NEW to \in Idxs
  PROVE  to % NUM = Place(from, Count(from, to)) /\ from % NUM = Place(from, 0)
<1>1. from \in Int /\ to \in Int /\ IdxMod \in Nat \ {0} /\ NUM \in Nat \ {0}
  BY Sizes DEF Idxs
<1>2. CASE to >= from
  <2>1. from + Count(from, to) = to
    BY <1>1, <1>2, CountType
  <2>. QED BY <1>1, <2>1 DEF Place
<1>3. CASE ~(to >= from)
  <2>1. PICK u \in Int : IdxMod = u * NUM
    BY Multiple, Zenon
  <2>2. from + Count(from, to) = to + u * NUM /\ from + Count(from, to) \in Int
    BY <1>1, <1>3, <2>1, CountType
  <2>3. (from + Count(from, to)) % NUM = to % NUM
    BY <1>1, <2>2, ModShift, Zenon
  <2>. QED BY <1>1, <2>3 DEF Place
<1>. QED BY <1>2, <1>3, Zenon

-----------------------------------------------------------------------------
(* The rings *)

\* The window of a ring has the entries at its places.
LEMMA InWindow ==
  ASSUME NEW ring, NEW from \in Idxs, NEW to \in Idxs, NEW c \in Nat, c = Count(from, to)
  PROVE  \A h : h \in Window(ring, from, to) <=> \E k \in 0 .. c - 1 : h = ring[Place(from, k)]
<1>1. from \in Int
  BY Sizes DEF Idxs
<1>2. ASSUME NEW k \in 0 .. c - 1 PROVE ((from + k) % IdxMod) % NUM = Place(from, k)
  <2>1. from + k \in Int
    BY <1>1
  <2>. QED BY <2>1, WrapPlace, Zenon DEF Place
<1>3. Window(ring, from, to)
        = {ring[i % NUM] : i \in {(from + k) % IdxMod : k \in 0 .. c - 1}}
  BY Zenon DEF Window, Count
<1>4. ASSUME NEW h
      PROVE  h \in {ring[i % NUM] : i \in {(from + k) % IdxMod : k \in 0 .. c - 1}}
               <=> \E k \in 0 .. c - 1 : h = ring[Place(from, k)]
  BY <1>2, Zenon
<1>. QED BY <1>3, <1>4, Zenon

\* An entry is stored at an index.
Put(ring, i, h) == [ring EXCEPT ![i % NUM] = h]

\* An entry that is not in the window is appended to it.
LEMMA QueuePush ==
  ASSUME NEW ring \in [Descs -> Descs], NEW from \in Idxs, NEW to \in Idxs,
         IsQueue(ring, from, to), NEW h \in Descs, h \notin Window(ring, from, to),
         Count(from, to) + 1 < NUM, NEW r2, r2 = Put(ring, to, h)
  PROVE  /\ r2 \in [Descs -> Descs] /\ Inc(to) \in Idxs /\ IsQueue(r2, from, Inc(to))
         /\ Window(r2, from, Inc(to)) = Window(ring, from, to) \cup {h}
<1>1. PICK c \in Nat : c = Count(from, to)
  BY CountType, Sizes
<1>2. c + 1 < NUM /\ c + 1 < IdxMod /\ NUM \in Nat
  BY <1>1, Sizes, NumFits
<1>3. Inc(to) \in Idxs /\ Count(from, Inc(to)) = c + 1
  BY <1>1, <1>2, CountPush, PlaceNext, 0 \in Nat, Zenon
<1>4. from \in Int /\ c \in Int
  BY Sizes DEF Idxs
<1>5. to % NUM = Place(from, c) /\ Place(from, c) \in Descs
  BY <1>1, <1>4, EndPlace, PlaceType, Zenon
<1>6. \A k \in 0 .. c - 1 : k \in Int /\ k \in 0 .. NUM - 1 /\ k # c
  BY <1>2
<1>7. c \in 0 .. NUM - 1
  BY <1>2
<1>8. \A k \in 0 .. c - 1 : Place(from, k) \in Descs /\ Place(from, k) # Place(from, c)
  BY <1>4, <1>6, <1>7, PlaceType, PlaceDiff, Zenon
<1>9. r2 \in [Descs -> Descs]
  BY <1>5, Zenon DEF Put
<1>10. r2[Place(from, c)] = h
  BY <1>5, Zenon DEF Put
<1>11. \A k \in 0 .. c - 1 : r2[Place(from, k)] = ring[Place(from, k)]
  BY <1>5, <1>8, Zenon DEF Put
<1>12. \A k \in 0 .. c - 1 : ring[Place(from, k)] # h
  BY <1>1, InWindow, Zenon
<1>13. \A k \in 0 .. (c + 1) - 1 : k \in 0 .. c - 1 \/ k = c
  BY <1>1
<1>14. IsQueue(r2, from, Inc(to))
  <2>1. \A j, k \in 0 .. c - 1 : ring[Place(from, j)] = ring[Place(from, k)] => j = k
    BY <1>1, Zenon DEF IsQueue
  <2>2. ASSUME NEW j \in 0 .. (c + 1) - 1, NEW k \in 0 .. (c + 1) - 1,
               r2[Place(from, j)] = r2[Place(from, k)]
        PROVE  j = k
    BY <1>10, <1>11, <1>12, <1>13, <2>1, <2>2, Zenon
  <2>. QED BY <1>2, <1>3, <2>2, Zenon DEF IsQueue
<1>15. Window(r2, from, Inc(to)) = Window(ring, from, to) \cup {h}
  <2>1. PICK e \in Nat : e = c + 1
    BY <1>1
  <2>2. e = Count(from, Inc(to)) /\ Inc(to) \in Idxs
    BY <1>3, <2>1, Zenon
  <2>3. \A x : x \in Window(r2, from, Inc(to)) <=> \E k \in 0 .. e - 1 : x = r2[Place(from, k)]
    <3>1. PICK t \in Idxs : t = Inc(to)
      BY <2>2, Zenon
    <3>2. e = Count(from, t)
      BY <2>2, <3>1, Zenon
    <3>3. \A x : x \in Window(r2, from, t) <=> \E k \in 0 .. e - 1 : x = r2[Place(from, k)]
      BY ONLY e \in Nat, from \in Idxs, to \in Idxs, t \in Idxs, <3>2, InWindow, SMT
    <3>. QED BY <3>1, <3>3, Zenon
  <2>4. \A x : x \in Window(r2, from, Inc(to))
                 <=> \E k \in 0 .. (c + 1) - 1 : x = r2[Place(from, k)]
    BY <2>1, <2>3, Zenon
  <2>5. \A x : x \in Window(ring, from, to) <=> \E k \in 0 .. c - 1 : x = ring[Place(from, k)]
    BY <1>1, InWindow, Zenon
  <2>6. c \in 0 .. (c + 1) - 1 /\ \A k \in 0 .. c - 1 : k \in 0 .. (c + 1) - 1
    BY <1>1
  <2>7. ASSUME NEW x \in Window(r2, from, Inc(to)) PROVE x \in Window(ring, from, to) \cup {h}
    <3>1. PICK k \in 0 .. (c + 1) - 1 : x = r2[Place(from, k)]
      BY <2>4, <2>7, Zenon
    <3>2. CASE k = c
      BY <1>10, <3>1, <3>2, Zenon
    <3>3. CASE k \in 0 .. c - 1
      <4>1. x = ring[Place(from, k)]
        BY <1>11, <3>1, <3>3, Zenon
      <4>. QED BY <2>5, <3>3, <4>1, Zenon
    <3>. QED BY <1>13, <3>2, <3>3, Zenon
  <2>8. ASSUME NEW x \in Window(ring, from, to) PROVE x \in Window(r2, from, Inc(to))
    <3>1. PICK k \in 0 .. c - 1 : x = ring[Place(from, k)]
      BY <2>5, <2>8, Zenon
    <3>2. x = r2[Place(from, k)] /\ k \in 0 .. (c + 1) - 1
      BY <1>11, <2>6, <3>1, Zenon
    <3>. QED BY <2>4, <3>2, Zenon
  <2>9. h \in Window(r2, from, Inc(to))
    BY <1>10, <2>4, <2>6, Zenon
  <2>. QED BY <2>7, <2>8, <2>9, Zenon
<1>. QED BY <1>3, <1>9, <1>14, <1>15, Zenon

\* The first entry is taken from the window.
LEMMA QueuePop ==
  ASSUME NEW ring \in [Descs -> Descs], NEW from \in Idxs, NEW to \in Idxs,
         IsQueue(ring, from, to), from # to, NEW z \in Descs,
         NEW r2, r2 = Put(ring, from, z)
  PROVE  LET h == ring[from % NUM] IN
         /\ h \in Descs /\ h \in Window(ring, from, to)
         /\ r2 \in [Descs -> Descs] /\ Inc(from) \in Idxs /\ IsQueue(r2, Inc(from), to)
         /\ Window(r2, Inc(from), to) = Window(ring, from, to) \ {h}
<1>1. PICK c \in Nat : c = Count(from, to)
  BY CountType, Sizes
<1>2. c < NUM /\ NUM \in Nat
  BY <1>1, Sizes, Zenon DEF IsQueue
<1>3. Inc(from) \in Idxs /\ c >= 1 /\ Count(Inc(from), to) = c - 1
  BY <1>1, CountPop, PlaceNext, 0 \in Nat, Zenon
<1>4. from \in Int /\ 0 \in Int /\ 0 \in 0 .. c - 1 /\ 0 \in 0 .. NUM - 1
  BY <1>2, <1>3, Sizes DEF Idxs
<1>5. from % NUM = Place(from, 0) /\ Place(from, 0) \in Descs
  BY <1>4, EndPlace, PlaceType, Zenon
<1>6. PICK h \in Descs : h = ring[Place(from, 0)]
  BY <1>5, Zenon
<1>7. \A k \in 0 .. (c - 1) - 1 : /\ k \in Nat /\ k + 1 \in Int /\ k + 1 \in 0 .. NUM - 1
                                  /\ k + 1 # 0 /\ k + 1 \in 0 .. c - 1
  BY <1>2
<1>8. \A k \in 0 .. (c - 1) - 1 :
        Place(Inc(from), k) = Place(from, k + 1) /\ Place(from, k + 1) \in Descs
          /\ Place(from, k + 1) # Place(from, 0)
  BY <1>4, <1>7, PlaceNext, PlaceType, PlaceDiff, Zenon
<1>9. r2 \in [Descs -> Descs]
  BY <1>5, Zenon DEF Put
<1>10. \A k \in 0 .. (c - 1) - 1 : r2[Place(Inc(from), k)] = ring[Place(from, k + 1)]
  BY <1>5, <1>8, Zenon DEF Put
<1>11. \A j, k \in 0 .. c - 1 : ring[Place(from, j)] = ring[Place(from, k)] => j = k
  BY <1>1, Zenon DEF IsQueue
<1>12. \A k \in 0 .. (c - 1) - 1 : ring[Place(from, k + 1)] # h
  BY <1>4, <1>6, <1>7, <1>11, Zenon
<1>13. ASSUME NEW k \in 0 .. c - 1, k # 0 PROVE \E j \in 0 .. (c - 1) - 1 : k = j + 1
  <2>1. k - 1 \in 0 .. (c - 1) - 1 /\ k = (k - 1) + 1
    BY <1>13, <1>1
  <2>. QED BY <2>1, Zenon
<1>14. IsQueue(r2, Inc(from), to)
  <2>1. ASSUME NEW j \in 0 .. (c - 1) - 1, NEW k \in 0 .. (c - 1) - 1,
               r2[Place(Inc(from), j)] = r2[Place(Inc(from), k)]
        PROVE  j = k
    <3>1. ring[Place(from, j + 1)] = ring[Place(from, k + 1)]
      BY <1>10, <2>1, Zenon
    <3>2. j + 1 \in 0 .. c - 1 /\ k + 1 \in 0 .. c - 1
      BY <1>7, Zenon
    <3>3. j + 1 = k + 1
      BY <1>11, <3>1, <3>2, Zenon
    <3>. QED BY <3>3
  <2>2. c - 1 < NUM
    BY <1>2
  <2>. QED BY <1>3, <2>1, <2>2, Zenon DEF IsQueue
<1>15. Window(r2, Inc(from), to) = Window(ring, from, to) \ {h}
  <2>1. PICK e \in Nat : e = c - 1
    BY <1>1, <1>3
  <2>2. e = Count(Inc(from), to) /\ Inc(from) \in Idxs
    BY <1>3, <2>1, Zenon
  <2>3. \A x : x \in Window(r2, Inc(from), to)
                 <=> \E k \in 0 .. e - 1 : x = r2[Place(Inc(from), k)]
    <3>1. PICK t \in Idxs : t = Inc(from)
      BY <2>2, Zenon
    <3>2. e = Count(t, to)
      BY <2>2, <3>1, Zenon
    <3>3. \A x : x \in Window(r2, t, to) <=> \E k \in 0 .. e - 1 : x = r2[Place(t, k)]
      BY ONLY e \in Nat, from \in Idxs, to \in Idxs, t \in Idxs, <3>2, InWindow, SMT
    <3>. QED BY <3>1, <3>3, Zenon
  <2>4. \A x : x \in Window(r2, Inc(from), to)
                 <=> \E k \in 0 .. (c - 1) - 1 : x = r2[Place(Inc(from), k)]
    BY <2>1, <2>3, Zenon
  <2>5. \A x : x \in Window(ring, from, to) <=> \E k \in 0 .. c - 1 : x = ring[Place(from, k)]
    BY ONLY from \in Idxs, to \in Idxs, <1>1, InWindow, SMT
  <2>6. ASSUME NEW x \in Window(r2, Inc(from), to) PROVE x \in Window(ring, from, to) \ {h}
    <3>1. PICK k \in 0 .. (c - 1) - 1 : x = r2[Place(Inc(from), k)]
      BY <2>4, <2>6, Zenon
    <3>2. x = ring[Place(from, k + 1)] /\ k + 1 \in 0 .. c - 1 /\ x # h
      BY <1>7, <1>10, <1>12, <3>1, Zenon
    <3>. QED BY <2>5, <3>2, Zenon
  <2>7. ASSUME NEW x \in Window(ring, from, to) \ {h} PROVE x \in Window(r2, Inc(from), to)
    <3>1. PICK k \in 0 .. c - 1 : x = ring[Place(from, k)]
      BY <2>5, <2>7, Zenon
    <3>2. PICK j \in 0 .. (c - 1) - 1 : k = j + 1
      BY <1>6, <1>13, <2>7, <3>1, Zenon
    <3>. QED BY <1>10, <2>4, <3>1, <3>2, Zenon
  <2>. QED BY <2>6, <2>7, Zenon
<1>16. h \in Window(ring, from, to)
  BY <1>1, <1>4, <1>6, InWindow, Zenon
<1>. QED BY <1>3, <1>5, <1>6, <1>9, <1>14, <1>15, <1>16, Zenon

-----------------------------------------------------------------------------
(* Descriptors *)

\* Three descriptors that are linked are the chain of the first.
LEMMA ChainIs ==
  ASSUME NEW d0, NEW d1, NEW d2,
         desc[d0].more, desc[d0].next = d1, desc[d1].more, desc[d1].next = d2, ~desc[d2].more
  PROVE  Chain(d0) = {d0, d1, d2}
<1> DEFINE More(c) == c \cup {desc[i].next : i \in {j \in c : desc[j].more}}
           Eq(f) == f = [n \in 0 .. 3 |-> IF n = 0 THEN {d0} ELSE More(f[n-1])]
           g == [n \in 0 .. 3 |->
                   IF n = 0 THEN {d0} ELSE IF n = 1 THEN {d0, d1} ELSE {d0, d1, d2}]
<1>1. More({d0}) = {d0, d1} /\ More({d0, d1}) = {d0, d1, d2}
        /\ More({d0, d1, d2}) = {d0, d1, d2}
  BY Zenon
<1> HIDE DEF More
<1>2. Eq(g)
  <2>1. g[0] = {d0} /\ g[1] = {d0, d1} /\ g[2] = {d0, d1, d2} /\ g[3] = {d0, d1, d2}
    OBVIOUS
  <2>2. \A n \in 0 .. 3 : n = 0 \/ n = 1 \/ n = 2 \/ n = 3
    OBVIOUS
  <2>3. 1 - 1 = 0 /\ 2 - 1 = 1 /\ 3 - 1 = 2 /\ 1 # 0 /\ 2 # 0 /\ 3 # 0
    OBVIOUS
  <2>4. g[1] = More(g[1-1]) /\ g[2] = More(g[2-1]) /\ g[3] = More(g[3-1])
    BY <1>1, <2>1, <2>3, Zenon
  <2>5. \A n \in 0 .. 3 : g[n] = IF n = 0 THEN {d0} ELSE More(g[n-1])
    <3>1. SUFFICES ASSUME NEW n \in 0 .. 3
                   PROVE  g[n] = IF n = 0 THEN {d0} ELSE More(g[n-1])
      BY Zenon
    <3>2. CASE n = 0
      BY <2>1, <3>2, Zenon
    <3>3. CASE n = 1 \/ n = 2 \/ n = 3
      <4>1. n # 0 /\ g[n] = More(g[n-1])
        BY <2>3, <2>4, <3>3, Zenon
      <4>. QED BY <4>1, Zenon
    <3>. QED BY <2>2, <3>2, <3>3, Zenon
  <2>. QED BY <2>5, Zenon
<1>3. Chain(d0) = (CHOOSE f : Eq(f))[3]
  BY Zenon DEF Chain, More
<1> HIDE DEF g
<1>4. Eq(CHOOSE f : Eq(f))
  BY <1>2, Zenon
<1>5. PICK f : f = (CHOOSE h : Eq(h)) /\ Eq(f)
  BY <1>4, Zenon
<1>6. f[0] = {d0} /\ f[1] = More(f[0]) /\ f[2] = More(f[1]) /\ f[3] = More(f[2])
  BY <1>5
<1>7. f[1] = {d0, d1}
  BY <1>1, <1>6, Zenon
<1>8. f[2] = {d0, d1, d2}
  BY <1>1, <1>6, <1>7, Zenon
<1>9. f[3] = {d0, d1, d2}
  BY <1>1, <1>6, <1>8, Zenon
<1> HIDE DEF Eq
<1>. QED BY <1>3, <1>5, <1>9, Zenon

-----------------------------------------------------------------------------
(* What follows from the invariant *)

\* The parts of a request are descriptors.
LEMMA Parts ==
  ASSUME TypeInv, NEW p \in Procs
  PROVE  First(p) \in Descs /\ Second(p) \in Descs /\ Third(p) \in Descs
<1>1. First(p) \in Descs
  BY Zenon DEF TypeInv, First
<1>2. \A i \in Descs : desc[i].next \in Descs
  BY Zenon DEF TypeInv
<1>. QED BY <1>1, <1>2, Zenon DEF Second, Third

\* Requests have different heads, and the head of a request is no other part.
LEMMA Heads ==
  ASSUME OwnInv, NEW p \in InFlight, NEW q \in InFlight
  PROVE  /\ First(p) = First(q) => p = q
         /\ First(q) # Second(p) /\ First(q) # Third(p)
         /\ p # q => /\ First(q) \notin Own(p) /\ Second(q) \notin Own(p)
                     /\ Third(q) \notin Own(p)
         /\ First(p) \notin free /\ Second(p) \notin free /\ Third(p) \notin free
<1>1. /\ First(p) \in Own(p) /\ Second(p) \in Own(p) /\ Third(p) \in Own(p)
      /\ First(q) \in Own(q) /\ Second(q) \in Own(q) /\ Third(q) \in Own(q)
  BY Zenon DEF Own
<1>2. \A i : i \in Own(p) /\ i \in Own(q) => p = q
  BY Zenon DEF OwnInv
<1>3. \A i : i \in Own(p) => i \notin free
  BY Zenon DEF OwnInv
<1>4. First(p) # Second(p) /\ First(p) # Third(p)
  BY Zenon DEF OwnInv, Formatted
<1>. QED BY <1>1, <1>2, <1>3, <1>4, Zenon

\* What is on its way is the head of a request: no free descriptor, and no other
\* descriptor of a request.
LEMMA OnlyHeads ==
  ASSUME OwnInv, StageInv
  PROVE  /\ Busy \cap free = {}
         /\ \A p \in InFlight : Second(p) \notin Busy /\ Third(p) \notin Busy
<1>1. \A h \in Busy : \E q \in InFlight : First(q) = h
  BY Zenon DEF StageInv
<1>2. ASSUME NEW h \in Busy PROVE h \notin free
  <2>1. PICK q \in InFlight : First(q) = h
    BY <1>1, <1>2, Zenon
  <2>. QED BY <2>1, Heads, Zenon
<1>3. ASSUME NEW p \in InFlight, NEW h \in Busy PROVE h # Second(p) /\ h # Third(p)
  <2>1. PICK q \in InFlight : First(q) = h
    BY <1>1, <1>3, Zenon
  <2>. QED BY <1>3, <2>1, Heads, Zenon
<1>. QED BY <1>2, <1>3, Zenon

\* A finished request is on its way no more.
LEMMA DoneOut ==
  ASSUME StageInv, NEW p \in InFlight, done[First(p)] PROVE First(p) \notin Busy
  BY Zenon DEF StageInv

\* free_chain() finds the descriptors of the request.
LEMMA OwnChain == ASSUME OwnInv, NEW p \in InFlight PROVE Chain(First(p)) = Own(p)
<1>1. PICK d0, d1, d2 : d0 = First(p) /\ d1 = Second(p) /\ d2 = Third(p)
  BY Zenon
<1>2. Formatted(p)
  BY Zenon DEF OwnInv
<1>3. /\ desc[d0].more /\ desc[d0].next = d1 /\ desc[d1].more /\ desc[d1].next = d2
      /\ ~desc[d2].more
  BY <1>1, <1>2, Zenon DEF Formatted, Second, Third
<1>4. Chain(d0) = {d0, d1, d2}
  BY <1>3, ChainIs, SMT
<1>. QED BY <1>1, <1>4, Zenon DEF Own

-----------------------------------------------------------------------------
(* Frames *)

\* The requests in flight and their descriptors stay as they are.
Kept ==
  /\ InFlight' = InFlight
  /\ \A p \in InFlight : req'[p] = req[p]
  /\ UNCHANGED <<free, desc, ops>>

\* Then who owns what stays as it is.
LEMMA KeptOwn ==
  ASSUME OwnInv, Kept
  PROVE  /\ OwnInv'
         /\ \A p \in InFlight : /\ First(p)' = First(p) /\ Second(p)' = Second(p)
                                /\ Third(p)' = Third(p)
<1>1. ASSUME NEW p \in InFlight
      PROVE  /\ First(p)' = First(p) /\ Second(p)' = Second(p) /\ Third(p)' = Third(p)
             /\ Header(p)' = Header(p)
  BY Zenon DEF Kept, First, Second, Third, Header
<1>2. ASSUME NEW p \in InFlight PROVE Own(p)' = Own(p)
  BY <1>1, <1>2, Zenon DEF Own
<1>3. ASSUME NEW p \in InFlight PROVE Formatted(p)'
  <2>1. Formatted(p)
    BY <1>3, Zenon DEF OwnInv
  <2>. QED BY <1>1, <1>3, <2>1, Zenon DEF Formatted, Kept
<1>4. OwnInv'
  <2>1. InFlight' = InFlight /\ free' = free
    BY Zenon DEF Kept
  <2>2. ASSUME NEW p \in InFlight' PROVE Formatted(p)' /\ Own(p)' \cap free' = {}
    BY <1>2, <1>3, <2>1, <2>2, Zenon DEF OwnInv
  <2>3. ASSUME NEW p \in InFlight', NEW q \in InFlight', Own(p)' \cap Own(q)' # {} PROVE p = q
    <3>1. p \in InFlight /\ q \in InFlight
      BY <2>1, <2>3, Zenon
    <3>2. Own(p) \cap Own(q) # {}
      BY <1>2, <2>3, <3>1, Zenon
    <3>. QED BY <3>1, <3>2, Zenon DEF OwnInv
  <2>4. ASSUME NEW i \in Descs PROVE i \in free' \/ \E p \in InFlight' : i \in Own(p)'
    <3>1. i \in free \/ \E p \in InFlight : i \in Own(p)
      BY <2>4, Zenon DEF OwnInv
    <3>. QED BY <1>2, <2>1, <3>1, Zenon
  <2>. QED BY <2>2, <2>3, <2>4, Zenon DEF OwnInv
<1>. QED BY <1>1, <1>4, Zenon

\* Nothing moves in the rings, and nobody falls asleep on a finished request.
Still ==
  /\ Kept
  /\ UNCHANGED <<status, done, ringVars, disk>>
  /\ \A p \in InFlight : buf'[p] = buf[p]
  /\ \A p \in Procs : pc'[p] = "sleep_done" => p \in InFlight /\ ~done[First(p)]

\* Such a step keeps everything but types and wakeups.
LEMMA StillInv ==
  ASSUME DiskInv, Still, Transferred'
  PROVE  RingInv' /\ OwnInv' /\ StageInv' /\ MovedInv'
<1>1. Kept /\ OwnInv /\ StageInv /\ MovedInv /\ RingInv
  BY Zenon DEF DiskInv, Still
<1>2. /\ OwnInv'
      /\ \A p \in InFlight : /\ First(p)' = First(p) /\ Second(p)' = Second(p)
                             /\ Third(p)' = Third(p)
  BY <1>1, KeptOwn, Zenon
<1>3. /\ avail' = avail /\ availIdx' = availIdx /\ usedRing' = usedRing
      /\ usedRingIdx' = usedRingIdx /\ used_idx' = used_idx /\ devIdx' = devIdx
      /\ pending' = pending /\ done' = done /\ status' = status /\ disk' = disk
  BY Zenon DEF Still, ringVars
<1>4. Available' = Available /\ Used' = Used /\ RingInv'
  BY <1>1, <1>3, Zenon DEF Available, Used, RingInv
<1>5. Busy' = Busy /\ InFlight' = InFlight
  BY <1>1, <1>3, <1>4, Zenon DEF Busy, Kept
<1>6. StageInv'
  <2>1. ASSUME NEW p \in Procs, pc'[p] = "sleep_done" PROVE ~(done'[First(p)'])
    BY <1>2, <1>3, <2>1, Zenon DEF Still
  <2>. QED BY <1>1, <1>2, <1>3, <1>4, <1>5, <2>1, Zenon DEF StageInv
<1>7. MovedInv'
  BY <1>1, <1>2, <1>3, <1>4, <1>5, Zenon DEF MovedInv, Still
<1>. QED BY <1>2, <1>4, <1>6, <1>7, Zenon

-----------------------------------------------------------------------------
(* The start *)

\* At the start the rings are empty and every descriptor is free.
LEMMA InitInv == Init => DiskInv
<1> SUFFICES ASSUME Init PROVE DiskInv
  BY Zenon
<1> USE DEF Init
<1>1. 0 \in Descs /\ 0 \in Idxs /\ NUM > 0
  BY Sizes DEF Descs, Idxs
<1>2. TypeInv
  <2>1. NoDesc \in [addr : Addrs, next : Descs, more : BOOLEAN]
    BY <1>1, Zenon DEF NoDesc, Addrs
  <2>2. NoOp \in [write : BOOLEAN, block : Procs \cup {NoBlock}]
    BY Zenon DEF NoOp
  <2>3. NoReq \in [head : Descs, write : BOOLEAN]
    BY <1>1, Zenon DEF NoReq
  <2>. QED BY <1>1, <2>1, <2>2, <2>3, Zenon DEF TypeInv, Points
<1>3. Count(0, 0) = 0
  BY <1>1, CountType, Sizes
<1>4. RingInv
  <2>1. \A j, k \in 0 .. 0 - 1 : j = k
    OBVIOUS
  <2>. QED BY <1>1, <1>3, <2>1, Zenon DEF RingInv, IsQueue
<1>5. Available = {} /\ Used = {}
  <2>1. \A ring : \A h : h \notin Window(ring, 0, 0)
    <3>1. \A k \in 0 .. 0 - 1 : FALSE
      OBVIOUS
    <3>2. 0 \in Nat
      BY Zenon
    <3>3. ASSUME NEW ring, NEW h PROVE h \notin Window(ring, 0, 0)
      BY ONLY <1>1, <1>3, <3>1, <3>2, InWindow, Zenon
    <3>. QED BY <3>3, Zenon
  <2>. QED BY <2>1, Zenon DEF Available, Used
<1>6. InFlight = {} /\ \A p \in Procs : pc[p] = "idle"
  BY Zenon DEF InFlight
<1>7. OwnInv
  BY <1>6, Zenon DEF OwnInv
<1>8. StageInv
  BY <1>5, <1>6, Zenon DEF StageInv, Busy
<1>9. MovedInv
  BY <1>6, Zenon DEF MovedInv, Transferred
<1>10. WakeInv
  BY <1>6, Zenon DEF WakeInv
<1>. QED BY <1>2, <1>4, <1>7, <1>8, <1>9, <1>10, Zenon DEF DiskInv

-----------------------------------------------------------------------------
(* The steps of the processes that move nothing *)

\* The steps with which a process gets ready and is done.
LEMMA RwInv == ASSUME DiskInv, NEW p \in Procs, rw(p) PROVE DiskInv'
<1>1. PICK w \in BOOLEAN, v \in Vals :
        buf' = [buf EXCEPT ![p] = v] /\ req' = [req EXCEPT ![p].write = w]
  BY Zenon DEF rw
<1>2. /\ pc[p] = "idle" /\ pc' = [pc EXCEPT ![p] = "alloc"]
      /\ UNCHANGED <<free, desc, ops, status, done, ringVars, ctlVars, disk>>
  BY Zenon DEF rw, Goto
<1>3. TypeInv /\ req \in [Procs -> [head : Descs, write : BOOLEAN]]
  BY Zenon DEF DiskInv, TypeInv
<1>4. /\ req' \in [Procs -> [head : Descs, write : BOOLEAN]]
      /\ \A q \in Procs : q # p => req'[q] = req[q]
  BY ONLY <1>1, <1>3, p \in Procs, w \in BOOLEAN, SMT
<1>5. pc \in [Procs -> Points] /\ buf \in [Procs -> Vals]
  BY <1>3, Zenon DEF TypeInv
<1>6. pc' \in [Procs -> Points] /\ buf' \in [Procs -> Vals]
  BY <1>1, <1>2, <1>5, Zenon DEF Points
<1>7. /\ pc'[p] = "alloc"
      /\ \A q \in Procs : q # p => pc'[q] = pc[q] /\ buf'[q] = buf[q]
  BY <1>1, <1>2, <1>5, Zenon
<1>8. TypeInv'
  BY <1>2, <1>3, <1>4, <1>6, Zenon DEF TypeInv, ringVars, ctlVars
<1>9. InFlight' = InFlight /\ p \notin InFlight
  BY <1>2, <1>7, Zenon DEF InFlight
<1>10. Kept
  BY <1>2, <1>4, <1>9, Zenon DEF Kept, InFlight
<1>11. Still
  <2>1. ASSUME NEW q \in Procs, pc'[q] = "sleep_done" PROVE q \in InFlight /\ ~done[First(q)]
    <3>1. pc[q] = "sleep_done"
      BY <1>7, <2>1, Zenon
    <3>. QED BY <3>1, Zenon DEF InFlight, DiskInv, StageInv
  <2>. QED BY <1>2, <1>7, <1>9, <1>10, <2>1, Zenon DEF Still, InFlight
<1>12. Transferred'
  BY <1>2, <1>7, Zenon DEF Transferred, DiskInv, MovedInv
<1>13. WakeInv'
  BY <1>2, <1>7, Zenon DEF WakeInv, DiskInv, ringVars, ctlVars
<1>. QED BY <1>8, <1>11, <1>12, <1>13, StillInv, Zenon DEF DiskInv

\* alloc3_desc() fails when fewer than three descriptors are free.
LEMMA AllocFailInv ==
  ASSUME DiskInv, FreeCounted, NEW p \in Procs, alloc_fail(p)
  PROVE  DiskInv'
<1>1. /\ pc[p] = "alloc" /\ Cardinality(free) < 3
      /\ pc' = [(IF free = {} THEN pc ELSE WakeFree(pc)) EXCEPT ![p] = "sleep_free"]
      /\ UNCHANGED <<free, desc, ops, status, done, ringVars, ctlVars, disk, buf, req>>
  BY Zenon DEF alloc_fail
<1>2. TypeInv
  BY Zenon DEF DiskInv
<1>3. pc \in [Procs -> Points] /\ "sleep_free" \in Points /\ "alloc" \in Points
  BY <1>2, Zenon DEF TypeInv, Points
<1>4. PICK f \in [Procs -> Points] :
        /\ pc' = [f EXCEPT ![p] = "sleep_free"]
        /\ \A q \in Procs : f[q] = pc[q] \/ (pc[q] = "sleep_free" /\ f[q] = "alloc")
  <2>1. WakeFree(pc) \in [Procs -> Points]
    BY <1>3, Zenon DEF WakeFree
  <2>2. \A q \in Procs : WakeFree(pc)[q] = pc[q]
                            \/ (pc[q] = "sleep_free" /\ WakeFree(pc)[q] = "alloc")
    BY <1>3, Zenon DEF WakeFree
  <2>3. CASE free = {}
    BY <1>1, <1>3, <2>3, Zenon
  <2>4. CASE free # {}
    BY <1>1, <2>1, <2>2, <2>4, Zenon
  <2>. QED BY <2>3, <2>4, Zenon
<1>5. /\ pc' \in [Procs -> Points] /\ pc'[p] = "sleep_free"
      /\ \A q \in Procs : q # p => pc'[q] = pc[q] \/ (pc[q] = "sleep_free" /\ pc'[q] = "alloc")
  BY <1>3, <1>4, Zenon
<1>6. TypeInv'
  BY <1>1, <1>2, <1>5, Zenon DEF TypeInv, ringVars, ctlVars
<1>7. InFlight' = InFlight
  BY <1>1, <1>5, Zenon DEF InFlight
<1>8. Kept
  BY <1>1, <1>7, Zenon DEF Kept
<1>9. Still
  <2>1. ASSUME NEW q \in Procs, pc'[q] = "sleep_done" PROVE q \in InFlight /\ ~done[First(q)]
    <3>1. pc[q] = "sleep_done"
      BY <1>5, <2>1, Zenon
    <3>. QED BY <3>1, Zenon DEF InFlight, DiskInv, StageInv
  <2>. QED BY <1>1, <1>8, <2>1, Zenon DEF Still
<1>10. Transferred'
  BY <1>1, <1>5, Zenon DEF Transferred, DiskInv, MovedInv
<1>11. Cardinality(free) \in Nat
  BY Zenon DEF FreeCounted
<1>12. WakeInv'
  BY <1>1, <1>11 DEF WakeInv, DiskInv, ringVars, ctlVars
<1>. QED BY <1>6, <1>9, <1>10, <1>12, StillInv, Zenon DEF DiskInv

\* The status is checked, with the request already gone.
LEMMA CheckInv == ASSUME DiskInv, NEW p \in Procs, check(p) PROVE DiskInv'
<1>1. /\ pc[p] = "check" /\ pc' = [pc EXCEPT ![p] = "idle"]
      /\ req' = [req EXCEPT ![p] = NoReq] /\ panicked' \in BOOLEAN
      /\ UNCHANGED <<free, desc, ops, status, done, ringVars, irq, handler, disk, buf>>
  BY Zenon DEF check, Goto
<1>2. TypeInv
  BY Zenon DEF DiskInv
<1>3. NoReq \in [head : Descs, write : BOOLEAN]
  BY Sizes DEF NoReq, Descs
<1>4. /\ pc \in [Procs -> Points] /\ req \in [Procs -> [head : Descs, write : BOOLEAN]]
      /\ "idle" \in Points
  BY <1>2, Zenon DEF TypeInv, Points
<1>5. /\ pc' \in [Procs -> Points] /\ req' \in [Procs -> [head : Descs, write : BOOLEAN]]
      /\ pc'[p] = "idle" /\ \A q \in Procs : q # p => pc'[q] = pc[q] /\ req'[q] = req[q]
  BY <1>1, <1>3, <1>4, Zenon
<1>6. TypeInv'
  BY <1>1, <1>2, <1>5, Zenon DEF TypeInv, ringVars
<1>7. InFlight' = InFlight /\ p \notin InFlight
  BY <1>1, <1>5, Zenon DEF InFlight
<1>8. Kept
  BY <1>1, <1>5, <1>7, Zenon DEF Kept, InFlight
<1>9. Still
  <2>1. ASSUME NEW q \in Procs, pc'[q] = "sleep_done" PROVE q \in InFlight /\ ~done[First(q)]
    <3>1. pc[q] = "sleep_done"
      BY <1>5, <2>1, Zenon
    <3>. QED BY <3>1, Zenon DEF InFlight, DiskInv, StageInv
  <2>. QED BY <1>1, <1>8, <2>1, Zenon DEF Still
<1>10. Transferred'
  BY <1>1, <1>5, Zenon DEF Transferred, DiskInv, MovedInv
<1>11. WakeInv'
  BY <1>1, <1>5, Zenon DEF WakeInv, DiskInv, ringVars
<1>. QED BY <1>6, <1>9, <1>10, <1>11, StillInv, Zenon DEF DiskInv

\* The handler starts and ends: it ends when it has seen the whole used ring.
LEMMA HandlerInv == ASSUME DiskInv, intr \/ intr_end PROVE DiskInv'
<1>1. /\ handler' \in BOOLEAN /\ irq' \in BOOLEAN
      /\ used_idx # usedRingIdx => irq' \/ handler'
      /\ UNCHANGED <<free, desc, ops, status, done, ringVars, panicked, disk, buf, pc, req>>
  <2>1. irq \in BOOLEAN
    BY Zenon DEF DiskInv, TypeInv
  <2>2. CASE intr
    BY <2>2, Zenon DEF intr
  <2>3. CASE intr_end
    BY <2>1, <2>3, Zenon DEF intr_end
  <2>. QED BY <2>2, <2>3, Zenon
<1>2. TypeInv'
  BY <1>1, Zenon DEF DiskInv, TypeInv, ringVars
<1>3. Kept
  BY <1>1, Zenon DEF Kept, InFlight
<1>4. Still
  <2>1. ASSUME NEW q \in Procs, pc'[q] = "sleep_done" PROVE q \in InFlight /\ ~done[First(q)]
    BY <1>1, <2>1, Zenon DEF InFlight, DiskInv, StageInv
  <2>. QED BY <1>1, <1>3, <2>1, Zenon DEF Still
<1>5. Transferred'
  BY <1>1, Zenon DEF Transferred, DiskInv, MovedInv
<1>6. WakeInv'
  BY <1>1, Zenon DEF WakeInv, DiskInv, ringVars
<1>. QED BY <1>2, <1>4, <1>5, <1>6, StillInv, Zenon DEF DiskInv

\* A process that finds its request unfinished goes back to sleep.
LEMMA AgainInv ==
  ASSUME DiskInv, NEW p \in Procs, complete(p), ~done[First(p)]
  PROVE  DiskInv'
<1>1. /\ pc[p] = "wait" /\ pc' = [pc EXCEPT ![p] = "sleep_done"]
      /\ UNCHANGED <<free, desc, ops, status, done, ringVars, ctlVars, disk, buf, req>>
  BY Zenon DEF complete, Goto, First
<1>2. TypeInv
  BY Zenon DEF DiskInv
<1>3. pc \in [Procs -> Points] /\ "sleep_done" \in Points
  BY <1>2, Zenon DEF TypeInv, Points
<1>4. /\ pc' \in [Procs -> Points] /\ pc'[p] = "sleep_done"
      /\ \A q \in Procs : q # p => pc'[q] = pc[q]
  BY <1>1, <1>3, Zenon
<1>5. TypeInv'
  BY <1>1, <1>2, <1>4, Zenon DEF TypeInv, ringVars, ctlVars
<1>6. InFlight' = InFlight /\ p \in InFlight
  BY <1>1, <1>4, Zenon DEF InFlight
<1>7. Kept
  BY <1>1, <1>6, Zenon DEF Kept
<1>8. Still
  <2>1. ASSUME NEW q \in Procs, pc'[q] = "sleep_done" PROVE q \in InFlight /\ ~done[First(q)]
    <3>1. CASE q = p
      BY <1>6, <3>1, Zenon
    <3>2. CASE q # p
      <4>1. pc[q] = "sleep_done"
        BY <1>4, <2>1, <3>2, Zenon
      <4>. QED BY <4>1, Zenon DEF InFlight, DiskInv, StageInv
    <3>. QED BY <3>1, <3>2, Zenon
  <2>. QED BY <1>1, <1>7, <2>1, Zenon DEF Still
<1>9. Transferred'
  BY <1>1, <1>4, Zenon DEF Transferred, DiskInv, MovedInv
<1>10. WakeInv'
  BY <1>1, <1>4, Zenon DEF WakeInv, DiskInv, ringVars, ctlVars
<1>. QED BY <1>5, <1>8, <1>9, <1>10, StillInv, Zenon DEF DiskInv

-----------------------------------------------------------------------------
(* The steps that move a request on *)

\* The device takes a request from the available ring.
LEMMA FetchInv == ASSUME DiskInv, dev_fetch PROVE DiskInv'
<1>1. TypeInv /\ RingInv /\ OwnInv /\ StageInv /\ MovedInv /\ WakeInv
  BY Zenon DEF DiskInv
<1>2. /\ devIdx # availIdx /\ pending' = pending \cup {avail[devIdx % NUM]}
      /\ avail' = [avail EXCEPT ![devIdx % NUM] = 0] /\ devIdx' = Inc(devIdx)
      /\ free' = free /\ desc' = desc /\ ops' = ops /\ status' = status /\ done' = done
      /\ availIdx' = availIdx /\ usedRing' = usedRing /\ usedRingIdx' = usedRingIdx
      /\ used_idx' = used_idx /\ irq' = irq /\ handler' = handler /\ panicked' = panicked
      /\ disk' = disk /\ buf' = buf /\ pc' = pc /\ req' = req
  BY Zenon DEF dev_fetch, ctlVars
<1>3. 0 \in Descs
  BY Sizes DEF Descs
<1>4. PICK h \in Descs : h = avail[devIdx % NUM] /\ h \in Available /\ Available' = Available \ {h}
        /\ IsQueue(avail', devIdx', availIdx') /\ avail' \in [Descs -> Descs] /\ devIdx' \in Idxs
  <2>1. /\ avail \in [Descs -> Descs] /\ devIdx \in Idxs /\ availIdx \in Idxs
        /\ IsQueue(avail, devIdx, availIdx)
    BY <1>1, Zenon DEF TypeInv, RingInv
  <2>2. LET h == avail[devIdx % NUM] IN
        /\ h \in Descs /\ h \in Available
        /\ avail' \in [Descs -> Descs] /\ Inc(devIdx) \in Idxs
        /\ IsQueue(avail', Inc(devIdx), availIdx)
        /\ Window(avail', Inc(devIdx), availIdx) = Available \ {h}
    BY <1>2, <1>3, <2>1, QueuePop, Zenon DEF Available, Put
  <2>3. Available' = Window(avail', Inc(devIdx), availIdx)
    BY <1>2, Zenon DEF Available
  <2>. QED BY <1>2, <2>2, <2>3, Zenon
<1>5. Used' = Used /\ pending' = pending \cup {h} /\ Busy' = Busy
  <2>1. Used' = Used /\ pending' = pending \cup {h}
    BY <1>2, <1>4, Zenon DEF Used
  <2>2. (Available \ {h}) \cup (pending \cup {h}) \cup Used = Available \cup pending \cup Used
    BY <1>4, Zenon
  <2>. QED BY <1>4, <2>1, <2>2, Zenon DEF Busy
<1>6. RingInv'
  BY <1>1, <1>2, <1>4, Zenon DEF RingInv
<1>7. TypeInv'
  <2>1. pending' \in SUBSET Descs
    BY <1>1, <1>4, <1>5, Zenon DEF TypeInv
  <2>. QED BY <1>1, <1>2, <1>4, <2>1, Zenon DEF TypeInv
<1>8. Kept
  BY <1>2, Zenon DEF Kept, InFlight
<1>9. OwnInv' /\ \A p \in InFlight : First(p)' = First(p)
  BY <1>1, <1>8, KeptOwn, Zenon
<1>10. \A p : First(p)' = First(p)
  BY <1>2, Zenon DEF First
<1>11. StageInv'
  <2>1. /\ Available' \cap pending' = {} /\ Available' \cap Used' = {}
        /\ pending' \cap Used' = {}
    BY <1>1, <1>4, <1>5, Zenon DEF StageInv
  <2>. QED BY <1>1, <1>2, <1>5, <1>8, <1>10, <2>1, Zenon DEF StageInv, Kept
<1>12. MovedInv'
  BY <1>1, <1>2, <1>5, <1>8, <1>10, Zenon DEF MovedInv, Kept, Transferred
<1>13. WakeInv'
  BY <1>1, <1>2, Zenon DEF WakeInv
<1>. QED BY <1>6, <1>7, <1>9, <1>11, <1>12, <1>13, Zenon DEF DiskInv

\* What the device reads from the descriptors of a request.
LEMMA DeviceView ==
  ASSUME OwnInv, NEW p \in InFlight, NEW h, h = First(p)
  PROVE  /\ ops[desc[h].addr[2]].write = req[p].write /\ ops[desc[h].addr[2]].block = p
         /\ desc[desc[h].next].addr[2] = p
         /\ desc[desc[desc[h].next].next].addr[2] = h
<1>1. Formatted(p)
  BY Zenon DEF OwnInv
<1>2. /\ desc[h].addr = <<"op", h>> /\ desc[desc[h].next].addr = <<"buf", p>>
      /\ desc[desc[desc[h].next].next].addr = <<"status", h>> /\ ops[h] = Header(p)
  BY <1>1, Zenon DEF Formatted, First, Second, Third
<1>3. /\ desc[h].addr[2] = h /\ desc[desc[h].next].addr[2] = p
      /\ desc[desc[desc[h].next].next].addr[2] = h
  <2>1. ASSUME NEW s, NEW x, NEW y, s = <<x, y>> PROVE s[2] = y
    BY <2>1
  <2>2. desc[h].addr[2] = h
    BY <1>2, <2>1, Zenon
  <2>3. desc[desc[h].next].addr[2] = p
    BY <1>2, <2>1, Zenon
  <2>4. desc[desc[desc[h].next].next].addr[2] = h
    BY <1>2, <2>1, Zenon
  <2>. QED BY <2>2, <2>3, <2>4, Zenon
<1>4. Header(p).write = req[p].write /\ Header(p).block = p
  BY Zenon DEF Header
<1>. QED BY <1>2, <1>3, <1>4, Zenon

\* The device moves data only for the request it completes, in its direction.
LEMMA DeviceMoves ==
  ASSUME TypeInv, OwnInv, NEW h, dev_complete(h), NEW q \in InFlight, h = First(q)
  PROVE  /\ disk' \in [Procs -> Vals] /\ buf' \in [Procs -> Vals]
         /\ disk'[q] = buf'[q] /\ status' = [status EXCEPT ![h] = "ok"]
         /\ \A p \in Procs : p # q => disk'[p] = disk[p] /\ buf'[p] = buf[p]
         /\ req[q].write => buf' = buf /\ disk'[q] = buf[q]
         /\ ~req[q].write => disk' = disk
<1>1. /\ ops[desc[h].addr[2]].write = req[q].write /\ ops[desc[h].addr[2]].block = q
      /\ desc[desc[h].next].addr[2] = q
      /\ desc[desc[desc[h].next].next].addr[2] = h
  BY DeviceView, Zenon
<1>2. /\ IF req[q].write
         THEN disk' = [disk EXCEPT ![q] = buf[q]] /\ buf' = buf
         ELSE buf' = [buf EXCEPT ![q] = disk[q]] /\ disk' = disk
      /\ status' = [status EXCEPT ![h] = "ok"]
  BY <1>1, Zenon DEF dev_complete
<1>3. q \in Procs /\ disk \in [Procs -> Vals] /\ buf \in [Procs -> Vals]
  BY Zenon DEF TypeInv, InFlight
<1>4. CASE req[q].write
  BY <1>2, <1>3, <1>4, Zenon
<1>5. CASE ~req[q].write
  BY <1>2, <1>3, <1>5, Zenon
<1>. QED BY <1>4, <1>5, Zenon

\* The device finishes a request: data, status, used ring, interrupt.
LEMMA DeviceInv ==
  ASSUME DiskInv, RoomLeft, NEW h \in Descs, dev_complete(h)
  PROVE  DiskInv'
<1>1. TypeInv /\ RingInv /\ OwnInv /\ StageInv /\ MovedInv /\ WakeInv
  BY Zenon DEF DiskInv
<1>2. /\ h \in pending /\ usedRing' = [usedRing EXCEPT ![usedRingIdx % NUM] = h]
      /\ usedRingIdx' = Inc(usedRingIdx) /\ pending' = pending \ {h} /\ irq' = TRUE
      /\ free' = free /\ desc' = desc /\ ops' = ops /\ done' = done /\ avail' = avail
      /\ availIdx' = availIdx /\ used_idx' = used_idx /\ devIdx' = devIdx
      /\ handler' = handler /\ panicked' = panicked /\ pc' = pc /\ req' = req
  BY Zenon DEF dev_complete
<1>3. h \in Busy /\ h \notin Available /\ h \notin Used /\ ~done[h]
  BY <1>1, <1>2, Zenon DEF StageInv, Busy
<1>4. PICK q \in InFlight : h = First(q)
  BY <1>1, <1>3, Zenon DEF StageInv
<1>5. /\ disk' \in [Procs -> Vals] /\ buf' \in [Procs -> Vals]
      /\ disk'[q] = buf'[q] /\ status' = [status EXCEPT ![h] = "ok"]
      /\ \A p \in Procs : p # q => disk'[p] = disk[p] /\ buf'[p] = buf[p]
  BY <1>1, <1>4, DeviceMoves, Zenon
<1>6. q \in Procs
  BY Zenon DEF InFlight
<1>7. /\ usedRing' \in [Descs -> Descs] /\ usedRingIdx' \in Idxs
      /\ IsQueue(usedRing', used_idx', usedRingIdx') /\ Used' = Used \cup {h}
  <2>1. PICK x \in Descs, y \in Descs : x # y /\ x \notin Busy /\ y \notin Busy
    <3>1. Second(q) \in Descs /\ Third(q) \in Descs
      BY <1>1, <1>6, Parts, Zenon
    <3>2. Second(q) # Third(q)
      BY <1>1, Zenon DEF OwnInv, Formatted
    <3>3. Second(q) \notin Busy /\ Third(q) \notin Busy
      BY <1>1, OnlyHeads, Zenon
    <3>. QED BY <3>1, <3>2, <3>3, Zenon
  <2>2. /\ usedRing \in [Descs -> Descs] /\ used_idx \in Idxs /\ usedRingIdx \in Idxs
        /\ IsQueue(usedRing, used_idx, usedRingIdx)
    BY <1>1, Zenon DEF TypeInv, RingInv
  <2>3. x \notin Used /\ y \notin Used
    BY <2>1, Zenon DEF Busy
  <2>4. Count(used_idx, usedRingIdx) + 1 < NUM
    BY <2>1, <2>2, <2>3, Zenon DEF RoomLeft, Used
  <2>5. /\ usedRing' \in [Descs -> Descs] /\ Inc(usedRingIdx) \in Idxs
        /\ IsQueue(usedRing', used_idx, Inc(usedRingIdx))
        /\ Window(usedRing', used_idx, Inc(usedRingIdx)) = Used \cup {h}
    <3>1. h \notin Window(usedRing, used_idx, usedRingIdx)
      BY <1>3, Zenon DEF Used
    <3>2. PICK ring \in [Descs -> Descs], from \in Idxs, to \in Idxs :
            /\ ring = usedRing /\ from = used_idx /\ to = usedRingIdx
      BY <2>2, Zenon
    <3>3. IsQueue(ring, from, to) /\ h \notin Window(ring, from, to) /\ Count(from, to) + 1 < NUM
      BY <2>2, <2>4, <3>1, <3>2, Zenon
    <3>4. PICK r2 : r2 = Put(ring, to, h)
      BY Zenon
    <3>5. /\ r2 \in [Descs -> Descs] /\ Inc(to) \in Idxs /\ IsQueue(r2, from, Inc(to))
          /\ Window(r2, from, Inc(to)) = Window(ring, from, to) \cup {h}
      BY ONLY ring \in [Descs -> Descs], from \in Idxs, to \in Idxs, h \in Descs, <3>3, <3>4,
              QueuePush, SMT
    <3>6. r2 = usedRing'
      BY <1>2, <3>2, <3>4, Zenon DEF Put
    <3>. QED BY <3>2, <3>5, <3>6, Zenon DEF Used
  <2>. QED BY <1>2, <2>5, Zenon DEF Used
<1>8. Available' = Available /\ Busy' = Busy
  <2>1. Available' = Available
    BY <1>2, Zenon DEF Available
  <2>2. Available \cup (pending \ {h}) \cup (Used \cup {h}) = Available \cup pending \cup Used
    BY <1>2, Zenon
  <2>. QED BY <1>2, <1>7, <2>1, <2>2, Zenon DEF Busy
<1>9. RingInv'
  BY <1>1, <1>2, <1>7, Zenon DEF RingInv
<1>10. TypeInv'
  <2>1. pending' \in SUBSET Descs
    BY <1>1, <1>2, Zenon DEF TypeInv
  <2>2. status' \in [Descs -> {"ok", "unset"}]
    BY <1>1, <1>5, Zenon DEF TypeInv
  <2>. QED BY <1>1, <1>2, <1>5, <1>7, <2>1, <2>2, Zenon DEF TypeInv
<1>11. Kept
  BY <1>2, Zenon DEF Kept, InFlight
<1>12. OwnInv'
  BY <1>1, <1>11, KeptOwn, Zenon
<1>13. \A p : First(p)' = First(p)
  BY <1>2, Zenon DEF First
<1>14. StageInv'
  <2>1. /\ Available' \cap pending' = {} /\ Available' \cap Used' = {}
        /\ pending' \cap Used' = {}
    <3>1. /\ Available \cap pending = {} /\ Available \cap Used = {}
          /\ pending \cap Used = {}
      BY <1>1, Zenon DEF StageInv
    <3>2. /\ Available \cap (pending \ {h}) = {} /\ Available \cap (Used \cup {h}) = {}
          /\ (pending \ {h}) \cap (Used \cup {h}) = {}
      BY <1>3, <3>1, Zenon
    <3>. QED BY <1>2, <1>7, <1>8, <3>2, Zenon
  <2>. QED BY <1>1, <1>2, <1>8, <1>11, <1>13, <2>1, Zenon DEF StageInv, Kept
<1>15. MovedInv'
  <2>1. ASSUME NEW p \in Procs, pc'[p] \in {"check", "idle"} PROVE buf'[p] = disk'[p]
    BY <1>1, <1>2, <1>5, <2>1, Zenon DEF MovedInv, Transferred
  <2>2. ASSUME NEW p \in InFlight, done[First(p)] \/ First(p) \in Used'
        PROVE  status'[First(p)] = "ok" /\ buf'[p] = disk'[p]
    <3>1. First(p) \in Descs /\ p \in Procs /\ status \in [Descs -> {"ok", "unset"}]
      BY <1>1, Parts, Zenon DEF InFlight, TypeInv
    <3>2. CASE p = q
      BY <1>4, <1>5, <3>1, <3>2, Zenon
    <3>3. CASE p # q
      <4>1. First(p) # h
        BY <1>1, <1>4, <3>3, Heads, Zenon
      <4>2. done[First(p)] \/ First(p) \in Used
        BY <1>7, <2>2, <4>1, Zenon
      <4>3. status[First(p)] = "ok" /\ buf[p] = disk[p]
        BY <1>1, <4>2, Zenon DEF MovedInv
      <4>. QED BY <1>5, <3>1, <3>3, <4>1, <4>3, Zenon
    <3>. QED BY <3>2, <3>3, Zenon
  <2>3. Transferred'
    BY <2>1, Zenon DEF Transferred
  <2>. QED BY <1>2, <1>11, <1>13, <2>2, <2>3, Zenon DEF MovedInv, Kept
<1>16. WakeInv'
  BY <1>1, <1>2, Zenon DEF WakeInv
<1>. QED BY <1>9, <1>10, <1>12, <1>14, <1>15, <1>16, Zenon DEF DiskInv

\* The handler finishes the next request of the used ring, whose status is 0, and
\* wakes its process.
LEMMA IntrUsedInv == ASSUME DiskInv, intr_used PROVE DiskInv'
<1>1. TypeInv /\ RingInv /\ OwnInv /\ StageInv /\ MovedInv /\ WakeInv
  BY Zenon DEF DiskInv
<1>2. used_idx # usedRingIdx /\ handler
  BY Zenon DEF intr_used
<1>3. 0 \in Descs
  BY Sizes DEF Descs
<1>4. PICK id \in Descs :
        /\ id = usedRing[used_idx % NUM] /\ id \in Used
        /\ LET r == Put(usedRing, used_idx, 0) IN
           /\ r \in [Descs -> Descs] /\ Inc(used_idx) \in Idxs
           /\ IsQueue(r, Inc(used_idx), usedRingIdx)
           /\ Window(r, Inc(used_idx), usedRingIdx) = Used \ {id}
  <2>1. /\ usedRing \in [Descs -> Descs] /\ used_idx \in Idxs /\ usedRingIdx \in Idxs
        /\ IsQueue(usedRing, used_idx, usedRingIdx)
    BY <1>1, Zenon DEF TypeInv, RingInv
  <2>2. PICK r : r = Put(usedRing, used_idx, 0)
    BY Zenon
  <2>3. LET h == usedRing[used_idx % NUM] IN
        /\ h \in Descs /\ h \in Window(usedRing, used_idx, usedRingIdx)
        /\ r \in [Descs -> Descs] /\ Inc(used_idx) \in Idxs
        /\ IsQueue(r, Inc(used_idx), usedRingIdx)
        /\ Window(r, Inc(used_idx), usedRingIdx)
             = Window(usedRing, used_idx, usedRingIdx) \ {h}
    BY <1>2, <1>3, <2>1, <2>2, QueuePop, Zenon
  <2>. QED BY <2>2, <2>3, Zenon DEF Used
<1>5. PICK q \in InFlight : id = First(q)
  BY <1>1, <1>4, Zenon DEF StageInv, Busy
<1>6. q \in Procs /\ status[id] = "ok" /\ buf[q] = disk[q]
  BY <1>1, <1>4, <1>5, Zenon DEF MovedInv, InFlight
<1>7. /\ done' = [done EXCEPT ![id] = TRUE] /\ pc' = WakeDone(pc, id)
      /\ usedRing' = Put(usedRing, used_idx, 0) /\ used_idx' = Inc(used_idx)
      /\ panicked' = panicked
      /\ free' = free /\ desc' = desc /\ ops' = ops /\ status' = status /\ avail' = avail
      /\ availIdx' = availIdx /\ usedRingIdx' = usedRingIdx /\ devIdx' = devIdx
      /\ pending' = pending /\ irq' = irq /\ handler' = handler /\ disk' = disk
      /\ buf' = buf /\ req' = req
  BY <1>4, <1>6, Zenon DEF intr_used, Put
<1>8. /\ usedRing' \in [Descs -> Descs] /\ used_idx' \in Idxs /\ RingInv'
      /\ Used' = Used \ {id} /\ Available' = Available
  BY <1>1, <1>4, <1>7, Zenon DEF RingInv, Used, Available
<1>9. /\ pc' \in [Procs -> Points]
      /\ \A p \in Procs : IF pc[p] = "sleep_done" /\ First(p) = id
                          THEN pc'[p] = "wait" ELSE pc'[p] = pc[p]
  <2>1. pc \in [Procs -> Points] /\ "wait" \in Points
    BY <1>1, Zenon DEF TypeInv, Points
  <2>. QED BY <1>7, <2>1, Zenon DEF WakeDone, First
<1>10. /\ done' \in [Descs -> BOOLEAN] /\ done'[id] = TRUE
       /\ \A i \in Descs : i # id => done'[i] = done[i]
  BY <1>1, <1>7, Zenon DEF TypeInv
<1>11. TypeInv'
  BY <1>1, <1>7, <1>8, <1>9, <1>10, Zenon DEF TypeInv
<1>12. InFlight' = InFlight
  BY <1>9, Zenon DEF InFlight
<1>13. Kept
  BY <1>7, <1>12, Zenon DEF Kept
<1>14. OwnInv'
  BY <1>1, <1>13, KeptOwn, Zenon
<1>15. \A p : First(p)' = First(p)
  BY <1>7, Zenon DEF First
<1>16. Busy' = Busy \ {id}
  <2>1. id \notin Available /\ id \notin pending
    BY <1>1, <1>4, Zenon DEF StageInv
  <2>2. Available \cup pending \cup (Used \ {id}) = (Available \cup pending \cup Used) \ {id}
    BY <2>1, Zenon
  <2>. QED BY <1>7, <1>8, <2>2, Zenon DEF Busy
<1>17. Busy \subseteq Descs
  <2>1. ASSUME NEW h \in Busy PROVE h \in Descs
    <3>1. PICK p \in InFlight : First(p) = h
      BY <1>1, <2>1, Zenon DEF StageInv
    <3>. QED BY <1>1, <3>1, Parts, Zenon DEF InFlight
  <2>. QED BY <2>1, Zenon
<1>18. StageInv'
  <2>1. /\ Available' \cap pending' = {} /\ Available' \cap Used' = {}
        /\ pending' \cap Used' = {}
    BY <1>1, <1>7, <1>8, Zenon DEF StageInv
  <2>2. ASSUME NEW h \in Busy' PROVE ~done'[h] /\ \E p \in InFlight' : First(p)' = h
    <3>1. h \in Busy /\ h # id /\ h \in Descs
      BY <1>16, <1>17, <2>2, Zenon
    <3>. QED BY <1>1, <1>10, <1>12, <1>15, <3>1, Zenon DEF StageInv
  <2>3. ASSUME NEW p \in InFlight' PROVE done'[First(p)'] \/ First(p)' \in Busy'
    <3>1. p \in InFlight /\ First(p)' = First(p) /\ First(p) \in Descs
      BY <1>1, <1>12, <1>15, <2>3, Parts, Zenon DEF InFlight
    <3>2. CASE First(p) = id
      BY <1>10, <3>1, <3>2, Zenon
    <3>3. CASE First(p) # id
      BY <1>1, <1>10, <1>16, <3>1, <3>3, Zenon DEF StageInv
    <3>. QED BY <3>2, <3>3, Zenon
  <2>4. ASSUME NEW p \in Procs, pc'[p] = "sleep_done" PROVE ~done'[First(p)']
    <3>1. pc[p] = "sleep_done" /\ First(p) # id
      BY <1>9, <2>4, Zenon
    <3>2. First(p) \in Descs /\ ~done[First(p)]
      BY <1>1, <3>1, Parts, Zenon DEF StageInv
    <3>. QED BY <1>10, <1>15, <3>1, <3>2, Zenon
  <2>. QED BY <2>1, <2>2, <2>3, <2>4, Zenon DEF StageInv
<1>19. MovedInv'
  <2>1. Transferred'
    <3>1. ASSUME NEW p \in Procs, pc'[p] \in {"check", "idle"} PROVE pc[p] \in {"check", "idle"}
      BY <1>9, <3>1, Zenon
    <3>. QED BY <1>1, <1>7, <3>1, Zenon DEF MovedInv, Transferred
  <2>2. ASSUME NEW p \in InFlight', done'[First(p)'] \/ First(p)' \in Used'
        PROVE  status'[First(p)'] = "ok" /\ buf'[p] = disk'[p]
    <3>1. p \in InFlight /\ First(p)' = First(p) /\ First(p) \in Descs
      BY <1>1, <1>12, <1>15, <2>2, Parts, Zenon DEF InFlight
    <3>2. done[First(p)] \/ First(p) \in Used
      BY <1>4, <1>8, <1>10, <2>2, <3>1, Zenon
    <3>. QED BY <1>1, <1>7, <3>1, <3>2, Zenon DEF MovedInv
  <2>. QED BY <2>1, <2>2, Zenon DEF MovedInv
<1>20. WakeInv'
  <2>1. ASSUME NEW p \in Procs, pc'[p] = "sleep_free" PROVE pc[p] = "sleep_free"
    BY <1>9, <2>1, Zenon
  <2>. QED BY <1>1, <1>2, <1>7, <2>1, Zenon DEF WakeInv
<1>. QED BY <1>8, <1>11, <1>14, <1>18, <1>19, <1>20, Zenon DEF DiskInv

\* A request is submitted: it takes three free descriptors, and its head goes
\* to the available ring.
LEMMA SubmitInv ==
  ASSUME DiskInv, RoomLeft, FreeCounted, NEW p \in Procs, submit(p)
  PROVE  DiskInv'
<1>1. TypeInv /\ RingInv /\ OwnInv /\ StageInv /\ MovedInv /\ WakeInv
  BY Zenon DEF DiskInv
<1>2. free \in SUBSET Descs /\ Cardinality(free) >= 3
  BY <1>1, Zenon DEF TypeInv, submit
<1>3. PICK d0 \in free, d1 \in free, d2 \in free :
        /\ d0 = Idx0 /\ d1 = Idx1 /\ d2 = Idx2
        /\ d0 # d1 /\ d0 # d2 /\ d1 # d2
  BY <1>2, Zenon DEF FreeCounted
<1>4. /\ pc[p] = "alloc" /\ free' = free \ {d0, d1, d2}
      /\ ops' = [ops EXCEPT ![d0] = Header(p)]
      /\ desc' = [desc EXCEPT
           ![d0] = [addr |-> <<"op", d0>>, next |-> d1, more |-> TRUE],
           ![d1] = [addr |-> <<"buf", p>>, next |-> d2, more |-> TRUE],
           ![d2] = [addr |-> <<"status", d0>>, next |-> 0, more |-> FALSE]]
      /\ status' = [status EXCEPT ![d0] = "unset"] /\ done' = [done EXCEPT ![d0] = FALSE]
      /\ avail' = [avail EXCEPT ![availIdx % NUM] = d0] /\ availIdx' = Inc(availIdx)
      /\ req' = [req EXCEPT ![p].head = d0] /\ pc' = [pc EXCEPT ![p] = "sleep_done"]
      /\ usedRing' = usedRing /\ usedRingIdx' = usedRingIdx /\ used_idx' = used_idx
      /\ devIdx' = devIdx /\ pending' = pending /\ irq' = irq /\ handler' = handler
      /\ panicked' = panicked /\ disk' = disk /\ buf' = buf
  BY <1>3, Zenon DEF submit, Goto, ctlVars
<1>5. 0 \in Descs /\ d0 \in Descs /\ d1 \in Descs /\ d2 \in Descs
  BY <1>2, Sizes DEF Descs
<1>6. /\ pc' \in [Procs -> Points] /\ pc'[p] = "sleep_done"
      /\ \A q \in Procs : q # p => pc'[q] = pc[q]
  BY <1>1, <1>4, Zenon DEF TypeInv, Points
<1>7. /\ req' \in [Procs -> [head : Descs, write : BOOLEAN]]
      /\ req'[p].head = d0 /\ req'[p].write = req[p].write
      /\ \A q \in Procs : q # p => req'[q] = req[q]
  BY <1>1, <1>4, <1>5, Zenon DEF TypeInv
<1>8. /\ desc'[d0] = [addr |-> <<"op", d0>>, next |-> d1, more |-> TRUE]
      /\ desc'[d1] = [addr |-> <<"buf", p>>, next |-> d2, more |-> TRUE]
      /\ desc'[d2] = [addr |-> <<"status", d0>>, next |-> 0, more |-> FALSE]
      /\ \A i \in Descs : i \notin {d0, d1, d2} => desc'[i] = desc[i]
      /\ DOMAIN desc' = Descs /\ desc' = [i \in Descs |-> desc'[i]]
  BY <1>1, <1>3, <1>4, <1>5, Zenon DEF TypeInv
<1>9. /\ ops' \in [Descs -> [write : BOOLEAN, block : Procs \cup {NoBlock}]]
      /\ ops'[d0] = Header(p) /\ \A i \in Descs : i # d0 => ops'[i] = ops[i]
  <2>1. Header(p) \in [write : BOOLEAN, block : Procs \cup {NoBlock}]
    BY <1>1, Zenon DEF TypeInv, Header
  <2>. QED BY <1>1, <1>4, <1>5, <2>1, Zenon DEF TypeInv
<1>10. /\ status' \in [Descs -> {"ok", "unset"}] /\ done' \in [Descs -> BOOLEAN]
       /\ done'[d0] = FALSE
       /\ \A i \in Descs : i # d0 => status'[i] = status[i] /\ done'[i] = done[i]
  BY <1>1, <1>4, <1>5, Zenon DEF TypeInv
<1>11. /\ d0 \notin Busy /\ d1 \notin Busy /\ d2 \notin Busy
       /\ d0 \notin Available /\ d1 \notin Available /\ d2 \notin Available
       /\ d0 \notin pending /\ d0 \notin Used
  <2>1. d0 \notin Busy /\ d1 \notin Busy /\ d2 \notin Busy
    BY <1>1, OnlyHeads, Zenon
  <2>. QED BY <2>1, Zenon DEF Busy
<1>12. /\ avail' \in [Descs -> Descs] /\ availIdx' \in Idxs
       /\ IsQueue(avail', devIdx', availIdx') /\ Available' = Available \cup {d0}
  <2>1. PICK ring \in [Descs -> Descs], from \in Idxs, to \in Idxs :
          /\ ring = avail /\ from = devIdx /\ to = availIdx
    BY <1>1, Zenon DEF TypeInv
  <2>2. /\ IsQueue(ring, from, to) /\ Window(ring, from, to) = Available
        /\ d0 \notin Window(ring, from, to) /\ d1 \notin Window(ring, from, to)
        /\ d2 \notin Window(ring, from, to)
    BY <1>1, <1>11, <2>1, Zenon DEF RingInv, Available
  <2>3. Count(from, to) + 1 < NUM
    BY <1>3, <1>5, <2>2, Zenon DEF RoomLeft
  <2>4. PICK r2 : r2 = Put(ring, to, d0)
    BY Zenon
  <2>5. /\ r2 \in [Descs -> Descs] /\ Inc(to) \in Idxs /\ IsQueue(r2, from, Inc(to))
        /\ Window(r2, from, Inc(to)) = Window(ring, from, to) \cup {d0}
    BY ONLY ring \in [Descs -> Descs], from \in Idxs, to \in Idxs, <1>5, <2>2, <2>3, <2>4,
            QueuePush, SMT
  <2>6. r2 = avail'
    BY <1>4, <2>1, <2>4, Zenon DEF Put
  <2>7. Available' = Window(r2, from, Inc(to))
    BY <1>4, <2>1, <2>6, Zenon DEF Available
  <2>. QED BY <1>4, <2>1, <2>2, <2>5, <2>6, <2>7, Zenon
<1>13. Used' = Used /\ RingInv'
  BY <1>1, <1>4, <1>12, Zenon DEF Used, RingInv
<1>14. TypeInv'
  <2>1. desc' \in [Descs -> [addr : Addrs, next : Descs, more : BOOLEAN]]
    <3>1. /\ [addr |-> <<"op", d0>>, next |-> d1, more |-> TRUE]
               \in [addr : Addrs, next : Descs, more : BOOLEAN]
          /\ [addr |-> <<"buf", p>>, next |-> d2, more |-> TRUE]
               \in [addr : Addrs, next : Descs, more : BOOLEAN]
          /\ [addr |-> <<"status", d0>>, next |-> 0, more |-> FALSE]
               \in [addr : Addrs, next : Descs, more : BOOLEAN]
      BY <1>5, Zenon DEF Addrs
    <3>2. \A i \in Descs : desc[i] \in [addr : Addrs, next : Descs, more : BOOLEAN]
      BY <1>1, Zenon DEF TypeInv
    <3>3. \A i \in Descs : desc'[i] \in [addr : Addrs, next : Descs, more : BOOLEAN]
      <4>1. SUFFICES ASSUME NEW i \in Descs
                     PROVE  desc'[i] \in [addr : Addrs, next : Descs, more : BOOLEAN]
        BY Zenon
      <4>2. CASE i \in {d0, d1, d2}
        BY <1>8, <3>1, <4>2, Zenon
      <4>3. CASE i \notin {d0, d1, d2}
        BY <1>8, <3>2, <4>3, Zenon
      <4>. QED BY <4>2, <4>3, Zenon
    <3>. QED BY <1>8, <3>3, Zenon
  <2>2. free' \in SUBSET Descs
    BY <1>2, <1>4, Zenon
  <2>. QED BY <1>1, <1>4, <1>6, <1>7, <1>9, <1>10, <1>12, <2>1, <2>2, Zenon DEF TypeInv
<1>15. InFlight' = InFlight \cup {p} /\ p \notin InFlight
  BY <1>4, <1>6, Zenon DEF InFlight
<1>16. ASSUME NEW q \in InFlight
       PROVE  /\ q # p /\ q \in Procs /\ First(q)' = First(q) /\ Own(q)' = Own(q)
              /\ Formatted(q)' /\ First(q) \in Descs /\ First(q) # d0
  <2>1. q # p /\ q \in Procs /\ req'[q] = req[q]
    BY <1>7, <1>15, <1>16, Zenon DEF InFlight
  <2>2. First(q) \notin free /\ Second(q) \notin free /\ Third(q) \notin free
    BY <1>1, <1>16, Heads, Zenon
  <2>3. First(q) \in Descs /\ Second(q) \in Descs /\ Third(q) \in Descs
    BY <1>1, <2>1, Parts, Zenon
  <2>4. /\ desc'[First(q)] = desc[First(q)] /\ desc'[Second(q)] = desc[Second(q)]
        /\ desc'[Third(q)] = desc[Third(q)] /\ ops'[First(q)] = ops[First(q)]
    BY <1>8, <1>9, <2>2, <2>3, Zenon
  <2>5. First(q)' = First(q) /\ Header(q)' = Header(q)
    BY <2>1, Zenon DEF First, Header
  <2>6. Second(q)' = Second(q)
    BY <2>4, <2>5, Zenon DEF Second
  <2>7. Third(q)' = Third(q)
    BY <2>4, <2>6, Zenon DEF Third
  <2>8. Own(q)' = Own(q)
    BY <2>5, <2>6, <2>7, Zenon DEF Own
  <2>9. Formatted(q)
    BY <1>1, <1>16, Zenon DEF OwnInv
  <2>10. Formatted(q)'
    BY <2>4, <2>5, <2>6, <2>7, <2>9, Zenon DEF Formatted
  <2>. QED BY <2>1, <2>2, <2>3, <2>5, <2>8, <2>10, Zenon
<1>17. First(p)' = d0 /\ Own(p)' = {d0, d1, d2} /\ Formatted(p)'
  <2>1. First(p)' = d0
    BY <1>7, Zenon DEF First
  <2>2. Second(p)' = d1
    BY <1>8, <2>1 DEF Second
  <2>3. Third(p)' = d2
    BY <1>8, <2>2 DEF Third
  <2>4. Header(p)' = Header(p)
    BY <1>7, Zenon DEF Header
  <2>5. Own(p)' = {d0, d1, d2}
    BY <2>1, <2>2, <2>3, Zenon DEF Own
  <2>6. /\ desc'[d0].addr = <<"op", d0>> /\ desc'[d0].more
        /\ desc'[d1].addr = <<"buf", p>> /\ desc'[d1].more
        /\ desc'[d2].addr = <<"status", d0>> /\ ~desc'[d2].more
    BY <1>8
  <2>7. Formatted(p)'
    BY <1>3, <1>9, <2>1, <2>2, <2>3, <2>4, <2>6, Zenon DEF Formatted
  <2>. QED BY <2>1, <2>5, <2>7, Zenon
<1>18. OwnInv'
  <2>1. ASSUME NEW q \in InFlight' PROVE Formatted(q)' /\ Own(q)' \cap free' = {}
    <3>1. CASE q = p
      BY <1>4, <1>17, <3>1, Zenon
    <3>2. CASE q \in InFlight
      <4>1. Own(q) \cap free = {}
        BY <1>1, <3>2, Zenon DEF OwnInv
      <4>. QED BY <1>4, <1>16, <3>2, <4>1, Zenon
    <3>. QED BY <1>15, <2>1, <3>1, <3>2, Zenon
  <2>2. ASSUME NEW q \in InFlight PROVE Own(q)' \cap Own(p)' = {}
    <3>1. Own(q) \cap free = {}
      BY <1>1, <2>2, Zenon DEF OwnInv
    <3>. QED BY <1>3, <1>16, <1>17, <2>2, <3>1, Zenon
  <2>3. ASSUME NEW q \in InFlight', NEW r \in InFlight', Own(q)' \cap Own(r)' # {} PROVE q = r
    <3>1. CASE q \in InFlight /\ r \in InFlight
      <4>1. Own(q) \cap Own(r) # {}
        BY <1>16, <2>3, <3>1, Zenon
      <4>. QED BY <1>1, <3>1, <4>1, Zenon DEF OwnInv
    <3>2. CASE q \in InFlight /\ r = p
      BY <2>2, <2>3, <3>2, Zenon
    <3>3. CASE q = p /\ r \in InFlight
      BY <2>2, <2>3, <3>3, Zenon
    <3>4. CASE q = p /\ r = p
      BY <3>4, Zenon
    <3>. QED BY <1>15, <2>3, <3>1, <3>2, <3>3, <3>4, Zenon
  <2>4. ASSUME NEW i \in Descs PROVE i \in free' \/ \E q \in InFlight' : i \in Own(q)'
    <3>1. i \in free \/ \E q \in InFlight : i \in Own(q)
      BY <1>1, <2>4, Zenon DEF OwnInv
    <3>2. CASE i \in {d0, d1, d2}
      BY <1>15, <1>17, <3>2, Zenon
    <3>3. CASE i \notin {d0, d1, d2}
      BY <1>4, <1>15, <1>16, <3>1, <3>3, Zenon
    <3>. QED BY <3>2, <3>3, Zenon
  <2>. QED BY <2>1, <2>3, <2>4, Zenon DEF OwnInv
<1>19. Busy' = Busy \cup {d0}
  <2>1. (Available \cup {d0}) \cup pending \cup Used = (Available \cup pending \cup Used) \cup {d0}
    BY Zenon
  <2>. QED BY <1>4, <1>12, <1>13, <2>1, Zenon DEF Busy
<1>20. StageInv'
  <2>1. /\ Available' \cap pending' = {} /\ Available' \cap Used' = {}
        /\ pending' \cap Used' = {}
    <3>1. /\ Available \cap pending = {} /\ Available \cap Used = {}
          /\ pending \cap Used = {}
      BY <1>1, Zenon DEF StageInv
    <3>2. (Available \cup {d0}) \cap pending = {} /\ (Available \cup {d0}) \cap Used = {}
      BY <1>11, <3>1, Zenon
    <3>. QED BY <1>4, <1>12, <1>13, <3>1, <3>2, Zenon
  <2>2. ASSUME NEW h \in Busy' PROVE ~done'[h] /\ \E q \in InFlight' : First(q)' = h
    <3>1. CASE h = d0
      BY <1>10, <1>15, <1>17, <3>1, Zenon
    <3>2. CASE h \in Busy
      <4>1. ~done[h] /\ \E q \in InFlight : First(q) = h
        BY <1>1, <3>2, Zenon DEF StageInv
      <4>. QED BY <1>10, <1>15, <1>16, <4>1, Zenon
    <3>. QED BY <1>19, <2>2, <3>1, <3>2, Zenon
  <2>3. ASSUME NEW q \in InFlight' PROVE done'[First(q)'] \/ First(q)' \in Busy'
    <3>1. CASE q = p
      BY <1>17, <1>19, <3>1, Zenon
    <3>2. CASE q \in InFlight
      BY <1>1, <1>10, <1>16, <1>19, <3>2, Zenon DEF StageInv
    <3>. QED BY <1>15, <2>3, <3>1, <3>2, Zenon
  <2>4. ASSUME NEW q \in Procs, pc'[q] = "sleep_done" PROVE ~done'[First(q)']
    <3>1. CASE q = p
      BY <1>10, <1>17, <3>1, Zenon
    <3>2. CASE q # p
      <4>1. pc[q] = "sleep_done"
        BY <1>6, <2>4, <3>2, Zenon
      <4>2. q \in InFlight
        BY <4>1, Zenon DEF InFlight
      <4>3. ~done[First(q)]
        BY <1>1, <4>1, Zenon DEF StageInv
      <4>. QED BY <1>10, <1>16, <4>2, <4>3, Zenon
    <3>. QED BY <3>1, <3>2, Zenon
  <2>. QED BY <2>1, <2>2, <2>3, <2>4, Zenon DEF StageInv
<1>21. MovedInv'
  <2>1. Transferred'
    <3>1. ASSUME NEW q \in Procs, pc'[q] \in {"check", "idle"} PROVE pc[q] \in {"check", "idle"}
      BY <1>6, <3>1, Zenon
    <3>. QED BY <1>1, <1>4, <3>1, Zenon DEF MovedInv, Transferred
  <2>2. ASSUME NEW q \in InFlight', done'[First(q)'] \/ First(q)' \in Used'
        PROVE  status'[First(q)'] = "ok" /\ buf'[q] = disk'[q]
    <3>1. q # p
      BY <1>10, <1>11, <1>13, <1>17, <2>2, Zenon
    <3>2. q \in InFlight
      BY <1>15, <2>2, <3>1, Zenon
    <3>3. done[First(q)] \/ First(q) \in Used
      BY <1>10, <1>13, <1>16, <2>2, <3>2, Zenon
    <3>4. status[First(q)] = "ok" /\ buf[q] = disk[q]
      BY <1>1, <3>2, <3>3, Zenon DEF MovedInv
    <3>. QED BY <1>4, <1>10, <1>16, <3>2, <3>4, Zenon
  <2>. QED BY <2>1, <2>2, Zenon DEF MovedInv
<1>22. WakeInv'
  <2>1. ASSUME NEW q \in Procs PROVE pc'[q] # "sleep_free"
    <3>1. pc[q] # "sleep_free"
      BY <1>1, <1>2, <2>1, Zenon DEF WakeInv
    <3>. QED BY <1>6, <2>1, <3>1, Zenon
  <2>. QED BY <1>1, <1>4, <2>1, Zenon DEF WakeInv
<1>. QED BY <1>13, <1>14, <1>18, <1>20, <1>21, <1>22, Zenon DEF DiskInv

\* A finished request gives its descriptors back and wakes those who wait for some.
LEMMA CompleteInv ==
  ASSUME DiskInv, NEW p \in Procs, complete(p), done[First(p)]
  PROVE  DiskInv'
<1>1. TypeInv /\ RingInv /\ OwnInv /\ StageInv /\ MovedInv /\ WakeInv
  BY Zenon DEF DiskInv
<1>2. pc[p] = "wait"
  BY Zenon DEF complete
<1>3. p \in InFlight
  BY <1>2, Zenon DEF InFlight
<1>4. Chain(req[p].head) = Own(p)
  BY <1>1, <1>3, OwnChain, Zenon DEF First
<1>5. /\ free' = free \cup Own(p)
      /\ desc' = [i \in Descs |-> IF i \in Own(p) THEN NoDesc ELSE desc[i]]
      /\ ops' = [ops EXCEPT ![First(p)] = NoOp] /\ pc' = [WakeFree(pc) EXCEPT ![p] = "check"]
      /\ status' = status /\ done' = done /\ avail' = avail /\ availIdx' = availIdx
      /\ usedRing' = usedRing /\ usedRingIdx' = usedRingIdx /\ used_idx' = used_idx
      /\ devIdx' = devIdx /\ pending' = pending /\ irq' = irq /\ handler' = handler
      /\ panicked' = panicked /\ disk' = disk /\ buf' = buf /\ req' = req
  <2>1. done[req[p].head]
    BY Zenon DEF First
  <2>2. /\ free' = free \cup Chain(req[p].head)
        /\ desc' = [i \in Descs |-> IF i \in Chain(req[p].head) THEN NoDesc ELSE desc[i]]
        /\ ops' = [ops EXCEPT ![req[p].head] = NoOp]
        /\ pc' = [WakeFree(pc) EXCEPT ![p] = "check"]
    BY <2>1, Zenon DEF complete
  <2>3. UNCHANGED <<status, done, ringVars, ctlVars, disk, buf, req>>
    BY Zenon DEF complete
  <2>. QED BY <1>4, <2>2, <2>3, Zenon DEF ringVars, ctlVars, First
<1>6. Own(p) \subseteq Descs /\ First(p) \in Own(p) /\ First(p) \in Descs
  BY <1>1, Parts, Zenon DEF Own
<1>7. /\ pc' \in [Procs -> Points] /\ pc'[p] = "check"
      /\ \A q \in Procs : q # p => IF pc[q] = "sleep_free" THEN pc'[q] = "alloc"
                                   ELSE pc'[q] = pc[q]
  <2>1. pc \in [Procs -> Points] /\ "alloc" \in Points /\ "check" \in Points
    BY <1>1, Zenon DEF TypeInv, Points
  <2>2. /\ WakeFree(pc) \in [Procs -> Points]
        /\ \A q \in Procs : WakeFree(pc)[q] = IF pc[q] = "sleep_free" THEN "alloc" ELSE pc[q]
    BY <2>1, Zenon DEF WakeFree
  <2>. QED BY <1>5, <2>1, <2>2, Zenon
<1>8. TypeInv'
  <2>1. free' \in SUBSET Descs
    BY <1>1, <1>5, <1>6, Zenon DEF TypeInv
  <2>2. desc' \in [Descs -> [addr : Addrs, next : Descs, more : BOOLEAN]]
    <3>1. NoDesc \in [addr : Addrs, next : Descs, more : BOOLEAN]
      BY Sizes DEF NoDesc, Addrs, Descs
    <3>. QED BY <1>1, <1>5, <3>1, Zenon DEF TypeInv
  <2>3. ops' \in [Descs -> [write : BOOLEAN, block : Procs \cup {NoBlock}]]
    <3>1. NoOp \in [write : BOOLEAN, block : Procs \cup {NoBlock}]
      BY Zenon DEF NoOp
    <3>. QED BY <1>1, <1>5, <1>6, <3>1, Zenon DEF TypeInv
  <2>. QED BY <1>1, <1>5, <1>7, <2>1, <2>2, <2>3, Zenon DEF TypeInv
<1>9. InFlight' = InFlight \ {p}
  BY <1>7, Zenon DEF InFlight
<1>10. \A q : First(q)' = First(q)
  BY <1>5, Zenon DEF First
<1>11. ASSUME NEW q \in InFlight, q # p
       PROVE  Formatted(q)' /\ Own(q)' = Own(q) /\ Own(q) \cap Own(p) = {}
  <2>1. /\ First(q) \notin Own(p) /\ Second(q) \notin Own(p) /\ Third(q) \notin Own(p)
    BY <1>1, <1>3, <1>11, Heads, Zenon
  <2>2. First(q) \in Descs /\ Second(q) \in Descs /\ Third(q) \in Descs
    BY <1>1, <1>11, Parts, Zenon DEF InFlight
  <2>3. /\ desc'[First(q)] = desc[First(q)] /\ desc'[Second(q)] = desc[Second(q)]
        /\ desc'[Third(q)] = desc[Third(q)]
    BY <1>5, <2>1, <2>2, Zenon
  <2>4. ops'[First(q)] = ops[First(q)]
    BY <1>1, <1>5, <1>6, <2>1, <2>2, Zenon DEF TypeInv
  <2>5. Header(q)' = Header(q)
    BY <1>5, Zenon DEF Header
  <2>6. Second(q)' = Second(q)
    BY <1>10, <2>3, Zenon DEF Second
  <2>7. Third(q)' = Third(q)
    BY <2>3, <2>6, Zenon DEF Third
  <2>8. Own(q)' = Own(q)
    BY <1>10, <2>6, <2>7, Zenon DEF Own
  <2>9. Formatted(q)
    BY <1>1, <1>11, Zenon DEF OwnInv
  <2>10. Formatted(q)'
    BY <1>10, <2>3, <2>4, <2>5, <2>6, <2>7, <2>9, Zenon DEF Formatted
  <2>11. Own(q) \cap Own(p) = {}
    BY <1>1, <1>3, <1>11, Zenon DEF OwnInv
  <2>. QED BY <2>8, <2>10, <2>11, Zenon
<1>12. OwnInv'
  <2>1. ASSUME NEW q \in InFlight' PROVE Formatted(q)' /\ Own(q)' \cap free' = {}
    <3>1. q \in InFlight /\ q # p
      BY <1>9, <2>1, Zenon
    <3>2. Own(q) \cap free = {}
      BY <1>1, <3>1, Zenon DEF OwnInv
    <3>3. Formatted(q)' /\ Own(q)' = Own(q) /\ Own(q) \cap Own(p) = {}
      BY <1>11, <3>1, Zenon
    <3>. QED BY <1>5, <3>2, <3>3, Zenon
  <2>2. ASSUME NEW q \in InFlight', NEW r \in InFlight', Own(q)' \cap Own(r)' # {} PROVE q = r
    <3>1. q \in InFlight /\ q # p /\ r \in InFlight /\ r # p
      BY <1>9, <2>2, Zenon
    <3>2. Own(q) \cap Own(r) # {}
      BY <1>11, <2>2, <3>1, Zenon
    <3>. QED BY <1>1, <3>1, <3>2, Zenon DEF OwnInv
  <2>3. ASSUME NEW i \in Descs PROVE i \in free' \/ \E q \in InFlight' : i \in Own(q)'
    <3>1. i \in free \/ \E q \in InFlight : i \in Own(q)
      BY <1>1, <2>3, Zenon DEF OwnInv
    <3>2. CASE i \in free \/ i \in Own(p)
      BY <1>5, <3>2, Zenon
    <3>3. CASE \E q \in InFlight : i \in Own(q) /\ q # p
      BY <1>9, <1>11, <3>3, Zenon
    <3>. QED BY <3>1, <3>2, <3>3, Zenon
  <2>. QED BY <2>1, <2>2, <2>3, Zenon DEF OwnInv
<1>13. Available' = Available /\ Used' = Used /\ Busy' = Busy /\ RingInv'
  BY <1>1, <1>5, Zenon DEF Available, Used, Busy, RingInv
<1>14. First(p) \notin Busy
  BY <1>1, <1>3, DoneOut, Zenon
<1>15. StageInv'
  <2>1. /\ Available' \cap pending' = {} /\ Available' \cap Used' = {}
        /\ pending' \cap Used' = {}
    BY <1>1, <1>5, <1>13, Zenon DEF StageInv
  <2>2. ASSUME NEW h \in Busy' PROVE ~done'[h] /\ \E q \in InFlight' : First(q)' = h
    <3>1. h \in Busy /\ h # First(p)
      BY <1>13, <1>14, <2>2, Zenon
    <3>2. ~done[h] /\ \E q \in InFlight : First(q) = h
      BY <1>1, <3>1, Zenon DEF StageInv
    <3>. QED BY <1>5, <1>9, <1>10, <3>1, <3>2, Zenon
  <2>3. ASSUME NEW q \in InFlight' PROVE done'[First(q)'] \/ First(q)' \in Busy'
    BY <1>1, <1>5, <1>9, <1>10, <1>13, <2>3, Zenon DEF StageInv
  <2>4. ASSUME NEW q \in Procs, pc'[q] = "sleep_done" PROVE ~done'[First(q)']
    <3>1. pc[q] = "sleep_done"
      BY <1>7, <2>4, Zenon
    <3>. QED BY <1>1, <1>5, <1>10, <3>1, Zenon DEF StageInv
  <2>. QED BY <2>1, <2>2, <2>3, <2>4, Zenon DEF StageInv
<1>16. MovedInv'
  <2>1. Transferred'
    <3>1. ASSUME NEW q \in Procs, pc'[q] \in {"check", "idle"} PROVE buf[q] = disk[q]
      <4>1. CASE q = p
        BY <1>1, <1>3, <4>1, Zenon DEF MovedInv
      <4>2. CASE q # p
        <5>1. pc[q] \in {"check", "idle"}
          BY <1>7, <3>1, <4>2, Zenon
        <5>. QED BY <1>1, <5>1, Zenon DEF MovedInv, Transferred
      <4>. QED BY <4>1, <4>2, Zenon
    <3>. QED BY <1>5, <3>1, Zenon DEF Transferred
  <2>2. ASSUME NEW q \in InFlight', done'[First(q)'] \/ First(q)' \in Used'
        PROVE  status'[First(q)'] = "ok" /\ buf'[q] = disk'[q]
    <3>1. q \in InFlight /\ (done[First(q)] \/ First(q) \in Used)
      BY <1>5, <1>9, <1>10, <1>13, <2>2, Zenon
    <3>. QED BY <1>1, <1>5, <1>10, <3>1, Zenon DEF MovedInv
  <2>. QED BY <2>1, <2>2, Zenon DEF MovedInv
<1>17. WakeInv'
  <2>1. ASSUME NEW q \in Procs PROVE pc'[q] # "sleep_free"
    BY <1>7, <2>1, Zenon
  <2>. QED BY <1>1, <1>5, <2>1, Zenon DEF WakeInv
<1>. QED BY <1>8, <1>12, <1>13, <1>15, <1>16, <1>17, Zenon DEF DiskInv

-----------------------------------------------------------------------------
(* Counting *)

\* There are NUM descriptors.
LEMMA DescsFinite == Descs \subseteq Nat /\ IsFiniteSet(Descs) /\ Cardinality(Descs) = NUM
  BY Sizes, FS_Interval DEF Descs

\* A window that misses two descriptors has room for another entry.
LEMMA Room == RoomLeft
<1> SUFFICES
  ASSUME NEW ring \in [Descs -> Descs], NEW from \in Idxs, NEW to \in Idxs,
         IsQueue(ring, from, to), NEW x \in Descs, NEW y \in Descs, x # y,
         x \notin Window(ring, from, to), y \notin Window(ring, from, to)
  PROVE  Count(from, to) + 1 < NUM
  BY Zenon DEF RoomLeft
<1>1. PICK c \in Nat : c = Count(from, to)
  BY CountType, Sizes
<1> DEFINE K == 0 .. c - 1
           T == Descs \ {x, y}
           f == [k \in K |-> ring[Place(from, k)]]
<1>2. from \in Int /\ \A k \in K : k \in Int
  BY Sizes DEF Idxs
<1>3. \A k \in K : ring[Place(from, k)] \in Descs
  BY <1>2, PlaceType, Zenon
<1>4. \A k \in K : ring[Place(from, k)] \in Window(ring, from, to)
  BY <1>1, InWindow, Zenon
<1>5. f \in [K -> T]
  BY <1>3, <1>4, Zenon
<1>6. \A j, k \in K : f[j] = f[k] => j = k
  BY <1>1, Zenon DEF IsQueue
<1>7. f \in Injection(K, T)
  BY <1>5, <1>6, Zenon DEF Injection, IsInjective
<1>8. /\ IsFiniteSet(Descs \ {x}) /\ Cardinality(Descs \ {x}) = NUM - 1
      /\ y \in Descs \ {x} /\ T = (Descs \ {x}) \ {y}
  BY DescsFinite, FS_RemoveElement, Zenon
<1>9. IsFiniteSet(T) /\ Cardinality(T) = (NUM - 1) - 1
  BY <1>8, FS_RemoveElement
<1>10. Cardinality(K) = c
  BY <1>1, FS_Interval
<1> HIDE DEF K, T, f
<1>11. Cardinality(K) <= Cardinality(T)
  BY <1>7, <1>9, FS_Injection, Zenon
<1>. QED BY <1>1, <1>9, <1>10, <1>11, Sizes

\* Removing an element makes a set one smaller ...
LEMMA CardMinus ==
  ASSUME NEW T, IsFiniteSet(T), NEW x \in T
  PROVE  IsFiniteSet(T \ {x}) /\ Cardinality(T \ {x}) = Cardinality(T) - 1
  BY FS_RemoveElement, Zenon

\* ... and adding one, one larger.
LEMMA CardPlus ==
  ASSUME NEW T, IsFiniteSet(T), NEW x, x \notin T
  PROVE  IsFiniteSet(T \cup {x}) /\ Cardinality(T \cup {x}) = Cardinality(T) + 1
  BY FS_AddElement, Zenon

\* Three different things are three.
LEMMA CardThree ==
  ASSUME NEW a, NEW b, NEW c, a # b, a # c, b # c
  PROVE  Cardinality({a, b, c}) = 3
<1>1. /\ IsFiniteSet({a}) /\ Cardinality({a}) = 1 /\ b \notin {a} /\ c \notin {a, b}
      /\ {a, b} = {a} \cup {b} /\ {a, b, c} = {a, b} \cup {c}
  BY FS_Singleton, Zenon
<1>2. /\ IsFiniteSet({a} \cup {b})
      /\ Cardinality({a} \cup {b}) = Cardinality({a}) + 1
  BY <1>1, CardPlus, Zenon
<1>3. IsFiniteSet({a, b}) /\ Cardinality({a, b}) = 1 + 1
  BY <1>1, <1>2, Zenon
<1>4. Cardinality({a, b} \cup {c}) = Cardinality({a, b}) + 1
  BY <1>1, <1>3, CardPlus, Zenon
<1>. QED BY <1>1, <1>3, <1>4

\* A set of descriptors has a smallest one.
LEMMA MinIn == ASSUME NEW T \in SUBSET Descs, T # {} PROVE Min(T) \in T
<1>1. T \in SUBSET Nat
  BY DescsFinite, Zenon
<1>2. \E m \in T : \A k \in T : <<k, m>> \notin OpToRel(<, Nat)
  BY <1>1, WFMin, NatLessThanWellFounded, Zenon
<1>3. \A k, m \in Nat : <<k, m>> \notin OpToRel(<, Nat) => m <= k
  BY DEF OpToRel
<1>4. \E m \in T : \A k \in T : m <= k
  BY <1>1, <1>2, <1>3, Zenon
<1>. QED BY <1>4, Zenon DEF Min

\* When three descriptors are free, alloc3_desc() finds three different ones.
LEMMA ThreeFree ==
  ASSUME free \in SUBSET Descs
  PROVE  FreeCounted
<1>1. IsFiniteSet(free) /\ Cardinality(free) \in Nat
  BY DescsFinite, FS_Subset, FS_CardinalityType, Zenon
<1>2. ASSUME Cardinality(free) >= 3
      PROVE  /\ Idx0 \in free /\ Idx1 \in free /\ Idx2 \in free
             /\ Idx0 # Idx1 /\ Idx0 # Idx2 /\ Idx1 # Idx2
  <2>1. free # {}
    BY <1>1, <1>2, FS_EmptySet
  <2>2. Idx0 \in free
    BY <2>1, MinIn, Zenon DEF Idx0
  <2>3. IsFiniteSet(free \ {Idx0}) /\ Cardinality(free \ {Idx0}) = Cardinality(free) - 1
    BY <1>1, <2>2, CardMinus, Zenon
  <2>4. free \ {Idx0} # {} /\ free \ {Idx0} \in SUBSET Descs
    BY <1>1, <1>2, <2>3, FS_EmptySet
  <2>5. Idx1 \in free \ {Idx0}
    BY <2>4, MinIn, Zenon DEF Idx1
  <2>6. free \ {Idx0, Idx1} = (free \ {Idx0}) \ {Idx1}
    BY Zenon
  <2>7. /\ IsFiniteSet(free \ {Idx0, Idx1})
        /\ Cardinality(free \ {Idx0, Idx1}) = (Cardinality(free) - 1) - 1
    BY <2>3, <2>5, <2>6, CardMinus, Zenon
  <2>8. free \ {Idx0, Idx1} # {} /\ free \ {Idx0, Idx1} \in SUBSET Descs
    BY <1>1, <1>2, <2>7, FS_EmptySet
  <2>9. Idx2 \in free \ {Idx0, Idx1}
    BY <2>8, MinIn, Zenon DEF Idx2
  <2>. QED BY <2>2, <2>5, <2>9, Zenon
<1>. QED BY <1>1, <1>2, Zenon DEF FreeCounted

-----------------------------------------------------------------------------
(* The invariant holds *)

\* Every step keeps the invariant.
LEMMA NextInv == DiskInv /\ [Next]_vars => DiskInv'
<1> SUFFICES ASSUME DiskInv, [Next]_vars PROVE DiskInv'
  BY Zenon
<1>1. RoomLeft /\ FreeCounted
  BY Room, ThreeFree, Zenon DEF DiskInv, TypeInv
<1>2. ASSUME NEW p \in Procs, rw(p) \/ Driver(p) PROVE DiskInv'
  <2>1. CASE complete(p)
    BY <1>2, <2>1, AgainInv, CompleteInv, Zenon
  <2>. QED BY <1>2, <1>1, <2>1, RwInv, AllocFailInv, SubmitInv, CheckInv, Zenon DEF Driver
<1>3. ASSUME NEW h \in Descs, dev_complete(h) PROVE DiskInv'
  BY <1>1, <1>3, DeviceInv, Zenon
<1>4. CASE dev_fetch
  BY <1>4, FetchInv, Zenon
<1>5. CASE intr \/ intr_end
  BY <1>5, HandlerInv, Zenon
<1>6. CASE intr_used
  BY <1>6, IntrUsedInv, Zenon
<1>7. CASE UNCHANGED vars
  <2>1. /\ UNCHANGED <<free, desc, ops, status, done, ringVars, ctlVars, disk, buf, pc, req>>
    BY <1>7, Zenon DEF vars
  <2>2. TypeInv'
    BY <2>1, Zenon DEF DiskInv, TypeInv, ringVars, ctlVars
  <2>3. Kept
    BY <2>1, Zenon DEF Kept, InFlight
  <2>4. Still
    <3>1. ASSUME NEW q \in Procs, pc'[q] = "sleep_done" PROVE q \in InFlight /\ ~done[First(q)]
      BY <2>1, <3>1, Zenon DEF InFlight, DiskInv, StageInv
    <3>. QED BY <2>1, <2>3, <3>1, Zenon DEF Still
  <2>5. Transferred'
    BY <2>1, Zenon DEF Transferred, DiskInv, MovedInv
  <2>6. WakeInv'
    BY <2>1, Zenon DEF WakeInv, DiskInv, ringVars, ctlVars
  <2>. QED BY <2>2, <2>4, <2>5, <2>6, StillInv, Zenon DEF DiskInv
<1>. QED BY <1>2, <1>3, <1>4, <1>5, <1>6, <1>7, Zenon DEF Next

\* The invariant of the driver and its device.
THEOREM DiskInvariance == Spec => []DiskInv
  BY InitInv, NextInv, PTL DEF Spec

-----------------------------------------------------------------------------
(* The theorems *)

\* Every descriptor is free or in the chain of exactly one request, and every
\* request has three: free_chain() and the failing alloc3_desc() lose none.
THEOREM DescOwnedThm == Spec => []DescOwned
<1>1. ASSUME DiskInv PROVE DescOwned
  <2>1. TypeInv /\ OwnInv
    BY <1>1, Zenon DEF DiskInv
  <2>2. TypeOK
    <3>1. /\ \A i \in Descs : desc[i].next \in Descs /\ desc[i].more \in BOOLEAN
          /\ \A i \in Descs : ops[i].write \in BOOLEAN /\ ops[i].block \in Procs \cup {NoBlock}
          /\ \A p \in Procs : req[p].head \in Descs /\ req[p].write \in BOOLEAN
      BY <2>1, Zenon DEF TypeInv
    <3>. QED BY <2>1, <3>1, Zenon DEF TypeInv, TypeOK, Points, Idxs
  <2>3. \A p \in InFlight : Chain(req[p].head) = Own(p)
    BY <2>1, OwnChain, Zenon DEF First
  <2>4. ASSUME NEW p \in InFlight
        PROVE  Cardinality(Own(p)) = 3 /\ Own(p) \cap free = {} /\ Own(p) \subseteq Descs
    <3>1. First(p) # Second(p) /\ First(p) # Third(p) /\ Second(p) # Third(p)
      BY <2>1, <2>4, Zenon DEF OwnInv, Formatted
    <3>2. Cardinality(Own(p)) = 3
      BY <3>1, CardThree, Zenon DEF Own
    <3>3. Own(p) \subseteq Descs
      BY <2>1, <2>4, Parts, Zenon DEF Own, InFlight
    <3>. QED BY <2>1, <2>4, <3>2, <3>3, Zenon DEF OwnInv
  <2>5. \A p, q \in InFlight : p # q => Own(p) \cap Own(q) = {}
    BY <2>1, Zenon DEF OwnInv
  <2> DEFINE chain == [p \in InFlight |-> Chain(req[p].head)]
             U == UNION {chain[p] : p \in InFlight}
  <2>6. \A p \in InFlight : chain[p] = Own(p)
    BY <2>3, Zenon
  <2>7. U \cup free = Descs
    <3>1. free \subseteq Descs
      BY <2>1, Zenon DEF TypeInv
    <3>2. \A i \in Descs : i \in free \/ \E p \in InFlight : i \in Own(p)
      BY <2>1, Zenon DEF OwnInv
    <3> HIDE DEF chain
    <3>3. \A i : i \in U <=> \E p \in InFlight : i \in Own(p)
      BY <2>6, Zenon
    <3> HIDE DEF U
    <3>4. U \subseteq Descs /\ \A i \in Descs : i \in U \/ i \in free
      BY <2>4, <3>2, <3>3, Zenon
    <3>. QED BY <3>1, <3>4, Zenon
  <2>8. /\ \A p \in InFlight : Cardinality(chain[p]) = 3 /\ chain[p] \cap free = {}
        /\ \A p, q \in InFlight : p # q => chain[p] \cap chain[q] = {}
    <3> HIDE DEF chain
    <3>. QED BY <2>4, <2>5, <2>6, Zenon
  <2>. QED BY <2>2, <2>7, <2>8, Zenon DEF DescOwned
<1>. QED BY <1>1, DiskInvariance, PTL

\* When platform_qemu_disk_rw() is over, block and buffer agree.
THEOREM TransferredThm == Spec => []Transferred
<1>1. DiskInv => Transferred
  BY Zenon DEF DiskInv, MovedInv
<1>. QED BY <1>1, DiskInvariance, PTL

\* No wakeup is missed, and the interrupt handler never finds a bad status.
THEOREM OnItsWayThm == Spec => []OnItsWay
<1>1. ASSUME DiskInv PROVE OnItsWay
  <2>1. StageInv /\ MovedInv /\ WakeInv
    BY <1>1, Zenon DEF DiskInv
  <2>2. ASSUME NEW p \in Procs, pc[p] = "sleep_done" PROVE req[p].head \in Busy
    <3>1. p \in InFlight
      BY <2>2, Zenon DEF InFlight
    <3>. QED BY <2>1, <2>2, <3>1, Zenon DEF StageInv, First
  <2>3. ASSUME NEW h \in Used PROVE status[h] = "ok"
    <3>1. PICK p \in InFlight : First(p) = h
      BY <2>1, <2>3, Zenon DEF StageInv, Busy
    <3>. QED BY <2>1, <2>3, <3>1, Zenon DEF MovedInv
  <2>. QED BY <2>1, <2>2, <2>3, Zenon DEF OnItsWay, WakeInv, Busy, Available, Used
<1>. QED BY <1>1, DiskInvariance, PTL

\* The device touches a block or a buffer only for the request of the process that
\* holds them, in that request's direction, and not after it returned.
THEOREM DmaInWindowThm == Spec => DmaInWindow
<1> DEFINE Dma == \A p \in Procs :
       /\ disk'[p] # disk[p] => p \in InFlight /\ req[p].write /\ disk'[p] = buf[p]
       /\ buf'[p] # buf[p] => pc[p] = "idle" \/ (p \in InFlight /\ ~req[p].write)
<1>1. ASSUME DiskInv, [Next]_vars PROVE [Dma]_vars
  <2>1. TypeInv /\ OwnInv /\ StageInv
    BY <1>1, Zenon DEF DiskInv
  <2>2. ASSUME NEW q \in Procs, rw(q) PROVE Dma
    <3>1. pc[q] = "idle" /\ disk' = disk /\ \E v \in Vals : buf' = [buf EXCEPT ![q] = v]
      BY <2>2, Zenon DEF rw
    <3>2. buf \in [Procs -> Vals]
      BY <2>1, Zenon DEF TypeInv
    <3>. QED BY <3>1, <3>2, Zenon
  <2>3. ASSUME NEW h \in Descs, dev_complete(h) PROVE Dma
    <3>1. h \in pending
      BY <2>3, Zenon DEF dev_complete
    <3>2. PICK q \in InFlight : h = First(q)
      BY <2>1, <3>1, Zenon DEF StageInv, Busy
    <3>3. /\ \A p \in Procs : p # q => disk'[p] = disk[p] /\ buf'[p] = buf[p]
          /\ req[q].write => buf' = buf /\ disk'[q] = buf[q]
          /\ ~req[q].write => disk' = disk
      BY <2>1, <2>3, <3>2, DeviceMoves, Zenon
    <3>. QED BY <3>2, <3>3, Zenon
  <2>4. ASSUME disk' = disk, buf' = buf PROVE Dma
    BY <2>4, Zenon
  <2>5. ASSUME NEW p \in Procs, Driver(p) PROVE disk' = disk /\ buf' = buf
    BY <2>5, Zenon DEF Driver, alloc_fail, submit, complete, check
  <2>6. ASSUME dev_fetch \/ intr \/ intr_used \/ intr_end PROVE disk' = disk /\ buf' = buf
    BY <2>6, Zenon DEF dev_fetch, intr, intr_used, intr_end
  <2> HIDE DEF Dma
  <2>. QED BY <1>1, <2>2, <2>3, <2>4, <2>5, <2>6, Zenon DEF Next
<1>2. DmaInWindow <=> [][Dma]_vars
  BY Zenon DEF DmaInWindow
<1>. QED BY <1>1, <1>2, DiskInvariance, PTL DEF Spec

=============================================================================
