---------------------------- MODULE TerminalProofs ----------------------------
(***************************************************************************)
(* Proofs about Terminal, for all sizes of the two rings, widths of their  *)
(* indices, readers, writers, keys and orders of presses, releases and     *)
(* interrupts: the console implements Tty, output leaves complete and in   *)
(* order, nobody sleeps for what is there, and the keyboard's handler      *)
(* gives the console what the user meant.                                  *)
(***************************************************************************)
EXTENDS Terminal, TLAPS

-----------------------------------------------------------------------------
(* Sequences *)

\* A function on 1 .. k is a sequence.
LEMMA SeqFunction ==
  ASSUME NEW S, NEW k \in Nat, NEW s \in [1 .. k -> S]
  PROVE  s \in Seq(S)
OBVIOUS

\* A sequence is a function on 1 .. Len(s).
LEMMA SeqDomain ==
  ASSUME NEW S, NEW s \in Seq(S)
  PROVE  Len(s) \in Nat /\ DOMAIN s = 1 .. Len(s) /\ s \in [1 .. Len(s) -> S]
OBVIOUS

\* What is in a sequence is of its type.
LEMMA SeqElement ==
  ASSUME NEW S, NEW s \in Seq(S), NEW j \in 1 .. Len(s)
  PROVE  s[j] \in S
OBVIOUS

\* The empty sequence is the one of length 0.
LEMMA SeqEmpty ==
  ASSUME NEW S
  PROVE  /\ <<>> \in Seq(S) /\ Len(<<>>) = 0
         /\ \A s \in Seq(S) : s # <<>> => Len(s) \in Nat \ {0}
OBVIOUS

\* Sequences are equal when their lengths and elements are.
LEMMA SeqSame ==
  ASSUME NEW S, NEW s \in Seq(S), NEW t \in Seq(S),
         Len(s) = Len(t), \A j \in 1 .. Len(s) : s[j] = t[j]
  PROVE  s = t
OBVIOUS

\* The elements of a concatenation.
LEMMA SeqConcat ==
  ASSUME NEW S, NEW s \in Seq(S), NEW t \in Seq(S)
  PROVE  /\ s \o t \in Seq(S) /\ Len(s \o t) = Len(s) + Len(t)
         /\ \A j \in 1 .. Len(s) + Len(t) :
              (s \o t)[j] = IF j <= Len(s) THEN s[j] ELSE t[j - Len(s)]
OBVIOUS

\* Concatenation is associative.
LEMMA SeqAssoc ==
  ASSUME NEW S, NEW s \in Seq(S), NEW t \in Seq(S), NEW u \in Seq(S)
  PROVE  (s \o t) \o u = s \o (t \o u)
OBVIOUS

\* The elements of a part of a sequence.
LEMMA SeqPart ==
  ASSUME NEW S, NEW s, NEW a \in Int, NEW b \in Int, \A j \in a .. b : s[j] \in S
  PROVE  /\ SubSeq(s, a, b) \in Seq(S)
         /\ Len(SubSeq(s, a, b)) = IF a <= b THEN b - a + 1 ELSE 0
         /\ \A j \in 1 .. b - a + 1 : SubSeq(s, a, b)[j] = s[a + j - 1]
OBVIOUS

\* The elements of a tail.
LEMMA SeqTail ==
  ASSUME NEW S, NEW s \in Seq(S), s # <<>>
  PROVE  /\ Head(s) \in S /\ Tail(s) \in Seq(S) /\ Len(Tail(s)) = Len(s) - 1
         /\ \A j \in 1 .. Len(Tail(s)) : Tail(s)[j] = s[j + 1]
OBVIOUS

\* The elements of a sequence to which one is appended.
LEMMA SeqAppend ==
  ASSUME NEW S, NEW s \in Seq(S), NEW c \in S
  PROVE  /\ Append(s, c) \in Seq(S) /\ Append(s, c) # <<>>
         /\ Len(Append(s, c)) = Len(s) + 1
         /\ \A j \in 1 .. Len(s) : Append(s, c)[j] = s[j]
         /\ Append(s, c)[Len(s) + 1] = c
OBVIOUS

\* Appending is concatenating one element.
LEMMA AppendOne ==
  ASSUME NEW S, NEW s \in Seq(S), NEW c \in S
  PROVE  Append(s, c) = s \o <<c>>
OBVIOUS

-----------------------------------------------------------------------------
(* Indices of width big, and places in a ring of size m *)

\* A remainder is in range, and what it is next to the range.
LEMMA ModNear ==
  ASSUME NEW m \in Nat \ {0}, NEW x \in Int
  PROVE  /\ x % m \in 0 .. m - 1
         /\ 0 <= x /\ x < m => x % m = x
         /\ m <= x /\ x < 2 * m => x % m = x - m
         /\ -m <= x /\ x < 0 => x % m = x + m
OBVIOUS

\* Quotient and remainder.
LEMMA DivMod ==
  ASSUME NEW m \in Nat \ {0}, NEW x \in Int
  PROVE  x \div m \in Int /\ x % m \in Int /\ x = m * (x \div m) + (x % m)
OBVIOUS

\* A positive multiple of m is at least m.
LEMMA AtLeastOnce ==
  ASSUME NEW m \in Nat \ {0}, NEW k \in Int, k >= 1
  PROVE  k * m >= m
OBVIOUS

\* Numbers less than m apart that differ by a multiple of m are equal.
LEMMA NoMultiple ==
  ASSUME NEW m \in Nat \ {0}, NEW x \in Int, NEW y \in Int, NEW t \in Int,
         x - y = t * m, x - y < m, y - x < m
  PROVE  x = y
<1>1. CASE t = 0
  BY <1>1
<1>2. CASE t >= 1
  BY <1>2, AtLeastOnce
<1>3. CASE -t >= 1
  <2>1. (-t) * m >= m /\ (-t) * m = y - x
    BY <1>3, AtLeastOnce
  <2>. QED BY <2>1
<1>. QED BY <1>1, <1>2, <1>3

\* Places repeat after whole rings.
LEMMA PlaceShift ==
  ASSUME NEW m \in Nat \ {0}, NEW x \in Int, NEW t \in Int
  PROVE  (x + t * m) % m = x % m
<1>1. PICK y \in Int : y = x + t * m
  OBVIOUS
<1>2. PICK i \in Int : x = m * i + (x % m)
  BY DivMod, Zenon
<1>3. PICK j \in Int : y = m * j + (y % m)
  BY DivMod, Zenon
<1>4. x % m \in 0 .. m - 1 /\ y % m \in 0 .. m - 1
  BY ModNear, Zenon
<1>5. PICK a \in 0 .. m - 1 : a = x % m
  BY <1>4, Zenon
<1>6. PICK b \in 0 .. m - 1 : b = y % m
  BY <1>4, Zenon
<1>7. i - j + t \in Int /\ b - a = (i - j + t) * m
  BY <1>1, <1>2, <1>3, <1>5, <1>6
<1>8. b \in Int /\ a \in Int /\ b - a < m /\ a - b < m
  OBVIOUS
<1>9. b = a
  BY <1>7, <1>8, NoMultiple, Zenon
<1>. QED BY <1>1, <1>5, <1>6, <1>9, Zenon

\* Places less than a ring apart are different.
LEMMA PlacesDiffer ==
  ASSUME NEW m \in Nat \ {0}, NEW a \in Int, NEW j \in 0 .. m - 1, NEW k \in 0 .. m - 1,
         (a + j) % m = (a + k) % m
  PROVE  j = k
<1>1. PICK x \in Int : x = a + j
  OBVIOUS
<1>2. PICK y \in Int : y = a + k
  OBVIOUS
<1>3. PICK i \in Int : x = m * i + (x % m)
  BY DivMod, Zenon
<1>4. PICK l \in Int : y = m * l + (y % m)
  BY DivMod, Zenon
<1>5. PICK b \in Int : b = x % m /\ b = y % m
  BY <1>1, <1>2, DivMod, Zenon
<1>6. i - l \in Int /\ j - k = (i - l) * m
  BY <1>1, <1>2, <1>3, <1>4, <1>5
<1>7. j \in Int /\ k \in Int /\ j - k < m /\ k - j < m
  OBVIOUS
<1>. QED BY <1>6, <1>7, NoMultiple, Zenon

\* An index that wraps moves by whole rings, as its width is a multiple of m.
LEMMA Aligned ==
  ASSUME NEW m \in Nat \ {0}, NEW big \in Nat \ {0}, big % m = 0, NEW x \in Int
  PROVE  \E t \in Int : x % big = x + t * m
<1>1. big \div m \in Int /\ big = m * (big \div m)
  BY DivMod
<1>2. x \div big \in Int /\ x % big \in Int /\ x = big * (x \div big) + (x % big)
  BY DivMod, Zenon
<1> DEFINE t == (-(x \div big)) * (big \div m)
<1>3. t \in Int /\ t * m = -((x \div big) * big)
  BY <1>1, <1>2
<1>4. x % big = x + t * m
  BY <1>2, <1>3
<1> HIDE DEF t
<1>. QED BY <1>3, <1>4, Zenon

\* How far it is from index a to index b.
Dist(big, a, b) == (b - a) % big

\* The same as a relation.
DistIs(big, a, b, d) == Dist(big, a, b) = d

\* The two cases of a distance.
LEMMA DistUp ==
  ASSUME NEW big \in Nat \ {0}, NEW a \in 0 .. big - 1, NEW b \in 0 .. big - 1, a <= b
  PROVE  Dist(big, a, b) = b - a
  BY DEF Dist

\* The index has wrapped between a and b.
LEMMA DistWrap ==
  ASSUME NEW big \in Nat \ {0}, NEW a \in 0 .. big - 1, NEW b \in 0 .. big - 1, b < a
  PROVE  Dist(big, a, b) = b - a + big
  BY DEF Dist

\* The range of distances, and when they are 0.
LEMMA DistType ==
  ASSUME NEW big \in Nat \ {0}, NEW a \in 0 .. big - 1, NEW b \in 0 .. big - 1
  PROVE  /\ Dist(big, a, b) \in Nat /\ Dist(big, a, b) < big
         /\ Dist(big, a, b) = 0 <=> a = b
<1>1. CASE a <= b
  <2>1. Dist(big, a, b) = b - a
    BY <1>1, DistUp
  <2>. QED BY <1>1, <2>1
<1>2. CASE b < a
  <2>1. Dist(big, a, b) = b - a + big
    BY <1>2, DistWrap
  <2>. QED BY <1>2, <2>1
<1>. QED BY <1>1, <1>2

\* Moving the end of a stretch of the ring forward.
LEMMA DistEnd ==
  ASSUME NEW big \in Nat \ {0}, NEW a \in 0 .. big - 1, NEW b \in 0 .. big - 1, NEW k \in Nat,
         Dist(big, a, b) + k < big
  PROVE  /\ (b + k) % big \in 0 .. big - 1
         /\ DistIs(big, a, (b + k) % big, Dist(big, a, b) + k)
<1> DEFINE x == b + k
           c == x % big
           D == Dist(big, a, b)
<1>1. D \in Nat /\ D < big /\ (a <= b => D = b - a) /\ (b < a => D = b - a + big)
  <2>1. D \in Nat /\ D < big
    BY DistType, Zenon
  <2>2. a <= b => D = b - a
    BY DistUp, Zenon
  <2>3. b < a => D = b - a + big
    BY DistWrap, Zenon
  <2>. QED BY <2>1, <2>2, <2>3
<1>2. D + k < big
  BY Zenon
<1>3. x \in Int /\ x = b + k
  OBVIOUS
<1> HIDE DEF x, D
<1>4. /\ c \in 0 .. big - 1
      /\ 0 <= x /\ x < big => c = x
      /\ big <= x /\ x < 2 * big => c = x - big
      /\ -big <= x /\ x < 0 => c = x + big
  BY <1>3, ModNear, Zenon
<1> HIDE DEF c
<1>5. (a <= c => Dist(big, a, c) = c - a) /\ (c < a => Dist(big, a, c) = c - a + big)
  BY <1>4, DistUp, DistWrap, Zenon
<1>6. Dist(big, a, c) = D + k
  BY ONLY big \in Nat, a \in 0 .. big - 1, b \in 0 .. big - 1, k \in Nat,
          <1>1, <1>2, <1>3, <1>4, <1>5
<1>. QED BY <1>3, <1>4, <1>6, Zenon DEF c, D, DistIs

\* Moving its end back.
LEMMA DistBack ==
  ASSUME NEW big \in Nat \ {0}, NEW a \in 0 .. big - 1, NEW b \in 0 .. big - 1, NEW k \in Nat,
         k <= Dist(big, a, b)
  PROVE  /\ (b - k) % big \in 0 .. big - 1
         /\ DistIs(big, a, (b - k) % big, Dist(big, a, b) - k)
<1> DEFINE x == b - k
           c == x % big
           D == Dist(big, a, b)
<1>1. D \in Nat /\ D < big /\ (a <= b => D = b - a) /\ (b < a => D = b - a + big)
  <2>1. D \in Nat /\ D < big
    BY DistType, Zenon
  <2>2. a <= b => D = b - a
    BY DistUp, Zenon
  <2>3. b < a => D = b - a + big
    BY DistWrap, Zenon
  <2>. QED BY <2>1, <2>2, <2>3
<1>2. k <= D
  BY Zenon
<1>3. x \in Int /\ x = b - k
  OBVIOUS
<1> HIDE DEF x, D
<1>4. /\ c \in 0 .. big - 1
      /\ 0 <= x /\ x < big => c = x
      /\ big <= x /\ x < 2 * big => c = x - big
      /\ -big <= x /\ x < 0 => c = x + big
  BY <1>3, ModNear, Zenon
<1> HIDE DEF c
<1>5. (a <= c => Dist(big, a, c) = c - a) /\ (c < a => Dist(big, a, c) = c - a + big)
  BY <1>4, DistUp, DistWrap, Zenon
<1>6. Dist(big, a, c) = D - k
  BY ONLY big \in Nat, a \in 0 .. big - 1, b \in 0 .. big - 1, k \in Nat,
          <1>1, <1>2, <1>3, <1>4, <1>5
<1>. QED BY <1>3, <1>4, <1>6, Zenon DEF c, D, DistIs

\* Moving its beginning forward.
LEMMA DistBegin ==
  ASSUME NEW big \in Nat \ {0}, NEW a \in 0 .. big - 1, NEW b \in 0 .. big - 1, NEW k \in Nat,
         k <= Dist(big, a, b)
  PROVE  /\ (a + k) % big \in 0 .. big - 1
         /\ DistIs(big, (a + k) % big, b, Dist(big, a, b) - k)
<1> DEFINE x == a + k
           c == x % big
           D == Dist(big, a, b)
<1>1. D \in Nat /\ D < big /\ (a <= b => D = b - a) /\ (b < a => D = b - a + big)
  <2>1. D \in Nat /\ D < big
    BY DistType, Zenon
  <2>2. a <= b => D = b - a
    BY DistUp, Zenon
  <2>3. b < a => D = b - a + big
    BY DistWrap, Zenon
  <2>. QED BY <2>1, <2>2, <2>3
<1>2. k <= D
  BY Zenon
<1>3. x \in Int /\ x = a + k
  OBVIOUS
<1> HIDE DEF x, D
<1>4. /\ c \in 0 .. big - 1
      /\ 0 <= x /\ x < big => c = x
      /\ big <= x /\ x < 2 * big => c = x - big
      /\ -big <= x /\ x < 0 => c = x + big
  BY <1>3, ModNear, Zenon
<1> HIDE DEF c
<1>5. (c <= b => Dist(big, c, b) = b - c) /\ (b < c => Dist(big, c, b) = b - c + big)
  BY <1>4, DistUp, DistWrap, Zenon
<1>6. Dist(big, c, b) = D - k
  BY ONLY big \in Nat, a \in 0 .. big - 1, b \in 0 .. big - 1, k \in Nat,
          <1>1, <1>2, <1>3, <1>4, <1>5
<1>. QED BY <1>3, <1>4, <1>6, Zenon DEF c, D, DistIs

\* Distances add up along the ring.
LEMMA DistSplit ==
  ASSUME NEW big \in Nat \ {0},
         NEW a \in 0 .. big - 1, NEW b \in 0 .. big - 1, NEW c \in 0 .. big - 1,
         Dist(big, a, b) <= Dist(big, a, c)
  PROVE  Dist(big, b, c) = Dist(big, a, c) - Dist(big, a, b)
<1>1. /\ (a <= b => Dist(big, a, b) = b - a) /\ (b < a => Dist(big, a, b) = b - a + big)
      /\ (a <= c => Dist(big, a, c) = c - a) /\ (c < a => Dist(big, a, c) = c - a + big)
      /\ (b <= c => Dist(big, b, c) = c - b) /\ (c < b => Dist(big, b, c) = c - b + big)
  BY DistUp, DistWrap, Zenon
<1>. QED BY <1>1

\* Positions x and y are at the same place.
SamePlace(m, x, y) == x % m = y % m

\* An index is as many places behind another as they are apart.
LEMMA DistPlace ==
  ASSUME NEW m \in Nat \ {0}, NEW big \in Nat \ {0}, big % m = 0,
         NEW a \in 0 .. big - 1, NEW b \in 0 .. big - 1, NEW j \in Int
  PROVE  SamePlace(m, b + j, a + (Dist(big, a, b) + j))
<1>1. PICK x \in Int : x = b - a
  OBVIOUS
<1>2. PICK t \in Int : x % big = x + t * m
  BY Aligned, Zenon
<1>3. PICK d \in Nat : d = x % big
  BY ModNear
<1>4. /\ b + j \in Int /\ a + (d + j) = (b + j) + t * m
  BY <1>1, <1>2, <1>3
<1>5. ((b + j) + t * m) % m = (b + j) % m
  BY <1>4, PlaceShift, Zenon
<1>. QED BY <1>1, <1>3, <1>4, <1>5, Zenon DEF Dist, SamePlace

-----------------------------------------------------------------------------
(* What a ring holds *)

\* The k elements of ring f, of size m, from index a on.
Seg(f, m, a, k) == [j \in 1 .. k |-> f[(a + j - 1) % m]]

IsSeg(s, S, f, m, a, k) ==
  s \in Seq(S) /\ Len(s) = k /\ \A j \in 1 .. k : s[j] = f[(a + j - 1) % m]

\* A function on 1 .. k is a sequence of length k.
LEMMA RangeSeq ==
  ASSUME NEW S, NEW k \in Nat, NEW s \in [1 .. k -> S]
  PROVE  s \in Seq(S) /\ Len(s) = k
<1>1. s \in Seq(S)
  BY SeqFunction, Zenon
<1>2. Len(s) \in Nat /\ DOMAIN s = 1 .. Len(s)
  BY <1>1, SeqDomain, Zenon
<1>3. 1 .. k = 1 .. Len(s)
  BY <1>2, Zenon
<1>4. k > Len(s) => k \in 1 .. k /\ k \notin 1 .. Len(s)
  BY <1>2
<1>5. Len(s) > k => Len(s) \in 1 .. Len(s) /\ Len(s) \notin 1 .. k
  BY <1>2
<1>. QED BY <1>1, <1>2, <1>3, <1>4, <1>5

\* A stretch of a ring is a sequence.
LEMMA SegSeq ==
  ASSUME NEW S, NEW m \in Nat \ {0}, NEW f \in [0 .. m - 1 -> S], NEW a \in Int, NEW k \in Nat
  PROVE  IsSeg(Seg(f, m, a, k), S, f, m, a, k)
<1>1. \A j \in 1 .. k : (a + j - 1) % m \in 0 .. m - 1
  <2> TAKE j \in 1 .. k
  <2>1. a + j - 1 \in Int
    OBVIOUS
  <2>. QED BY <2>1, ModNear, Zenon
<1>2. Seg(f, m, a, k) \in [1 .. k -> S]
  BY <1>1, Zenon DEF Seg
<1>3. Seg(f, m, a, k) \in Seq(S) /\ Len(Seg(f, m, a, k)) = k
  BY <1>2, RangeSeq, Zenon
<1>. QED BY <1>3, Zenon DEF Seg, IsSeg

\* An empty stretch.
LEMMA SegEmpty ==
  ASSUME NEW f, NEW m, NEW a
  PROVE  Seg(f, m, a, 0) = <<>>
<1>1. 1 .. 0 = {}
  OBVIOUS
<1>2. Seg(f, m, a, 0) \in [1 .. 0 -> {}]
  BY <1>1, Zenon DEF Seg
<1>3. Seg(f, m, a, 0) \in Seq({}) /\ Len(Seg(f, m, a, 0)) = 0
  <2>1. 0 \in Nat
    OBVIOUS
  <2>. QED BY <1>2, <2>1, RangeSeq, Zenon
<1>. QED BY <1>3, SeqEmpty

\* One more at the end.
IsLonger(f, m, a, k) == Seg(f, m, a, k + 1) = Append(Seg(f, m, a, k), f[(a + k) % m])

\* A stretch that is one longer has the next element at its end.
LEMMA SegAppend ==
  ASSUME NEW S, NEW m \in Nat \ {0}, NEW f \in [0 .. m - 1 -> S], NEW a \in Int, NEW k \in Nat
  PROVE  IsLonger(f, m, a, k)
<1> DEFINE s == Seg(f, m, a, k)
           u == Seg(f, m, a, k + 1)
           c == f[(a + k) % m]
<1>0. k + 1 \in Nat /\ a + k \in Int /\ k + 1 \in 1 .. k + 1 /\ a + (k + 1) - 1 = a + k
  OBVIOUS
<1>1. IsSeg(s, S, f, m, a, k)
  BY SegSeq, Zenon
<1>2. IsSeg(u, S, f, m, a, k + 1)
  BY <1>0, SegSeq, Zenon
<1>3. u[k + 1] = c
  BY <1>0, <1>2, Zenon DEF IsSeg
<1>4. c \in S
  BY <1>0, ModNear, Zenon
<1> HIDE DEF s, u, c
<1> USE DEF IsSeg
<1>5. /\ Append(s, c) \in Seq(S) /\ Len(Append(s, c)) = k + 1
      /\ \A j \in 1 .. k : Append(s, c)[j] = s[j]
      /\ Append(s, c)[k + 1] = c
  BY <1>1, <1>4, SeqAppend
<1>6. ASSUME NEW j \in 1 .. k + 1 PROVE u[j] = Append(s, c)[j]
  <2>1. CASE j = k + 1
    BY <2>1, <1>3, <1>5, Zenon
  <2>2. CASE j # k + 1
    <3>1. j \in 1 .. k
      BY <2>2
    <3>. QED BY <3>1, <1>1, <1>2, <1>5, Zenon
  <2>. QED BY <2>1, <2>2, Zenon
<1>7. u = Append(s, c)
  BY <1>2, <1>5, <1>6, SeqSame, Zenon
<1>. QED BY <1>7, Zenon DEF s, u, c, IsLonger

\* One less at the front.
IsTail(f, m, a, k) ==
  /\ Seg(f, m, a + 1, k) = Tail(Seg(f, m, a, k + 1))
  /\ Head(Seg(f, m, a, k + 1)) = f[a % m]
  /\ Seg(f, m, a, k + 1) # <<>>

\* A stretch that begins one later is the tail of the longer one.
LEMMA SegTail ==
  ASSUME NEW S, NEW m \in Nat \ {0}, NEW f \in [0 .. m - 1 -> S], NEW a \in Int, NEW k \in Nat
  PROVE  IsTail(f, m, a, k)
<1> DEFINE s == Seg(f, m, a + 1, k)
           u == Seg(f, m, a, k + 1)
<1>0. /\ k + 1 \in Nat /\ a + 1 \in Int /\ 1 \in 1 .. k + 1 /\ a + 1 - 1 = a
      /\ k + 1 # 0 /\ (k + 1) - 1 = k
  OBVIOUS
<1>1. IsSeg(s, S, f, m, a + 1, k)
  BY <1>0, SegSeq, Zenon
<1>2. IsSeg(u, S, f, m, a, k + 1)
  BY <1>0, SegSeq, Zenon
<1>3. u[1] = f[a % m]
  BY <1>0, <1>2, Zenon DEF IsSeg
<1> HIDE DEF s, u
<1> USE DEF IsSeg
<1>4. u # <<>>
  BY <1>0, <1>2, SeqEmpty, Zenon
<1>5. /\ Tail(u) \in Seq(S) /\ Len(Tail(u)) = k
      /\ \A j \in 1 .. k : Tail(u)[j] = u[j + 1]
  BY <1>0, <1>2, <1>4, SeqTail
<1>6. ASSUME NEW j \in 1 .. k PROVE s[j] = Tail(u)[j]
  <2>1. j + 1 \in 1 .. k + 1 /\ (a + 1) + j - 1 = a + (j + 1) - 1
    OBVIOUS
  <2>2. s[j] = f[(a + 1 + j - 1) % m]
    BY <1>1, Zenon
  <2>3. Tail(u)[j] = u[j + 1] /\ u[j + 1] = f[(a + (j + 1) - 1) % m]
    BY <1>2, <1>5, <2>1, Zenon
  <2>. QED BY <2>1, <2>2, <2>3, Zenon
<1>7. s = Tail(u)
  BY <1>1, <1>5, <1>6, SeqSame, Zenon
<1>8. Head(u) = u[1]
  BY <1>2, <1>4
<1>. QED BY <1>3, <1>4, <1>7, <1>8, Zenon DEF s, u, IsTail

\* All but the last.
IsFront(f, m, a, k) == SubSeq(Seg(f, m, a, k + 1), 1, k) = Seg(f, m, a, k)

\* A stretch that ends one earlier is the longer one without its last element.
LEMMA SegFront ==
  ASSUME NEW S, NEW m \in Nat \ {0}, NEW f \in [0 .. m - 1 -> S], NEW a \in Int, NEW k \in Nat
  PROVE  IsFront(f, m, a, k)
<1> DEFINE s == Seg(f, m, a, k)
           u == Seg(f, m, a, k + 1)
<1>0. k + 1 \in Nat /\ 1 \in Int /\ k \in Int /\ (\A j \in 1 .. k : j \in 1 .. k + 1)
  OBVIOUS
<1>1. IsSeg(s, S, f, m, a, k)
  BY SegSeq, Zenon
<1>2. IsSeg(u, S, f, m, a, k + 1)
  BY <1>0, SegSeq, Zenon
<1> HIDE DEF s, u
<1> USE DEF IsSeg
<1>3. \A j \in 1 .. k : u[j] \in S
  BY <1>0, <1>2, SeqElement, Zenon
<1>4. /\ SubSeq(u, 1, k) \in Seq(S)
      /\ Len(SubSeq(u, 1, k)) = IF 1 <= k THEN k - 1 + 1 ELSE 0
      /\ \A j \in 1 .. k - 1 + 1 : SubSeq(u, 1, k)[j] = u[1 + j - 1]
  BY <1>0, <1>3, SeqPart
<1>5. /\ Len(SubSeq(u, 1, k)) = k
      /\ \A j \in 1 .. k : SubSeq(u, 1, k)[j] = u[j]
  BY <1>4
<1>6. \A j \in 1 .. k : SubSeq(u, 1, k)[j] = s[j]
  BY <1>0, <1>1, <1>2, <1>5, Zenon
<1>7. SubSeq(u, 1, k) = s
  BY <1>1, <1>4, <1>5, <1>6, SeqSame, Zenon
<1>. QED BY <1>7, Zenon DEF s, u, IsFront

\* One stretch behind another.
Joined(f, m, a, k, l) == Seg(f, m, a, k + l) = Seg(f, m, a, k) \o Seg(f, m, a + k, l)

\* Two stretches that meet are one.
LEMMA SegConcat ==
  ASSUME NEW S, NEW m \in Nat \ {0}, NEW f \in [0 .. m - 1 -> S], NEW a \in Int,
         NEW k \in Nat, NEW l \in Nat
  PROVE  Joined(f, m, a, k, l)
<1> DEFINE s == Seg(f, m, a, k)
           v == Seg(f, m, a + k, l)
           u == Seg(f, m, a, k + l)
<1>0. k + l \in Nat /\ a + k \in Int
  OBVIOUS
<1>1. IsSeg(s, S, f, m, a, k)
  BY SegSeq, Zenon
<1>2. IsSeg(v, S, f, m, a + k, l)
  BY <1>0, SegSeq, Zenon
<1>3. IsSeg(u, S, f, m, a, k + l)
  BY <1>0, SegSeq, Zenon
<1> HIDE DEF s, u, v
<1> USE DEF IsSeg
<1>4. /\ s \o v \in Seq(S) /\ Len(s \o v) = k + l
      /\ \A j \in 1 .. k + l : (s \o v)[j] = IF j <= k THEN s[j] ELSE v[j - k]
  <2>1. s \in Seq(S) /\ v \in Seq(S) /\ Len(s) = k /\ Len(v) = l
    BY <1>1, <1>2, Zenon
  <2>2. /\ s \o v \in Seq(S) /\ Len(s \o v) = Len(s) + Len(v)
        /\ \A j \in 1 .. Len(s) + Len(v) : (s \o v)[j] =
             IF j <= Len(s) THEN s[j] ELSE v[j - Len(s)]
    BY ONLY <2>1, SeqConcat, Zenon
  <2>. QED BY ONLY <2>1, <2>2, Zenon
<1>5. ASSUME NEW j \in 1 .. k + l PROVE u[j] = (s \o v)[j]
  <2>1. CASE j <= k
    <3>1. j \in 1 .. k
      BY <2>1
    <3>. QED BY <2>1, <3>1, <1>1, <1>3, <1>4, Zenon
  <2>2. CASE ~(j <= k)
    <3>1. j - k \in 1 .. l /\ (a + k) + (j - k) - 1 = a + j - 1
      BY <2>2
    <3>2. (s \o v)[j] = v[j - k]
      BY <2>2, <1>4, Zenon
    <3>. QED BY <3>1, <3>2, <1>2, <1>3, Zenon
  <2>. QED BY <2>1, <2>2, Zenon
<1>6. u = s \o v
  BY <1>3, <1>4, <1>5, SeqSame, Zenon
<1>. QED BY <1>6, Zenon DEF s, u, v, Joined

\* Appending to the second of two sequences.
Moves(s, t, c) == Append(s \o t, c) = s \o Append(t, c)

\* What is appended to a concatenation is appended to its second part.
LEMMA AppendConcat ==
  ASSUME NEW S, NEW s \in Seq(S), NEW t \in Seq(S), NEW c \in S
  PROVE  Moves(s, t, c)
<1>1. s \o t \in Seq(S) /\ <<c>> \in Seq(S)
  OBVIOUS
<1>2. Append(s \o t, c) = (s \o t) \o <<c>>
  BY ONLY <1>1, c \in S, AppendOne
<1>3. Append(t, c) = t \o <<c>>
  BY ONLY t \in Seq(S), c \in S, AppendOne
<1>4. (s \o t) \o <<c>> = s \o (t \o <<c>>)
  BY ONLY s \in Seq(S), t \in Seq(S), <1>1, SeqAssoc
<1>. QED BY <1>2, <1>3, <1>4, Zenon DEF Moves

-----------------------------------------------------------------------------
(* A ring of size m between two indices of width big *)

Sized(m, big) == m \in Nat \ {0} /\ big \in Nat \ {0} /\ big % m = 0 /\ m < big

Put(f, x, c) == [f EXCEPT ![x] = c]

\* What is between the indices a and b.
Held(f, m, big, a, b) == Seg(f, m, a, Dist(big, a, b))

\* Rings f and g agree on the places of the indices a + i to a + j - 1.
Agree(g, f, m, a, i, j) == \A d \in i .. j - 1 : g[(a + d) % m] = f[(a + d) % m]

SameSeg(g, f, m, a, k) == Seg(g, m, a, k) = Seg(f, m, a, k)

\* A stretch of which no place changed.
LEMMA SegAgree ==
  ASSUME NEW m, NEW f, NEW g, NEW a \in Int, NEW k \in Nat, Agree(g, f, m, a, 0, k)
  PROVE  SameSeg(g, f, m, a, k)
<1>1. ASSUME NEW j \in 1 .. k PROVE g[(a + j - 1) % m] = f[(a + j - 1) % m]
  <2>1. j - 1 \in 0 .. k - 1 /\ a + j - 1 = a + (j - 1)
    OBVIOUS
  <2>. QED BY <2>1, Zenon DEF Agree
<1>. QED BY <1>1, Zenon DEF Seg, SameSeg

\* Stretches that begin at the same place.
LEMMA SegAt ==
  ASSUME NEW m, NEW f, NEW x \in Int, NEW y \in Int, NEW k \in Nat,
         \A j \in Int : SamePlace(m, x + j, y + j)
  PROVE  Seg(f, m, x, k) = Seg(f, m, y, k)
<1>1. ASSUME NEW j \in 1 .. k PROVE (x + j - 1) % m = (y + j - 1) % m
  <2>1. j - 1 \in Int /\ x + j - 1 = x + (j - 1) /\ y + j - 1 = y + (j - 1)
    OBVIOUS
  <2>. QED BY <2>1, Zenon DEF SamePlace
<1>. QED BY <1>1, Zenon DEF Seg

\* An element is put at one place: the others keep theirs.
LEMMA PutAgree ==
  ASSUME NEW S, NEW m \in Nat \ {0}, NEW f \in [0 .. m - 1 -> S], NEW a \in Int, NEW c,
         NEW l \in 0 .. m - 1, NEW i \in Nat, NEW j \in Nat, j <= m,
         l < i \/ j <= l
  PROVE  Agree(Put(f, (a + l) % m, c), f, m, a, i, j)
<1>1. ASSUME NEW d \in i .. j - 1
      PROVE  Put(f, (a + l) % m, c)[(a + d) % m] = f[(a + d) % m]
  <2>1. d \in 0 .. m - 1 /\ d # l /\ a + d \in Int
    OBVIOUS
  <2>2. (a + d) % m # (a + l) % m
    BY <2>1, PlacesDiffer, Zenon
  <2>3. (a + d) % m \in 0 .. m - 1
    BY <2>1, ModNear, Zenon
  <2>. QED BY <2>2, <2>3, Zenon DEF Put
<1>. QED BY <1>1, Zenon DEF Agree

\* The place of an index, seen from another.
LEMMA IndexPlace ==
  ASSUME NEW m, NEW big, Sized(m, big), NEW a \in 0 .. big - 1, NEW b \in 0 .. big - 1
  PROVE  b % m = (a + Dist(big, a, b)) % m
<1>0. m \in Nat \ {0} /\ big \in Nat \ {0} /\ big % m = 0
  BY Zenon DEF Sized
<1>1. b + 0 = b /\ Dist(big, a, b) + 0 = Dist(big, a, b) /\ 0 \in Int
  BY <1>0, DistType
<1>2. SamePlace(m, b + 0, a + (Dist(big, a, b) + 0))
  BY <1>0, <1>1, DistPlace, Zenon
<1>. QED BY <1>1, <1>2, Zenon DEF SamePlace

\* What is between b and c, seen from a.
SeenFrom(f, m, big, a, b, c) ==
  Held(f, m, big, b, c) = Seg(f, m, a + Dist(big, a, b), Dist(big, b, c))

\* The contents of a ring can be counted from any earlier index.
LEMMA HeldAt ==
  ASSUME NEW m, NEW big, Sized(m, big), NEW f,
         NEW a \in 0 .. big - 1, NEW b \in 0 .. big - 1, NEW c \in 0 .. big - 1
  PROVE  SeenFrom(f, m, big, a, b, c)
<1>0. /\ m \in Nat \ {0} /\ big \in Nat \ {0} /\ big % m = 0
      /\ Dist(big, a, b) \in Nat /\ Dist(big, b, c) \in Nat
  BY DistType, Zenon DEF Sized
<1>1. PICK k \in Nat : k = Dist(big, b, c)
  BY <1>0, Zenon
<1>2. PICK x \in Int : x = a + Dist(big, a, b)
  BY <1>0
<1>3. ASSUME NEW j \in Int PROVE SamePlace(m, b + j, x + j)
  <2>1. x + j = a + (Dist(big, a, b) + j)
    BY <1>0, <1>2
  <2>2. SamePlace(m, b + j, a + (Dist(big, a, b) + j))
    BY <1>0, DistPlace, Zenon
  <2>. QED BY <2>1, <2>2, Zenon
<1>4. b \in Int
  OBVIOUS
<1>5. Seg(f, m, b, k) = Seg(f, m, x, k)
  <2>1. \A j \in Int : SamePlace(m, b + j, x + j)
    BY <1>3, Zenon
  <2>. QED BY ONLY k \in Nat, x \in Int, <1>4, <2>1, SegAt, ZenonT(60)
<1>. QED BY <1>1, <1>2, <1>5, Zenon DEF Held, SeenFrom

\* An element is put in behind the last.
IsPut(g, f, m, big, a, b, c) ==
  /\ Dist(big, a, (b + 1) % big) = Dist(big, a, b) + 1
  /\ Held(g, m, big, a, (b + 1) % big) = Append(Held(f, m, big, a, b), c)

\* Writing at the index behind the last element, and advancing it, appends, with or
\* without a wrap of the index or of the place.
LEMMA RingPut ==
  ASSUME NEW S, NEW m, NEW big, Sized(m, big), NEW f \in [0 .. m - 1 -> S],
         NEW a \in 0 .. big - 1, NEW b \in 0 .. big - 1, NEW c \in S, Dist(big, a, b) < m
  PROVE  IsPut(Put(f, b % m, c), f, m, big, a, b, c)
<1>0. /\ m \in Nat \ {0} /\ big \in Nat \ {0} /\ m < big
      /\ Dist(big, a, b) \in Nat
  BY DistType, Zenon DEF Sized
<1>1. PICK k \in Nat : k = Dist(big, a, b)
  BY <1>0, Zenon
<1>2. k \in 0 .. m - 1 /\ k < m /\ k + 1 < big /\ 1 \in Nat /\ 0 \in Nat /\ k <= m /\ k <= k
  BY <1>0, <1>1
<1>3. Dist(big, a, (b + 1) % big) = k + 1
  <2>1. DistIs(big, a, (b + 1) % big, Dist(big, a, b) + 1)
    BY <1>0, <1>1, <1>2, DistEnd, Zenon
  <2>. QED BY <1>1, <2>1, Zenon DEF DistIs
<1>4. b % m = (a + k) % m /\ (a + k) % m \in 0 .. m - 1
  <2>1. a + k \in Int
    OBVIOUS
  <2>2. b % m = (a + Dist(big, a, b)) % m
    BY <1>0, IndexPlace, Zenon
  <2>3. (a + k) % m \in 0 .. m - 1
    BY <1>0, <2>1, ModNear, Zenon
  <2>. QED BY <1>1, <2>2, <2>3, Zenon
<1> DEFINE g == Put(f, (a + k) % m, c)
<1>5. a \in Int
  OBVIOUS
<1>6. Agree(g, f, m, a, 0, k)
  BY <1>0, <1>2, <1>5, PutAgree, Zenon
<1>7. g \in [0 .. m - 1 -> S] /\ g[(a + k) % m] = c
  BY <1>4, Zenon DEF Put
<1> HIDE DEF g
<1>8. SameSeg(g, f, m, a, k)
  BY <1>5, <1>6, SegAgree, Zenon
<1>9. IsLonger(g, m, a, k)
  BY <1>0, <1>5, <1>7, SegAppend, Zenon
<1>10. Held(g, m, big, a, (b + 1) % big) = Append(Held(f, m, big, a, b), c)
  BY <1>1, <1>3, <1>7, <1>8, <1>9, Zenon DEF Held, SameSeg, IsLonger
<1>. QED BY <1>1, <1>3, <1>4, <1>10, Zenon DEF IsPut, g

\* The first element is taken out (and overwritten).
IsGot(g, f, m, big, a, b) ==
  /\ Dist(big, (a + 1) % big, b) = Dist(big, a, b) - 1
  /\ Held(g, m, big, (a + 1) % big, b) = Tail(Held(f, m, big, a, b))
  /\ Held(f, m, big, a, b) # <<>>
  /\ Head(Held(f, m, big, a, b)) = f[a % m]

\* Advancing the first index takes the first element, and leaves the others.
LEMMA RingGet ==
  ASSUME NEW S, NEW m, NEW big, Sized(m, big), NEW f \in [0 .. m - 1 -> S],
         NEW a \in 0 .. big - 1, NEW b \in 0 .. big - 1, NEW c \in S, Dist(big, a, b) <= m, a # b
  PROVE  IsGot(Put(f, a % m, c), f, m, big, a, b)
<1>0. /\ m \in Nat \ {0} /\ big \in Nat \ {0} /\ m < big
      /\ Dist(big, a, b) \in Nat /\ Dist(big, a, b) # 0
  BY DistType DEF Sized
<1>1. PICK k \in Nat : k + 1 = Dist(big, a, b)
  <2>1. Dist(big, a, b) - 1 \in Nat /\ (Dist(big, a, b) - 1) + 1 = Dist(big, a, b)
    BY <1>0
  <2>. QED BY <2>1, Zenon
<1>2. /\ 1 <= k + 1 /\ 1 \in Nat /\ (k + 1) - 1 = k /\ 0 \in 0 .. m - 1 /\ k + 1 \in Nat /\ 0 < 1
      /\ a + 0 = a /\ a \in Int /\ a + 1 \in Int
  BY <1>0
<1>3. (a + 1) % big \in 0 .. big - 1 /\ Dist(big, (a + 1) % big, b) = k
  <2>1. /\ (a + 1) % big \in 0 .. big - 1
        /\ DistIs(big, (a + 1) % big, b, Dist(big, a, b) - 1)
    BY <1>0, <1>1, <1>2, DistBegin, Zenon
  <2>. QED BY <1>1, <1>2, <2>1, Zenon DEF DistIs
<1> DEFINE g == Put(f, a % m, c)
<1>4. Agree(g, f, m, a, 1, k + 1)
  BY <1>0, <1>1, <1>2, PutAgree, Zenon
<1>5. g \in [0 .. m - 1 -> S]
  BY Zenon DEF Put
<1> HIDE DEF g
<1>6. Agree(g, f, m, a + 1, 0, k)
  <2>1. ASSUME NEW d \in 0 .. k - 1
        PROVE  g[((a + 1) + d) % m] = f[((a + 1) + d) % m]
    <3>1. d + 1 \in 1 .. (k + 1) - 1 /\ (a + 1) + d = a + (d + 1)
      OBVIOUS
    <3>. QED BY <1>4, <3>1, Zenon DEF Agree
  <2>. QED BY <2>1, Zenon DEF Agree
<1>7. SameSeg(g, f, m, a + 1, k)
  BY <1>2, <1>6, SegAgree, Zenon
<1>8. IsTail(f, m, a, k)
  BY <1>0, <1>2, SegTail, Zenon
<1>9. Held(g, m, big, (a + 1) % big, b) = Seg(g, m, a + 1, k)
  <2>1. Dist(big, a, (a + 1) % big) = 1
    <3>1. Dist(big, a, a) = 0
      BY <1>0, DistType
    <3>2. 0 + 1 < big /\ 0 + 1 = 1
      BY <1>0
    <3>3. DistIs(big, a, (a + 1) % big, Dist(big, a, a) + 1)
      BY <1>0, <1>2, <3>1, <3>2, DistEnd, Zenon
    <3>. QED BY <3>1, <3>2, <3>3, Zenon DEF DistIs
  <2>2. SeenFrom(g, m, big, a, (a + 1) % big, b)
    BY <1>3, HeldAt, Zenon
  <2>. QED BY <1>3, <2>1, <2>2, Zenon DEF SeenFrom
<1>10. /\ Held(g, m, big, (a + 1) % big, b) = Tail(Held(f, m, big, a, b))
       /\ Held(f, m, big, a, b) # <<>> /\ Head(Held(f, m, big, a, b)) = f[a % m]
  BY <1>1, <1>7, <1>8, <1>9, Zenon DEF Held, SameSeg, IsTail
<1>11. Dist(big, (a + 1) % big, b) = Dist(big, a, b) - 1
  BY <1>1, <1>2, <1>3
<1>. QED BY <1>10, <1>11, Zenon DEF IsGot, g

\* Behind index k, x elements are erased: what is before k stays.
Erased(f, m, k, x, c) ==
  [j \in DOMAIN f |-> IF \E d \in 0 .. m - 1 : d < x /\ j = (k + d) % m THEN c ELSE f[j]]

\* Erasing behind an index changes nothing of what is before it.
LEMMA EraseAgree ==
  ASSUME NEW S, NEW m, NEW big, Sized(m, big), NEW f \in [0 .. m - 1 -> S],
         NEW a \in 0 .. big - 1, NEW k \in 0 .. big - 1, NEW x \in Nat, NEW c,
         NEW l \in Nat, l <= Dist(big, a, k), Dist(big, a, k) + x <= m
  PROVE  Agree(Erased(f, m, k, x, c), f, m, a, 0, l)
<1>0. m \in Nat \ {0} /\ big \in Nat \ {0} /\ big % m = 0
  BY Zenon DEF Sized
<1>1. PICK t \in Nat : t = Dist(big, a, k)
  BY <1>0, DistType
<1>2. ASSUME NEW i \in 0 .. l - 1, NEW d \in 0 .. m - 1, d < x
      PROVE  (a + i) % m # (k + d) % m
  <2>1. /\ i \in 0 .. m - 1 /\ t + d \in 0 .. m - 1 /\ i # t + d
        /\ d \in Int /\ a \in Int
    BY <1>0, <1>1, <1>2
  <2>2. (a + i) % m # (a + (t + d)) % m
    BY <1>0, <2>1, PlacesDiffer, Zenon
  <2>3. SamePlace(m, k + d, a + (t + d))
    BY <1>0, <1>1, <2>1, DistPlace, Zenon
  <2>. QED BY <2>2, <2>3, Zenon DEF SamePlace
<1>3. ASSUME NEW i \in 0 .. l - 1
      PROVE  Erased(f, m, k, x, c)[(a + i) % m] = f[(a + i) % m]
  <2>1. a + i \in Int
    OBVIOUS
  <2>2. (a + i) % m \in DOMAIN f
    BY <1>0, <2>1, ModNear, Zenon
  <2>. QED BY <1>2, <2>2, Zenon DEF Erased
<1>. QED BY <1>3, Zenon DEF Agree

\* An index is given by how far it is from another.
LEMMA DistSame ==
  ASSUME NEW big \in Nat \ {0}, NEW a \in 0 .. big - 1,
         NEW b \in 0 .. big - 1, NEW c \in 0 .. big - 1, Dist(big, a, b) = Dist(big, a, c)
  PROVE  b = c
<1>1. /\ (a <= b => Dist(big, a, b) = b - a) /\ (b < a => Dist(big, a, b) = b - a + big)
      /\ (a <= c => Dist(big, a, c) = c - a) /\ (c < a => Dist(big, a, c) = c - a + big)
  BY DistUp, DistWrap, Zenon
<1>. QED BY <1>1

-----------------------------------------------------------------------------
(* The console *)

Elems == Chars \cup {NoChar}
Queue == Held(buf, INPUT_BUF_SIZE, UintMod, r, w)
Edited == Held(buf, INPUT_BUF_SIZE, UintMod, w, e)

\* The indices are in order, and the line that is being edited has no newline.
RingInv ==
  /\ buf \in [0 .. INPUT_BUF_SIZE - 1 -> Elems]
  /\ r \in 0 .. UintMod - 1 /\ w \in 0 .. UintMod - 1 /\ e \in 0 .. UintMod - 1
  /\ Dist(UintMod, r, w) <= Dist(UintMod, r, e) /\ Dist(UintMod, r, e) <= INPUT_BUF_SIZE
  /\ Edited \in Seq(Elems \ {NL})

\* The sizes.
LEMMA Sizes ==
  /\ Sized(INPUT_BUF_SIZE, UintMod)
  /\ INPUT_BUF_SIZE \in Nat \ {0} /\ UintMod \in Nat \ {0}
  BY ConsoleAssumption DEF Sized

\* The mapped variables of Tty are stretches of the ring.
LEMMA Mapped ==
  /\ Part(r, w) = Queue /\ Part(w, e) = Edited
  /\ Part(r, w)' = Queue' /\ Part(w, e)' = Edited'
  BY Zenon DEF Part, Minus, At, Seg, Dist, Held, Queue, Edited

\* The distances of the three indices.
LEMMA Distances ==
  ASSUME RingInv
  PROVE  /\ Dist(UintMod, r, w) \in Nat /\ Dist(UintMod, r, e) \in Nat
         /\ Dist(UintMod, w, e) \in Nat
         /\ Dist(UintMod, r, e) = Dist(UintMod, r, w) + Dist(UintMod, w, e)
         /\ Dist(UintMod, r, e) <= INPUT_BUF_SIZE
         /\ Dist(UintMod, r, w) = 0 <=> r = w
         /\ Dist(UintMod, w, e) = 0 <=> w = e
<1>1. /\ r \in 0 .. UintMod - 1 /\ w \in 0 .. UintMod - 1 /\ e \in 0 .. UintMod - 1
      /\ Dist(UintMod, r, w) <= Dist(UintMod, r, e) /\ Dist(UintMod, r, e) <= INPUT_BUF_SIZE
  BY Zenon DEF RingInv
<1>2. /\ Dist(UintMod, r, w) \in Nat /\ Dist(UintMod, r, e) \in Nat
      /\ Dist(UintMod, w, e) \in Nat
      /\ (Dist(UintMod, r, w) = 0 <=> r = w) /\ (Dist(UintMod, w, e) = 0 <=> w = e)
  BY <1>1, DistType, Sizes
<1>3. Dist(UintMod, w, e) = Dist(UintMod, r, e) - Dist(UintMod, r, w)
  BY <1>1, DistSplit, Sizes
<1>. QED BY <1>1, <1>2, <1>3

\* Queue and line together are what is between r and e.
LEMMA Together ==
  ASSUME RingInv
  PROVE  /\ Queue \in Seq(Elems) /\ Len(Queue) = Dist(UintMod, r, w)
         /\ Edited \in Seq(Elems) /\ Len(Edited) = Dist(UintMod, w, e)
         /\ Held(buf, INPUT_BUF_SIZE, UintMod, r, e) = Queue \o Edited
<1>1. /\ r \in 0 .. UintMod - 1 /\ w \in 0 .. UintMod - 1 /\ e \in 0 .. UintMod - 1
      /\ buf \in [0 .. INPUT_BUF_SIZE - 1 -> Elems]
  BY Zenon DEF RingInv
<1>2. /\ Dist(UintMod, r, w) \in Nat /\ Dist(UintMod, w, e) \in Nat
      /\ Dist(UintMod, r, e) = Dist(UintMod, r, w) + Dist(UintMod, w, e)
  BY Distances, Zenon
<1>3. r \in Int /\ w \in Int
  BY <1>1
<1>4. /\ IsSeg(Queue, Elems, buf, INPUT_BUF_SIZE, r, Dist(UintMod, r, w))
      /\ IsSeg(Edited, Elems, buf, INPUT_BUF_SIZE, w, Dist(UintMod, w, e))
  BY <1>1, <1>2, <1>3, SegSeq, Sizes, Zenon DEF Queue, Edited, Held
<1>5. Joined(buf, INPUT_BUF_SIZE, r, Dist(UintMod, r, w), Dist(UintMod, w, e))
  BY <1>1, <1>2, <1>3, SegConcat, Sizes, Zenon
<1>6. SeenFrom(buf, INPUT_BUF_SIZE, UintMod, r, w, e)
  BY <1>1, HeldAt, Sizes, Zenon
<1>7. Held(buf, INPUT_BUF_SIZE, UintMod, r, e) = Queue \o Edited
  BY <1>2, <1>5, <1>6, Zenon DEF Joined, SeenFrom, Queue, Edited, Held
<1>. QED BY <1>4, <1>7, Zenon DEF IsSeg

\* A step that leaves the ring alone.
LEMMA RingIdle ==
  ASSUME UNCHANGED consVars
  PROVE  /\ RingInv => RingInv'
         /\ UNCHANGED <<Queue, Edited>>
  BY Zenon DEF consVars, RingInv, Queue, Edited, Held, Seg, Dist, Elems

\* Storing a character types it into the line, which is complete with a newline, the
\* end of the input or a full buffer.
Typing(c) ==
  LET room == INPUT_BUF_SIZE - Len(Queue) - Len(Edited) IN
  /\ room > 0
  /\ IF c \in {NL, EOT} \/ room = 1
     THEN Queue' = Queue \o Append(Edited, c) /\ Edited' = <<>>
     ELSE Edited' = Append(Edited, c) /\ Queue' = Queue

\* consoleintr() stores a character when there is room: it is typed into the line.
LEMMA StoreStep ==
  ASSUME RingInv, NEW c \in Chars, Room, Store(c)
  PROVE  RingInv' /\ Typing(c)
<1> DEFINE size == INPUT_BUF_SIZE
           up == (e + 1) % UintMod
           Drw == Dist(UintMod, r, w)
           Dre == Dist(UintMod, r, e)
           Dwe == Dist(UintMod, w, e)
<1>1. /\ r \in 0 .. UintMod - 1 /\ w \in 0 .. UintMod - 1 /\ e \in 0 .. UintMod - 1
      /\ buf \in [0 .. size - 1 -> Elems] /\ Edited \in Seq(Elems \ {NL})
      /\ Drw <= Dre
  BY Zenon DEF RingInv
<1>2. /\ Drw \in Nat /\ Dwe \in Nat /\ Dre \in Nat /\ Dre = Drw + Dwe /\ Dre <= size
  BY Distances, Zenon
<1>3. Dre < size
  BY Zenon DEF Room, Minus, Dist
<1>4. /\ buf' = Put(buf, e % size, c) /\ e' = up /\ r' = r
      /\ Complete(c) => w' = up
      /\ ~Complete(c) => w' = w
  BY Zenon DEF Store, Put
<1>5. c \in Elems /\ size \in Nat \ {0}
  BY Sizes, Zenon DEF Elems
<1>6. up \in 0 .. UintMod - 1
  <2>1. e + 1 \in Int
    BY <1>1
  <2>. QED BY <2>1, ModNear, Sizes, Zenon
<1>7. IsPut(Put(buf, e % size, c), buf, size, UintMod, r, e, c)
  BY <1>1, <1>3, <1>5, RingPut, Sizes, Zenon
<1>8. IsPut(Put(buf, e % size, c), buf, size, UintMod, w, e, c)
  <2>1. Dwe < size
    BY <1>2, <1>3, <1>5
  <2>. QED BY <1>1, <2>1, <1>5, RingPut, Sizes, Zenon
<1>9. Held(buf', size, UintMod, r, w) = Queue
  <2>1. /\ Dre \in 0 .. size - 1 /\ r \in Int /\ 0 \in Nat /\ Drw <= size
    BY <1>1, <1>2, <1>3, <1>5
  <2>2. Agree(Put(buf, (r + Dre) % size, c), buf, size, r, 0, Drw)
    BY <1>1, <1>2, <1>5, <2>1, PutAgree, Zenon
  <2>3. e % size = (r + Dre) % size
    BY <1>1, IndexPlace, Sizes, Zenon
  <2>4. Agree(buf', buf, size, r, 0, Drw)
    BY <1>4, <2>2, <2>3, Zenon
  <2>5. SameSeg(buf', buf, size, r, Drw)
    BY <1>2, <2>1, <2>4, SegAgree, Zenon
  <2>. QED BY <2>5, Zenon DEF SameSeg, Held, Queue
<1>10. /\ Queue \in Seq(Elems) /\ Len(Queue) = Drw
       /\ Edited \in Seq(Elems) /\ Len(Edited) = Dwe
       /\ Held(buf, size, UintMod, r, e) = Queue \o Edited
  BY Together, Zenon
<1>11. buf' \in [0 .. size - 1 -> Elems]
  <2>1. e % size \in 0 .. size - 1
    BY <1>1, <1>5, ModNear
  <2>. QED BY <1>1, <1>4, <1>5, <2>1, Zenon DEF Put
<1>12. Dist(UintMod, r, up) = Dre + 1 /\ Dist(UintMod, w, up) = Dwe + 1
  BY <1>7, <1>8, Zenon DEF IsPut
<1>13. Complete(c) <=> c \in {NL, EOT} \/ Dre + 1 = size
  BY <1>12, Zenon DEF Complete, Minus, Dist
<1>14. Elems' = Elems
  BY Zenon DEF Elems
<1> HIDE DEF size, up, Drw, Dwe, Dre
<1>15. /\ size - Len(Queue) - Len(Edited) > 0
       /\ size - Len(Queue) - Len(Edited) = 1 <=> Dre + 1 = size
       /\ Dre + 1 <= size /\ Drw <= Dre + 1
  BY <1>2, <1>3, <1>5, <1>10
<1>16. CASE Complete(c)
  <2>1. Queue' = Append(Queue \o Edited, c)
    BY <1>4, <1>7, <1>10, <1>16, Zenon DEF IsPut, Queue, up, size
  <2>2. Append(Queue \o Edited, c) = Queue \o Append(Edited, c)
    <3>1. Queue \in Seq(Elems) /\ Edited \in Seq(Elems)
      BY <1>10, Zenon
    <3>2. Moves(Queue, Edited, c)
      BY <1>5, <3>1, AppendConcat, Zenon
    <3>. QED BY <3>2, Zenon DEF Moves
  <2>3. Dist(UintMod, up, up) = 0
    BY <1>6, DistType, Sizes
  <2>4. Edited' = <<>>
    BY <1>4, <1>16, <2>3, SegEmpty, Zenon DEF Edited, Held
  <2>5. Typing(c)
    BY <1>13, <1>15, <1>16, <2>1, <2>2, <2>4, Zenon DEF Typing, size
  <2>6. <<>> \in Seq(Elems \ {NL})
    OBVIOUS
  <2>7. Dist(UintMod, r', w') <= Dist(UintMod, r', e') /\ Dist(UintMod, r', e') <= size
    BY <1>4, <1>12, <1>15, <1>16, <1>2
  <2>8. RingInv'
    BY <1>1, <1>4, <1>6, <1>11, <1>14, <1>16, <2>4, <2>6, <2>7, Zenon DEF RingInv, size
  <2>. QED BY <2>5, <2>8
<1>17. CASE ~Complete(c)
  <2>1. Queue' = Queue /\ Edited' = Append(Edited, c)
    BY <1>4, <1>8, <1>9, <1>17, Zenon DEF IsPut, Queue, Edited, up, size
  <2>2. Typing(c)
    BY <1>13, <1>15, <1>17, <2>1, Zenon DEF Typing, size
  <2>3. c # NL
    BY <1>17, Zenon DEF Complete
  <2>4. Append(Edited, c) \in Seq(Elems \ {NL})
    BY <1>1, <1>5, <2>3
  <2>5. Dist(UintMod, r', w') <= Dist(UintMod, r', e') /\ Dist(UintMod, r', e') <= size
    BY <1>4, <1>12, <1>15, <1>17, Zenon DEF Drw
  <2>6. RingInv'
    BY <1>1, <1>4, <1>6, <1>11, <1>14, <1>17, <2>1, <2>4, <2>5, Zenon DEF RingInv, size
  <2>. QED BY <2>2, <2>6
<1>. QED BY <1>16, <1>17

\* Erasing the last x characters of the line: the queue stays, and the rest of it.
LEMMA EraseStep ==
  ASSUME RingInv, NEW x \in Nat, x <= Dist(UintMod, w, e), EraseFrom(Minus(e, x)),
         Seg(buf, INPUT_BUF_SIZE, w, Dist(UintMod, w, e) - x) \in Seq(Elems \ {NL})
  PROVE  /\ RingInv' /\ Queue' = Queue
         /\ Edited' = Seg(buf, INPUT_BUF_SIZE, w, Dist(UintMod, w, e) - x)
<1> DEFINE size == INPUT_BUF_SIZE
           k == Minus(e, x)
           Drw == Dist(UintMod, r, w)
           Dre == Dist(UintMod, r, e)
           Dwe == Dist(UintMod, w, e)
<1>1. /\ r \in 0 .. UintMod - 1 /\ w \in 0 .. UintMod - 1 /\ e \in 0 .. UintMod - 1
      /\ buf \in [0 .. size - 1 -> Elems]
  BY Zenon DEF RingInv
<1>2. /\ Drw \in Nat /\ Dwe \in Nat /\ Dre \in Nat /\ Dre = Drw + Dwe /\ Dre <= size
      /\ x <= Dwe
  BY Distances, Zenon
<1>3. size \in Nat \ {0} /\ UintMod \in Nat \ {0}
  BY Sizes, Zenon
<1>4. k \in 0 .. UintMod - 1 /\ Dist(UintMod, w, k) = Dwe - x /\ Dist(UintMod, r, k) = Dre - x
  <2>1. x <= Dre
    BY <1>2
  <2>2. /\ k \in 0 .. UintMod - 1 /\ DistIs(UintMod, w, k, Dwe - x)
        /\ DistIs(UintMod, r, k, Dre - x)
    BY <1>1, <1>3, <2>1, DistBack, Zenon DEF Minus
  <2>. QED BY <2>2, Zenon DEF DistIs
<1>5. Minus(e, k) = x
  <2>1. Dist(UintMod, w, k) <= Dist(UintMod, w, e)
    BY <1>2, <1>4
  <2>2. Dist(UintMod, k, e) = Dwe - (Dwe - x)
    BY <1>1, <1>3, <1>4, <2>1, DistSplit
  <2>. QED BY <1>2, <2>2 DEF Minus, Dist
<1>6. /\ buf' = Erased(buf, size, k, x, NoChar) /\ e' = k /\ r' = r /\ w' = w
  BY <1>5, Zenon DEF EraseFrom, Erased
<1> HIDE DEF k, size, Drw, Dre, Dwe
<1>7. /\ Drw <= Dist(UintMod, r, k) /\ Dist(UintMod, r, k) + x <= size
      /\ Dwe - x \in Nat /\ Dwe - x <= Dist(UintMod, w, k) /\ Dist(UintMod, w, k) + x <= size
      /\ Dist(UintMod, r, k) <= size
      /\ r \in Int /\ w \in Int
  BY <1>1, <1>2, <1>3, <1>4
<1>8. Sized(size, UintMod)
  BY Sizes, Zenon DEF size
<1>9. SameSeg(buf', buf, size, r, Drw)
  <2>1. Agree(Erased(buf, size, k, x, NoChar), buf, size, r, 0, Drw)
    BY <1>1, <1>2, <1>4, <1>7, <1>8, EraseAgree, Zenon
  <2>2. Agree(buf', buf, size, r, 0, Drw)
    BY <1>6, <2>1, Zenon
  <2>. QED BY <1>2, <1>7, <2>2, SegAgree, Zenon
<1>10. SameSeg(buf', buf, size, w, Dwe - x)
  <2>1. Agree(Erased(buf, size, k, x, NoChar), buf, size, w, 0, Dwe - x)
    BY <1>1, <1>4, <1>7, <1>8, EraseAgree, Zenon
  <2>2. Agree(buf', buf, size, w, 0, Dwe - x)
    BY <1>6, <2>1, Zenon
  <2>. QED BY <1>7, <2>2, SegAgree, Zenon
<1>11. Queue' = Queue
  BY <1>6, <1>9, Zenon DEF Queue, Held, SameSeg, size, Drw
<1>12. Edited' = Seg(buf, size, w, Dwe - x)
  BY <1>4, <1>6, <1>10, Zenon DEF Edited, Held, SameSeg, size
<1>13. buf' \in [0 .. size - 1 -> Elems]
  BY <1>1, <1>6, Zenon DEF Erased, Elems
<1>14. RingInv'
  <2>1. Elems' = Elems
    BY Zenon DEF Elems
  <2>2. Edited' \in Seq(Elems \ {NL})
    BY <1>12, Zenon DEF Dwe, size
  <2>. QED BY <1>1, <1>4, <1>6, <1>7, <1>13, <2>1, <2>2, Zenon DEF RingInv, size, Drw
<1>. QED BY <1>11, <1>12, <1>14, Zenon DEF size, Dwe

\* Backspace.
LEMMA BackspaceStep ==
  ASSUME RingInv, e # w, EraseFrom(Minus(e, 1))
  PROVE  /\ RingInv' /\ Queue' = Queue
         /\ Edited # <<>> /\ Edited' = SubSeq(Edited, 1, Len(Edited) - 1)
<1> DEFINE D == Dist(UintMod, w, e)
           s == Edited
<1>1. D \in Nat /\ D # 0 /\ D - 1 \in Nat /\ 1 <= D /\ 1 \in Nat /\ (D - 1) + 1 = D
  BY Distances
<1>2. s \in Seq(Elems \ {NL}) /\ s \in Seq(Elems) /\ Len(s) = D
  BY Together, Zenon DEF RingInv
<1>3. IsFront(buf, INPUT_BUF_SIZE, w, D - 1)
  <2>1. w \in Int /\ buf \in [0 .. INPUT_BUF_SIZE - 1 -> Elems]
    BY DEF RingInv
  <2>. QED BY <1>1, <2>1, SegFront, Sizes, Zenon
<1>4. SubSeq(s, 1, D - 1) = Seg(buf, INPUT_BUF_SIZE, w, D - 1)
  BY <1>1, <1>3, Zenon DEF IsFront, Edited, Held
<1> HIDE DEF s, D
<1>5. SubSeq(s, 1, D - 1) \in Seq(Elems \ {NL}) /\ s # <<>>
  BY <1>1, <1>2
<1>6. Seg(buf, INPUT_BUF_SIZE, w, D - 1) \in Seq(Elems \ {NL})
  BY <1>4, <1>5, Zenon
<1>7. /\ RingInv' /\ Queue' = Queue
      /\ Edited' = Seg(buf, INPUT_BUF_SIZE, w, D - 1)
  BY <1>1, <1>6, EraseStep, Zenon DEF D
<1>. QED BY <1>2, <1>4, <1>5, <1>7, Zenon DEF s

\* The line has no newline: ^U erases all of it.
LEMMA KilledIs ==
  ASSUME RingInv
  PROVE  Killed = Dist(UintMod, w, e)
<1> DEFINE D == Dist(UintMod, w, e)
           Back(d) == d <= Minus(e, w) /\ \A j \in 1 .. d : At(Minus(e, j)) # NL
           s == Edited
<1>1. /\ w \in 0 .. UintMod - 1 /\ e \in 0 .. UintMod - 1
      /\ s \in Seq(Elems \ {NL})
      /\ UintMod \in Nat \ {0} /\ INPUT_BUF_SIZE \in Nat \ {0}
  BY Sizes, Zenon DEF RingInv
<1>2. D \in Nat /\ Len(s) = D /\ D = Minus(e, w)
  BY Distances, Together, Zenon DEF Minus, Dist
<1>3. D \in 0 .. INPUT_BUF_SIZE
  BY Distances, Sizes
<1>4. ASSUME NEW j \in 1 .. D PROVE At(Minus(e, j)) # NL
  <2>1. /\ j \in Nat /\ j <= D /\ D - j \in Int /\ D - j + 1 \in 1 .. D
        /\ w + (D - j + 1) - 1 = w + (D - j)
    BY <1>1, <1>2
  <2>2. PICK k \in 0 .. UintMod - 1 : k = Minus(e, j) /\ DistIs(UintMod, w, k, D - j)
    BY <1>1, <2>1, DistBack, Zenon DEF Minus
  <2>0. k % INPUT_BUF_SIZE = (w + Dist(UintMod, w, k)) % INPUT_BUF_SIZE
    BY <1>1, <2>2, IndexPlace, Sizes, Zenon
  <2>3. k % INPUT_BUF_SIZE = (w + (D - j)) % INPUT_BUF_SIZE
    BY <2>0, <2>2, Zenon DEF DistIs
  <2>4. s[D - j + 1] = buf[(w + (D - j)) % INPUT_BUF_SIZE]
    BY <2>1, Zenon DEF Edited, Held, Seg
  <2>5. s[D - j + 1] \in Elems \ {NL}
    BY <1>1, <1>2, <2>1, SeqElement, Zenon
  <2>. QED BY <2>2, <2>3, <2>4, <2>5, Zenon DEF At
<1> HIDE DEF D, s
<1>5. Back(D)
  BY <1>2, <1>4
<1>6. \A y \in 0 .. INPUT_BUF_SIZE : Back(y) => y <= D
  BY <1>2, Zenon
<1>7. Killed = CHOOSE x \in 0 .. INPUT_BUF_SIZE :
                 Back(x) /\ \A y \in 0 .. INPUT_BUF_SIZE : Back(y) => y <= x
  BY DEF Killed
<1> HIDE DEF Back
<1>8. /\ Killed \in 0 .. INPUT_BUF_SIZE /\ Back(Killed)
      /\ \A y \in 0 .. INPUT_BUF_SIZE : Back(y) => y <= Killed
  BY <1>3, <1>5, <1>6, <1>7, Zenon
<1>9. Killed <= D /\ D <= Killed
  BY <1>3, <1>5, <1>6, <1>8, Zenon
<1>10. Killed = D
  BY <1>1, <1>3, <1>8, <1>9
<1>. QED BY <1>10, Zenon DEF D

\* ^U erases the line being edited, and no line before it.
LEMMA KillStep ==
  ASSUME RingInv, Kill
  PROVE  RingInv' /\ Queue' = Queue /\ Edited' = <<>>
<1> DEFINE D == Dist(UintMod, w, e)
<1>1. D \in Nat /\ D <= D /\ D - D = 0
  BY Distances
<1>2. EraseFrom(Minus(e, D))
  BY KilledIs, Zenon DEF Kill
<1>3. Seg(buf, INPUT_BUF_SIZE, w, D - D) = <<>>
  BY <1>1, SegEmpty, Zenon
<1>4. <<>> \in Seq(Elems \ {NL})
  OBVIOUS
<1> HIDE DEF D
<1>5. RingInv' /\ Queue' = Queue /\ Edited' = Seg(buf, INPUT_BUF_SIZE, w, D - D)
  BY <1>1, <1>2, <1>3, <1>4, EraseStep, Zenon DEF D
<1>. QED BY <1>3, <1>5, Zenon

\* A reader takes the first character of the queue.
LEMMA ConsumeStep ==
  ASSUME RingInv, r # w, Consume
  PROVE  /\ RingInv' /\ Edited' = Edited
         /\ Queue # <<>> /\ Queue' = Tail(Queue)
<1> DEFINE size == INPUT_BUF_SIZE
           k == (r + 1) % UintMod
           Drw == Dist(UintMod, r, w)
           Dre == Dist(UintMod, r, e)
           Dwe == Dist(UintMod, w, e)
<1>1. /\ r \in 0 .. UintMod - 1 /\ w \in 0 .. UintMod - 1 /\ e \in 0 .. UintMod - 1
      /\ buf \in [0 .. size - 1 -> Elems] /\ Edited \in Seq(Elems \ {NL})
  BY Zenon DEF RingInv
<1>2. /\ Drw \in Nat /\ Dwe \in Nat /\ Dre \in Nat /\ Dre = Drw + Dwe /\ Dre <= size
      /\ Drw # 0
  BY Distances
<1>3. size \in Nat \ {0} /\ UintMod \in Nat \ {0} /\ NoChar \in Elems
  BY Sizes, Zenon DEF Elems
<1>4. buf' = Put(buf, r % size, NoChar) /\ r' = k /\ w' = w /\ e' = e
  BY Zenon DEF Consume, Put
<1>5. /\ Drw <= size /\ 1 <= Dre /\ 1 \in Nat /\ 0 \in 0 .. size - 1 /\ r + 0 = r /\ 0 < 1
      /\ r \in Int /\ r + Drw \in Int
  BY <1>1, <1>2, <1>3
<1>6. IsGot(Put(buf, r % size, NoChar), buf, size, UintMod, r, w)
  BY <1>1, <1>3, <1>5, RingGet, Sizes, Zenon
<1>7. k \in 0 .. UintMod - 1 /\ DistIs(UintMod, k, e, Dre - 1)
  BY <1>1, <1>3, <1>5, DistBegin, Zenon
<1>8. Queue' = Tail(Queue) /\ Queue # <<>> /\ Dist(UintMod, k, w) = Drw - 1
  BY <1>4, <1>6, Zenon DEF IsGot, Queue
<1>9. Agree(buf', buf, size, r, 1, Dre)
  BY <1>1, <1>2, <1>3, <1>4, <1>5, PutAgree, Zenon
<1>10. Agree(buf', buf, size, r + Drw, 0, Dwe)
  <2>1. ASSUME NEW d \in 0 .. Dwe - 1
        PROVE  buf'[((r + Drw) + d) % size] = buf[((r + Drw) + d) % size]
    <3>1. Drw + d \in 1 .. Dre - 1 /\ (r + Drw) + d = r + (Drw + d)
      BY <1>2, <1>5
    <3>. QED BY <1>9, <3>1, Zenon DEF Agree
  <2>. QED BY <2>1, Zenon DEF Agree
<1>11. SameSeg(buf', buf, size, r + Drw, Dwe)
  BY <1>2, <1>5, <1>10, SegAgree, Zenon
<1>12. SeenFrom(buf, size, UintMod, r, w, e) /\ SeenFrom(buf', size, UintMod, r, w, e)
  BY <1>1, HeldAt, Sizes, Zenon
<1>13. Edited' = Edited
  BY <1>4, <1>11, <1>12, Zenon DEF SameSeg, SeenFrom, Edited
<1>14. buf' \in [0 .. size - 1 -> Elems]
  BY <1>1, <1>3, <1>4, Zenon DEF Put
<1>15. Elems' = Elems
  BY Zenon DEF Elems
<1>16. Dist(UintMod, r', w') <= Dist(UintMod, r', e') /\ Dist(UintMod, r', e') <= size
  <2>1. Dist(UintMod, r', w') = Drw - 1 /\ Dist(UintMod, r', e') = Dre - 1
    BY <1>4, <1>7, <1>8, Zenon DEF DistIs
  <2> HIDE DEF Drw, Dre, Dwe, size
  <2>. QED BY <2>1, <1>2, <1>3
<1>17. RingInv'
  BY <1>1, <1>4, <1>7, <1>13, <1>14, <1>15, <1>16, Zenon DEF RingInv
<1>. QED BY <1>8, <1>13, <1>17, Zenon

\* In terms of Tty, each of these is a step of its specification.
LineStep == [Line!Next]_(Line!tvars)

\* A step that changes neither the complete lines nor the edited one.
LEMMA LineIdle ==
  ASSUME Queue' = Queue, Edited' = Edited
  PROVE  LineStep
  BY Mapped, Zenon DEF LineStep, Line!tvars

\* What consoleintr() stores is a character.
LEMMA CharOf ==
  ASSUME NEW c \in Keys, c \notin {"^P", "^U", "^H", "NUL"}
  PROVE  (IF c = "\r" THEN NL ELSE c) \in Chars
  BY Zenon DEF Keys, Chars

\* Storing a character is typing it.
LEMMA StoreLine ==
  ASSUME RingInv, NEW c \in Chars, Room, Store(c)
  PROVE  RingInv' /\ LineStep
<1>1. RingInv' /\ Typing(c)
  BY StoreStep, Zenon
<1>2. Line!Type(c)
  BY <1>1, Mapped, Zenon DEF Typing, Line!Type
<1>. QED BY <1>1, <1>2, Zenon DEF LineStep, Line!Next

\* ^U and backspace are the erasing steps of Tty.
LEMMA EraseLine ==
  ASSUME RingInv, Kill \/ Backspace
  PROVE  RingInv' /\ LineStep
<1>1. CASE Kill
  <2>1. RingInv' /\ Queue' = Queue /\ Edited' = <<>>
    BY <1>1, KillStep, Zenon
  <2>2. Line!KillLine
    BY <2>1, Mapped, Zenon DEF Line!KillLine
  <2>. QED BY <2>1, <2>2, Zenon DEF LineStep, Line!Next
<1>2. CASE Backspace /\ e # w
  <2>1. /\ RingInv' /\ Queue' = Queue
        /\ Edited # <<>> /\ Edited' = SubSeq(Edited, 1, Len(Edited) - 1)
    BY <1>2, BackspaceStep, Zenon DEF Backspace
  <2>2. Line!Erase
    BY <2>1, Mapped, Zenon DEF Line!Erase
  <2>. QED BY <2>1, <2>2, Zenon DEF LineStep, Line!Next
<1>3. CASE Backspace /\ e = w
  <2>1. UNCHANGED consVars
    BY <1>3, Zenon DEF Backspace
  <2>. QED BY <2>1, RingIdle, LineIdle, Zenon
<1>. QED BY <1>1, <1>2, <1>3, Zenon

\* consoleread() takes the first character of the complete lines.
LEMMA ConsumeLine ==
  ASSUME RingInv, r # w, Consume
  PROVE  RingInv' /\ LineStep
<1>1. /\ RingInv' /\ Edited' = Edited
      /\ Queue # <<>> /\ Queue' = Tail(Queue)
  BY ConsumeStep, Zenon
<1>2. Line!Take
  BY <1>1, Mapped, Zenon DEF Line!Take
<1>. QED BY <1>1, <1>2, Zenon DEF LineStep, Line!Next

\* A step that leaves the buffer alone.
LEMMA IdleLine ==
  ASSUME RingInv, UNCHANGED consVars
  PROVE  RingInv' /\ LineStep
  BY RingIdle, LineIdle, Zenon

\* The cases of consoleintr().
LEMMA IntrCases ==
  ASSUME NEW c \in Keys, consoleintr(c)
  PROVE  \/ UNCHANGED <<consVars, pc>>
         \/ (Kill \/ Backspace) /\ UNCHANGED pc
         \/ Room /\ \E x \in Chars : Store(x)
<1>1. CASE c = "^P" \/ c = "^U" \/ c = "^H"
  BY <1>1, Zenon DEF consoleintr
<1>2. CASE c \notin {"^P", "^U", "^H"}
  <2>1. IF c # "NUL" /\ Room THEN Store(IF c = "\r" THEN NL ELSE c)
        ELSE UNCHANGED <<consVars, pc>>
    BY <1>2, Zenon DEF consoleintr
  <2>. QED BY <1>2, <2>1, CharOf, Zenon
<1>. QED BY <1>1, <1>2, Zenon

\* consoleintr() is a step of Tty, or changes nothing of it.
LEMMA IntrLine ==
  ASSUME RingInv, NEW c \in Keys, consoleintr(c)
  PROVE  RingInv' /\ LineStep
<1>1. CASE UNCHANGED <<consVars, pc>>
  BY <1>1, IdleLine, Zenon
<1>2. CASE Kill \/ Backspace
  BY <1>2, EraseLine, Zenon
<1>3. CASE Room /\ \E x \in Chars : Store(x)
  BY <1>3, StoreLine, Zenon
<1>. QED BY <1>1, <1>2, <1>3, IntrCases, Zenon

\* So is each step of a reader.
LEMMA ReadLine ==
  ASSUME RingInv, NEW p, call(p) \/ consoleread(p) \/ kill(p) \/ exit(p)
  PROVE  RingInv' /\ LineStep
<1>1. UNCHANGED consVars \/ (r # w /\ Consume)
  BY Zenon DEF call, consoleread, acquire, read_done, read_wait, read_eof, read_char,
               read_fault, kill, exit
<1>. QED BY <1>1, IdleLine, ConsumeLine, Zenon

-----------------------------------------------------------------------------
(* The readers *)

\* Who sleeps has nothing to read and was not killed.
ReadInv ==
  /\ lock \in Readers \cup {Nobody}
  /\ pc \in [Readers -> {"idle", "run", "loop", "sleep"}]
  /\ target \in [Readers -> Counts \cup {0}] /\ n \in [Readers -> Nat]
  /\ killed \in [Readers -> BOOLEAN]
  /\ \A p \in Readers : n[p] <= target[p]
  /\ \A p \in Readers : pc[p] = "sleep" => r = w /\ ~killed[p]

\* consoleintr() wakes up whoever sleeps, when it completes a line.
LEMMA IntrReads ==
  ASSUME ReadInv, NEW c \in Keys, consoleintr(c)
  PROVE  ReadInv'
<1>1. UNCHANGED <<lock, target, n, killed>>
  BY Zenon DEF consoleintr
<1>2. \/ UNCHANGED <<r, w, pc>>
      \/ r' = r /\ pc' = [p \in Readers |-> IF pc[p] = "sleep" THEN "run" ELSE pc[p]]
  BY IntrCases, Zenon DEF consVars, Kill, Backspace, EraseFrom, Store, wakeup
<1>3. CASE UNCHANGED <<r, w, pc>>
  BY <1>1, <1>3, Zenon DEF ReadInv
<1>4. CASE pc' = [p \in Readers |-> IF pc[p] = "sleep" THEN "run" ELSE pc[p]]
  <2>1. pc' \in [Readers -> {"idle", "run", "loop", "sleep"}]
    BY <1>4, Zenon DEF ReadInv
  <2>2. \A p \in Readers : pc'[p] # "sleep"
    BY <1>4, Zenon
  <2>. QED BY <1>1, <2>1, <2>2, Zenon DEF ReadInv
<1>. QED BY <1>2, <1>3, <1>4, Zenon

\* A reader goes to sleep only when there is nothing to read, with the lock held.
LEMMA ReadReads ==
  ASSUME ReadInv, NEW p \in Readers, call(p) \/ consoleread(p) \/ kill(p) \/ exit(p)
  PROVE  ReadInv'
<1>0. Counts \subseteq Nat
  BY ConsoleAssumption, Zenon
<1> USE DEF ReadInv
<1>1. CASE call(p)
  <2>1. PICK k \in Counts : target' = [target EXCEPT ![p] = k] /\ n' = [n EXCEPT ![p] = k]
    BY <1>1, Zenon DEF call
  <2>. QED BY <1>0, <1>1, <2>1 DEF call, consVars
<1>2. ASSUME Return(p), UNCHANGED <<r, w, killed>> \/ (\A q \in Readers : pc[q] # "sleep"),
             UNCHANGED killed
      PROVE  ReadInv'
  BY <1>2 DEF Return
<1>3. CASE acquire(p)
  BY <1>3 DEF acquire, consVars
<1>4. CASE read_done(p)
  BY <1>2, <1>4, Zenon DEF read_done, consVars
<1>5. CASE read_wait(p)
  <2>1. CASE killed[p]
    BY <1>2, <1>5, <2>1, Zenon DEF read_wait, consVars
  <2>2. CASE ~killed[p]
    BY <1>5, <2>2 DEF read_wait, consVars
  <2>. QED BY <2>1, <2>2, Zenon
<1>6. CASE read_eof(p)
  BY <1>2, <1>6, Zenon DEF read_eof, consVars
<1>7. CASE read_char(p)
  <2>1. CASE At(r) = NL
    BY <1>2, <1>7, <2>1, Zenon DEF read_char
  <2>2. CASE At(r) # NL
    <3>1. /\ n' = [n EXCEPT ![p] = n[p] - 1] /\ n[p] > 0 /\ r # w
          /\ UNCHANGED <<lock, pc, target, killed>>
      BY <1>7, <2>2, Zenon DEF read_char, InLoop
    <3>2. n[p] \in Nat /\ target[p] \in Nat /\ n[p] <= target[p]
      <4>1. 0 \in Nat
        OBVIOUS
      <4>. QED BY <1>0, <4>1, Zenon
    <3>3. n[p] - 1 \in Nat /\ n[p] - 1 <= target[p]
      BY ONLY <3>1, <3>2
    <3>4. n' \in [Readers -> Nat] /\ \A q \in Readers : n'[q] <= target[q]
      BY <3>1, <3>3, Zenon
    <3>. QED BY <3>1, <3>4, Zenon
  <2>. QED BY <2>1, <2>2, Zenon
<1>8. CASE read_fault(p)
  BY <1>2, <1>8, Zenon DEF read_fault
<1>9. CASE kill(p)
  BY <1>9, Zenon DEF kill, consVars
<1>10. CASE exit(p)
  BY <1>10 DEF exit, consVars
<1>. QED BY <1>1, <1>3, <1>4, <1>5, <1>6, <1>7, <1>8, <1>9, <1>10, Zenon DEF consoleread

\* What the runs check of the readers.
LEMMA ReadersWoken ==
  ASSUME RingInv, ReadInv
  PROVE  NoLostWakeup
<1>1. Minus(w, r) <= Minus(e, r) /\ Minus(e, r) <= INPUT_BUF_SIZE
  BY Zenon DEF RingInv, Minus, Dist
<1>2. \A p \in Readers : n[p] \in 0 .. target[p]
  BY ConsoleAssumption DEF ReadInv
<1>3. {r, w, e} \subseteq 0 .. UintMod - 1
  BY Zenon DEF RingInv
<1>. QED BY <1>1, <1>2, <1>3, Zenon DEF RingInv, ReadInv, NoLostWakeup, TypeOK, Elems

(* The keyboard *)

\* Induction on the numbers in a set (shown at the end, where the library's theorems
\* about well-founded orders are at hand).
Induction ==
  \A T : 0 \in T /\ (\A k \in Nat : k \in T => k + 1 \in T) => \A k \in Nat : k \in T

\* What becomes of an outcome with one more scan code.
After(o, code) ==
  LET c == keyboard_event(o.mods, code[1], code[2])
  IN [mods |-> Modifier(o.mods, code[1], code[2]),
      text |-> IF c = NoKey THEN o.text ELSE Append(o.text, c)]

IsAfter(a, o, code, c) ==
  /\ a.mods = Modifier(o.mods, code[1], code[2])
  /\ a.text = IF c = NoKey THEN o.text ELSE Append(o.text, c)

\* What it says, for the character that the scan code gives.
LEMMA AfterIs ==
  ASSUME NEW o, NEW code, NEW c, c = keyboard_event(o.mods, code[1], code[2])
  PROVE  IsAfter(After(o, code), o, code, c)
  BY Zenon DEF After, IsAfter

\* f lists the outcomes of the first scan codes in q.
IsChain(f, o, q, m) == f[0] = o /\ \A j \in 1 .. m : f[j] = After(f[j - 1], q[j])

\* There is such a list for every queue.
Solves(f, o, q, k) == f = [j \in 0 .. k |-> IF j = 0 THEN o ELSE After(f[j - 1], q[j])]

\* For every queue there is a list of outcomes, by induction on its length.
LEMMA ChainExists ==
  ASSUME Induction, NEW o, NEW q, NEW m \in Nat
  PROVE  \E f : Solves(f, o, q, m)
<1> DEFINE T == {k \in Nat : \E f : Solves(f, o, q, k)}
<1>1. 0 \in T
  <2> DEFINE f == [j \in 0 .. 0 |-> o]
  <2>1. f = [j \in 0 .. 0 |-> IF j = 0 THEN o ELSE After(f[j - 1], q[j])]
    <3>1. \A j \in 0 .. 0 : j = 0
      OBVIOUS
    <3>. QED BY <3>1, Zenon
  <2>. QED BY <2>1, Zenon DEF Solves
<1>2. ASSUME NEW k \in Nat, k \in T PROVE k + 1 \in T
  <2>1. PICK f : Solves(f, o, q, k)
    BY <1>2, Zenon
  <2> DEFINE g == [j \in 0 .. k + 1 |-> IF j = k + 1 THEN After(f[k], q[k + 1]) ELSE f[j]]
  <2>2. ASSUME NEW j \in 0 .. k + 1
        PROVE  g[j] = IF j = 0 THEN o ELSE After(g[j - 1], q[j])
    <3>1. CASE j = k + 1
      <4>1. j # 0 /\ j - 1 = k /\ k \in 0 .. k + 1 /\ k # k + 1
        BY <3>1
      <4>2. g[j - 1] = f[k]
        BY <4>1, Zenon
      <4>. QED BY <3>1, <4>1, <4>2, Zenon
    <3>2. CASE j = 0
      <4>1. j # k + 1 /\ 0 \in 0 .. k
        BY <3>2
      <4>. QED BY <2>1, <3>2, <4>1, Zenon DEF Solves
    <3>3. CASE j # 0 /\ j # k + 1
      <4>1. j \in 0 .. k /\ j - 1 \in 0 .. k + 1 /\ j - 1 # k + 1
        BY <3>3
      <4>2. g[j] = f[j] /\ g[j - 1] = f[j - 1]
        BY <3>3, <4>1, Zenon
      <4>. QED BY <2>1, <3>3, <4>1, <4>2, Zenon DEF Solves
    <3>. QED BY <3>1, <3>2, <3>3, Zenon
  <2>3. Solves(g, o, q, k + 1)
    BY <2>2, Zenon DEF Solves
  <2>4. k + 1 \in Nat
    OBVIOUS
  <2>. QED BY <2>3, <2>4, Zenon
<1> HIDE DEF T
<1>3. m \in T
  BY <1>1, <1>2, Zenon DEF Induction
<1>. QED BY <1>3, Zenon DEF T

\* Outcome is this list, now and after a step.
Start(m) == [mods |-> m, text |-> <<>>]

\* Outcome, which is defined by recursion, is a list of outcomes.
LEMMA OutcomeChain ==
  ASSUME Induction
  PROVE  /\ IsChain(Outcome, Start(Mods), queue, MaxQueue)
         /\ IsChain(Outcome', Start(Mods'), queue', MaxQueue)
<1>1. MaxQueue \in Nat /\ (\A j \in 1 .. MaxQueue : j \in 0 .. MaxQueue /\ j # 0)
      /\ 0 \in 0 .. MaxQueue
  BY TerminalAssumption
<1>2. Solves(Outcome, Start(Mods), queue, MaxQueue)
  <2>1. \E f : Solves(f, Start(Mods), queue, MaxQueue)
    BY <1>1, ChainExists, Zenon
  <2>. QED BY <2>1, Zenon DEF Outcome, Solves, Start, After
<1>3. Solves(Outcome', Start(Mods'), queue', MaxQueue)
  <2>1. \E f : Solves(f, Start(Mods'), queue', MaxQueue)
    BY <1>1, ChainExists, Zenon
  <2>. QED BY <2>1, Zenon DEF Outcome, Solves, Start, After
<1>4. ASSUME NEW f, NEW o, NEW q, Solves(f, o, q, MaxQueue)
      PROVE  IsChain(f, o, q, MaxQueue)
  BY <1>1, <1>4, Zenon DEF Solves, IsChain
<1>. QED BY <1>2, <1>3, <1>4, Zenon

\* Lists for queues that begin alike begin alike.
SameUpTo(g, f, l) == \A j \in 0 .. l : g[j] = f[j]

\* The outcomes of the scan codes that two queues have in common are the same.
LEMMA ChainSame ==
  ASSUME Induction, NEW f, NEW g, NEW o, NEW q, NEW u, NEW m \in Nat, NEW l \in 0 .. m,
         IsChain(f, o, q, m), IsChain(g, o, u, m), \A j \in 1 .. l : u[j] = q[j]
  PROVE  SameUpTo(g, f, l)
<1> DEFINE T == {k \in Nat : k <= l => g[k] = f[k]}
<1>1. 0 \in T
  BY Zenon DEF IsChain
<1>2. ASSUME NEW k \in Nat, k \in T PROVE k + 1 \in T
  <2>1. SUFFICES ASSUME k + 1 <= l PROVE g[k + 1] = f[k + 1]
    BY <1>2
  <2>2. k <= l /\ k + 1 \in 1 .. m /\ k + 1 \in 1 .. l /\ (k + 1) - 1 = k
    BY <2>1
  <2>3. g[k] = f[k]
    BY <1>2, <2>2, Zenon
  <2>4. f[k + 1] = After(f[(k + 1) - 1], q[k + 1]) /\ g[k + 1] = After(g[(k + 1) - 1], u[k + 1])
    BY <2>2, Zenon DEF IsChain
  <2>. QED BY <2>2, <2>3, <2>4, Zenon
<1> HIDE DEF T
<1>3. \A k \in Nat : k \in T
  BY <1>1, <1>2, Zenon DEF Induction
<1>4. ASSUME NEW j \in 0 .. l PROVE g[j] = f[j]
  <2>1. j \in Nat /\ j <= l
    BY ONLY j \in 0 .. l, l \in Nat
  <2>. QED BY <1>3, <2>1, Zenon DEF T
<1>. QED BY <1>4, Zenon DEF SameUpTo

\* The characters that a key can give.
Texts ==
  {NoKey} \cup {Lower[k] : k \in KeyCodes} \cup {Upper[k] : k \in KeyCodes}
    \cup {Control[k] : k \in KeyCodes}

\* platform_nemu_keyboard_event() gives no other character.
LEMMA EventType ==
  ASSUME NEW m, NEW key, NEW down \in BOOLEAN
  PROVE  keyboard_event(m, key, down) \in Texts
<1>1. ASSUME NEW k, k \in Alpha \/ k \in Symbols \/ k \in Named
      PROVE  Lower[k] \in Texts /\ Upper[k] \in Texts /\ Control[k] \in Texts
  BY <1>1, Zenon DEF Texts, KeyCodes
<1>2. NoKey \in Texts
  BY Zenon DEF Texts
<1>3. CASE ~down
  BY <1>2, <1>3, Zenon DEF keyboard_event
<1>4. CASE down /\ key \in Alpha
  <2>1. keyboard_event(m, key, down) = key_letter(m, key)
    BY <1>4, TerminalAssumption, Zenon DEF keyboard_event
  <2>. QED BY <1>1, <1>4, <2>1, Zenon DEF key_letter
<1>5. CASE down /\ key \in Named
  <2>1. keyboard_event(m, key, down) = Lower[key]
    BY <1>5, TerminalAssumption, Zenon DEF keyboard_event
  <2>. QED BY <1>1, <1>5, <2>1, Zenon
<1>6. CASE down /\ key \in Symbols
  <2>1. keyboard_event(m, key, down) = key_char(m, key)
    BY <1>6, TerminalAssumption, Zenon DEF keyboard_event
  <2>. QED BY <1>1, <1>6, <2>1, Zenon DEF key_char
<1>7. CASE down /\ key \notin Alpha /\ key \notin Named /\ key \notin Symbols
  BY <1>2, <1>7, Zenon DEF keyboard_event
<1>. QED BY <1>3, <1>4, <1>5, <1>6, <1>7, Zenon

\* The modifiers that are in force on the keyboard.
HeldMods == [shift |-> InForce(ShiftKeys), ctrl |-> InForce(CtrlKeys), caps |-> capsOn]

\* The twins of a key are the two keys that it is one of, if any.
LEMMA TwinsOf ==
  ASSUME NEW keys \in {ShiftKeys, CtrlKeys}, NEW key
  PROVE  /\ keys \subseteq Modifiers
         /\ key \in keys => UNION Twins(key) = keys
         /\ key \notin keys => keys \cap UNION Twins(key) = {}
<1>1. ShiftKeys \cap CtrlKeys = {}
  BY DEF ShiftKeys, CtrlKeys
<1>2. keys \subseteq Modifiers
  BY Zenon DEF Modifiers
<1>3. ASSUME key \in keys PROVE UNION Twins(key) = keys
  <2>1. Twins(key) = {keys}
    BY <1>1, <1>3, Zenon DEF Twins
  <2>. QED BY <2>1, Zenon
<1>4. ASSUME key \notin keys PROVE keys \cap UNION Twins(key) = {}
  <2>1. ASSUME NEW k \in keys, NEW t \in Twins(key), k \in t PROVE FALSE
    <3>1. t \in {ShiftKeys, CtrlKeys} /\ key \in t
      BY Zenon DEF Twins
    <3>2. k \in t /\ k \in keys /\ ~(k \in ShiftKeys /\ k \in CtrlKeys)
      BY <1>1, <2>1, Zenon
    <3>3. CASE keys = ShiftKeys
      BY <1>4, <3>1, <3>2, <3>3, Zenon
    <3>4. CASE keys = CtrlKeys
      BY <1>4, <3>1, <3>2, <3>4, Zenon
    <3>. QED BY <3>3, <3>4, Zenon
  <2>. QED BY <2>1, Zenon
<1>. QED BY <1>2, <1>3, <1>4, Zenon

\* A press of one of the keys puts the modifier in force; other presses change nothing.
LEMMA ForceOn ==
  ASSUME NEW keys \in {ShiftKeys, CtrlKeys}, NEW key,
         held' = held \cup ({key} \cap Modifiers), lapsed' = lapsed \ UNION Twins(key)
  PROVE  /\ key \in keys => (InForce(keys))' = TRUE
         /\ key \notin keys => (InForce(keys))' = InForce(keys)
<1>1. ASSUME key \in keys PROVE (InForce(keys))' = TRUE
  <2>1. key \in keys \cap held' /\ keys \cap lapsed' = {}
    BY <1>1, TwinsOf, Zenon
  <2>2. keys \cap held' # {}
    BY <2>1, Zenon
  <2>. QED BY <2>1, <2>2 DEF InForce
<1>2. ASSUME key \notin keys PROVE (InForce(keys))' = InForce(keys)
  <2>1. keys \cap held' = keys \cap held
    BY <1>2, Zenon
  <2>2. keys \cap lapsed' = keys \cap lapsed
    <3>1. keys \cap UNION Twins(key) = {}
      BY <1>2, TwinsOf, Zenon
    <3>. QED BY <3>1, Zenon
  <2>. QED BY <2>1, <2>2, Zenon DEF InForce
<1>. QED BY <1>1, <1>2, Zenon

\* When one is lifted the modifier is not in force, be the other held or not.
LEMMA ForceOff ==
  ASSUME NEW keys \in {ShiftKeys, CtrlKeys}, NEW key, held' = held \ {key},
         lapsed' = (lapsed \cup (held \cap UNION Twins(key))) \ {key}
  PROVE  /\ key \in keys => (InForce(keys))' = FALSE
         /\ key \notin keys => (InForce(keys))' = InForce(keys)
<1>1. ASSUME key \in keys PROVE (InForce(keys))' = FALSE
  <2>1. UNION Twins(key) = keys
    BY <1>1, TwinsOf, Zenon
  <2>2. ASSUME NEW k \in keys \cap held' PROVE k \in keys \cap lapsed'
    BY <2>1, <2>2, Zenon
  <2>3. keys \cap held' = {} \/ keys \cap lapsed' # {}
    BY <2>2, Zenon
  <2>. QED BY <2>3 DEF InForce
<1>2. ASSUME key \notin keys PROVE (InForce(keys))' = InForce(keys)
  <2>1. keys \cap held' = keys \cap held
    BY <1>2, Zenon
  <2>2. keys \cap lapsed' = keys \cap lapsed
    <3>1. keys \cap UNION Twins(key) = {}
      BY <1>2, TwinsOf, Zenon
    <3>. QED BY <1>2, <3>1, Zenon
  <2>. QED BY <2>1, <2>2, Zenon DEF InForce
<1>. QED BY <1>1, <1>2, Zenon

\* The handler's choice of the character, for the modifiers in force, is what is meant.
LEMMA MeantIs ==
  ASSUME capsOn \in BOOLEAN, NEW key
  PROVE  keyboard_event(HeldMods, key, TRUE) = Meant(key)
<1>0. /\ HeldMods.shift = InForce(ShiftKeys) /\ HeldMods.ctrl = InForce(CtrlKeys)
      /\ HeldMods.caps = capsOn
  BY Zenon DEF HeldMods
<1>1. CASE key \in Alpha
  <2>1. keyboard_event(HeldMods, key, TRUE) = key_letter(HeldMods, key)
    BY <1>1, TerminalAssumption, Zenon DEF keyboard_event
  <2>2. Meant(key) = IF InForce(CtrlKeys) THEN Control[key]
                       ELSE IF InForce(ShiftKeys) = capsOn THEN Lower[key] ELSE Upper[key]
    BY <1>1, TerminalAssumption, Zenon DEF Meant
  <2>3. key_letter(HeldMods, key)
          = IF InForce(CtrlKeys) THEN Control[key]
            ELSE IF InForce(ShiftKeys) # capsOn THEN Upper[key] ELSE Lower[key]
    BY <1>0, Zenon DEF key_letter
  <2>. QED BY <2>1, <2>2, <2>3, Zenon
<1>2. CASE key \in Symbols
  <2>1. keyboard_event(HeldMods, key, TRUE) = key_char(HeldMods, key)
    BY <1>2, TerminalAssumption, Zenon DEF keyboard_event
  <2>2. Meant(key) = IF InForce(ShiftKeys) THEN Upper[key] ELSE Lower[key]
    BY <1>2, TerminalAssumption, Zenon DEF Meant
  <2>3. key_char(HeldMods, key) = IF InForce(ShiftKeys) THEN Upper[key] ELSE Lower[key]
    BY <1>0, Zenon DEF key_char
  <2>. QED BY <2>1, <2>2, <2>3, Zenon
<1>3. CASE key \in Named
  <2>1. keyboard_event(HeldMods, key, TRUE) = Lower[key]
    BY <1>3, TerminalAssumption, Zenon DEF keyboard_event
  <2>2. Meant(key) = Lower[key]
    BY <1>3, TerminalAssumption, Zenon DEF Meant
  <2>. QED BY <2>1, <2>2, Zenon
<1>4. CASE key \notin Alpha /\ key \notin Named /\ key \notin Symbols
  BY <1>4, Zenon DEF keyboard_event, Meant
<1>. QED BY <1>1, <1>2, <1>3, <1>4, Zenon

\* The first scan code is handled: what the others will give is the same.
Rest(f, g, pre, j) ==
  /\ f[j + 1].mods = g[j].mods /\ f[j + 1].text = pre \o g[j].text
  /\ g[j].text \in Seq(Texts)

\* The outcomes of a queue, after its first scan code, are those of the rest of it.
LEMMA ChainShift ==
  ASSUME Induction, NEW f, NEW g, NEW s, NEW q, NEW u, NEW m \in Nat, NEW l \in Nat, l + 1 <= m,
         NEW pre \in Seq(Texts),
         IsChain(f, Start(s), q, m), IsChain(g, Start(f[1].mods), u, m),
         f[1].text = pre,
         \A j \in 1 .. l : u[j] = q[j + 1] /\ u[j][2] \in BOOLEAN
  PROVE  \A j \in 0 .. l : Rest(f, g, pre, j)
<1> DEFINE T == {k \in Nat : k <= l => Rest(f, g, pre, k)}
<1>1. 0 \in T
  <2>1. g[0].mods = f[1].mods /\ g[0].text = <<>>
    <3>1. g[0] = Start(f[1].mods)
      BY Zenon DEF IsChain
    <3>. QED BY ONLY <3>1 DEF Start
  <2>2. 0 \in Nat /\ 0 + 1 = 1 /\ pre \o <<>> = pre /\ <<>> \in Seq(Texts)
    BY ONLY pre \in Seq(Texts)
  <2>3. Rest(f, g, pre, 0)
    BY <2>1, <2>2, Zenon DEF Rest
  <2>. QED BY <2>2, <2>3, Zenon
<1>2. ASSUME NEW k \in Nat, k \in T PROVE k + 1 \in T
  <2>0. k + 1 \in Nat
    OBVIOUS
  <2>1. SUFFICES ASSUME k + 1 <= l PROVE Rest(f, g, pre, k + 1)
    BY <2>0, Zenon
  <2>2. /\ k <= l /\ k + 1 \in 1 .. m /\ k + 1 \in 1 .. l /\ (k + 1) - 1 = k
        /\ (k + 1) + 1 \in 1 .. m /\ ((k + 1) + 1) - 1 = k + 1
    BY ONLY k \in Nat, l \in Nat, m \in Nat, l + 1 <= m, <2>1
  <2>3. /\ f[k + 1].mods = g[k].mods /\ f[k + 1].text = pre \o g[k].text
        /\ g[k].text \in Seq(Texts)
    BY <1>2, <2>2, Zenon DEF Rest
  <2>4. PICK code : code = u[k + 1] /\ code = q[(k + 1) + 1] /\ code[2] \in BOOLEAN
    BY <2>2, Zenon
  <2>5. f[(k + 1) + 1] = After(f[k + 1], code) /\ g[k + 1] = After(g[k], code)
    BY <2>2, <2>4, Zenon DEF IsChain
  <2>6. PICK c : c = keyboard_event(g[k].mods, code[1], code[2])
    BY Zenon
  <2>7. c \in Texts
    BY <2>4, <2>6, EventType, Zenon
  <2>8. PICK t \in Seq(Texts) : t = g[k].text
    BY <2>3, Zenon
  <2>9. /\ f[(k + 1) + 1].mods = g[k + 1].mods
        /\ f[(k + 1) + 1].text = IF c = NoKey THEN pre \o t ELSE Append(pre \o t, c)
        /\ g[k + 1].text = IF c = NoKey THEN t ELSE Append(t, c)
    <3>1. keyboard_event(f[k + 1].mods, code[1], code[2]) = c
      BY <2>3, <2>6, Zenon
    <3>2. /\ f[(k + 1) + 1].mods = Modifier(g[k].mods, code[1], code[2])
          /\ f[(k + 1) + 1].text = IF c = NoKey THEN pre \o t ELSE Append(pre \o t, c)
      <4>1. IsAfter(After(f[k + 1], code), f[k + 1], code, c)
        BY <3>1, AfterIs, Zenon
      <4>. QED BY <2>3, <2>5, <2>8, <4>1, Zenon DEF IsAfter
    <3>3. /\ g[k + 1].mods = Modifier(g[k].mods, code[1], code[2])
          /\ g[k + 1].text = IF c = NoKey THEN t ELSE Append(t, c)
      <4>1. IsAfter(After(g[k], code), g[k], code, c)
        BY <2>6, AfterIs, Zenon
      <4>. QED BY <2>5, <2>8, <4>1, Zenon DEF IsAfter
    <3>. QED BY <3>2, <3>3, Zenon
  <2>10. Moves(pre, t, c)
    BY <2>7, AppendConcat, Zenon
  <2>11. Append(t, c) \in Seq(Texts)
    BY ONLY <2>7, t \in Seq(Texts)
  <2>12. CASE c = NoKey
    BY <2>9, <2>12, Zenon DEF Rest
  <2>13. CASE c # NoKey
    BY <2>9, <2>10, <2>11, <2>13, Zenon DEF Rest, Moves
  <2>. QED BY <2>12, <2>13, Zenon
<1> HIDE DEF T
<1>3. \A k \in Nat : k \in T
  BY <1>1, <1>2, Zenon DEF Induction
<1>4. ASSUME NEW j \in 0 .. l PROVE Rest(f, g, pre, j)
  <2>1. j \in Nat /\ j <= l
    BY ONLY j \in 0 .. l, l \in Nat
  <2>. QED BY <1>3, <2>1, Zenon DEF T
<1>. QED BY <1>4, Zenon

\* What the user typed is what the handler will make of the queue.
KbdInv ==
  /\ capsOn \in BOOLEAN
  /\ queue \in Seq(KeyCodes \X BOOLEAN) /\ Len(queue) <= MaxQueue
  /\ TextRight

\* No key is held at first, and none was typed.
LEMMA KbdStart ==
  ASSUME Induction, KeyboardInit
  PROVE  KbdInv
<1>1. /\ held = {} /\ capsOn = FALSE /\ lapsed = {} /\ queue = <<>> /\ want = <<>>
      /\ shift = FALSE /\ ctrl = FALSE /\ caps = FALSE
  BY Zenon DEF KeyboardInit
<1>2. /\ MaxQueue \in Nat /\ Len(<<>>) = 0 /\ Len(<<>>) <= MaxQueue
      /\ <<>> \in Seq(KeyCodes \X BOOLEAN)
  BY TerminalAssumption
<1>3. Outcome[0] = Start(Mods)
  BY OutcomeChain, Zenon DEF IsChain
<1>4. InForce(ShiftKeys) = FALSE /\ InForce(CtrlKeys) = FALSE
  <2>1. ShiftKeys \cap held = {} /\ CtrlKeys \cap held = {}
    BY <1>1, Zenon
  <2>. QED BY <2>1 DEF InForce
<1>5. HeldMods = Mods
  BY <1>1, <1>4, Zenon DEF HeldMods, Mods
<1>6. Outcome[Len(queue)].text = want /\ Outcome[Len(queue)].mods = HeldMods
  <2>1. Start(Mods).text = <<>> /\ Start(Mods).mods = Mods
    BY Zenon DEF Start
  <2>2. Len(queue) = 0
    BY <1>1
  <2>. QED BY <1>1, <1>3, <1>5, <2>1, <2>2, Zenon
<1>. QED BY <1>1, <1>2, <1>6, Zenon DEF KbdInv, TextRight, HeldMods

\* A scan code comes in behind the others.
LEMMA EnterStep ==
  ASSUME Induction, KbdInv, NEW code \in KeyCodes \X BOOLEAN, Len(queue) < MaxQueue,
         queue' = Append(queue, code), UNCHANGED <<shift, ctrl, caps>>
  PROVE  /\ queue' \in Seq(KeyCodes \X BOOLEAN) /\ Len(queue') <= MaxQueue
         /\ Outcome'[Len(queue')] = After(Outcome[Len(queue)], code)
<1> DEFINE l == Len(queue)
           S == KeyCodes \X BOOLEAN
<1>1. queue \in Seq(S) /\ MaxQueue \in Nat
  BY TerminalAssumption, Zenon DEF KbdInv
<1> HIDE DEF S
<1>2. /\ queue' \in Seq(S) /\ Len(queue') = l + 1 /\ l \in Nat
      /\ \A j \in 1 .. l : queue'[j] = queue[j]
      /\ queue'[l + 1] = code
  BY <1>1, SeqAppend DEF S
<1>3. l \in 0 .. MaxQueue /\ l \in 0 .. l /\ l + 1 \in 1 .. MaxQueue /\ (l + 1) - 1 = l
      /\ l + 1 <= MaxQueue
  BY <1>1, <1>2
<1>4. Mods' = Mods
  BY Zenon DEF Mods
<1>5. /\ IsChain(Outcome, Start(Mods), queue, MaxQueue)
      /\ IsChain(Outcome', Start(Mods), queue', MaxQueue)
  BY <1>4, OutcomeChain, Zenon
<1> HIDE DEF l
<1>6. Outcome'[l] = Outcome[l]
  <2>1. SameUpTo(Outcome', Outcome, l)
    BY <1>1, <1>2, <1>3, <1>5, ChainSame, Zenon
  <2>. QED BY <1>3, <2>1, Zenon DEF SameUpTo
<1>7. Outcome'[l + 1] = After(Outcome'[(l + 1) - 1], queue'[l + 1])
  BY <1>3, <1>5, Zenon DEF IsChain
<1>. QED BY <1>2, <1>3, <1>6, <1>7, Zenon DEF l, S

\* A key goes down: its scan code is queued behind all others.
LEMMA PressStep ==
  ASSUME Induction, KbdInv, NEW key \in KeyCodes, press(key)
  PROVE  KbdInv'
<1>1. /\ Len(queue) < MaxQueue
      /\ held' = held \cup ({key} \cap Modifiers) /\ lapsed' = lapsed \ UNION Twins(key)
      /\ capsOn' = (capsOn # (key = "CAPSLOCK"))
      /\ queue' = Append(queue, <<key, TRUE>>)
      /\ want' = IF Meant(key) = NoKey THEN want ELSE Append(want, Meant(key))
      /\ UNCHANGED <<shift, ctrl, caps>>
  BY Zenon DEF press, modVars
<1>2. capsOn \in BOOLEAN /\ <<key, TRUE>> \in KeyCodes \X BOOLEAN
  BY Zenon DEF KbdInv
<1> DEFINE o == Outcome[Len(queue)]
           u == Outcome'[Len(queue')]
<1>3. /\ queue' \in Seq(KeyCodes \X BOOLEAN) /\ Len(queue') <= MaxQueue
      /\ u = After(o, <<key, TRUE>>)
  BY <1>1, <1>2, EnterStep, Zenon
<1>4. o.mods = HeldMods /\ o.text = want
  BY Zenon DEF KbdInv, TextRight, HeldMods
<1> HIDE DEF o, u
<1>5. Meant(key) = keyboard_event(o.mods, <<key, TRUE>>[1], <<key, TRUE>>[2])
  <2>1. keyboard_event(HeldMods, key, TRUE) = Meant(key)
    BY <1>2, MeantIs, Zenon
  <2>. QED BY <1>4, <2>1, Zenon
<1>6. IsAfter(u, o, <<key, TRUE>>, Meant(key))
  BY <1>3, <1>5, AfterIs, Zenon
<1>7. u.text = want'
  BY <1>1, <1>4, <1>6, Zenon DEF IsAfter
<1>8. u.mods = Modifier(HeldMods, key, TRUE)
  BY <1>4, <1>6, Zenon DEF IsAfter
<1>9. Modifier(HeldMods, key, TRUE) = HeldMods'
  <2>0. /\ HeldMods.shift = InForce(ShiftKeys) /\ HeldMods.ctrl = InForce(CtrlKeys)
        /\ HeldMods.caps = capsOn
    BY Zenon DEF HeldMods
  <2>1. (IF key \in ShiftKeys THEN TRUE ELSE HeldMods.shift) = (InForce(ShiftKeys))'
    <3>1. /\ key \in ShiftKeys => (InForce(ShiftKeys))' = TRUE
          /\ key \notin ShiftKeys => (InForce(ShiftKeys))' = InForce(ShiftKeys)
      BY <1>1, ForceOn, Zenon
    <3>. QED BY <2>0, <3>1, Zenon
  <2>2. (IF key \in CtrlKeys THEN TRUE ELSE HeldMods.ctrl) = (InForce(CtrlKeys))'
    <3>1. /\ key \in CtrlKeys => (InForce(CtrlKeys))' = TRUE
          /\ key \notin CtrlKeys => (InForce(CtrlKeys))' = InForce(CtrlKeys)
      BY <1>1, ForceOn, Zenon
    <3>. QED BY <2>0, <3>1, Zenon
  <2>3. (HeldMods.caps # (key = "CAPSLOCK" /\ TRUE)) = capsOn'
    BY <1>1, <2>0, Zenon
  <2>. QED BY <2>1, <2>2, <2>3, Zenon DEF HeldMods, Modifier
<1>10. capsOn' \in BOOLEAN
  BY <1>1, Zenon
<1>11. TextRight'
  BY <1>7, <1>8, <1>9, Zenon DEF TextRight, HeldMods, u
<1>. QED BY <1>3, <1>10, <1>11, Zenon DEF KbdInv, KeyCodes, Modifiers, ShiftKeys, CtrlKeys

\* A key goes up: what was typed stays.
LEMMA LiftStep ==
  ASSUME Induction, KbdInv, NEW key \in KeyCodes, lift(key)
  PROVE  KbdInv'
<1>1. /\ Len(queue) < MaxQueue
      /\ held' = held \ {key}
      /\ lapsed' = (lapsed \cup (held \cap UNION Twins(key))) \ {key}
      /\ queue' = Append(queue, <<key, FALSE>>)
      /\ UNCHANGED <<capsOn, want, shift, ctrl, caps>>
  BY Zenon DEF lift, modVars
<1>2. capsOn \in BOOLEAN /\ <<key, FALSE>> \in KeyCodes \X BOOLEAN
  BY Zenon DEF KbdInv
<1> DEFINE o == Outcome[Len(queue)]
           u == Outcome'[Len(queue')]
<1>3. /\ queue' \in Seq(KeyCodes \X BOOLEAN) /\ Len(queue') <= MaxQueue
      /\ u = After(o, <<key, FALSE>>)
  BY <1>1, <1>2, EnterStep, Zenon
<1>4. o.mods = HeldMods /\ o.text = want
  BY Zenon DEF KbdInv, TextRight, HeldMods
<1> HIDE DEF o, u
<1>5. NoKey = keyboard_event(o.mods, <<key, FALSE>>[1], <<key, FALSE>>[2])
  <2>1. keyboard_event(o.mods, key, FALSE) = NoKey
    BY Zenon DEF keyboard_event
  <2>. QED BY <2>1, Zenon
<1>6. IsAfter(u, o, <<key, FALSE>>, NoKey)
  BY <1>3, <1>5, AfterIs, Zenon
<1>7. u.text = want'
  BY <1>1, <1>4, <1>6, Zenon DEF IsAfter
<1>8. u.mods = Modifier(HeldMods, key, FALSE)
  BY <1>4, <1>6, Zenon DEF IsAfter
<1>9. Modifier(HeldMods, key, FALSE) = HeldMods'
  <2>0. /\ HeldMods.shift = InForce(ShiftKeys) /\ HeldMods.ctrl = InForce(CtrlKeys)
        /\ HeldMods.caps = capsOn
    BY Zenon DEF HeldMods
  <2>1. (IF key \in ShiftKeys THEN FALSE ELSE HeldMods.shift) = (InForce(ShiftKeys))'
    <3>1. /\ key \in ShiftKeys => (InForce(ShiftKeys))' = FALSE
          /\ key \notin ShiftKeys => (InForce(ShiftKeys))' = InForce(ShiftKeys)
      BY <1>1, ForceOff, Zenon
    <3>. QED BY <2>0, <3>1, Zenon
  <2>2. (IF key \in CtrlKeys THEN FALSE ELSE HeldMods.ctrl) = (InForce(CtrlKeys))'
    <3>1. /\ key \in CtrlKeys => (InForce(CtrlKeys))' = FALSE
          /\ key \notin CtrlKeys => (InForce(CtrlKeys))' = InForce(CtrlKeys)
      BY <1>1, ForceOff, Zenon
    <3>. QED BY <2>0, <3>1, Zenon
  <2>3. (HeldMods.caps # (key = "CAPSLOCK" /\ FALSE)) = capsOn'
    BY <1>1, <1>2, <2>0, Zenon
  <2>. QED BY <2>1, <2>2, <2>3, Zenon DEF HeldMods, Modifier
<1>10. TextRight'
  BY <1>7, <1>8, <1>9, Zenon DEF TextRight, HeldMods, u
<1>. QED BY <1>1, <1>2, <1>3, <1>10, Zenon DEF KbdInv, KeyCodes, Modifiers, ShiftKeys, CtrlKeys

\* The handler takes the first scan code, with whatever else is queued behind it.
LEMMA GetcStep ==
  ASSUME Induction, KbdInv, NEW c, nemu_uart_getc(c)
  PROVE  KbdInv'
<1> DEFINE S == KeyCodes \X BOOLEAN
           code == Head(queue)
           m == Modifier(Mods, code[1], code[2])
           l == Len(queue) - 1
           f == Outcome
           g == Outcome'
           pre == f[1].text
<1>1. /\ queue # <<>> /\ c = keyboard_event(Mods, code[1], code[2])
      /\ queue' = Tail(queue)
      /\ shift' = m.shift /\ ctrl' = m.ctrl /\ caps' = m.caps
      /\ want' = IF c = NoKey \/ want = <<>> THEN want ELSE Tail(want)
      /\ UNCHANGED <<held, capsOn, lapsed>>
  BY Zenon DEF nemu_uart_getc
<1>2. queue \in Seq(S) /\ MaxQueue \in Nat /\ Len(queue) <= MaxQueue
  BY TerminalAssumption, Zenon DEF KbdInv
<1>3. code \in S /\ code[2] \in BOOLEAN
  <2>1. code \in S
    BY <1>1, <1>2, SeqTail, Zenon
  <2>. QED BY <2>1
<1> HIDE DEF S
<1>4. /\ queue' \in Seq(S) /\ Len(queue') = l /\ l \in Nat /\ l + 1 = Len(queue)
      /\ \A j \in 1 .. l : queue'[j] = queue[j + 1]
      /\ queue[1] = code
  <2>1. /\ Tail(queue) \in Seq(S) /\ Len(Tail(queue)) = l
        /\ \A j \in 1 .. Len(Tail(queue)) : Tail(queue)[j] = queue[j + 1]
    BY <1>1, <1>2, SeqTail, Zenon
  <2>2. Len(queue) \in Nat /\ Len(queue) # 0 /\ Head(queue) = queue[1]
    <3>1. queue \in Seq(S) /\ queue # <<>>
      BY <1>1, <1>2, Zenon
    <3>. QED BY ONLY <3>1
  <2>3. l \in Nat /\ l + 1 = Len(queue)
    BY <2>2
  <2>. QED BY <1>1, <2>1, <2>2, <2>3, Zenon
<1>5. /\ l + 1 <= MaxQueue /\ l <= MaxQueue /\ 1 \in 1 .. MaxQueue /\ 1 - 1 = 0
      /\ l \in 0 .. l
  BY <1>2, <1>4
<1>6. \A j \in 1 .. l : queue'[j][2] \in BOOLEAN
  <2> TAKE j \in 1 .. l
  <2>1. queue'[j] \in S
    BY <1>4, SeqElement, Zenon
  <2>. QED BY <2>1 DEF S
<1>7. /\ IsChain(f, Start(Mods), queue, MaxQueue)
      /\ IsChain(g, Start(Mods'), queue', MaxQueue)
  BY OutcomeChain, Zenon
<1>8. f[1] = After(Start(Mods), code)
  BY <1>4, <1>5, <1>7, Zenon DEF IsChain
<1>9. Start(Mods).mods = Mods /\ Start(Mods).text = <<>>
  BY Zenon DEF Start
<1>10. IsAfter(f[1], Start(Mods), code, c)
  <2>1. c = keyboard_event(Start(Mods).mods, code[1], code[2])
    BY <1>1, <1>9, Zenon
  <2>. QED BY <1>8, <2>1, AfterIs, Zenon
<1>11. f[1].mods = m /\ pre = IF c = NoKey THEN <<>> ELSE Append(<<>>, c)
  BY <1>9, <1>10, Zenon DEF IsAfter
<1>12. Mods' = m
  <2>1. Mods' = [shift |-> m.shift, ctrl |-> m.ctrl, caps |-> m.caps]
    BY <1>1, Zenon DEF Mods
  <2>. QED BY <2>1, Zenon DEF Modifier
<1>13. IsChain(g, Start(f[1].mods), queue', MaxQueue)
  BY <1>7, <1>11, <1>12, Zenon
<1>14. c \in Texts
  BY <1>1, <1>3, EventType, Zenon
<1>15. Append(<<>>, c) = <<c>> /\ <<>> \in Seq(Texts) /\ <<c>> \in Seq(Texts)
  BY <1>14
<1>16. pre \in Seq(Texts)
  BY <1>11, <1>15, Zenon
<1> HIDE DEF l, f, g, pre, m, code
<1>17. Rest(f, g, pre, l)
  <2>1. \A j \in 1 .. l : queue'[j] = queue[j + 1] /\ queue'[j][2] \in BOOLEAN
    BY <1>4, <1>6, Zenon
  <2>2. f[1].text = pre
    BY Zenon DEF pre
  <2>3. \A j \in 0 .. l : Rest(f, g, pre, j)
    BY <1>2, <1>4, <1>5, <1>7, <1>13, <1>16, <2>1, <2>2, ChainShift, Zenon
  <2>. QED BY <1>5, <2>3, Zenon
<1>18. f[l + 1].mods = HeldMods /\ f[l + 1].text = want
  BY <1>4, Zenon DEF KbdInv, TextRight, HeldMods, f
<1>19. PICK t \in Seq(Texts) : t = g[l].text
  BY <1>17, Zenon DEF Rest
<1>20. g[l].mods = HeldMods /\ want = pre \o t
  BY <1>17, <1>18, <1>19, Zenon DEF Rest
<1>21. want' = t
  <2>1. CASE c = NoKey
    <3>1. pre = <<>> /\ <<>> \o t = t
      BY <1>11, <2>1
    <3>. QED BY <1>1, <1>20, <2>1, <3>1, Zenon
  <2>2. CASE c # NoKey
    <3>1. pre = <<c>>
      BY <1>11, <1>15, <2>2, Zenon
    <3>2. <<c>> \o t # <<>> /\ Tail(<<c>> \o t) = t
      BY <1>14
    <3>. QED BY <1>1, <1>20, <2>2, <3>1, <3>2, Zenon
  <2>. QED BY <2>1, <2>2
<1>22. HeldMods' = HeldMods
  BY <1>1, Zenon DEF HeldMods, InForce
<1>23. TextRight'
  BY <1>4, <1>19, <1>20, <1>21, <1>22, Zenon DEF TextRight, HeldMods, g
<1>. QED BY <1>1, <1>4, <1>5, <1>23, Zenon DEF KbdInv, S, KeyCodes, Modifiers, ShiftKeys, CtrlKeys

\* Steps of which the keyboard knows nothing.
LEMMA KbdIdle ==
  ASSUME Induction, KbdInv, UNCHANGED <<held, capsOn, lapsed, queue, shift, ctrl, caps, want>>
  PROVE  KbdInv'
<1>1. Mods' = Mods /\ HeldMods' = HeldMods
  BY Zenon DEF Mods, HeldMods, InForce
<1>2. /\ IsChain(Outcome, Start(Mods), queue, MaxQueue)
      /\ IsChain(Outcome', Start(Mods), queue', MaxQueue)
  BY <1>1, OutcomeChain, Zenon
<1>3. MaxQueue \in Nat /\ Len(queue) \in 0 .. MaxQueue /\ Len(queue) \in 0 .. Len(queue)
  BY TerminalAssumption DEF KbdInv
<1>4. SameUpTo(Outcome', Outcome, Len(queue))
  BY <1>2, <1>3, ChainSame, Zenon
<1>5. Outcome'[Len(queue')] = Outcome[Len(queue)]
  BY <1>3, <1>4, Zenon DEF SameUpTo
<1>6. TextRight'
  BY <1>1, <1>5, Zenon DEF KbdInv, TextRight, HeldMods
<1>. QED BY <1>6, Zenon DEF KbdInv, KeyCodes, Modifiers, ShiftKeys, CtrlKeys

-----------------------------------------------------------------------------
(* The terminal *)

\* Every step of the terminal keeps it.
LEMMA KbdNext ==
  ASSUME Induction, KbdInv, [TerminalNext]_termVars
  PROVE  KbdInv'
<1>1. CASE UNCHANGED <<held, capsOn, lapsed, queue, shift, ctrl, caps, want>>
  BY <1>1, KbdIdle, Zenon
<1>2. ASSUME NEW c, nemu_getc(c) PROVE KbdInv'
  BY <1>2, GetcStep, Zenon DEF nemu_getc
<1>3. ASSUME NEW key \in KeyCodes, press(key) \/ lift(key) PROVE KbdInv'
  BY <1>3, PressStep, LiftStep, Zenon
<1>4. CASE handle_irq \/ keyboard_intr_done
  <2>1. UNCHANGED <<held, capsOn, lapsed, queue, shift, ctrl, caps, want>>
    BY <1>4, Zenon DEF handle_irq, keyboard_intr_done, modVars
  <2>. QED BY <1>1, <2>1
<1>5. CASE NemuNext
  BY <1>2, <1>3, <1>4, <1>5, Zenon DEF NemuNext
<1>6. CASE QemuNext \/ UNCHANGED termVars
  <2>1. UNCHANGED kbdVars
    BY <1>6, Zenon DEF QemuNext, termVars
  <2>. QED BY <1>1, <2>1, Zenon DEF kbdVars
<1>. QED BY <1>5, <1>6, Zenon DEF TerminalNext

-----------------------------------------------------------------------------
(* The 16550's driver *)

\* What waits in the ring, and in the device.
Ring == Held(tx_buf, TxSize, TxMod, tx_r, tx_w)
InDevice == IF thr \in {Nothing, Echo} THEN <<>> ELSE <<thr>>

\* What is pending is what the device and the ring hold, in this order.
UartInv ==
  /\ NoStall /\ WriterWoken
  /\ Ring \in Seq(Bytes) /\ pending = InDevice \o Ring

\* The sizes.
LEMMA TxSizes ==
  /\ Sized(TxSize, TxMod) /\ TxSize \in Nat \ {0} /\ TxMod \in Nat \ {0} /\ TxSize < TxMod
  BY TerminalAssumption DEF Sized

\* A ring that is full holds TxSize characters.
LEMMA RoomLeft ==
  ASSUME UartTypeOK
  PROVE  /\ ~Full => Dist(TxMod, tx_r, tx_w) < TxSize
         /\ Full => tx_w # tx_r
<1>1. /\ tx_w \in 0 .. TxMod - 1 /\ tx_r \in 0 .. TxMod - 1
      /\ Dist(TxMod, tx_r, tx_w) <= TxSize
  BY Zenon DEF UartTypeOK, Dist
<1>2. /\ Dist(TxMod, tx_r, tx_r) = 0 /\ Dist(TxMod, tx_r, tx_w) \in Nat
  BY <1>1, TxSizes, DistType
<1>3. 0 + TxSize < TxMod /\ 0 + TxSize = TxSize /\ TxSize \in Nat
  BY TxSizes
<1> DEFINE b == (tx_r + TxSize) % TxMod
<1>4. b \in 0 .. TxMod - 1 /\ Dist(TxMod, tx_r, b) = TxSize
  <2>1. /\ b \in 0 .. TxMod - 1
        /\ DistIs(TxMod, tx_r, b, Dist(TxMod, tx_r, tx_r) + TxSize)
    BY <1>1, <1>2, <1>3, TxSizes, DistEnd, Zenon
  <2>. QED BY <1>2, <1>3, <2>1, Zenon DEF DistIs
<1> HIDE DEF b
<1>5. Full <=> tx_w = b
  BY Zenon DEF Full, b
<1>6. Dist(TxMod, tx_r, tx_w) = TxSize => tx_w = b
  BY <1>1, <1>4, TxSizes, DistSame, Zenon
<1>7. tx_r # b
  BY <1>2, <1>4, TxSizes
<1>. QED BY <1>1, <1>2, <1>3, <1>5, <1>6, <1>7

\* Steps that leave ring, device and what is pending alone.
LEMMA UartIdle ==
  ASSUME UartInv, UNCHANGED <<tx_buf, tx_w, tx_r, thr, pending>>, NoStall', WriterWoken'
  PROVE  UartInv'
  BY Zenon DEF UartInv, Ring, InDevice, Nothing, Echo, Held, Seg, Dist

\* The character in the device leaves, which is the first one pending, or an echo.
LEMMA TransmitStep ==
  ASSUME UartInv, Transmit
  PROVE  UartInv'
<1> DEFINE s == Ring
<1>1. /\ thr # Nothing /\ thr' = Nothing /\ thre' = TRUE
      /\ UNCHANGED <<tx_buf, tx_w, tx_r, rx, cpu, echo, wpc>>
      /\ pending' = IF thr = Echo THEN pending ELSE Tail(pending)
  BY Zenon DEF Transmit, ringVars
<1>2. Ring' = s /\ s \in Seq(Bytes)
  BY <1>1, Zenon DEF Ring, Held, Seg, Dist, UartInv
<1>3. NoStall' /\ WriterWoken'
  BY <1>1, Zenon DEF UartInv, NoStall, UartTypeOK, WriterWoken, Full, Nothing, Echo
<1>4. InDevice' = <<>>
  BY <1>1, Zenon DEF InDevice, Nothing, Echo
<1>5. <<>> \o s = s
  BY <1>2
<1>6. pending' = s
  <2>1. CASE thr = Echo
    BY <1>1, <1>5, <2>1, Zenon DEF UartInv, InDevice
  <2>2. CASE thr # Echo
    <3>1. thr \in Bytes /\ pending = <<thr>> \o s
      BY <1>1, <2>2, Zenon DEF UartInv, InDevice, NoStall, UartTypeOK
    <3> HIDE DEF s
    <3>2. Tail(<<thr>> \o s) = s
      BY <1>2, <3>1
    <3>. QED BY <1>1, <2>2, <3>1, <3>2, Zenon
  <2>. QED BY <2>1, <2>2
<1>. QED BY <1>2, <1>3, <1>4, <1>5, <1>6, Zenon DEF UartInv

\* platform_uart_putc() puts a byte into the ring when there is room, and starts the device.
LEMMA PutcStep ==
  ASSUME UartInv, NEW p \in Writers, uart_putc(p)
  PROVE  UartInv'
<1>1. PICK c \in Bytes : /\ tx_buf' = Put(tx_buf, tx_w % TxSize, c)
                         /\ pending' = Append(pending, c)
  BY Zenon DEF uart_putc, Put
<1>2. /\ ~Full /\ tx_w' = (tx_w + 1) % TxMod /\ wpc' = [wpc EXCEPT ![p] = "user"]
      /\ cpu' = "start" /\ UNCHANGED <<tx_r, thr, thre, rx, echo>>
  BY Zenon DEF uart_putc, device
<1>3. UartTypeOK
  BY Zenon DEF UartInv, NoStall
<1>4. /\ tx_w \in 0 .. TxMod - 1 /\ tx_r \in 0 .. TxMod - 1
      /\ tx_buf \in [0 .. TxSize - 1 -> Bytes \cup {Nothing}]
      /\ c \in Bytes \cup {Nothing}
      /\ Dist(TxMod, tx_r, tx_w) < TxSize
  BY <1>2, <1>3, RoomLeft, Zenon DEF UartTypeOK
<1>5. IsPut(Put(tx_buf, tx_w % TxSize, c), tx_buf, TxSize, TxMod, tx_r, tx_w, c)
  BY <1>4, RingPut, TxSizes, Zenon
<1>6. Ring' = Append(Ring, c) /\ Dist(TxMod, tx_r', tx_w') = Dist(TxMod, tx_r, tx_w) + 1
  BY <1>1, <1>2, <1>5, Zenon DEF IsPut, Ring
<1>7. /\ tx_w' \in 0 .. TxMod - 1 /\ tx_w % TxSize \in 0 .. TxSize - 1
  <2>1. tx_w \in Int /\ tx_w + 1 \in Int
    BY <1>4
  <2>2. (tx_w + 1) % TxMod \in 0 .. TxMod - 1 /\ tx_w % TxSize \in 0 .. TxSize - 1
    BY <2>1, TxSizes, ModNear, Zenon
  <2>. QED BY <1>2, <2>2, Zenon
<1>8. Dist(TxMod, tx_r, tx_w) + 1 <= TxSize
  <2>1. Dist(TxMod, tx_r, tx_w) \in Nat /\ TxSize \in Nat
    BY <1>4, TxSizes, DistType, Zenon
  <2>. QED BY ONLY <1>4, <2>1
<1>9. UartTypeOK'
  <2>1. (tx_w' - tx_r') % TxMod <= TxSize
    BY <1>6, <1>8, Zenon DEF Dist
  <2>2. tx_buf' \in [0 .. TxSize - 1 -> Bytes \cup {Nothing}]
    BY <1>1, <1>4, <1>7, Zenon DEF Put
  <2>3. wpc' \in [Writers -> {"user", "run", "sleep"}]
    BY <1>2, <1>3, Zenon DEF UartTypeOK
  <2>. QED BY <1>2, <1>3, <1>7, <2>1, <2>2, <2>3, Zenon DEF UartTypeOK, Nothing, Echo
<1>10. NoStall'
  BY <1>2, <1>9, Zenon DEF NoStall
<1>11. WriterWoken'
  BY <1>2, <1>3, Zenon DEF WriterWoken, UartTypeOK, UartInv
<1>12. InDevice' = InDevice
  BY <1>2, Zenon DEF InDevice, Nothing, Echo
<1> DEFINE s == Ring
           d == InDevice
<1>13. s \in Seq(Bytes) /\ pending = d \o s
  BY Zenon DEF UartInv
<1>14. d \in Seq(Bytes)
  <2>1. thr \notin {Nothing, Echo} => thr \in Bytes
    BY <1>3, Zenon DEF UartTypeOK
  <2>. QED BY <2>1 DEF InDevice
<1> HIDE DEF s, d
<1>15. Moves(d, s, c)
  BY <1>13, <1>14, AppendConcat, Zenon
<1>16. Append(s, c) \in Seq(Bytes)
  BY <1>13
<1>17. Ring' \in Seq(Bytes) /\ pending' = InDevice' \o Ring'
  BY <1>1, <1>6, <1>12, <1>13, <1>15, <1>16, Zenon DEF Moves, s, d
<1>. QED BY <1>10, <1>11, <1>17, Zenon DEF UartInv

\* platform_qemu_uart_start() moves the first byte of the ring to the device.
LEMMA SendStep ==
  ASSUME UartInv, start_send
  PROVE  UartInv'
<1>1. /\ tx_w # tx_r /\ thr = Nothing
      /\ thr' = tx_buf[tx_r % TxSize] /\ thre' = FALSE
      /\ tx_buf' = Put(tx_buf, tx_r % TxSize, Nothing)
      /\ tx_r' = (tx_r + 1) % TxMod /\ cpu = "start"
      /\ wpc' = [q \in Writers |-> IF wpc[q] = "sleep" THEN "run" ELSE wpc[q]]
      /\ UNCHANGED <<tx_w, rx, cpu, echo, pending>>
  BY Zenon DEF start_send, uart_wakeup, Put
<1>2. UartTypeOK
  BY Zenon DEF UartInv, NoStall
<1>3. /\ tx_w \in 0 .. TxMod - 1 /\ tx_r \in 0 .. TxMod - 1
      /\ tx_buf \in [0 .. TxSize - 1 -> Bytes \cup {Nothing}]
      /\ Nothing \in Bytes \cup {Nothing}
      /\ Dist(TxMod, tx_r, tx_w) <= TxSize
  BY <1>2, Zenon DEF UartTypeOK, Dist
<1>4. IsGot(Put(tx_buf, tx_r % TxSize, Nothing), tx_buf, TxSize, TxMod, tx_r, tx_w)
  BY <1>1, <1>3, RingGet, TxSizes, Zenon
<1> DEFINE s == Ring
<1>5. /\ Ring' = Tail(s) /\ s # <<>> /\ thr' = Head(s)
      /\ Dist(TxMod, tx_r', tx_w') = Dist(TxMod, tx_r, tx_w) - 1
  BY <1>1, <1>4, Zenon DEF IsGot, Ring
<1>6. s \in Seq(Bytes) /\ pending = <<>> \o s
  BY <1>1, Zenon DEF UartInv, InDevice
<1>7. tx_r' \in 0 .. TxMod - 1
  <2>1. tx_r + 1 \in Int
    BY ONLY <1>3, TxSizes
  <2>2. (tx_r + 1) % TxMod \in 0 .. TxMod - 1
    BY ONLY <2>1, TxSizes, ModNear, Zenon
  <2>. QED BY <1>1, <2>2, Zenon
<1>8. Dist(TxMod, tx_r, tx_w) - 1 <= TxSize
  <2>1. Dist(TxMod, tx_r, tx_w) \in Nat /\ TxSize \in Nat
    BY <1>3, TxSizes, DistType, Zenon
  <2>. QED BY ONLY <1>3, <2>1
<1> HIDE DEF s
<1>9. Head(s) \in Bytes /\ Tail(s) \in Seq(Bytes) /\ <<>> \o s = s /\ s = <<Head(s)>> \o Tail(s)
  BY <1>5, <1>6
<1>10. UartTypeOK'
  <2>1. (tx_w' - tx_r') % TxMod <= TxSize
    BY <1>5, <1>8, Zenon DEF Dist
  <2>2. tx_buf' \in [0 .. TxSize - 1 -> Bytes \cup {Nothing}]
    BY <1>1, <1>3, Zenon DEF Put
  <2>3. wpc' \in [Writers -> {"user", "run", "sleep"}]
    BY <1>1, <1>2, Zenon DEF UartTypeOK
  <2>. QED BY <1>1, <1>2, <1>5, <1>7, <1>9, <2>1, <2>2, <2>3, Zenon
           DEF UartTypeOK, Nothing, Echo
<1>11. NoStall' /\ WriterWoken'
  BY <1>1, <1>10, Zenon DEF NoStall, WriterWoken
<1>12. InDevice' = <<Head(s)>>
  <2>1. Head(s) \notin {Nothing, Echo}
    BY <1>9, TerminalAssumption, Zenon
  <2>. QED BY <1>5, <2>1, Zenon DEF InDevice, Nothing, Echo
<1>13. Ring' \in Seq(Bytes) /\ pending' = InDevice' \o Ring'
  BY <1>1, <1>5, <1>6, <1>9, <1>12, Zenon
<1>. QED BY <1>11, <1>13, Zenon DEF UartInv

\* consputc() sends past the ring.
LEMMA EchoStep ==
  ASSUME UartInv, putc_sync
  PROVE  UartInv'
<1>1. /\ cpu = "intr" /\ echo > 0 /\ thr = Nothing
      /\ thr' = Echo /\ thre' = FALSE /\ echo' = echo - 1
      /\ UNCHANGED <<tx_buf, tx_w, tx_r, rx, cpu, wpc, pending>>
  BY Zenon DEF putc_sync, ringVars
<1>2. echo - 1 \in Nat
  BY <1>1 DEF UartInv, NoStall, UartTypeOK
<1>3. NoStall' /\ WriterWoken'
  BY <1>1, <1>2, Zenon DEF UartInv, NoStall, UartTypeOK, WriterWoken, Full, Nothing, Echo
<1>4. InDevice = <<>> /\ InDevice' = <<>>
  BY <1>1, Zenon DEF InDevice, Nothing, Echo
<1>5. Ring' = Ring
  BY <1>1, Zenon DEF Ring, Held, Seg, Dist
<1>. QED BY <1>1, <1>3, <1>4, <1>5, Zenon DEF UartInv

\* The other steps of the device and the driver.
LEMMA OtherSteps ==
  ASSUME UartInv,
         \/ Receive \/ intr_start \/ start_empty \/ start_busy \/ uart_intr
         \/ \E k \in Nat : uart_getc(k)
         \/ \E p \in Writers : write(p) \/ putc_sleep(p)
         \/ UNCHANGED uartVars
  PROVE  UartInv'
<1>1. UNCHANGED <<tx_buf, tx_w, tx_r, thr, pending>>
  BY Zenon DEF Receive, intr_start, start_empty, start_busy, uart_intr,
       uart_getc, write, putc_sleep, ringVars, device, uartVars
<1>2. /\ thre' \in BOOLEAN /\ rx' \in BOOLEAN /\ cpu' \in {"procs", "intr", "start"}
      /\ echo' \in Nat
  BY Zenon DEF UartInv, NoStall, UartTypeOK, Receive, intr_start, start_empty,
       start_busy, uart_intr, uart_getc, write, putc_sleep, ringVars, device, uartVars
<1>3. \/ UNCHANGED wpc
      \/ \E p \in Writers, x \in {"run", "sleep"} :
           wpc' = [wpc EXCEPT ![p] = x] /\ (x = "sleep" => Full)
  BY Zenon DEF Receive, intr_start, start_empty, start_busy, uart_intr,
       uart_getc, write, putc_sleep, ringVars, device, uartVars
<1>4. /\ wpc' \in [Writers -> {"user", "run", "sleep"}]
      /\ \A q \in Writers : wpc'[q] = "sleep" => Full
  BY <1>3, Zenon DEF UartInv, NoStall, UartTypeOK, WriterWoken
<1>5. WriterWoken'
  BY <1>1, <1>4, Zenon DEF WriterWoken, Full
<1>6. cpu' = "procs" /\ tx_w # tx_r => thr # Nothing \/ thre'
  BY Zenon DEF UartInv, NoStall, Receive, intr_start, start_empty,
       start_busy, uart_intr, uart_getc, write, putc_sleep, ringVars, device, uartVars
<1>7. NoStall'
  BY <1>1, <1>2, <1>4, <1>6, Zenon DEF UartInv, NoStall, UartTypeOK, Nothing, Echo
<1>. QED BY <1>1, <1>5, <1>7, UartIdle, Zenon

-----------------------------------------------------------------------------
(* The terminal *)

\* The invariants of the console, of its readers and of the uart together.
TermInv == RingInv /\ ReadInv /\ UartInv

\* The terminal starts with empty rings, and nobody asleep.
LEMMA InitInv ==
  ASSUME TerminalInit
  PROVE  TermInv /\ Line!Init
<1>1. Init /\ UartInit
  BY Zenon DEF TerminalInit
<1>2. /\ buf = [j \in 0 .. INPUT_BUF_SIZE - 1 |-> NoChar]
      /\ r = 0 /\ w = 0 /\ e = 0
  BY <1>1, Zenon DEF Init
<1>3. 0 \in 0 .. UintMod - 1 /\ Dist(UintMod, 0, 0) = 0 /\ 0 <= 0 /\ 0 <= INPUT_BUF_SIZE
  BY Sizes, DistType
<1>4. Queue = <<>> /\ Edited = <<>> /\ <<>> \in Seq(Elems \ {NL})
  <2>1. <<>> \in Seq(Elems \ {NL})
    OBVIOUS
  <2>. QED BY <1>2, <1>3, <2>1, SegEmpty, Zenon DEF Queue, Edited, Held
<1>5. RingInv
  <2>1. buf \in [0 .. INPUT_BUF_SIZE - 1 -> Elems]
    BY <1>2, Zenon DEF Elems
  <2>. QED BY <1>2, <1>3, <1>4, <2>1, Zenon DEF RingInv
<1>6. Line!Init
  BY <1>4, Mapped, Zenon DEF Line!Init
<1>7. ReadInv
  BY <1>1, ConsoleAssumption DEF Init, ReadInv
<1>8. UartInv
  <2>1. /\ tx_buf = [j \in 0 .. TxSize - 1 |-> Nothing] /\ tx_w = 0 /\ tx_r = 0
        /\ thr = Nothing /\ thre = FALSE /\ rx = FALSE
        /\ cpu = "procs" /\ echo = 0
        /\ wpc = [p \in Writers |-> "user"] /\ pending = <<>>
    BY <1>1, Zenon DEF UartInit
  <2>2. 0 \in 0 .. TxMod - 1 /\ Dist(TxMod, 0, 0) = 0 /\ 0 <= TxSize /\ 0 \in Nat
    BY TxSizes, DistType
  <2>3. Ring = <<>> /\ InDevice = <<>>
    BY <2>1, <2>2, SegEmpty, Zenon DEF Ring, Held, InDevice
  <2>4. <<>> \in Seq(Bytes) /\ <<>> = <<>> \o <<>>
    OBVIOUS
  <2>5. UartTypeOK
    BY <2>1, <2>2, Zenon DEF UartTypeOK, Dist
  <2>6. NoStall /\ WriterWoken
    BY <2>1, <2>5, Zenon DEF NoStall, WriterWoken
  <2>. QED BY <2>1, <2>3, <2>4, <2>6, Zenon DEF UartInv
<1>. QED BY <1>5, <1>6, <1>7, <1>8, Zenon DEF TermInv

\* Steps that leave a part alone.
LEMMA ConsIdle ==
  ASSUME RingInv, ReadInv, UNCHANGED vars
  PROVE  RingInv' /\ ReadInv' /\ LineStep
<1>1. UNCHANGED consVars /\ UNCHANGED readVars
  BY Zenon DEF vars
<1>2. RingInv' /\ LineStep
  BY <1>1, IdleLine, Zenon
<1>3. ReadInv'
  BY <1>1, Zenon DEF consVars, readVars, ReadInv
<1>. QED BY <1>2, <1>3, Zenon

\* What consoleintr() echoes is a number of characters.
LEMMA EchoesType ==
  ASSUME RingInv, NEW c
  PROVE  Echoes(c) \in Nat
<1>1. Killed \in Nat /\ 3 * Killed \in Nat /\ 0 \in Nat /\ 1 \in Nat /\ 3 \in Nat
  <2>1. Killed \in Nat
    BY KilledIs, Distances, Zenon
  <2>. QED BY <2>1
<1>2. CASE c \in {"^P", "NUL"}
  BY <1>1, <1>2, Zenon DEF Echoes
<1>3. CASE c = "^U"
  BY <1>1, <1>3, Zenon DEF Echoes
<1>4. CASE c = "^H"
  BY <1>1, <1>4, Zenon DEF Echoes
<1>5. CASE c \notin {"^P", "NUL"} /\ c # "^U" /\ c # "^H"
  BY <1>1, <1>5, Zenon DEF Echoes
<1>. QED BY <1>2, <1>3, <1>4, <1>5, Zenon

\* The steps with a serial line: readers, writers, the uart and its interrupt.
LEMMA QemuStep ==
  ASSUME TermInv, QemuNext
  PROVE  TermInv' /\ LineStep
<1>0. RingInv /\ ReadInv /\ UartInv
  BY Zenon DEF TermInv
<1>2. ASSUME NEW c \in SerialKeys, qemu_getc(c)
      PROVE  RingInv' /\ ReadInv' /\ UartInv' /\ LineStep
  <2>1. c \in Keys /\ consoleintr(c) /\ uart_getc(Echoes(c))
    BY <1>2, TerminalAssumption, Zenon DEF qemu_getc
  <2>2. RingInv' /\ LineStep
    BY <1>0, <2>1, IntrLine, Zenon
  <2>3. ReadInv'
    BY <1>0, <2>1, IntrReads, Zenon
  <2>4. Echoes(c) \in Nat
    BY <1>0, EchoesType, Zenon
  <2>5. UartInv'
    BY <1>0, <2>1, <2>4, OtherSteps, Zenon
  <2>. QED BY <2>2, <2>3, <2>5
<1>3. ASSUME QemuDevice \/ QemuDriver \/ uart_intr \/ (\E p \in Writers : QemuWriter(p)),
             UNCHANGED vars
      PROVE  RingInv' /\ ReadInv' /\ UartInv' /\ LineStep
  <2>1. UartInv'
    <3>1. CASE Transmit
      BY <1>0, <3>1, TransmitStep, Zenon
    <3>2. CASE putc_sync
      BY <1>0, <3>2, EchoStep, Zenon
    <3>3. CASE start_send
      BY <1>0, <3>3, SendStep, Zenon
    <3>4. ASSUME NEW p \in Writers, QemuWriter(p) PROVE UartInv'
      <4>1. CASE uart_putc(p)
        BY <1>0, <4>1, PutcStep, Zenon
      <4>2. CASE write(p) \/ putc_sleep(p)
        BY <1>0, <4>2, OtherSteps, Zenon
      <4>. QED BY <3>4, <4>1, <4>2, Zenon DEF QemuWriter
    <3>5. CASE Receive \/ intr_start \/ start_empty \/ start_busy \/ uart_intr
      BY <1>0, <3>5, OtherSteps, Zenon
    <3>. QED BY <1>3, <3>1, <3>2, <3>3, <3>4, <3>5, Zenon DEF QemuDevice, QemuDriver
  <2>. QED BY <1>0, <1>3, <2>1, ConsIdle, Zenon
<1>4. ASSUME NEW p \in Readers, reader(p), UNCHANGED uartVars
      PROVE  RingInv' /\ ReadInv' /\ UartInv' /\ LineStep
  <2>1. call(p) \/ consoleread(p) \/ kill(p) \/ exit(p)
    BY <1>4, Zenon DEF reader
  <2>2. UartInv'
    BY <1>0, <1>4, OtherSteps, Zenon
  <2>. QED BY <1>0, <2>1, <2>2, ReadLine, ReadReads, Zenon
<1>5. RingInv' /\ ReadInv' /\ UartInv' /\ LineStep
  BY <1>2, <1>3, <1>4, Zenon DEF QemuNext
<1>. QED BY <1>5, Zenon DEF TermInv

\* The steps with a keyboard: its interrupt handler passes characters to the console.
LEMMA NemuStep ==
  ASSUME TermInv, NemuNext
  PROVE  TermInv' /\ LineStep
<1>0. RingInv /\ ReadInv /\ UartInv
  BY Zenon DEF TermInv
<1>1. UartInv'
  <2>1. UNCHANGED uartVars
    BY Zenon DEF NemuNext
  <2>. QED BY <1>0, <2>1, OtherSteps, Zenon
<1>2. ASSUME NEW c \in Keys \cup {NoKey}, nemu_getc(c)
      PROVE  RingInv' /\ ReadInv' /\ LineStep
  <2>1. CASE c = NoKey
    <3>1. UNCHANGED vars
      BY <1>2, <2>1, Zenon DEF nemu_getc
    <3>. QED BY <1>0, <3>1, ConsIdle, Zenon
  <2>2. CASE c # NoKey
    <3>1. c \in Keys /\ consoleintr(c)
      BY <1>2, <2>2, Zenon DEF nemu_getc
    <3>. QED BY <1>0, <3>1, IntrLine, IntrReads, Zenon
  <2>. QED BY <2>1, <2>2
<1>3. UNCHANGED vars => RingInv' /\ ReadInv' /\ LineStep
  BY <1>0, ConsIdle, Zenon
<1>4. RingInv' /\ ReadInv' /\ LineStep
  BY <1>2, <1>3, Zenon DEF NemuNext
<1>. QED BY <1>1, <1>4, Zenon DEF TermInv

\* Every step keeps the invariant, and is one of Tty's or leaves its variables alone.
LEMMA NextInv ==
  ASSUME TermInv, [TerminalNext]_termVars
  PROVE  TermInv' /\ LineStep
<1>1. CASE TerminalNext
  BY <1>1, QemuStep, NemuStep, Zenon DEF TerminalNext
<1>2. CASE UNCHANGED termVars
  <2>1. UNCHANGED vars /\ UNCHANGED uartVars
    BY <1>2, Zenon DEF termVars
  <2>. QED BY <2>1, ConsIdle, OtherSteps, Zenon DEF TermInv
<1>. QED BY <1>1, <1>2

\* The invariant always holds.
LEMMA TermInvariant == TerminalSpec => []TermInv
<1>1. TerminalInit => TermInv
  BY InitInv, Zenon
<1>2. TermInv /\ [TerminalNext]_termVars => TermInv'
  BY NextInv, Zenon
<1>. QED BY <1>1, <1>2, PTL DEF TerminalSpec

-----------------------------------------------------------------------------
(* Theorems *)

\* No reader sleeps in consoleread() while a line waits for it or when it was killed,
\* no writer sleeps in platform_uart_putc() while the ring has room, and while
\* characters wait in the ring the 16550 is busy or about to interrupt.
THEOREM WokenThm == TerminalSpec => []Woken
<1>1. TermInv => Woken
  BY ReadersWoken, Zenon DEF TermInv, UartInv, Woken
<1>. QED BY <1>1, TermInvariant, PTL

\* What write() puts in the ring leaves the 16550 complete and in order, however its
\* indices wrap and whatever consputc() echoes in between.
THEOREM InOrderThm == TerminalSpec => []InOrder
<1>1. TermInv => InOrder
  BY Zenon DEF TermInv, UartInv, InOrder, InOrder, Ring, InDevice, Held, Seg, Dist
<1>. QED BY <1>1, TermInvariant, PTL

\* The buffer of the console, with its wrapping indices, is an edited line in front of
\* a queue of complete input: nothing in it is lost, reordered or edited once it was
\* handed over.
THEOREM ImplementsThm == TerminalSpec => Implements
<1>1. TerminalInit => Line!Init
  BY InitInv, Zenon
<1>2. TermInv /\ [TerminalNext]_termVars => [Line!Next]_(Line!tvars)
  BY NextInv, Zenon DEF LineStep
<1>. QED BY <1>1, <1>2, TermInvariant, PTL DEF TerminalSpec, Implements, Line!Spec

-----------------------------------------------------------------------------
(* Induction, and the theorem that rests on it *)

INSTANCE WellFoundedInduction

\* The least number that is not in a set is 0 or follows one that is.
LEMMA Induct ==
  ASSUME NEW T, 0 \in T, \A k \in Nat : k \in T => k + 1 \in T
  PROVE  \A k \in Nat : k \in T
<1> DEFINE F == {k \in Nat : k \notin T}
<1>1. SUFFICES ASSUME F # {} PROVE FALSE
  BY Zenon
<1>2. \E m \in F : \A k \in F : <<k, m>> \notin OpToRel(<, Nat)
  <2>1. F \subseteq Nat
    BY Zenon
  <2> HIDE DEF F
  <2>. QED BY <1>1, <2>1, WFMin, NatLessThanWellFounded, Zenon
<1>3. PICK m \in F : \A k \in F : <<k, m>> \notin OpToRel(<, Nat)
  BY <1>2, Zenon
<1>4. m \in Nat /\ m # 0
  BY Zenon
<1>5. m - 1 \in Nat /\ (m - 1) + 1 = m /\ m - 1 < m
  BY <1>4
<1>6. <<m - 1, m>> \in OpToRel(<, Nat)
  BY <1>4, <1>5 DEF OpToRel
<1>7. m - 1 \in T
  BY <1>3, <1>5, <1>6, Zenon
<1>. QED BY <1>5, <1>7, Zenon

\* The induction of the keyboard's proofs.
LEMMA InductionHolds == Induction
BY Induct, Zenon DEF Induction

\* platform_nemu_keyboard_event() gives consoleintr() the characters that the user
\* meant, with the modifiers as they were when each key went down.
THEOREM TextRightThm == TerminalSpec => []TextRight
<1>1. TerminalInit => KbdInv
  BY InductionHolds, KbdStart, Zenon DEF TerminalInit
<1>2. KbdInv /\ [TerminalNext]_termVars => KbdInv'
  BY InductionHolds, KbdNext, Zenon
<1>3. KbdInv => TextRight
  BY Zenon DEF KbdInv, TextRight
<1>. QED BY <1>1, <1>2, <1>3, PTL DEF TerminalSpec
================================================================================
