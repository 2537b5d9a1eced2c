------------------------------- MODULE VmProofs -------------------------------
(***************************************************************************)
(* Proofs about module Vm, for all constants: no page is lost or freed     *)
(* twice and nothing panics (PagesExact), every process has exactly the    *)
(* pages below its size (MapExact), and the copies of UserCopy are right   *)
(* whatever pages those are (CopyRight).                                   *)
(***************************************************************************)
EXTENDS Vm, TLAPS

-----------------------------------------------------------------------------
(* The inductive invariant *)

\* The address spaces, and the largest size.
Spaces == [on : BOOLEAN, tab : SUBSET Tables, pg : SUBSET Vpns, guard : SUBSET Vpns]
MaxSz == MaxVpn * PGSIZE

\* The calls that a process can be in.
GrowJobs == [kind : {"grow"}, base : Nat, a : Nat, new : Nat]
CopyJobs == [kind : {"copy"}, child : Procs, i : Nat]
LoadJobs == [kind : {"load", "stack"}, as : Spaces, n : Nat, a : Nat, base : Nat, new : Nat]
Jobs == {NoJob} \cup GrowJobs \cup CopyJobs \cup LoadJobs

\* Types of the variables; nothing panicked.
Types ==
  /\ free \in Nat /\ pipe \in 0 .. 1 /\ panicked = FALSE
  /\ trapframe \in [Procs -> BOOLEAN] /\ pagetable \in [Procs -> Spaces]
  /\ sz \in [Procs -> 0 .. MaxSz] /\ job \in [Procs -> Jobs]

\* No page is lost or in two places.
Balance == free + pipe + Cardinality(PagesHeld) = NPages

\* The pages that a process with size s and call j has mapped.
Top(s, j) == IF j.kind = "grow" THEN j.a ELSE RoundUp(s)

\* A process, or a free slot, that fork() is not copying to: its trapframe, address
\* space, size and call.
OwnOK(tf, sp, s, j) ==
  /\ tf => sp.on /\ sp.pg = 0 .. Top(s, j) - 1
  /\ ~tf => sp = NoSpace /\ s = 0 /\ j = NoJob

\* A process that fork() is copying to.
KidOK(tf, sp, s, j) == tf /\ sp.on /\ s = 0 /\ j = NoJob

\* uvmalloc() for sbrk(), with the size s, is at page a of base .. RoundUp(new) - 1.
GrowOK(s, base, a, new) ==
  base = RoundUp(s) /\ base <= a /\ a <= RoundUp(new) /\ s < new /\ new <= MaxSz

\* The same for exec(): n is the size of the image that "bad:" frees.
LoadOK(pg, n, base, a, new) ==
  pg = 0 .. a - 1 /\ base = RoundUp(n) /\ n <= new /\ base <= a /\ a <= RoundUp(new)

\* A call j of a process of size s.
JobOK(s, j) ==
  /\ j.kind # "none" => s > 0
  /\ j.kind = "grow" => GrowOK(s, j.base, j.a, j.new)
  /\ j.kind = "copy" => j.i <= RoundUp(s)
  /\ j.kind \in {"load", "stack"} => j.as.on /\ LoadOK(j.as.pg, j.n, j.base, j.a, j.new)
  /\ j.kind = "load" => RoundUp(j.new) + 2 <= MaxVpn
  /\ j.kind = "stack" => j.new = (j.base + 2) * PGSIZE /\ j.base + 2 <= MaxVpn

\* fork() is copying to q.
Kid(q) == \E p \in Procs : job[p].kind = "copy" /\ job[p].child = q

\* Every process has the pages that its size, or the call that it is in, says.
ProcsOK == \A p \in Procs :
  /\ Kid(p) => KidOK(trapframe[p], pagetable[p], sz[p], job[p])
  /\ ~Kid(p) => OwnOK(trapframe[p], pagetable[p], sz[p], job[p])
  /\ JobOK(sz[p], job[p])

\* A child has one parent, and the pages that were copied so far.
ForksOK == \A p, q \in Procs : job[p].kind = "copy" /\ job[p].child = q =>
  /\ p # q /\ pagetable[q].pg = 0 .. job[p].i - 1
  /\ \A r \in Procs : job[r].kind = "copy" /\ job[r].child = q => r = p

Inv == Types /\ Balance /\ ProcsOK /\ ForksOK

-----------------------------------------------------------------------------
(* Sizes in pages *)

\* What the assumptions say of the numbers.
LEMMA Numbers ==
  /\ PGSIZE \in Nat /\ PGSIZE > 0 /\ MaxVpn \in Nat /\ MaxVpn >= 2
  /\ PerTable \in Nat /\ PerTable > 0 /\ NPages \in Nat /\ NPages >= 5
  /\ UintMod \in Nat /\ UintMod > 2 * MaxVpn * PGSIZE
BY VmAssumption

\* Multiplication by a positive number keeps the order ...
LEMMA TimesLe ==
  ASSUME NEW a \in Nat, NEW b \in Nat, NEW m \in Nat, a <= b
  PROVE  a * m <= b * m
<1>1. PICK d \in Nat : b = a + d
  <2>1. b - a \in Nat /\ b = a + (b - a)
    OBVIOUS
  <2>. QED BY <2>1
<1>2. b * m = a * m + d * m
  BY <1>1
<1>3. d * m \in Nat /\ a * m \in Nat
  OBVIOUS
<1>. QED BY <1>2, <1>3

\* PGROUNDUP is the least number of pages that hold n bytes.
LEMMA RoundUpIs ==
  ASSUME NEW n \in Nat
  PROVE  /\ RoundUp(n) \in Nat
         /\ \A a \in Nat : a * PGSIZE >= n <=> a >= RoundUp(n)
<1>1. PGSIZE \in Nat /\ PGSIZE > 0
  BY Numbers
<1>. DEFINE x == n + PGSIZE - 1
            k == x \div PGSIZE
<1>2. x \in Nat /\ k \in Nat /\ k * PGSIZE <= x /\ x < k * PGSIZE + PGSIZE
  BY <1>1
<1>3. RoundUp(n) = k
  BY DEF RoundUp
<1>4. ASSUME NEW a \in Nat, a >= k PROVE a * PGSIZE >= n
  <2>1. k * PGSIZE <= a * PGSIZE
    BY <1>1, <1>2, <1>4, TimesLe
  <2>2. k * PGSIZE \in Nat /\ a * PGSIZE \in Nat
    BY <1>1, <1>2
  <2>. QED BY <1>1, <1>2, <2>1, <2>2
<1>5. ASSUME NEW a \in Nat, a < k PROVE a * PGSIZE < n
  <2>1. (a + 1) * PGSIZE <= k * PGSIZE
    BY <1>1, <1>2, <1>5, TimesLe
  <2>2. k * PGSIZE \in Nat /\ a * PGSIZE \in Nat /\ (a + 1) * PGSIZE = a * PGSIZE + PGSIZE
    BY <1>1, <1>2
  <2>. QED BY <1>1, <1>2, <2>1, <2>2
<1>. HIDE DEF k
<1>6. ASSUME NEW a \in Nat PROVE a * PGSIZE >= n <=> a >= k
  <2>1. a * PGSIZE \in Nat
    BY <1>1
  <2>. QED BY <1>2, <1>4, <1>5, <2>1
<1>. QED BY <1>2, <1>3, <1>6

\* No pages hold no bytes, and more bytes need no fewer pages.
LEMMA RoundUpFacts ==
  /\ RoundUp(0) = 0
  /\ \A n \in Nat : n > 0 => RoundUp(n) > 0
  /\ \A n, m \in Nat : n <= m => RoundUp(n) <= RoundUp(m)
  /\ \A k \in Nat : RoundUp(k * PGSIZE) = k /\ k * PGSIZE \in Nat
  /\ MaxSz \in Nat /\ \A n \in 0 .. MaxSz : RoundUp(n) <= MaxVpn
<1>1. PGSIZE \in Nat /\ PGSIZE > 0 /\ MaxVpn \in Nat
  BY Numbers
<1>2. RoundUp(0) = 0
  <2>1. RoundUp(0) \in Nat /\ (0 * PGSIZE >= 0 <=> 0 >= RoundUp(0))
    BY RoundUpIs
  <2>. QED BY <1>1, <2>1
<1>3. ASSUME NEW n \in Nat, n > 0 PROVE RoundUp(n) > 0
  <2>1. RoundUp(n) \in Nat /\ (0 * PGSIZE >= n <=> 0 >= RoundUp(n))
    BY RoundUpIs
  <2>. QED BY <1>1, <1>3, <2>1
<1>4. ASSUME NEW n \in Nat, NEW m \in Nat, n <= m PROVE RoundUp(n) <= RoundUp(m)
  <2>. DEFINE k == RoundUp(m)
  <2>1. k \in Nat /\ RoundUp(n) \in Nat
    BY RoundUpIs
  <2>2. k * PGSIZE >= m
    BY <2>1, RoundUpIs
  <2>3. k * PGSIZE \in Nat
    BY <1>1, <2>1
  <2>4. k * PGSIZE >= n
    BY <1>4, <2>2, <2>3
  <2>. QED BY <2>1, <2>4, RoundUpIs
<1>5. ASSUME NEW k \in Nat PROVE RoundUp(k * PGSIZE) = k /\ k * PGSIZE \in Nat
  <2>1. k * PGSIZE \in Nat
    BY <1>1
  <2>. DEFINE m == k * PGSIZE
              r == RoundUp(m)
  <2>2. r \in Nat /\ r <= k
    BY <2>1, RoundUpIs
  <2>3. ASSUME r < k PROVE FALSE
    <3>1. (r + 1) * PGSIZE <= k * PGSIZE
      BY <1>1, <2>2, <2>3, TimesLe
    <3>2. (r + 1) * PGSIZE = r * PGSIZE + PGSIZE /\ r * PGSIZE \in Nat
      BY <1>1, <2>2
    <3>3. r * PGSIZE >= m
      BY <2>1, <2>2, RoundUpIs
    <3>. QED BY <1>1, <2>1, <3>1, <3>2, <3>3
  <2>. QED BY <2>1, <2>2, <2>3
<1>6. MaxSz \in Nat /\ RoundUp(MaxSz) = MaxVpn
  BY <1>1, <1>5 DEF MaxSz
<1>7. ASSUME NEW n \in 0 .. MaxSz PROVE RoundUp(n) <= MaxVpn
  BY <1>4, <1>6, <1>7
<1>. QED BY <1>2, <1>3, <1>4, <1>5, <1>6, <1>7
-----------------------------------------------------------------------------
(* Copies *)

\* The turn of a loop at va, with n bytes to go: c bytes up to the end of the page, and
\* then the page at nv.
PageTurn(va, n, c, nv) ==
  /\ c \in 1 .. n /\ nv \in Addrs /\ va + c <= UintMod
  /\ c < n => nv = va + c
  /\ \A i \in 0 .. c - 1 : Page(va + i) = Page(va)

Results == [ok : BOOLEAN, bytes : Seq(Nat)]

\* w is s, of length c, followed by t, of length m.
Joined(S, s, t, c, m, w) ==
  /\ w \in Seq(S) /\ Len(w) = c + m
  /\ \A j \in 1 .. c + m : w[j] = IF j <= c THEN s[j] ELSE t[j - c]

\* Induction on the numbers in a set (shown at the end, where the library's theorems
\* about well-founded orders are at hand).
Induction ==
  \A T : 0 \in T /\ (\A k \in Nat : k \in T => k + 1 \in T) => \A k \in Nat : k \in T

\* The turn at va of copyin() and copyout(), with the result of the turns after it, and
\* the same for copyinstr().
CopyBody(ok, rest, va, len) ==
  IF len = 0 THEN [ok |-> TRUE, bytes |-> <<>>]
  ELSE IF ~walkaddr(ok, va) THEN [ok |-> FALSE, bytes |-> <<>>]
  ELSE [ok |-> rest.ok, bytes |-> Run(va, Chunk(va, len)) \o rest.bytes]
Zeros(nul, va, c) == {i \in 1 .. c : va + i - 1 \in nul}
Least(S) == CHOOSE i \in S : \A j \in S : i <= j
StrBody(ok, nul, rest, va, max) ==
  IF max = 0 \/ ~walkaddr(ok, va) THEN [ok |-> FALSE, bytes |-> <<>>]
  ELSE IF Zeros(nul, va, Chunk(va, max)) = {}
       THEN [ok |-> rest.ok, bytes |-> Run(va, Chunk(va, max)) \o rest.bytes]
       ELSE [ok |-> TRUE, bytes |-> Run(va, Least(Zeros(nul, va, Chunk(va, max))))]
Body(str, ok, nul, rest, va, n) ==
  IF str THEN StrBody(ok, nul, rest, va, n) ELSE CopyBody(ok, rest, va, n)

\* f has the results of the loop for up to m bytes.
Rest(f, va, n) == f[n - Chunk(va, n)][NextPage(va)]
Row(str, ok, nul, f, n) == [va \in Addrs |-> Body(str, ok, nul, Rest(f, va, n), va, n)]
Solves(f, str, ok, nul, m) == f = [n \in 0 .. m |-> Row(str, ok, nul, f, n)]

\* With no bytes left a copy has succeeded, and a string did not end.
Last(str) == [ok |-> ~str, bytes |-> <<>>]

\* g is f for up to k bytes, and gives the same results for n.
Agree(f, g, k) == \A j \in 0 .. k : g[j] = f[j]
SameRow(str, ok, nul, f, g, n) == Row(str, ok, nul, g, n) = Row(str, ok, nul, f, n)

\* What a loop has as the result of a turn.
Follows(f, str, ok, nul, m) ==
  \A n \in 0 .. m, va \in Addrs :
    f[n][va] = Body(str, ok, nul, Rest(f, va, n), va, n)

\* r is the result of such a loop.
Loops(str, ok, nul, va, m, r) == \E f : Follows(f, str, ok, nul, m) /\ r = f[m][va]

\* r is the result rest, with c more bytes in front.
Longer(ok, va, n, c, rest, r) ==
  /\ r \in Results /\ r.ok = rest.ok /\ Len(r.bytes) = c + Len(rest.bytes)
  /\ InBounds(ok, va, n, r)

\* The lengths of the string at va, if it ends within n bytes.
Ends(nul, va, n) ==
  {k \in 1 .. n : va + k - 1 \in nul /\ \A i \in 1 .. k - 1 : va + i - 1 \notin nul}

\* What a caller of copyin() or copyout(), or of copyinstr(), expects.
RightCopy(ok, va, n, r) ==
  /\ r \in Results /\ InBounds(ok, va, n, r)
  /\ r.ok <=> n = 0 \/ Whole(ok, va, n)
  /\ r.ok => Len(r.bytes) = n
RightStr(ok, nul, va, n, r) ==
  /\ r \in Results /\ InBounds(ok, va, n, r)
  /\ r.ok <=> \E k \in Ends(nul, va, n) : Whole(ok, va, k) /\ Len(r.bytes) = k
Right(str, ok, nul, va, n, r) ==
  /\ str => RightStr(ok, nul, va, n, r)
  /\ ~str => RightCopy(ok, va, n, r)

\* The ends of the string at va are those of the one at nv, c bytes later.
Shifted(nul, va, n, c, nv) ==
  /\ \A k \in Ends(nul, va, n) :
       k - c \in Ends(nul, nv, n - c) /\ k - c \in 0 .. n - c /\ c + (k - c) = k
  /\ \A j \in Ends(nul, nv, n - c) : c + j \in Ends(nul, va, n) /\ j \in 0 .. n - c

\* The results of the loops of fewer than n bytes are right.
Before(f, str, ok, nul, n) ==
  \A j \in 0 .. n - 1, va \in Addrs : Right(str, ok, nul, va, j, f[j][va])

\* In every address space all copies are right. The steps are lemmas of their own: a turn
\* of a loop stays in a page and its arithmetic does not wrap (PageTurnIs); what turns
\* have copied is one run of bytes (Joins, EndsShift); the loops, which are recursive
\* functions, exist (LoopExists); what they return is right (LoopRight).
LEMMA AllCopiesRight == Induction => \A ok : ok \subseteq Vpns => AllRight(ok)

(* Addresses. *)

\* The page of an address is below the address, and its end above it.
<1>PageIs.
  ASSUME NEW va \in Nat
  PROVE  /\ Page(va) \in Nat /\ va % PGSIZE \in Nat /\ va % PGSIZE < PGSIZE
         /\ Page(va) * PGSIZE \in Nat /\ va = Page(va) * PGSIZE + (va % PGSIZE)
         /\ (Page(va) + 1) * PGSIZE = Page(va) * PGSIZE + PGSIZE
  <2>1. PGSIZE \in Nat /\ PGSIZE > 0
    BY Numbers
  <2>2. Page(va) \in Nat
    BY <2>1 DEF Page
  <2>3. va % PGSIZE \in Nat /\ va % PGSIZE < PGSIZE
    BY <2>1
  <2>4. va = Page(va) * PGSIZE + (va % PGSIZE)
    BY <2>1 DEF Page
  <2>5. ASSUME NEW k \in Nat PROVE k * PGSIZE \in Nat /\ (k + 1) * PGSIZE = k * PGSIZE + PGSIZE
    BY <2>1
  <2>. QED BY <2>2, <2>3, <2>4, <2>5

\* An address is in page k when it is between the ends of k.
<1>PageAt.
  ASSUME NEW va \in Nat, NEW k \in Nat, k * PGSIZE <= va, va < k * PGSIZE + PGSIZE
  PROVE  Page(va) = k
  <2>. USE <1>PageAt
  <2>1. PGSIZE \in Nat /\ PGSIZE > 0
    BY Numbers
  <2>2. PICK h \in Nat : h = Page(va)
    BY <1>PageIs
  <2>3. h * PGSIZE <= va /\ va < h * PGSIZE + PGSIZE
    <3>1. PICK o \in Nat, c \in Nat : c = h * PGSIZE /\ va = c + o /\ o < PGSIZE
      BY <2>2, <1>PageIs, Zenon
    <3>. QED BY <2>1, <3>1
  <2>4. ASSUME NEW x \in Nat, NEW y \in Nat, x < y PROVE x * PGSIZE + PGSIZE <= y * PGSIZE
    <3>1. (x + 1) * PGSIZE <= y * PGSIZE
      BY <2>1, <2>4, TimesLe
    <3>2. (x + 1) * PGSIZE = x * PGSIZE + PGSIZE
      BY <2>1
    <3>. QED BY <3>1, <3>2
  <2>5. h * PGSIZE \in Nat /\ k * PGSIZE \in Nat
    BY <2>1
  <2>6. ~(h < k) /\ ~(k < h)
    BY <2>1, <2>3, <2>4, <2>5
  <2>. QED BY <2>2, <2>6

\* A user page ends below the middle of the addresses.
<1>UserPage.
  ASSUME NEW va \in Nat, Page(va) \in Vpns
  PROVE  (Page(va) + 1) * PGSIZE \in Nat /\ (Page(va) + 1) * PGSIZE < UintMod
  <2>. USE <1>UserPage
  <2>1. PGSIZE \in Nat /\ PGSIZE > 0 /\ MaxVpn \in Nat /\ UintMod \in Nat
        /\ UintMod > 2 * MaxVpn * PGSIZE
    BY Numbers
  <2>2. PICK k \in Nat : k = Page(va) + 1 /\ k <= MaxVpn
    BY <2>1 DEF Vpns
  <2>3. k * PGSIZE <= MaxVpn * PGSIZE
    BY <2>1, <2>2, TimesLe
  <2>4. PICK t \in Nat : t = MaxVpn * PGSIZE
    BY <2>1
  <2>5. 2 * MaxVpn * PGSIZE = 2 * t
    BY <2>1, <2>4
  <2>6. k * PGSIZE \in Nat
    BY <2>1
  <2>. QED BY <2>1, <2>2, <2>3, <2>4, <2>5, <2>6

\* In a page that is mapped the arithmetic does not wrap.
<1>PageTurnIs.
  ASSUME NEW va \in Addrs, NEW n \in Nat, n > 0, Page(va) \in Vpns
  PROVE  PageTurn(va, n, Chunk(va, n), NextPage(va))
  <2>. USE <1>PageTurnIs
  <2>1. PGSIZE \in Nat /\ PGSIZE > 0 /\ UintMod \in Nat /\ va \in Nat /\ va < UintMod
    BY Numbers DEF Addrs
  <2>2. PICK k \in Nat, o \in Nat, b \in Nat :
          k = Page(va) /\ o = va % PGSIZE /\ b = k * PGSIZE
    BY <2>1, <1>PageIs
  <2>3. va = b + o /\ o < PGSIZE /\ (k + 1) * PGSIZE = b + PGSIZE
    BY <2>1, <2>2, <1>PageIs
  <2>4. b + PGSIZE < UintMod
    BY <2>1, <2>2, <2>3, <1>UserPage
  <2>5. NextPage(va) = b + PGSIZE
    <3>1. NextPage(va) = (b + PGSIZE) % UintMod
      BY <2>2, <2>3, Zenon DEF NextPage
    <3>. QED BY <2>1, <2>4, <3>1
  <2>6. PICK c : c = Chunk(va, n)
    BY Zenon
  <2>7. c = IF PGSIZE - o > n THEN n ELSE PGSIZE - o
    BY <2>2, <2>6, Zenon DEF Chunk
  <2>8. c \in 1 .. n /\ c <= PGSIZE - o /\ (c < n => c = PGSIZE - o)
    BY <2>1, <2>3, <2>7
  <2>9. b + PGSIZE \in Addrs /\ va + c <= UintMod /\ (c < n => b + PGSIZE = va + c)
    BY <2>1, <2>3, <2>4, <2>8 DEF Addrs
  <2>10. ASSUME NEW i \in 0 .. c - 1 PROVE Page(va + i) = Page(va)
    <3>1. va + i \in Nat /\ b <= va + i /\ va + i < b + PGSIZE
      BY <2>1, <2>3, <2>8
    <3>. QED BY <2>2, <3>1, <1>PageAt
  <2>. QED BY <2>5, <2>6, <2>8, <2>9, <2>10, Zenon DEF PageTurn

(* What the turns have copied. *)

\* The elements of a concatenation.
<1>SeqConcat.
  ASSUME NEW S, NEW s \in Seq(S), NEW t \in Seq(S), NEW c, NEW m, Len(s) = c, Len(t) = m
  PROVE  Joined(S, s, t, c, m, s \o t)
  <2>. USE <1>SeqConcat
  <2>. QED BY DEF Joined

\* Sequences are equal when their lengths and elements are.
<1>SeqSame.
  ASSUME NEW S, NEW s \in Seq(S), NEW t \in Seq(S),
         Len(s) = Len(t), \A j \in 1 .. Len(s) : s[j] = t[j]
  PROVE  s = t
  <2>. USE <1>SeqSame
  <2>. QED OBVIOUS

\* Run is the sequence of n addresses from va on.
<1>RunIs.
  ASSUME NEW va \in Nat, NEW n \in Nat
  PROVE  /\ Run(va, n) \in Seq(Nat) /\ Len(Run(va, n)) = n
         /\ \A i \in 1 .. n : Run(va, n)[i] = va + i - 1
  <2>1. \A i \in 1 .. n : va + i - 1 \in Nat
    OBVIOUS
  <2>2. Run(va, n) \in [1 .. n -> Nat]
    BY <2>1, Zenon DEF Run
  <2>3. Run(va, n) \in Seq(Nat)
    BY <2>2
  <2>4. DOMAIN Run(va, n) = 1 .. n
    BY Zenon DEF Run
  <2>5. Len(Run(va, n)) = n
    BY <2>3, <2>4
  <2>6. \A i \in 1 .. n : Run(va, n)[i] = va + i - 1
    BY Zenon DEF Run
  <2>. QED BY <2>3, <2>5, <2>6

\* No bytes.
<1>RunEmpty.
  ASSUME NEW va \in Nat
  PROVE  Run(va, 0) = <<>> /\ Len(<<>>) = 0 /\ <<>> \in Seq(Nat)
  <2>1. Run(va, 0) \in Seq(Nat) /\ Len(Run(va, 0)) = 0
    BY <1>RunIs
  <2>2. Run(va, 0) = <<>>
    BY <2>1
  <2>. QED BY <2>2

\* The bytes of a turn and of the turns after it.
<1>RunJoin.
  ASSUME NEW va \in Nat, NEW c \in Nat, NEW m \in Nat
  PROVE  Run(va, c) \o Run(va + c, m) = Run(va, c + m)
  <2>1. va + c \in Nat /\ c + m \in Nat
    OBVIOUS
  <2>2. PICK s \in Seq(Nat) : s = Run(va, c) /\ Len(s) = c /\ \A i \in 1 .. c : s[i] = va + i - 1
    BY <1>RunIs
  <2>3. PICK t \in Seq(Nat) :
          t = Run(va + c, m) /\ Len(t) = m /\ \A i \in 1 .. m : t[i] = va + c + i - 1
    BY <2>1, <1>RunIs
  <2>4. PICK u \in Seq(Nat) :
          u = Run(va, c + m) /\ Len(u) = c + m /\ \A i \in 1 .. c + m : u[i] = va + i - 1
    BY <2>1, <1>RunIs
  <2>5. PICK w : w = s \o t
    BY Zenon
  <2>6. /\ w \in Seq(Nat) /\ Len(w) = c + m
        /\ \A j \in 1 .. c + m : w[j] = IF j <= c THEN s[j] ELSE t[j - c]
    <3>1. Len(s) = c /\ Len(t) = m /\ s \in Seq(Nat) /\ t \in Seq(Nat)
      BY <2>2, <2>3, Zenon
    <3>2. Joined(Nat, s, t, c, m, s \o t)
      BY <3>1, <1>SeqConcat, Zenon
    <3>. QED BY <2>5, <3>2, Zenon DEF Joined
  <2>7. ASSUME NEW i \in 1 .. c + m PROVE w[i] = u[i]
    <3>1. CASE i <= c
      <4>1. i \in 1 .. c
        BY <3>1
      <4>. QED BY <2>2, <2>4, <2>6, <3>1, <4>1, Zenon
    <3>2. CASE ~(i <= c)
      <4>1. i - c \in 1 .. m /\ va + c + (i - c) - 1 = va + i - 1
        BY <3>2
      <4>. QED BY <2>3, <2>4, <2>6, <3>2, <4>1, Zenon
    <3>. QED BY <3>1, <3>2, Zenon
  <2>8. w = u
    BY <2>4, <2>6, <2>7, <1>SeqSame, Zenon
  <2>. QED BY <2>2, <2>3, <2>4, <2>5, <2>8, Zenon

\* No bytes are all in user memory, and the first byte must be.
<1>WholeFirst.
  ASSUME NEW ok, NEW va \in Addrs
  PROVE  Whole(ok, va, 0) /\ \A n \in Nat : n > 0 /\ Whole(ok, va, n) => Page(va) \in ok
  <2>1. va \in Nat /\ va + 0 <= UintMod /\ va + 0 = va
    BY Numbers DEF Addrs
  <2>2. Whole(ok, va, 0)
    BY <2>1 DEF Whole
  <2>3. ASSUME NEW n \in Nat, n > 0, Whole(ok, va, n) PROVE Page(va) \in ok
    <3>1. 0 \in 0 .. n - 1
      BY <2>3
    <3>2. Page(va + 0) \in ok
      BY <2>3, <3>1, Zenon DEF Whole
    <3>. QED BY <2>1, <3>2
  <2>. QED BY <2>2, <2>3

\* A turn, and m bytes after it.
<1>Joins.
  ASSUME NEW ok, NEW va \in Addrs, NEW n \in Nat, NEW c, NEW nv, PageTurn(va, n, c, nv),
         Page(va) \in ok, NEW m \in 0 .. n - c
  PROVE  /\ Run(va, c) \o Run(nv, m) = Run(va, c + m)
         /\ Whole(ok, nv, m) <=> Whole(ok, va, c + m)
  <2>. USE <1>Joins
  <2>1. /\ c \in Nat /\ c > 0 /\ c <= n /\ nv \in Addrs /\ va + c <= UintMod
        /\ c < n => nv = va + c
    BY DEF PageTurn
  <2>2. va \in Nat /\ nv \in Nat /\ UintMod \in Nat /\ m \in Nat /\ m <= n - c
    BY <2>1, Numbers DEF Addrs
  <2>3. \A i \in 0 .. c - 1 : Page(va + i) \in ok
    BY Zenon DEF PageTurn
  <2>4. CASE c < n
    <3>1. nv = va + c
      BY <2>1, <2>4
    <3>2. Run(va, c) \o Run(nv, m) = Run(va, c + m)
      <4>1. va \in Nat /\ c \in Nat /\ m \in Nat
        BY <2>1, <2>2
      <4>2. Run(va, c) \o Run(va + c, m) = Run(va, c + m)
        BY ONLY <4>1, <1>RunJoin, ZenonT(40)
      <4>. QED BY <3>1, <4>2, Zenon
    <3>3. ASSUME Whole(ok, nv, m) PROVE Whole(ok, va, c + m)
      <4>1. nv + m <= UintMod /\ \A i \in 0 .. m - 1 : Page(nv + i) \in ok
        BY <3>3, Zenon DEF Whole
      <4>2. va + (c + m) <= UintMod
        BY <2>1, <2>2, <3>1, <4>1
      <4>3. ASSUME NEW i \in 0 .. (c + m) - 1 PROVE Page(va + i) \in ok
        <5>1. CASE i < c
          <6>1. i \in 0 .. c - 1
            BY <2>1, <2>2, <5>1
          <6>. QED BY <2>3, <6>1, Zenon
        <5>2. CASE ~(i < c)
          <6>1. i - c \in 0 .. m - 1 /\ nv + (i - c) = va + i
            BY <2>1, <2>2, <3>1, <5>2
          <6>. QED BY <4>1, <6>1
        <5>. QED BY <5>1, <5>2, Zenon
      <4>. QED BY <4>2, <4>3, Zenon DEF Whole
    <3>4. ASSUME Whole(ok, va, c + m) PROVE Whole(ok, nv, m)
      <4>1. va + (c + m) <= UintMod /\ \A i \in 0 .. (c + m) - 1 : Page(va + i) \in ok
        BY <3>4, Zenon DEF Whole
      <4>2. nv + m <= UintMod
        BY <2>1, <2>2, <3>1, <4>1
      <4>3. ASSUME NEW i \in 0 .. m - 1 PROVE Page(nv + i) \in ok
        <5>1. c + i \in 0 .. (c + m) - 1 /\ va + (c + i) = nv + i
          BY <2>1, <2>2, <3>1
        <5>. QED BY <4>1, <5>1
      <4>. QED BY <4>2, <4>3, Zenon DEF Whole
    <3>. QED BY <3>2, <3>3, <3>4, Zenon
  <2>5. CASE ~(c < n)
    <3>1. m = 0 /\ c + m = c
      BY <2>1, <2>2, <2>5
    <3>2. Run(va, c) \o Run(nv, m) = Run(va, c)
      <4>1. Run(va, c) \in Seq(Nat)
        BY <2>1, <2>2, <1>RunIs
      <4>2. Run(nv, m) = <<>>
        BY <2>2, <3>1, <1>RunEmpty
      <4>. QED BY <4>1, <4>2
    <3>3. Whole(ok, va, c)
      BY <2>1, <2>3, Zenon DEF Whole
    <3>4. Whole(ok, nv, m)
      BY <2>1, <3>1, <1>WholeFirst
    <3>. QED BY <3>1, <3>2, <3>3, <3>4
  <2>. QED BY <2>4, <2>5, Zenon

(* The loops. *)

\* The last turn needs no other.
<1>LastTurn.
  ASSUME NEW str \in BOOLEAN, NEW ok, NEW nul, NEW r, NEW va
  PROVE  Body(str, ok, nul, r, va, 0) = Last(str)
  <2>1. CASE str
    <3>1. str = TRUE /\ (~str) = FALSE
      BY <2>1, Zenon
    <3>. QED BY <3>1, Zenon DEF Body, StrBody, Last
  <2>2. CASE ~str
    <3>1. str = FALSE /\ (~str) = TRUE
      BY <2>2, Zenon
    <3>. QED BY <3>1, Zenon DEF Body, CopyBody, Last
  <2>. QED BY <2>1, <2>2, Zenon

\* A turn copies something.
<1>ChunkIs.
  ASSUME NEW va \in Addrs, NEW n \in Nat, n # 0
  PROVE  Chunk(va, n) \in 1 .. n
  <2>. USE <1>ChunkIs
  <2>1. PGSIZE \in Nat /\ PGSIZE > 0 /\ va \in Nat
    BY Numbers DEF Addrs
  <2>2. PICK o \in Nat : o = va % PGSIZE /\ o < PGSIZE
    BY <2>1, <1>PageIs, Zenon
  <2>3. Chunk(va, n) = IF PGSIZE - o > n THEN n ELSE PGSIZE - o
    BY <2>2, Zenon DEF Chunk
  <2>. QED BY ONLY <2>1, <2>2, <2>3, n \in Nat, n # 0

\* A loop for k + 1 bytes goes on like one for k bytes.
<1>RowSame.
  ASSUME NEW str \in BOOLEAN, NEW ok, NEW nul, NEW f, NEW g, NEW k \in Nat,
         Agree(f, g, k), NEW n \in 0 .. k + 1
  PROVE  SameRow(str, ok, nul, f, g, n)
  <2>. USE <1>RowSame
  <2>1. ASSUME NEW va \in Addrs
        PROVE  Body(str, ok, nul, Rest(g, va, n), va, n) = Body(str, ok, nul, Rest(f, va, n), va, n)
    <3>1. CASE n = 0
      <4>1. Body(str, ok, nul, Rest(g, va, 0), va, 0) = Last(str)
        BY <1>LastTurn, Zenon
      <4>2. Body(str, ok, nul, Rest(f, va, 0), va, 0) = Last(str)
        BY <1>LastTurn, Zenon
      <4>. QED BY <3>1, <4>1, <4>2, Zenon
    <3>2. CASE n # 0
      <4>1. n \in Nat
        OBVIOUS
      <4>2. PICK c : c = Chunk(va, n) /\ c \in 1 .. n
        BY <3>2, <4>1, <1>ChunkIs, Zenon
      <4>3. n - c \in 0 .. k
        BY <4>2
      <4>4. Rest(g, va, n) = Rest(f, va, n)
        BY <4>2, <4>3, Zenon DEF Rest, Agree
      <4>. QED BY <4>4, Zenon
    <3>. QED BY <3>1, <3>2, Zenon
  <2>. QED BY <2>1, Zenon DEF Row, SameRow

\* There are such results for every loop, by induction on the number of bytes.
<1>LoopExists.
  ASSUME Induction, NEW str \in BOOLEAN, NEW ok, NEW nul, NEW m \in Nat
  PROVE  \E f : Solves(f, str, ok, nul, m)
  <2>. USE <1>LoopExists
  <2> DEFINE T == {k \in Nat : \E f : Solves(f, str, ok, nul, k)}
  <2>1. 0 \in T
    <3> DEFINE f == [n \in 0 .. 0 |-> [va \in Addrs |-> Last(str)]]
    <3>1. ASSUME NEW n \in 0 .. 0
          PROVE  f[n] = Row(str, ok, nul, f, n)
      <4>1. n = 0
        OBVIOUS
      <4>2. \A va \in Addrs : Body(str, ok, nul, Rest(f, va, 0), va, 0) = Last(str)
        BY <1>LastTurn, Zenon
      <4>3. f[0] = [va \in Addrs |-> Last(str)]
        BY <4>1, Zenon
      <4> HIDE DEF f
      <4>4. f[0] = Row(str, ok, nul, f, 0)
        BY <4>2, <4>3, Zenon DEF Row
      <4>. QED BY <4>1, <4>4, Zenon
    <3>2. f = [n \in 0 .. 0 |-> f[n]]
      BY Zenon
    <3> HIDE DEF f
    <3>3. Solves(f, str, ok, nul, 0)
      BY <3>1, <3>2, Zenon DEF Solves
    <3>. QED BY <3>3, Zenon
  <2>2. ASSUME NEW k \in Nat, k \in T PROVE k + 1 \in T
    <3>1. PICK f : Solves(f, str, ok, nul, k)
      BY <2>2, Zenon
    <3> DEFINE g == [n \in 0 .. k + 1 |-> Row(str, ok, nul, f, n)]
    <3>2. \A j \in 0 .. k : j \in 0 .. k + 1
      OBVIOUS
    <3>3. \A j \in 0 .. k : f[j] = Row(str, ok, nul, f, j)
      BY <3>1, Zenon DEF Solves
    <3>4. Agree(f, g, k)
      BY <3>2, <3>3, Zenon DEF Agree
    <3>5. g = [n \in 0 .. k + 1 |-> Row(str, ok, nul, f, n)]
      BY Zenon
    <3> HIDE DEF g
    <3>6. ASSUME NEW n \in 0 .. k + 1 PROVE Row(str, ok, nul, g, n) = Row(str, ok, nul, f, n)
      <4>1. SameRow(str, ok, nul, f, g, n)
        BY <3>4, <1>RowSame, Zenon
      <4>. QED BY <4>1, Zenon DEF SameRow
    <3>7. Solves(g, str, ok, nul, k + 1)
      BY <3>5, <3>6, Zenon DEF Solves
    <3>8. k + 1 \in Nat
      OBVIOUS
    <3>. QED BY <3>7, <3>8, Zenon
  <2> HIDE DEF T
  <2>3. m \in T
    BY <2>1, <2>2, Zenon DEF Induction
  <2>. QED BY <2>3, Zenon DEF T

\* copyin() and copyout() are such a loop.
<1>CopyLoop.
  ASSUME Induction, NEW ok, NEW va0, NEW m \in Nat
  PROVE  Loops(FALSE, ok, {}, va0, m, copy(ok, va0, m))
  <2>. USE <1>CopyLoop
  <2>1. PICK h : Solves(h, FALSE, ok, {}, m)
    BY <1>LoopExists, Zenon
  <2>2. ASSUME NEW f, NEW n
        PROVE  Row(FALSE, ok, {}, f, n) = [va \in Addrs |-> CopyBody(ok, Rest(f, va, n), va, n)]
    BY Zenon DEF Row, Body
  <2> DEFINE L(f) == f = [n \in 0 .. m |->
                           [va \in Addrs |-> CopyBody(ok, Rest(f, va, n), va, n)]]
  <2>3. L(h)
    BY <2>1, <2>2, ZenonT(60) DEF Solves
  <2>4. PICK f : f = CHOOSE x : L(x)
    BY Zenon
  <2>5. L(f)
    BY <2>3, <2>4, Zenon
  <2>6. copy(ok, va0, m) = (CHOOSE x : L(x))[m][va0]
    BY Zenon DEF copy, CopyBody, Rest
  <2>7. ASSUME NEW n \in 0 .. m, NEW va \in Addrs
        PROVE  f[n][va] = Body(FALSE, ok, {}, Rest(f, va, n), va, n)
    <3>1. f[n] = [x \in Addrs |-> CopyBody(ok, Rest(f, x, n), x, n)]
      BY <2>5, Zenon
    <3>2. f[n][va] = CopyBody(ok, Rest(f, va, n), va, n)
      BY <3>1, Zenon
    <3>. QED BY <3>2, Zenon DEF Body
  <2>8. Follows(f, FALSE, ok, {}, m)
    BY <2>7, Zenon DEF Follows
  <2>. QED BY <2>4, <2>6, <2>8, Zenon DEF Loops

\* copyinstr() is one.
<1>StrLoop.
  ASSUME Induction, NEW ok, NEW nul, NEW va0, NEW m \in Nat
  PROVE  Loops(TRUE, ok, nul, va0, m, copyinstr(ok, nul, va0, m))
  <2>. USE <1>StrLoop
  <2>1. PICK h : Solves(h, TRUE, ok, nul, m)
    BY <1>LoopExists, Zenon
  <2>2. ASSUME NEW f, NEW n
        PROVE  Row(TRUE, ok, nul, f, n) = [va \in Addrs |-> StrBody(ok, nul, Rest(f, va, n), va, n)]
    BY Zenon DEF Row, Body
  <2> DEFINE L(f) == f = [n \in 0 .. m |->
                           [va \in Addrs |-> StrBody(ok, nul, Rest(f, va, n), va, n)]]
  <2>3. L(h)
    BY <2>1, <2>2, ZenonT(60) DEF Solves
  <2>4. PICK f : f = CHOOSE x : L(x)
    BY Zenon
  <2>5. L(f)
    BY <2>3, <2>4, Zenon
  <2>6. copyinstr(ok, nul, va0, m) = (CHOOSE x : L(x))[m][va0]
    BY Zenon DEF copyinstr, StrBody, Rest, Zeros, Least
  <2>7. ASSUME NEW n \in 0 .. m, NEW va \in Addrs
        PROVE  f[n][va] = Body(TRUE, ok, nul, Rest(f, va, n), va, n)
    <3>1. f[n] = [x \in Addrs |-> StrBody(ok, nul, Rest(f, x, n), x, n)]
      BY <2>5, Zenon
    <3>2. f[n][va] = StrBody(ok, nul, Rest(f, va, n), va, n)
      BY <3>1, Zenon
    <3>. QED BY <3>2, Zenon DEF Body
  <2>8. Follows(f, TRUE, ok, nul, m)
    BY <2>7, Zenon DEF Follows
  <2>. QED BY <2>4, <2>6, <2>8, Zenon DEF Loops

(* What the loops return. *)

\* A turn that ends the loop without a byte.
<1>NoBytes.
  ASSUME NEW ok, NEW va \in Addrs, NEW n \in Nat, NEW b \in BOOLEAN,
         NEW r, r = [ok |-> b, bytes |-> <<>>]
  PROVE  r \in Results /\ r.ok = b /\ Len(r.bytes) = 0 /\ InBounds(ok, va, n, r)
  <2>. USE <1>NoBytes
  <2>1. va \in Nat
    BY DEF Addrs
  <2>2. <<>> \in Seq(Nat) /\ Len(<<>>) = 0 /\ Run(va, 0) = <<>>
    BY <2>1, <1>RunEmpty, Zenon
  <2>3. r \in Results /\ r.ok = b /\ r.bytes = <<>>
    BY <2>2, Zenon DEF Results
  <2>4. 0 <= n
    OBVIOUS
  <2>5. Whole(ok, va, 0)
    BY <1>WholeFirst, Zenon
  <2>. QED BY <2>2, <2>3, <2>4, <2>5, Zenon DEF InBounds

\* The bytes of the first turn, and what the turns after it have copied.
<1>MoreBytes.
  ASSUME NEW ok, NEW va \in Addrs, NEW n \in Nat, NEW c, NEW nv, PageTurn(va, n, c, nv),
         Page(va) \in ok, NEW rest \in Results, InBounds(ok, nv, n - c, rest),
         NEW r, r = [ok |-> rest.ok, bytes |-> Run(va, c) \o rest.bytes]
  PROVE  Longer(ok, va, n, c, rest, r)
  <2>. USE <1>MoreBytes
  <2>1. va \in Nat /\ c \in Nat /\ c <= n
    BY DEF Addrs, PageTurn
  <2>2. rest.ok \in BOOLEAN /\ rest.bytes \in Seq(Nat)
    BY Zenon DEF Results
  <2>3. PICK m : m = Len(rest.bytes)
    BY Zenon
  <2>4. m \in Nat
    BY <2>2, <2>3
  <2>5. m <= n - c /\ rest.bytes = Run(nv, m) /\ Whole(ok, nv, m)
    BY <2>3, Zenon DEF InBounds
  <2>6. m \in 0 .. n - c /\ c + m \in Nat /\ c + m <= n
    BY <2>1, <2>4, <2>5
  <2>7. /\ Run(va, c) \o Run(nv, m) = Run(va, c + m)
        /\ Whole(ok, nv, m) <=> Whole(ok, va, c + m)
    BY <2>6, <1>Joins, Zenon
  <2>8. PICK s : s = Run(va, c + m)
    BY Zenon
  <2>9. s \in Seq(Nat) /\ Len(s) = c + m
    BY <2>1, <2>6, <2>8, <1>RunIs, Zenon
  <2>10. r = [ok |-> rest.ok, bytes |-> s]
    BY <2>5, <2>7, <2>8, Zenon
  <2>11. r \in Results /\ r.ok = rest.ok /\ r.bytes = s
    <3>1. ASSUME NEW b \in BOOLEAN
          PROVE  /\ [ok |-> b, bytes |-> s] \in Results
                 /\ [ok |-> b, bytes |-> s].ok = b /\ [ok |-> b, bytes |-> s].bytes = s
      BY <2>9, Zenon DEF Results
    <3>. QED BY ONLY <2>2, <2>10, <3>1, Zenon
  <2>12. InBounds(ok, va, n, r)
    BY <2>5, <2>6, <2>7, <2>8, <2>9, <2>11, Zenon DEF InBounds
  <2>. QED BY <2>3, <2>9, <2>11, <2>12, Zenon DEF Longer

\* A copy of n bytes from a page that is mapped is right, if the turns after it are.
<1>CopyMapped.
  ASSUME NEW ok, NEW va \in Addrs, NEW n \in Nat, NEW c, NEW nv, PageTurn(va, n, c, nv),
         Page(va) \in ok, NEW rest, RightCopy(ok, nv, n - c, rest),
         NEW r, r = [ok |-> rest.ok, bytes |-> Run(va, c) \o rest.bytes]
  PROVE  RightCopy(ok, va, n, r)
  <2>. USE <1>CopyMapped
  <2>1. /\ rest \in Results /\ InBounds(ok, nv, n - c, rest)
        /\ rest.ok <=> n - c = 0 \/ Whole(ok, nv, n - c)
        /\ rest.ok => Len(rest.bytes) = n - c
    BY Zenon DEF RightCopy
  <2>2. Longer(ok, va, n, c, rest, r)
    BY <2>1, <1>MoreBytes, Zenon
  <2>3. /\ r \in Results /\ r.ok = rest.ok /\ Len(r.bytes) = c + Len(rest.bytes)
        /\ InBounds(ok, va, n, r)
    BY <2>2, Zenon DEF Longer
  <2>4. c \in Nat /\ c > 0 /\ c <= n /\ n - c \in 0 .. n - c /\ c + (n - c) = n /\ n # 0
        /\ nv \in Addrs
    BY DEF PageTurn
  <2>5. Whole(ok, nv, n - c) <=> Whole(ok, va, n)
    <3>1. Whole(ok, nv, n - c) <=> Whole(ok, va, c + (n - c))
      BY <2>4, <1>Joins, Zenon
    <3>. QED BY <2>4, <3>1, Zenon
  <2>6. n - c = 0 => Whole(ok, nv, n - c)
    <3>1. Whole(ok, nv, 0)
      BY <2>4, <1>WholeFirst, Zenon
    <3>. QED BY <3>1, Zenon
  <2>7. rest.ok <=> n = 0 \/ Whole(ok, va, n)
    BY <2>1, <2>4, <2>5, <2>6, Zenon
  <2>8. rest.ok => Len(r.bytes) = n
    <3>1. ASSUME rest.ok PROVE Len(r.bytes) = n
      <4>1. Len(r.bytes) = c + (n - c)
        BY <2>1, <2>3, <3>1, Zenon
      <4>. QED BY <2>4, <4>1, Zenon
    <3>. QED BY <3>1, Zenon
  <2>. QED BY <2>3, <2>7, <2>8, Zenon DEF RightCopy

\* A copy of no bytes, or from a page that is not mapped.
<1>CopyUnmapped.
  ASSUME NEW ok, NEW va \in Addrs, NEW n \in Nat, n = 0 \/ Page(va) \notin ok,
         NEW b \in BOOLEAN, b <=> n = 0, NEW r, r = [ok |-> b, bytes |-> <<>>]
  PROVE  RightCopy(ok, va, n, r)
  <2>. USE <1>CopyUnmapped
  <2>1. r \in Results /\ r.ok = b /\ Len(r.bytes) = 0 /\ InBounds(ok, va, n, r)
    BY <1>NoBytes, Zenon
  <2>2. n # 0 => n > 0
    OBVIOUS
  <2>3. n # 0 => ~Whole(ok, va, n)
    BY <2>2, <1>WholeFirst, Zenon
  <2>. QED BY <2>1, <2>3, Zenon DEF RightCopy

\* A string of no bytes, or in a page that is not mapped.
<1>StrUnmapped.
  ASSUME NEW ok, NEW nul, NEW va \in Addrs, NEW n \in Nat, n = 0 \/ Page(va) \notin ok,
         NEW r, r = [ok |-> FALSE, bytes |-> <<>>]
  PROVE  RightStr(ok, nul, va, n, r)
  <2>. USE <1>StrUnmapped
  <2>1. r \in Results /\ r.ok = FALSE /\ Len(r.bytes) = 0 /\ InBounds(ok, va, n, r)
    BY <1>NoBytes, Zenon
  <2>2. ASSUME NEW k \in Ends(nul, va, n) PROVE ~Whole(ok, va, k)
    <3>1. k \in 1 .. n
      BY Zenon DEF Ends
    <3>2. k \in Nat /\ k > 0 /\ n # 0
      BY <3>1
    <3>. QED BY <3>2, <1>WholeFirst, Zenon
  <2>. QED BY <2>1, <2>2, Zenon DEF RightStr

\* Without a '\0' in the first turn the string ends in the turns after it.
<1>EndsShift.
  ASSUME NEW nul, NEW va \in Addrs, NEW n \in Nat, NEW c, NEW nv, PageTurn(va, n, c, nv),
         Zeros(nul, va, c) = {}
  PROVE  Shifted(nul, va, n, c, nv)
  <2>. USE <1>EndsShift
  <2>1. c \in Nat /\ c > 0 /\ c <= n /\ nv \in Nat /\ va \in Nat /\ (c < n => nv = va + c)
    BY DEF PageTurn, Addrs
  <2>2. \A i \in 1 .. c : va + i - 1 \notin nul
    BY Zenon DEF Zeros
  <2>3. ASSUME NEW k \in Ends(nul, va, n)
        PROVE  k - c \in Ends(nul, nv, n - c) /\ k - c \in 0 .. n - c /\ c + (k - c) = k
    <3>1. /\ k \in 1 .. n /\ va + k - 1 \in nul
          /\ \A i \in 1 .. k - 1 : va + i - 1 \notin nul
      BY Zenon DEF Ends
    <3>2. k \notin 1 .. c
      BY <2>2, <3>1, Zenon
    <3>3. PICK j \in Nat : k = c + j /\ j > 0 /\ j <= n - c
      <4>1. k - c \in Nat /\ k = c + (k - c) /\ k - c > 0 /\ k - c <= n - c
        BY <2>1, <3>1, <3>2
      <4>. QED BY <4>1, Zenon
    <3>4. nv = va + c /\ k - c = j /\ j \in 1 .. n - c /\ j \in 0 .. n - c
      BY <2>1, <3>3
    <3>5. nv + j - 1 \in nul
      <4>1. nv + j - 1 = va + k - 1
        BY <2>1, <3>3, <3>4
      <4>. QED BY <3>1, <4>1, Zenon
    <3>6. ASSUME NEW i \in 1 .. j - 1 PROVE nv + i - 1 \notin nul
      <4>1. c + i \in 1 .. k - 1 /\ va + (c + i) - 1 = nv + i - 1
        BY <2>1, <3>3, <3>4
      <4>2. va + (c + i) - 1 \notin nul
        BY <3>1, <4>1, Zenon
      <4>. QED BY <4>1, <4>2, Zenon
    <3>7. j \in Ends(nul, nv, n - c)
      BY <3>4, <3>5, <3>6, Zenon DEF Ends
    <3>. QED BY <3>3, <3>4, <3>7, Zenon
  <2>4. ASSUME NEW j \in Ends(nul, nv, n - c)
        PROVE  c + j \in Ends(nul, va, n) /\ j \in 0 .. n - c
    <3>1. /\ j \in 1 .. n - c /\ nv + j - 1 \in nul
          /\ \A i \in 1 .. j - 1 : nv + i - 1 \notin nul
      BY Zenon DEF Ends
    <3>2. j \in Nat /\ nv = va + c /\ c + j \in 1 .. n /\ j \in 0 .. n - c
      BY <2>1, <3>1
    <3>3. va + (c + j) - 1 \in nul
      <4>1. nv + j - 1 = va + (c + j) - 1
        BY <2>1, <3>2
      <4>. QED BY <3>1, <4>1, Zenon
    <3>4. ASSUME NEW i \in 1 .. (c + j) - 1 PROVE va + i - 1 \notin nul
      <4>1. CASE i \in 1 .. c
        BY <2>2, <4>1, Zenon
      <4>2. CASE i \notin 1 .. c
        <5>1. i - c \in 1 .. j - 1 /\ nv + (i - c) - 1 = va + i - 1
          BY <2>1, <3>2, <4>2
        <5>2. nv + (i - c) - 1 \notin nul
          BY <3>1, <5>1, Zenon
        <5>. QED BY <5>1, <5>2, Zenon
      <4>. QED BY <4>1, <4>2, Zenon
    <3>5. c + j \in Ends(nul, va, n)
      BY <3>2, <3>3, <3>4, Zenon DEF Ends
    <3>. QED BY <3>2, <3>5, Zenon
  <2>. QED BY <2>3, <2>4, Zenon DEF Shifted

\* It is right, if the turns after the first one are.
<1>StrMapped.
  ASSUME NEW ok, NEW nul, NEW va \in Addrs, NEW n \in Nat, NEW c, NEW nv,
         PageTurn(va, n, c, nv), Page(va) \in ok, Zeros(nul, va, c) = {},
         NEW rest, RightStr(ok, nul, nv, n - c, rest),
         NEW r, r = [ok |-> rest.ok, bytes |-> Run(va, c) \o rest.bytes]
  PROVE  RightStr(ok, nul, va, n, r)
  <2>. USE <1>StrMapped
  <2>1. /\ rest \in Results /\ InBounds(ok, nv, n - c, rest)
        /\ rest.ok <=> \E k \in Ends(nul, nv, n - c) : Whole(ok, nv, k) /\ Len(rest.bytes) = k
    BY Zenon DEF RightStr
  <2>2. Longer(ok, va, n, c, rest, r)
    BY <2>1, <1>MoreBytes, Zenon
  <2>3. /\ r \in Results /\ r.ok = rest.ok /\ Len(r.bytes) = c + Len(rest.bytes)
        /\ InBounds(ok, va, n, r)
    BY <2>2, Zenon DEF Longer
  <2>4. Shifted(nul, va, n, c, nv)
    BY <1>EndsShift, Zenon
  <2>5. ASSUME NEW k \in Ends(nul, va, n), Whole(ok, va, k), Len(r.bytes) = k PROVE rest.ok
    <3>1. PICK j : j = k - c /\ j \in Ends(nul, nv, n - c) /\ j \in 0 .. n - c /\ c + j = k
      BY <2>4, Zenon DEF Shifted
    <3>2. Whole(ok, nv, j) <=> Whole(ok, va, c + j)
      BY <3>1, <1>Joins, Zenon
    <3>3. Len(rest.bytes) = j
      <4>1. PICK l : l = Len(rest.bytes)
        BY Zenon
      <4>2. l \in Nat
        BY <2>1, <4>1 DEF Results
      <4>3. c \in Nat /\ c + l = c + j
        BY <2>3, <2>5, <3>1, <4>1 DEF PageTurn
      <4>. QED BY <3>1, <4>1, <4>2, <4>3
    <3>. QED BY <2>1, <2>5, <3>1, <3>2, <3>3, Zenon
  <2>6. ASSUME rest.ok PROVE \E k \in Ends(nul, va, n) : Whole(ok, va, k) /\ Len(r.bytes) = k
    <3>1. PICK j \in Ends(nul, nv, n - c) : Whole(ok, nv, j) /\ Len(rest.bytes) = j
      BY <2>1, <2>6, Zenon
    <3>2. c + j \in Ends(nul, va, n) /\ j \in 0 .. n - c
      BY <2>4, <3>1, Zenon DEF Shifted
    <3>3. Whole(ok, nv, j) <=> Whole(ok, va, c + j)
      BY <3>2, <1>Joins, Zenon
    <3>4. Len(r.bytes) = c + j
      BY <2>3, <3>1, Zenon
    <3>. QED BY <3>1, <3>2, <3>3, <3>4, Zenon
  <2>7. r.ok <=> \E k \in Ends(nul, va, n) : Whole(ok, va, k) /\ Len(r.bytes) = k
    BY <2>3, <2>5, <2>6, Zenon
  <2>. QED BY <2>3, <2>7, Zenon DEF RightStr

\* A set of numbers has a least one, by induction.
<1>LeastIs.
  ASSUME Induction, NEW S \in SUBSET Nat, S # {}
  PROVE  Least(S) \in S /\ \A j \in S : Least(S) <= j
  <2>. USE <1>LeastIs
  <2>1. SUFFICES ASSUME ~\E i \in S : \A j \in S : i <= j PROVE FALSE
    BY Zenon DEF Least
  <2> DEFINE T == {k \in Nat : \A j \in S : k <= j}
  <2>2. 0 \in T
    OBVIOUS
  <2>3. ASSUME NEW k \in Nat, k \in T PROVE k + 1 \in T
    <3>1. \A j \in S : k <= j
      BY <2>3, Zenon
    <3>2. k \notin S
      BY <2>1, <3>1, Zenon
    <3>3. ASSUME NEW j \in S PROVE k + 1 <= j
      <4>1. j \in Nat /\ j # k /\ k <= j
        BY <3>1, <3>2, Zenon
      <4>. QED BY <4>1
    <3>. QED BY <3>3
  <2>4. PICK i \in S : i \in Nat
    BY Zenon
  <2> HIDE DEF T
  <2>5. i + 1 \in T
    <3>1. i + 1 \in Nat
      BY <2>4
    <3>. QED BY <2>2, <2>3, <3>1, Zenon DEF Induction
  <2>6. i + 1 <= i
    BY <2>4, <2>5, Zenon DEF T
  <2>. QED BY <2>4, <2>6

\* A string that ends in its first turn is right.
<1>StrFound.
  ASSUME Induction, NEW ok, NEW nul, NEW va \in Addrs, NEW n \in Nat, NEW c, NEW nv,
         PageTurn(va, n, c, nv), Page(va) \in ok, Zeros(nul, va, c) # {},
         NEW r, r = [ok |-> TRUE, bytes |-> Run(va, Least(Zeros(nul, va, c)))]
  PROVE  RightStr(ok, nul, va, n, r)
  <2>. USE <1>StrFound
  <2>1. c \in Nat /\ c <= n /\ va \in Nat /\ va + c <= UintMod /\ UintMod \in Nat
    BY Numbers DEF PageTurn, Addrs
  <2>2. Zeros(nul, va, c) \subseteq 1 .. c
    BY Zenon DEF Zeros
  <2>3. Zeros(nul, va, c) \in SUBSET Nat
    BY <2>1, <2>2
  <2>4. PICK z : /\ z = Least(Zeros(nul, va, c)) /\ z \in Zeros(nul, va, c)
                 /\ \A j \in Zeros(nul, va, c) : z <= j
    BY <2>3, <1>LeastIs, Zenon
  <2>5. z \in 1 .. c /\ va + z - 1 \in nul
    BY <2>4, Zenon DEF Zeros
  <2>6. z \in Nat /\ z \in 1 .. n /\ va + z <= UintMod /\ z <= n
    BY <2>1, <2>5
  <2>7. ASSUME NEW i \in 1 .. z - 1 PROVE va + i - 1 \notin nul
    <3>1. i \in 1 .. c /\ ~(z <= i)
      BY <2>1, <2>5
    <3>. QED BY <2>4, <3>1, Zenon DEF Zeros
  <2>8. z \in Ends(nul, va, n)
    BY <2>5, <2>6, <2>7, Zenon DEF Ends
  <2>9. Whole(ok, va, z)
    <3>1. ASSUME NEW i \in 0 .. z - 1 PROVE Page(va + i) \in ok
      <4>1. i \in 0 .. c - 1
        BY <2>1, <2>5
      <4>. QED BY <4>1, Zenon DEF PageTurn
    <3>. QED BY <2>6, <3>1, Zenon DEF Whole
  <2>10. PICK s : s = Run(va, z)
    BY Zenon
  <2>11. s \in Seq(Nat) /\ Len(s) = z
    BY <2>1, <2>6, <2>10, <1>RunIs, Zenon
  <2>12. r = [ok |-> TRUE, bytes |-> s]
    BY <2>4, <2>10, Zenon
  <2>13. r \in Results /\ r.ok /\ r.bytes = s
    BY ONLY <2>11, <2>12, Zenon DEF Results
  <2>14. InBounds(ok, va, n, r)
    BY <2>6, <2>9, <2>10, <2>11, <2>13, Zenon DEF InBounds
  <2>. QED BY <2>8, <2>9, <2>11, <2>13, <2>14, Zenon DEF RightStr

\* Then those of n bytes are, turn by turn.
<1>LoopStep.
  ASSUME Induction, NEW str \in BOOLEAN, NEW ok, ok \subseteq Vpns, NEW nul, NEW f,
         NEW m \in Nat, Follows(f, str, ok, nul, m), NEW n \in 0 .. m,
         Before(f, str, ok, nul, n), NEW va \in Addrs
  PROVE  Right(str, ok, nul, va, n, f[n][va])
  <2>. USE <1>LoopStep
  <2>1. PICK r : r = f[n][va]
    BY Zenon
  <2>2. PICK rest : rest = Rest(f, va, n)
    BY Zenon
  <2>3. r = Body(str, ok, nul, rest, va, n)
    BY <2>1, <2>2, Zenon DEF Follows
  <2>4. n \in Nat
    OBVIOUS
  <2>5. /\ str => r = StrBody(ok, nul, rest, va, n)
        /\ ~str => r = CopyBody(ok, rest, va, n)
    BY <2>3, Zenon DEF Body
  <2>6. CASE n = 0 \/ Page(va) \notin ok
    <3>1. CASE str
      <4>1. r = [ok |-> FALSE, bytes |-> <<>>]
        BY <2>5, <2>6, <3>1, Zenon DEF StrBody, walkaddr
      <4>2. RightStr(ok, nul, va, n, r)
        BY <2>4, <2>6, <4>1, <1>StrUnmapped, Zenon
      <4>. QED BY <2>1, <3>1, <4>2, Zenon DEF Right
    <3>2. CASE ~str
      <4>1. PICK b \in BOOLEAN : b <=> n = 0
        BY Zenon
      <4>2. r = [ok |-> b, bytes |-> <<>>]
        <5>1. CASE n = 0
          <6>1. b = TRUE
            BY <4>1, <5>1, Zenon
          <6>. QED BY <2>5, <3>2, <5>1, <6>1, Zenon DEF CopyBody
        <5>2. CASE n # 0
          <6>1. b = FALSE
            BY <4>1, <5>2, Zenon
          <6>. QED BY <2>5, <2>6, <3>2, <5>2, <6>1, Zenon DEF CopyBody, walkaddr
        <5>. QED BY <5>1, <5>2, Zenon
      <4>3. RightCopy(ok, va, n, r)
        BY <2>4, <2>6, <4>1, <4>2, <1>CopyUnmapped, Zenon
      <4>. QED BY <2>1, <3>2, <4>3, Zenon DEF Right
    <3>. QED BY <3>1, <3>2, Zenon
  <2>7. CASE n # 0 /\ Page(va) \in ok
    <3>1. PICK c, nv : c = Chunk(va, n) /\ nv = NextPage(va)
      BY Zenon
    <3>2. n > 0 /\ Page(va) \in Vpns
      BY <2>4, <2>7
    <3>3. PageTurn(va, n, c, nv)
      BY <2>4, <3>1, <3>2, <1>PageTurnIs, Zenon
    <3>4. n - c \in 0 .. n - 1 /\ nv \in Addrs
      BY <2>4, <3>3 DEF PageTurn
    <3>5. Right(str, ok, nul, nv, n - c, rest)
      BY <2>2, <3>1, <3>4, Zenon DEF Before, Rest
    <3>6. CASE str
      <4>1. RightStr(ok, nul, nv, n - c, rest)
        BY <3>5, <3>6, Zenon DEF Right
      <4>2. CASE Zeros(nul, va, c) = {}
        <5>1. r = [ok |-> rest.ok, bytes |-> Run(va, c) \o rest.bytes]
          BY <2>5, <2>7, <3>1, <3>6, <4>2, Zenon DEF StrBody, walkaddr
        <5>2. RightStr(ok, nul, va, n, r)
          BY <2>4, <2>7, <3>3, <4>1, <4>2, <5>1, <1>StrMapped, Zenon
        <5>. QED BY <2>1, <3>6, <5>2, Zenon DEF Right
      <4>3. CASE Zeros(nul, va, c) # {}
        <5>1. r = [ok |-> TRUE, bytes |-> Run(va, Least(Zeros(nul, va, c)))]
          BY <2>5, <2>7, <3>1, <3>6, <4>3, Zenon DEF StrBody, walkaddr
        <5>2. RightStr(ok, nul, va, n, r)
          BY <2>4, <2>7, <3>3, <4>3, <5>1, <1>StrFound, Zenon
        <5>. QED BY <2>1, <3>6, <5>2, Zenon DEF Right
      <4>. QED BY <4>2, <4>3, Zenon
    <3>7. CASE ~str
      <4>1. RightCopy(ok, nv, n - c, rest)
        BY <3>5, <3>7, Zenon DEF Right
      <4>2. r = [ok |-> rest.ok, bytes |-> Run(va, c) \o rest.bytes]
        BY <2>5, <2>7, <3>1, <3>7, Zenon DEF CopyBody, walkaddr
      <4>3. RightCopy(ok, va, n, r)
        BY <2>4, <2>7, <3>3, <4>1, <4>2, <1>CopyMapped, Zenon
      <4>. QED BY <2>1, <3>7, <4>3, Zenon DEF Right
    <3>. QED BY <3>6, <3>7, Zenon
  <2>. QED BY <2>6, <2>7, Zenon

\* All results are right, by induction on the number of bytes.
<1>LoopRight.
  ASSUME Induction, NEW str \in BOOLEAN, NEW ok, ok \subseteq Vpns, NEW nul, NEW f,
         NEW m \in Nat, Follows(f, str, ok, nul, m), NEW va \in Addrs
  PROVE  Right(str, ok, nul, va, m, f[m][va])
  <2>. USE <1>LoopRight
  <2> DEFINE T == {k \in Nat : k <= m => Before(f, str, ok, nul, k)}
  <2>1. 0 \in T
    <3>1. \A j \in 0 .. 0 - 1 : FALSE
      OBVIOUS
    <3>2. Before(f, str, ok, nul, 0)
      BY <3>1, Zenon DEF Before
    <3>. QED BY <3>2
  <2>2. ASSUME NEW k \in Nat, k \in T PROVE k + 1 \in T
    <3>1. k + 1 \in Nat
      OBVIOUS
    <3>2. ASSUME k + 1 <= m PROVE Before(f, str, ok, nul, k + 1)
      <4>1. k <= m /\ k \in 0 .. m
        BY <3>2
      <4>2. Before(f, str, ok, nul, k)
        BY <2>2, <4>1, Zenon
      <4>3. ASSUME NEW j \in 0 .. (k + 1) - 1, NEW x \in Addrs
            PROVE  Right(str, ok, nul, x, j, f[j][x])
        <5>1. CASE j = k
          <6>1. Right(str, ok, nul, x, k, f[k][x])
            BY <4>1, <4>2, <1>LoopStep, Zenon
          <6>. QED BY <5>1, <6>1, Zenon
        <5>2. CASE j # k
          <6>1. j \in 0 .. k - 1
            BY <5>2
          <6>. QED BY <4>2, <6>1, Zenon DEF Before
        <5>. QED BY <5>1, <5>2, Zenon
      <4>. QED BY <4>3, Zenon DEF Before
    <3>. QED BY <3>1, <3>2, Zenon
  <2> HIDE DEF T
  <2>3. m \in T
    BY <2>1, <2>2, Zenon DEF Induction
  <2>4. m <= m /\ m \in 0 .. m
    OBVIOUS
  <2>5. Before(f, str, ok, nul, m)
    BY <2>3, <2>4, Zenon DEF T
  <2>. QED BY <2>4, <2>5, <1>LoopStep, Zenon

\* copyin() and copyout() do what CopyOk says ...
<1>CopyIs.
  ASSUME Induction, NEW ok, ok \subseteq Vpns, NEW va \in Addrs, NEW n \in Nat
  PROVE  CopyOk(ok, va, n) /\ copy(ok, va, n).ok \in BOOLEAN
  <2>. USE <1>CopyIs
  <2>1. PICK f : Follows(f, FALSE, ok, {}, n) /\ copy(ok, va, n) = f[n][va]
    <3>1. Loops(FALSE, ok, {}, va, n, copy(ok, va, n))
      BY <1>CopyLoop, Zenon
    <3>. QED BY <3>1, Zenon DEF Loops
  <2>2. Right(FALSE, ok, {}, va, n, f[n][va])
    BY <2>1, <1>LoopRight, Zenon
  <2>3. RightCopy(ok, va, n, copy(ok, va, n))
    BY <2>1, <2>2, Zenon DEF Right
  <2>4. CopyOk(ok, va, n)
    BY <2>3, Zenon DEF CopyOk, RightCopy
  <2>5. copy(ok, va, n).ok \in BOOLEAN
    <3>1. copy(ok, va, n) \in Results
      BY <2>3, Zenon DEF RightCopy
    <3>2. \A r \in Results : r.ok \in BOOLEAN
      BY Zenon DEF Results
    <3>. QED BY <3>1, <3>2, Zenon
  <2>. QED BY <2>4, <2>5, Zenon

\* ... and copyinstr() what StringOk says.
<1>StringIs.
  ASSUME Induction, NEW ok, ok \subseteq Vpns, NEW nul, NEW va \in Addrs, NEW n \in Nat
  PROVE  StringOk(ok, nul, va, n)
  <2>. USE <1>StringIs
  <2>1. PICK f : Follows(f, TRUE, ok, nul, n) /\ copyinstr(ok, nul, va, n) = f[n][va]
    <3>1. Loops(TRUE, ok, nul, va, n, copyinstr(ok, nul, va, n))
      BY <1>StrLoop, Zenon
    <3>. QED BY <3>1, Zenon DEF Loops
  <2>2. Right(TRUE, ok, nul, va, n, f[n][va])
    BY <2>1, <1>LoopRight, Zenon
  <2>3. RightStr(ok, nul, va, n, copyinstr(ok, nul, va, n))
    BY <2>1, <2>2, Zenon DEF Right
  <2>. QED BY <2>3, Zenon DEF StringOk, RightStr, Ends

\* Memory that is all there ends below the middle of the addresses.
<1>WholeEnd.
  ASSUME NEW ok, ok \subseteq Vpns, NEW va \in Addrs, NEW n \in Nat, n > 0, Whole(ok, va, n)
  PROVE  va + n < UintMod
  <2>. USE <1>WholeEnd
  <2>1. va \in Nat /\ n - 1 \in 0 .. n - 1 /\ UintMod \in Nat
    BY Numbers DEF Addrs
  <2>2. PICK x \in Nat : x = va + (n - 1)
    BY <2>1
  <2>3. Page(x) \in Vpns
    BY <2>1, <2>2, Zenon DEF Whole
  <2>4. (Page(x) + 1) * PGSIZE \in Nat /\ (Page(x) + 1) * PGSIZE < UintMod
    BY <2>3, <1>UserPage, Zenon
  <2>5. PICK b \in Nat, o \in Nat :
          x = b + o /\ o < PGSIZE /\ (Page(x) + 1) * PGSIZE = b + PGSIZE
    BY <1>PageIs, Zenon
  <2>6. PGSIZE \in Nat
    BY Numbers
  <2>. QED BY <2>1, <2>2, <2>4, <2>5, <2>6

\* fetchaddr() does what FetchOk says: its sum does not wrap where there is memory.
<1>FetchIs.
  ASSUME Induction, NEW ok, ok \subseteq Vpns, NEW va \in Addrs, NEW size \in Nat
  PROVE  FetchOk(ok, size, va)
  <2>. USE <1>FetchIs
  <2>1. Word \in Nat /\ Word > 0 /\ va \in Nat /\ UintMod \in Nat
    BY Numbers, VmAssumption DEF Addrs
  <2>2. copy(ok, va, Word).ok \in BOOLEAN /\ (copy(ok, va, Word).ok <=> Whole(ok, va, Word))
    <3>1. CopyOk(ok, va, Word) /\ copy(ok, va, Word).ok \in BOOLEAN
      BY <2>1, <1>CopyIs, Zenon
    <3>2. Word # 0
      BY <2>1
    <3>. QED BY <3>1, <3>2, Zenon DEF CopyOk
  <2>3. ASSUME Whole(ok, va, Word) PROVE (va + Word) % UintMod = va + Word
    <3>1. va + Word < UintMod
      BY <2>1, <2>3, <1>WholeEnd, Zenon
    <3>. QED BY <2>1, <3>1
  <2>4. va + Word <= size => va < size /\ ~(va >= size)
    BY <2>1
  <2> DEFINE Out == va >= size \/ (va + Word) % UintMod > size
  <2>5. CASE Out
    <3>1. ~fetchaddr(ok, size, va).ok
      BY <2>5, Zenon DEF fetchaddr
    <3>2. ~(va + Word <= size /\ Whole(ok, va, Word))
      <4>1. SUFFICES ASSUME va + Word <= size, Whole(ok, va, Word) PROVE FALSE
        BY Zenon
      <4>2. (va + Word) % UintMod = va + Word
        BY <2>3, <4>1, Zenon
      <4>3. (va + Word) % UintMod > size
        BY <2>4, <2>5, <4>1, Zenon
      <4>. QED BY <2>1, <4>1, <4>2, <4>3
    <3>. QED BY <3>1, <3>2, Zenon DEF FetchOk
  <2>6. CASE ~Out
    <3>1. fetchaddr(ok, size, va) = copy(ok, va, Word)
      BY <2>6, Zenon DEF fetchaddr
    <3>2. Whole(ok, va, Word) => va + Word <= size
      <4>1. SUFFICES ASSUME Whole(ok, va, Word) PROVE va + Word <= size
        BY Zenon
      <4>2. (va + Word) % UintMod = va + Word
        BY <2>3, <4>1, Zenon
      <4>3. ~((va + Word) % UintMod > size)
        BY <2>6, Zenon
      <4>. QED BY <2>1, <4>2, <4>3
    <3>. QED BY <2>2, <3>1, <3>2, Zenon DEF FetchOk
  <2>. QED BY <2>5, <2>6, Zenon

\* All copies in one address space.
<1>All.
  ASSUME Induction, NEW ok, ok \subseteq Vpns
  PROVE  AllRight(ok)
  <2>. USE <1>All
  <2>1. \A n \in Lens : n \in Nat
    BY VmAssumption DEF Lens
  <2>2. \A size \in 0 .. MaxVpn * PGSIZE : size \in Nat
    OBVIOUS
  <2>3. \A va \in Addrs, n \in Lens : CopyOk(ok, va, n)
    BY <2>1, <1>CopyIs, Zenon
  <2>4. \A va \in Addrs, n \in Lens, nul \in SUBSET UserBytes : StringOk(ok, nul, va, n)
    BY <2>1, <1>StringIs, Zenon
  <2>5. \A va \in Addrs, size \in 0 .. MaxVpn * PGSIZE : FetchOk(ok, size, va)
    BY <2>2, <1>FetchIs, Zenon
  <2>. QED BY <2>3, <2>4, <2>5, Zenon DEF AllRight

<1>. QED BY <1>All, Zenon

\* So they are whatever pages a process has.
LEMMA CopyRightHolds ==
  ASSUME Induction, \A p \in Procs : pagetable[p].pg \subseteq Vpns
  PROVE  CopyRight
<1>1. SUFFICES ASSUME NEW p \in Procs
      PROVE  <<pagetable[p].pg \ pagetable[p].guard, TRUE>> \in Verdicts
  BY Zenon DEF CopyRight
<1>2. PICK ok : ok = pagetable[p].pg \ pagetable[p].guard
  BY Zenon
<1>3. ok \subseteq Vpns
  BY <1>2, Zenon
<1>4. AllRight(ok)
  BY <1>3, AllCopiesRight, Zenon
<1>5. AllRight(ok) = TRUE
  BY <1>4, Zenon DEF AllRight
<1>6. ok \in SUBSET (0 .. MaxVpn - 1)
  BY <1>3, Zenon DEF Vpns
<1>7. <<ok, AllRight(ok)>> \in Verdicts
  BY <1>6, Zenon DEF Verdicts
<1>. QED BY <1>2, <1>5, <1>7, Zenon

-----------------------------------------------------------------------------
(* Counting pages *)

\* The sum of h over the processes.
Sum(h) == Cardinality(UNION {{p} \X (1 .. h[p]) : p \in Procs})

\* Sets of tables, and of pages of an address space.
Few(A) == A \subseteq Tables \/ A \subseteq Vpns

\* What the proofs use of finite sets (CountingHolds).
Counting ==
  /\ Cardinality({}) = 0
  /\ \A A : Few(A) => Cardinality(A) \in Nat
  /\ \A A, x : Few(A) /\ x \notin A => Cardinality(A \cup {x}) = Cardinality(A) + 1
  /\ \A A : \A from, to \in Nat :
       A \subseteq Vpns /\ from <= to /\ from .. to - 1 \subseteq A =>
         Cardinality(A \ (from .. to - 1)) = Cardinality(A) - (to - from)
  /\ \A h \in [Procs -> Nat] : Sum(h) \in Nat
  /\ \A h, k \in [Procs -> Nat], q \in Procs :
       (\A p \in Procs : p # q => k[p] = h[p]) => Sum(k) = Sum(h) + k[q] - h[q]

\* The pages of an address space beside its tables and pages for the user; those of a
\* process: for its trapframe, for the address space that exec() builds, and all.
Fixed(sp) == IF sp.on THEN 2 ELSE 0
NTab(sp) == Cardinality(sp.tab)
NPg(sp) == Cardinality(sp.pg)
Frame(tf) == IF tf THEN 1 ELSE 0
Building(j) == IF j.kind \in {"load", "stack"} THEN Count(j.as) ELSE 0
HeldBy(tf, sp, j) == Frame(tf) + Count(sp) + Building(j)

\* A process that had tf, sp and j while x pages were free, and then has tf1, sp1 and
\* j1 while y are, gave as many pages as it got.
Level(x, tf, sp, j, y, tf1, sp1, j1) == y + HeldBy(tf1, sp1, j1) = x + HeldBy(tf, sp, j)

\* The fields of an address space.
LEMMA Fields ==
  ASSUME NEW sp \in Spaces
  PROVE  /\ sp.on \in BOOLEAN /\ sp.tab \subseteq Tables /\ sp.pg \subseteq Vpns
         /\ sp.guard \subseteq Vpns
BY DEF Spaces

\* The pages of an address space.
LEMMA CountIs ==
  ASSUME Counting, NEW sp \in Spaces
  PROVE  /\ Count(sp) = Fixed(sp) + NTab(sp) + NPg(sp)
         /\ NTab(sp) \in Nat /\ NPg(sp) \in Nat
         /\ Fixed(sp) \in Nat /\ Count(sp) \in Nat
<1>1. Few(sp.tab) /\ Few(sp.pg)
  BY Fields, Zenon DEF Few
<1>2. NTab(sp) \in Nat /\ NPg(sp) \in Nat
  BY <1>1, Zenon DEF Counting, NTab, NPg
<1>3. Fixed(sp) \in Nat
  BY DEF Fixed
<1>4. Count(sp) = Fixed(sp) + NTab(sp) + NPg(sp)
  BY Zenon DEF Count, Fixed, NTab, NPg
<1>5. Fixed(sp) + NTab(sp) + NPg(sp) \in Nat
  BY ONLY <1>2, <1>3
<1>. QED BY <1>2, <1>3, <1>4, <1>5, Zenon

\* The kind of a call tells which fields it has.
LEMMA Kinds ==
  ASSUME NEW j \in Jobs
  PROVE  \/ j = NoJob /\ j.kind = "none"
         \/ j \in GrowJobs /\ j.kind = "grow"
         \/ j \in CopyJobs /\ j.kind = "copy"
         \/ j \in LoadJobs /\ j.kind \in {"load", "stack"}
<1>1. ASSUME j = NoJob PROVE j.kind = "none"
  BY <1>1 DEF NoJob
<1>2. ASSUME j \in GrowJobs PROVE j.kind = "grow"
  BY ONLY <1>2 DEF GrowJobs
<1>3. ASSUME j \in CopyJobs PROVE j.kind = "copy"
  BY ONLY <1>3 DEF CopyJobs
<1>4. ASSUME j \in LoadJobs PROVE j.kind \in {"load", "stack"}
  BY ONLY <1>4 DEF LoadJobs
<1>5. j = NoJob \/ j \in GrowJobs \/ j \in CopyJobs \/ j \in LoadJobs
  BY Zenon DEF Jobs
<1>. QED BY <1>1, <1>2, <1>3, <1>4, <1>5, Zenon

\* Address spaces of a call of exec().
LEMMA LoadSpace ==
  ASSUME NEW j \in Jobs, j.kind \in {"load", "stack"}
  PROVE  j \in LoadJobs /\ j.as \in Spaces
<1>1. j \in LoadJobs
  BY Kinds
<1>. QED BY <1>1 DEF LoadJobs

\* A process holds a number of pages.
LEMMA HeldNat ==
  ASSUME Counting, NEW tf \in BOOLEAN, NEW sp \in Spaces, NEW j \in Jobs
  PROVE  /\ HeldBy(tf, sp, j) \in Nat
         /\ Frame(tf) \in Nat /\ Count(sp) \in Nat /\ Building(j) \in Nat
<1>1. Count(sp) \in Nat
  BY CountIs, Zenon
<1>2. Building(j) \in Nat
  <2>1. CASE j.kind \in {"load", "stack"}
    BY <2>1, LoadSpace, CountIs, Zenon DEF Building
  <2>2. CASE ~(j.kind \in {"load", "stack"})
    BY <2>2 DEF Building
  <2>. QED BY <2>1, <2>2, Zenon
<1>3. Frame(tf) \in Nat
  BY DEF Frame
<1>4. PICK f \in Nat, c \in Nat, b \in Nat : f = Frame(tf) /\ c = Count(sp) /\ b = Building(j)
  BY <1>1, <1>2, <1>3, Zenon
<1>5. f + c + b \in Nat
  OBVIOUS
<1>. QED BY <1>4, <1>5, Zenon DEF HeldBy

\* A step that moves pages between q, the free list and other uses keeps the total.
LEMMA Moves ==
  ASSUME Counting, Types, Balance, NEW q \in Procs, Types',
         \A p \in Procs : p # q => Held(p)' = Held(p),
         free' + pipe' + Held(q)' = free + pipe + Held(q)
  PROVE  Balance'
<1>. DEFINE h == [p \in Procs |-> HeldBy(trapframe[p], pagetable[p], job[p])]
            k == [p \in Procs |-> HeldBy(trapframe'[p], pagetable'[p], job'[p])]
<1>1. \A p \in Procs : /\ Held(p) = HeldBy(trapframe[p], pagetable[p], job[p])
                       /\ Held(p)' = HeldBy(trapframe'[p], pagetable'[p], job'[p])
  BY Zenon DEF Held, HeldBy, Frame, Building
<1>2. h \in [Procs -> Nat]
  <2>1. ASSUME NEW p \in Procs PROVE HeldBy(trapframe[p], pagetable[p], job[p]) \in Nat
    <3>1. trapframe[p] \in BOOLEAN /\ pagetable[p] \in Spaces /\ job[p] \in Jobs
      BY Zenon DEF Types
    <3>. QED BY <3>1, HeldNat, Zenon
  <2>. QED BY <2>1, Zenon
<1>3. k \in [Procs -> Nat]
  <2>1. ASSUME NEW p \in Procs PROVE HeldBy(trapframe'[p], pagetable'[p], job'[p]) \in Nat
    <3>1. trapframe'[p] \in BOOLEAN /\ pagetable'[p] \in Spaces /\ job'[p] \in Jobs
      BY Zenon DEF Types
    <3>. QED BY <3>1, HeldNat, Zenon
  <2>. QED BY <2>1, Zenon
<1>4. \A p \in Procs : h[p] = Held(p) /\ k[p] = Held(p)'
  BY <1>1, Zenon
<1>5. {{p} \X (1 .. Held(p)) : p \in Procs} = {{p} \X (1 .. h[p]) : p \in Procs}
  BY <1>4, Zenon
<1>6. {{p} \X (1 .. Held(p)') : p \in Procs} = {{p} \X (1 .. k[p]) : p \in Procs}
  BY <1>4, Zenon
<1>. HIDE DEF h, k
<1>7. Cardinality(PagesHeld) = Sum(h)
  BY <1>5, Zenon DEF PagesHeld, Sum
<1>8. Cardinality(PagesHeld)' = Sum(k)
  BY <1>6, Zenon DEF PagesHeld, Sum
<1>9. Sum(h) \in Nat /\ Sum(k) \in Nat
  BY <1>2, <1>3, Zenon DEF Counting
<1>10. Sum(k) = Sum(h) + k[q] - h[q]
  <2>1. \A p \in Procs : p # q => k[p] = h[p]
    BY <1>4, Zenon
  <2>. QED BY <1>2, <1>3, <2>1, Zenon DEF Counting
<1>11. h[q] \in Nat /\ k[q] \in Nat /\ h[q] = Held(q) /\ k[q] = Held(q)'
  BY <1>2, <1>3, <1>4, Zenon
<1>12. PICK a \in Nat, b \in Nat, c \in Nat, d \in Nat :
         a = h[q] /\ b = k[q] /\ c = Sum(h) /\ d = Sum(k)
  BY <1>9, <1>11, Zenon
<1>13. PICK f \in Nat, g \in Nat, x \in Nat, y \in Nat :
         f = free /\ g = free' /\ x = pipe /\ y = pipe'
  <2>1. free \in Nat /\ pipe \in Nat /\ free' \in Nat /\ pipe' \in Nat
    BY DEF Types
  <2>. QED BY <2>1, Zenon
<1>14. f + x + c = NPages /\ g + y + b = f + x + a /\ d = c + b - a
  BY <1>7, <1>10, <1>11, <1>12, <1>13, Zenon DEF Balance
<1>15. g + y + d = NPages
  BY ONLY <1>14, a \in Nat, b \in Nat, c \in Nat, d \in Nat, f \in Nat, g \in Nat,
          x \in Nat, y \in Nat
<1>. QED BY <1>8, <1>12, <1>13, <1>15, Zenon DEF Balance

-----------------------------------------------------------------------------
(* The functions of kernel/vm.c *)

\* The cases in which the code calls them, with the result r.
MapsTo(fr, sp, v, r) ==
  fr \in Nat /\ sp \in Spaces /\ v \in Vpns /\ v \notin sp.pg /\ r = MapPage(fr, sp, v)
UnmapsTo(fr, sp, from, to, r) ==
  /\ fr \in Nat /\ sp \in Spaces /\ from \in Nat /\ to \in Nat /\ from <= to
  /\ sp.pg = 0 .. to - 1 /\ r = uvmunmap(fr, sp, from, to)
FreesTo(fr, sp, n, r) ==
  /\ fr \in Nat /\ sp \in Spaces /\ n \in Nat /\ sp.on /\ sp.pg = 0 .. RoundUp(n) - 1
  /\ r = proc_freepagetable(fr, sp, n)

\* What they then do.
Mapped(fr, sp, v, r) ==
  /\ r.ok \in BOOLEAN /\ r.free \in Nat /\ r.as \in Spaces /\ ~r.bad
  /\ r.free + Count(r.as) = fr + Count(sp)
  /\ r.as.on = sp.on
  /\ r.ok => r.as.pg = sp.pg \cup {v}
  /\ ~r.ok => r.as = sp /\ r.free = fr
Unmapped(fr, sp, from, r) ==
  /\ r.free \in Nat /\ r.as \in Spaces /\ ~r.bad
  /\ r.free + Count(r.as) = fr + Count(sp)
  /\ r.as.on = sp.on /\ r.as.pg = 0 .. from - 1 /\ r.as.tab = sp.tab
Freed(fr, sp, r) == r.free \in Nat /\ r.free = fr + Count(sp) /\ ~r.bad

\* MapPage() adds the page v and moves what it takes from the free pages; without
\* enough of them it changes nothing.
LEMMA MapPageIs ==
  ASSUME Counting, NEW fr, NEW sp, NEW v, NEW m, MapsTo(fr, sp, v, m)
  PROVE  Mapped(fr, sp, v, m)
<1>0. fr \in Nat /\ sp \in Spaces /\ v \in Vpns /\ v \notin sp.pg /\ m = MapPage(fr, sp, v)
  BY Zenon DEF MapsTo
<1>. DEFINE t == TableOf(v)
            new == [sp EXCEPT !.tab = @ \cup {t}, !.pg = @ \cup {v}]
            need == IF t \in sp.tab THEN 1 ELSE 2
<1>1. t \in Tables
  BY <1>0, Zenon DEF Tables
<1>2. /\ sp.on \in BOOLEAN /\ sp.tab \subseteq Tables /\ sp.pg \subseteq Vpns
      /\ sp.guard \subseteq Vpns
  BY <1>0, Fields, Zenon
<1>3. new \in Spaces /\ new.on = sp.on /\ new.tab = sp.tab \cup {t} /\ new.pg = sp.pg \cup {v}
  BY <1>0, <1>1, <1>2, Zenon DEF Spaces
<1>4. Count(sp) \in Nat /\ Count(new) \in Nat /\ Fixed(new) = Fixed(sp)
  BY <1>0, <1>3, CountIs, Zenon DEF Fixed
<1>5. /\ Cardinality(sp.pg \cup {v}) = Cardinality(sp.pg) + 1
      /\ t \notin sp.tab => Cardinality(sp.tab \cup {t}) = Cardinality(sp.tab) + 1
      /\ t \in sp.tab => sp.tab \cup {t} = sp.tab
      /\ Cardinality(sp.pg) \in Nat /\ Cardinality(sp.tab) \in Nat
  BY <1>0, <1>2, Zenon DEF Counting, Few
<1>. HIDE DEF new
<1>6. Count(new) = Count(sp) + need
  <2>1. Count(sp) = Fixed(sp) + NTab(sp) + NPg(sp) /\ Fixed(sp) \in Nat
        /\ NTab(sp) \in Nat /\ NPg(sp) \in Nat
    BY <1>0, CountIs, Zenon
  <2>2. Count(new) = Fixed(sp) + NTab(new) + NPg(new)
    BY <1>0, <1>3, <1>4, CountIs, Zenon
  <2>3. NPg(new) = NPg(sp) + 1
    BY <1>0, <1>3, <1>5, Zenon DEF NPg
  <2>4. CASE t \in sp.tab
    <3>1. NTab(new) = NTab(sp) /\ need = 1
      BY <1>0, <1>3, <1>5, <2>4, Zenon DEF NTab
    <3>. HIDE DEF need
    <3>. QED BY ONLY <2>1, <2>2, <2>3, <3>1
  <2>5. CASE t \notin sp.tab
    <3>1. NTab(new) = NTab(sp) + 1 /\ need = 2
      BY <1>0, <1>3, <1>5, <2>5, Zenon DEF NTab
    <3>. HIDE DEF need
    <3>. QED BY ONLY <2>1, <2>2, <2>3, <3>1
  <2>. QED BY <1>0, <2>4, <2>5, Zenon
<1>7. need \in Nat
  OBVIOUS
<1>8. m = IF fr < need THEN [ok |-> FALSE, free |-> fr, as |-> sp, bad |-> FALSE]
          ELSE [ok |-> TRUE, free |-> fr - need, bad |-> v \in sp.pg, as |-> new]
  BY <1>0, Zenon DEF MapPage, new
<1>. HIDE DEF need
<1>9. CASE fr < need
  <2>1. m = [ok |-> FALSE, free |-> fr, as |-> sp, bad |-> FALSE]
    BY <1>0, <1>8, <1>9, Zenon
  <2>2. m.ok = FALSE /\ m.free = fr /\ m.as = sp /\ m.bad = FALSE
    BY ONLY <2>1
  <2>. QED BY <1>0, <2>2, Zenon DEF Mapped
<1>10. CASE ~(fr < need)
  <2>1. m = [ok |-> TRUE, free |-> fr - need, bad |-> v \in sp.pg, as |-> new]
    BY <1>0, <1>8, <1>10, Zenon
  <2>2. m.ok = TRUE /\ m.free = fr - need /\ m.as = new /\ m.bad = (v \in sp.pg)
    BY ONLY <2>1
  <2>3. ~m.bad
    BY <1>0, <2>2, Zenon
  <2>4. m.free \in Nat /\ m.free + Count(m.as) = fr + Count(sp)
    <3>1. PICK x \in Nat, y \in Nat, d \in Nat :
            x = Count(sp) /\ y = Count(new) /\ d = need
      BY <1>0, <1>4, <1>7, Zenon
    <3>2. y = x + d /\ ~(fr < d)
      BY <1>0, <1>6, <1>10, <3>1, Zenon
    <3>3. fr - d \in Nat /\ (fr - d) + y = fr + x
      BY ONLY <3>2, <1>0, x \in Nat, y \in Nat, d \in Nat
    <3>. QED BY <1>0, <2>2, <3>1, <3>3, Zenon
  <2>. QED BY <1>0, <1>3, <2>2, <2>3, <2>4, Zenon DEF Mapped
<1>. QED BY <1>9, <1>10, Zenon

\* uvmunmap() of mapped pages gives them back, and does not panic.
LEMMA UnmapIs ==
  ASSUME Counting, NEW fr, NEW sp, NEW from, NEW to, NEW u, UnmapsTo(fr, sp, from, to, u)
  PROVE  Unmapped(fr, sp, from, u)
<1>0. /\ fr \in Nat /\ sp \in Spaces /\ from \in Nat /\ to \in Nat /\ from <= to
      /\ sp.pg = 0 .. to - 1 /\ u = uvmunmap(fr, sp, from, to)
  BY Zenon DEF UnmapsTo
<1>. DEFINE new == [sp EXCEPT !.pg = @ \ (from .. to - 1), !.guard = @ \ (from .. to - 1)]
<1>1. /\ sp.on \in BOOLEAN /\ sp.tab \subseteq Tables /\ sp.pg \subseteq Vpns
      /\ sp.guard \subseteq Vpns
  BY <1>0, Fields, Zenon
<1>2. new \in Spaces /\ new.on = sp.on /\ new.tab = sp.tab /\ new.pg = sp.pg \ (from .. to - 1)
  BY <1>0, <1>1, Zenon DEF Spaces
<1>3. from .. to - 1 \subseteq sp.pg /\ sp.pg \ (from .. to - 1) = 0 .. from - 1
  BY <1>0
<1>4. NPg(new) = NPg(sp) - (to - from)
  <2>1. \A A : \A a, b \in Nat : A \subseteq Vpns /\ a <= b /\ a .. b - 1 \subseteq A =>
          Cardinality(A \ (a .. b - 1)) = Cardinality(A) - (b - a)
    BY <1>0, Zenon DEF Counting
  <2>2. Cardinality(sp.pg \ (from .. to - 1)) = Cardinality(sp.pg) - (to - from)
    BY <1>0, <1>1, <1>3, <2>1, Zenon
  <2>. QED BY <1>0, <1>2, <2>2, Zenon DEF NPg
<1>6. u.free = fr + to - from /\ u.as = new /\ u.bad = ~(from .. to - 1 \subseteq sp.pg)
  <2>1. u = [free |-> fr + to - from, as |-> new, bad |-> ~(from .. to - 1 \subseteq sp.pg)]
    BY <1>0, Zenon DEF uvmunmap
  <2>. HIDE DEF new
  <2>. QED BY ONLY <2>1
<1>7. ~u.bad
  BY <1>0, <1>3, <1>6, Zenon
<1>. HIDE DEF new
<1>8. PICK x \in Nat, y \in Nat : x = Count(sp) /\ y = Count(new)
  BY <1>0, <1>2, CountIs, Zenon
<1>9. y = x - (to - from)
  <2>1. Count(sp) = Fixed(sp) + NTab(sp) + NPg(sp) /\ Fixed(sp) \in Nat
        /\ NTab(sp) \in Nat /\ NPg(sp) \in Nat
    BY <1>0, CountIs, Zenon
  <2>2. Count(new) = Fixed(sp) + NTab(sp) + NPg(new)
    BY <1>0, <1>2, CountIs, Zenon DEF Fixed, NTab
  <2>. QED BY ONLY <1>4, <1>8, <2>1, <2>2, <1>0
<1>10. fr + to - from \in Nat /\ (fr + to - from) + y = fr + x
  BY ONLY <1>0, <1>9, x \in Nat, y \in Nat
<1>11. u.free \in Nat /\ u.free + Count(u.as) = fr + Count(sp)
  BY <1>0, <1>6, <1>8, <1>10, Zenon
<1>. QED BY <1>0, <1>2, <1>3, <1>6, <1>7, <1>11, Zenon DEF Unmapped

\* proc_freepagetable() of exactly the pages below the size gives back all of the
\* address space, and does not panic.
LEMMA FreeIs ==
  ASSUME Counting, NEW fr, NEW sp, NEW n, NEW f, FreesTo(fr, sp, n, f)
  PROVE  Freed(fr, sp, f)
<1>0. /\ fr \in Nat /\ sp \in Spaces /\ n \in Nat /\ sp.on /\ sp.pg = 0 .. RoundUp(n) - 1
      /\ f = proc_freepagetable(fr, sp, n)
  BY Zenon DEF FreesTo
<1>. DEFINE u == uvmunmap(fr, sp, 0, RoundUp(n))
            w == freewalk(u.free, u.as)
<1>1. PICK k \in Nat, lo \in Nat : k = RoundUp(n) /\ lo <= k /\ lo = 0
  <2>1. RoundUp(n) \in Nat
    BY <1>0, RoundUpIs, Zenon
  <2>. QED BY <1>0, <2>1
<1>. HIDE DEF u, w
<1>2. /\ u.free \in Nat /\ u.as \in Spaces /\ ~u.bad
      /\ u.free + Count(u.as) = fr + Count(sp)
      /\ u.as.on = sp.on /\ u.as.pg = 0 .. lo - 1 /\ u.as.tab = sp.tab
  <2>1. u = uvmunmap(fr, sp, lo, k) /\ sp.pg = 0 .. k - 1
    BY <1>0, <1>1, Zenon DEF u
  <2>2. UnmapsTo(fr, sp, lo, k, u)
    BY <1>0, <1>1, <2>1, Zenon DEF UnmapsTo
  <2>3. Unmapped(fr, sp, lo, u)
    BY <2>2, UnmapIs, Zenon
  <2>. QED BY ONLY <2>3 DEF Unmapped
<1>3. u.as.pg = {}
  <2>1. 0 .. lo - 1 = {}
    BY <1>0, <1>1
  <2>. QED BY <1>0, <1>2, <2>1, Zenon
<1>4. w.free = u.free + Cardinality(u.as.tab) + 2 /\ w.bad = (u.as.pg # {})
  <2>1. w = [free |-> u.free + Cardinality(u.as.tab) + 2, bad |-> u.as.pg # {}]
    BY <1>0, Zenon DEF freewalk, w
  <2>. QED BY ONLY <2>1
<1>5. ~w.bad
  BY <1>0, <1>3, <1>4, Zenon
<1>6. NPg(u.as) = 0
  BY <1>0, <1>3, Zenon DEF Counting, NPg
<1>7. /\ Count(u.as) = Fixed(u.as) + NTab(u.as) + NPg(u.as) /\ Fixed(u.as) = 2
      /\ NTab(u.as) \in Nat /\ Count(sp) \in Nat
  BY <1>0, <1>2, CountIs, Zenon DEF Fixed
<1>8. w.free = fr + Count(sp) /\ w.free \in Nat
  <2>1. PICK x \in Nat, y \in Nat, z \in Nat : x = Count(sp) /\ y = NTab(u.as) /\ z = u.free
    BY <1>0, <1>2, <1>7, Zenon
  <2>2. z + (2 + y + 0) = fr + x
    BY <1>0, <1>2, <1>6, <1>7, <2>1, Zenon
  <2>3. z + y + 2 = fr + x /\ fr + x \in Nat
    BY ONLY <2>2, <1>0, x \in Nat, y \in Nat, z \in Nat
  <2>4. w.free = z + y + 2
    BY <1>0, <1>4, <2>1, Zenon DEF NTab
  <2>. QED BY <1>0, <2>1, <2>3, <2>4, Zenon
<1>9. f = [free |-> w.free, bad |-> u.bad \/ w.bad]
  BY <1>0, Zenon DEF proc_freepagetable, u, w
<1>10. f.free = w.free /\ f.bad = (u.bad \/ w.bad)
  BY ONLY <1>9
<1>11. ~f.bad
  BY <1>0, <1>2, <1>5, <1>10, Zenon
<1>. QED BY <1>0, <1>8, <1>10, <1>11, Zenon DEF Freed

\* proc_pagetable() is the empty space and takes two pages, or changes nothing.
LEMMA PagetableIs ==
  ASSUME Counting, NEW fr \in Int, fr >= -1, NEW pt, pt = proc_pagetable(fr)
  PROVE  /\ pt.ok \in BOOLEAN
         /\ pt.ok => /\ pt.free \in Nat /\ pt.free + 2 = fr /\ Count(pt.as) = 2
                     /\ pt.as \in Spaces /\ pt.as.on = TRUE /\ pt.as.pg = {}
         /\ ~pt.ok => pt.free = fr
<1>1. uvmcreate \in Spaces /\ uvmcreate.on = TRUE /\ uvmcreate.pg = {} /\ uvmcreate.tab = {}
  BY Zenon DEF uvmcreate, NoSpace, Spaces
<1>2. Count(uvmcreate) = 2
  <2>1. Cardinality({}) = 0
    BY Zenon DEF Counting
  <2>2. Count(uvmcreate) = Fixed(uvmcreate) + Cardinality({}) + Cardinality({})
    BY <1>1, CountIs, Zenon DEF NTab, NPg
  <2>3. Fixed(uvmcreate) = 2
    BY <1>1, Zenon DEF Fixed
  <2>. QED BY ONLY <2>1, <2>2, <2>3
<1>3. CASE fr < 2
  <2>1. pt = [ok |-> FALSE, free |-> fr, as |-> NoSpace]
    BY <1>3, Zenon DEF proc_pagetable
  <2>. QED BY ONLY <2>1
<1>4. CASE ~(fr < 2)
  <2>1. pt = [ok |-> TRUE, free |-> fr - 2, as |-> uvmcreate]
    BY <1>4, Zenon DEF proc_pagetable
  <2>2. pt.ok = TRUE /\ pt.free = fr - 2 /\ pt.as = uvmcreate
    BY ONLY <2>1
  <2>3. fr - 2 \in Nat /\ (fr - 2) + 2 = fr
    BY ONLY <1>4, fr \in Int
  <2>. QED BY <2>2, <2>3, <1>1, <1>2, Zenon
<1>. QED BY <1>3, <1>4, Zenon

-----------------------------------------------------------------------------
(* Steps that change one process, or a process and its child *)

\* w is v with x at p ...
Upd(v, w, p, x) == w = [v EXCEPT ![p] = x] \/ (w = v /\ x = v[p])

\* ... and a function like v.
Updated(S, v, w, p, x) ==
  w \in [Procs -> S] /\ w[p] = x /\ \A r \in Procs : r # p => w[r] = v[r]

\* An update keeps the other values.
LEMMA UpdIs ==
  ASSUME NEW S, NEW v, NEW w, NEW p \in Procs, NEW x \in S, v \in [Procs -> S], Upd(v, w, p, x)
  PROVE  Updated(S, v, w, p, x)
<1>1. CASE w = [v EXCEPT ![p] = x]
  BY <1>1, Zenon DEF Updated
<1>2. CASE w = v /\ x = v[p]
  BY <1>2, Zenon DEF Updated
<1>. QED BY <1>1, <1>2, Zenon DEF Upd

\* The same for flags.
UpdFlag(v, w, p, x) == v \in [Procs -> BOOLEAN] /\ x \in BOOLEAN /\ Upd(v, w, p, x)
UpdatedFlag(v, w, p, x) ==
  w \in [Procs -> BOOLEAN] /\ w[p] = x /\ \A r \in Procs : r # p => w[r] = v[r]

\* An update of a flag keeps the other flags.
LEMMA UpdFlagIs ==
  ASSUME NEW v, NEW w, NEW p \in Procs, NEW x, UpdFlag(v, w, p, x)
  PROVE  UpdatedFlag(v, w, p, x)
<1>1. v \in [Procs -> BOOLEAN] /\ x \in BOOLEAN /\ Upd(v, w, p, x)
  BY Zenon DEF UpdFlag
<1>2. CASE w = [v EXCEPT ![p] = x]
  BY <1>1, <1>2, Zenon DEF UpdatedFlag
<1>3. CASE w = v /\ x = v[p]
  BY <1>1, <1>3, Zenon DEF UpdatedFlag
<1>. QED BY <1>1, <1>2, <1>3, Zenon DEF Upd

\* What a process holds, in terms of its state.
LEMMA HeldIs ==
  ASSUME NEW p
  PROVE  /\ Held(p) = HeldBy(trapframe[p], pagetable[p], job[p])
         /\ Held(p)' = HeldBy(trapframe'[p], pagetable'[p], job'[p])
<1>1. Held(p) = HeldBy(trapframe[p], pagetable[p], job[p])
  BY Zenon DEF Held, HeldBy, Frame, Building
<1>2. Held(p)' = HeldBy(trapframe'[p], pagetable'[p], job'[p])
  BY Zenon DEF Held, HeldBy, Frame, Building
<1>. QED BY <1>1, <1>2, Zenon

\* What the step lemmas use of the invariant.
LEMMA Unfold ==
  ASSUME Inv
  PROVE  /\ Types /\ Balance /\ ProcsOK /\ ForksOK
         /\ free \in Nat /\ pipe \in 0 .. 1 /\ panicked = FALSE
         /\ trapframe \in [Procs -> BOOLEAN] /\ pagetable \in [Procs -> Spaces]
         /\ sz \in [Procs -> 0 .. MaxSz] /\ job \in [Procs -> Jobs]
BY Zenon DEF Inv, Types

\* A step that changes only p, which no fork() copies from or to.
LEMMA One ==
  ASSUME Counting, Inv, NEW p \in Procs, ~Kid(p), job[p].kind # "copy",
         NEW tf \in BOOLEAN, NEW sp \in Spaces, NEW s \in 0 .. MaxSz, NEW j \in Jobs,
         j.kind # "copy", OwnOK(tf, sp, s, j), JobOK(s, j),
         Upd(trapframe, trapframe', p, tf), Upd(pagetable, pagetable', p, sp),
         Upd(sz, sz', p, s), Upd(job, job', p, j),
         free' \in Nat, pipe' = pipe, panicked' = FALSE,
         Level(free, trapframe[p], pagetable[p], job[p], free', tf, sp, j)
  PROVE  Inv'
<1>0. /\ Types /\ Balance /\ ProcsOK /\ ForksOK
      /\ free \in Nat /\ pipe \in 0 .. 1 /\ panicked = FALSE
      /\ trapframe \in [Procs -> BOOLEAN] /\ pagetable \in [Procs -> Spaces]
      /\ sz \in [Procs -> 0 .. MaxSz] /\ job \in [Procs -> Jobs]
  BY Unfold, Zenon
<1>1. /\ trapframe' \in [Procs -> BOOLEAN] /\ trapframe'[p] = tf
      /\ \A r \in Procs : r # p => trapframe'[r] = trapframe[r]
  <2>1. UpdFlag(trapframe, trapframe', p, tf)
    BY <1>0, Zenon DEF UpdFlag
  <2>2. UpdatedFlag(trapframe, trapframe', p, tf)
    BY ONLY <2>1, p \in Procs, UpdFlagIs, Zenon
  <2>. QED BY <2>2, Zenon DEF UpdatedFlag
<1>2. /\ pagetable' \in [Procs -> Spaces] /\ pagetable'[p] = sp
      /\ \A r \in Procs : r # p => pagetable'[r] = pagetable[r]
  <2>1. Updated(Spaces, pagetable, pagetable', p, sp)
    BY <1>0, UpdIs, Zenon
  <2>. QED BY <2>1, Zenon DEF Updated
<1>3. /\ sz' \in [Procs -> 0 .. MaxSz] /\ sz'[p] = s
      /\ \A r \in Procs : r # p => sz'[r] = sz[r]
  <2>1. Updated(0 .. MaxSz, sz, sz', p, s)
    BY <1>0, UpdIs, Zenon
  <2>. QED BY <2>1, Zenon DEF Updated
<1>4. /\ job' \in [Procs -> Jobs] /\ job'[p] = j
      /\ \A r \in Procs : r # p => job'[r] = job[r]
  <2>1. Updated(Jobs, job, job', p, j)
    BY <1>0, UpdIs, Zenon
  <2>. QED BY <2>1, Zenon DEF Updated
<1>5. Types'
  BY <1>0, <1>1, <1>2, <1>3, <1>4, Zenon DEF Types
<1>6. \A r \in Procs : Kid(r)' <=> Kid(r)
  BY <1>4, Zenon DEF Kid
<1>7. ProcsOK'
  <2>. SUFFICES ASSUME NEW r \in Procs
       PROVE  /\ Kid(r)' => KidOK(trapframe'[r], pagetable'[r], sz'[r], job'[r])
              /\ ~Kid(r)' => OwnOK(trapframe'[r], pagetable'[r], sz'[r], job'[r])
              /\ JobOK(sz'[r], job'[r])
    BY Zenon DEF ProcsOK
  <2>1. CASE r = p
    BY <1>1, <1>2, <1>3, <1>4, <1>6, <2>1, Zenon
  <2>2. CASE r # p
    BY <1>0, <1>1, <1>2, <1>3, <1>4, <1>6, <2>2, Zenon DEF ProcsOK
  <2>. QED BY <2>1, <2>2, Zenon
<1>8. ForksOK'
  <2>. SUFFICES ASSUME NEW t \in Procs, NEW q \in Procs, job'[t].kind = "copy",
                       job'[t].child = q
       PROVE  /\ t # q /\ pagetable'[q].pg = 0 .. job'[t].i - 1
              /\ \A r \in Procs : job'[r].kind = "copy" /\ job'[r].child = q => r = t
    BY Zenon DEF ForksOK
  <2>1. t # p /\ job'[t] = job[t]
    BY <1>4, Zenon
  <2>2. q # p
    BY <2>1, Zenon DEF Kid
  <2>3. /\ t # q /\ pagetable[q].pg = 0 .. job[t].i - 1
        /\ \A r \in Procs : job[r].kind = "copy" /\ job[r].child = q => r = t
    BY <1>0, <2>1, Zenon DEF ForksOK
  <2>4. ASSUME NEW r \in Procs, job'[r].kind = "copy", job'[r].child = q PROVE r = t
    <3>1. r # p /\ job'[r] = job[r]
      BY <1>4, <2>4, Zenon
    <3>. QED BY <2>3, <2>4, <3>1, Zenon
  <2>5. pagetable'[q] = pagetable[q]
    BY <1>2, <2>2, Zenon
  <2>. QED BY <2>1, <2>3, <2>4, <2>5, Zenon
<1>9. Balance'
  <2>1. \A r \in Procs : /\ Held(r) = HeldBy(trapframe[r], pagetable[r], job[r])
                         /\ Held(r)' = HeldBy(trapframe'[r], pagetable'[r], job'[r])
    BY HeldIs, Zenon
  <2>2. ASSUME NEW r \in Procs, r # p PROVE Held(r)' = Held(r)
    <3>1. trapframe'[r] = trapframe[r] /\ pagetable'[r] = pagetable[r] /\ job'[r] = job[r]
      BY <1>1, <1>2, <1>4, <2>2, Zenon
    <3>. QED BY <2>1, <3>1, Zenon
  <2>3. Held(p)' = HeldBy(tf, sp, j)
    BY <1>1, <1>2, <1>4, <2>1, Zenon
  <2>4. trapframe[p] \in BOOLEAN /\ pagetable[p] \in Spaces /\ job[p] \in Jobs
    BY <1>0, Zenon
  <2>5. PICK a \in Nat, b \in Nat : a = Held(p) /\ b = Held(p)'
    BY <2>1, <2>3, <2>4, HeldNat, Zenon
  <2>6. free' + b = free + a
    BY <2>1, <2>3, <2>5, Zenon DEF Level
  <2>7. free' + pipe + b = free + pipe + a
    <3>1. PICK x \in Nat, f \in Nat, g \in Nat : x = pipe /\ f = free /\ g = free'
      <4>1. pipe \in 0 .. 1 /\ free \in Nat /\ free' \in Nat
        BY <1>0, Zenon
      <4>2. \A k \in 0 .. 1 : k \in Nat
        BY ONLY TRUE
      <4>. QED BY ONLY <4>1, <4>2, Zenon
    <3>2. g + b = f + a
      BY <2>6, <3>1, Zenon
    <3>3. g + x + b = f + x + a
      BY ONLY <3>2, x \in Nat, f \in Nat, g \in Nat, a \in Nat, b \in Nat
    <3>. QED BY <3>1, <3>3, Zenon
  <2>8. free' + pipe' + Held(p)' = free + pipe + Held(p)
    BY <2>5, <2>7, Zenon
  <2>. QED BY <1>0, <1>5, <2>2, <2>8, Moves, Zenon
<1>. QED BY <1>5, <1>7, <1>8, <1>9, Zenon DEF Inv

\* A step of fork() of p that changes the call of p and what its child q has.
LEMMA Two ==
  ASSUME Counting, Inv, NEW p \in Procs, NEW q \in Procs, p # q, ~Kid(p), job[q] = NoJob,
         \A r \in Procs : job[r].kind = "copy" /\ job[r].child = q => r = p,
         job[p].kind = "copy" => job[p].child = q,
         NEW j \in Jobs, j.kind = "copy" => j.child = q,
         OwnOK(trapframe[p], pagetable[p], sz[p], j), JobOK(sz[p], j),
         Building(j) = 0, Building(job[p]) = 0,
         NEW tf \in BOOLEAN, NEW sp \in Spaces, NEW s \in 0 .. MaxSz,
         j.kind = "copy" => KidOK(tf, sp, s, NoJob) /\ sp.pg = 0 .. j.i - 1,
         j.kind # "copy" => OwnOK(tf, sp, s, NoJob),
         Upd(trapframe, trapframe', q, tf), Upd(pagetable, pagetable', q, sp),
         Upd(sz, sz', q, s), Upd(job, job', p, j),
         free' \in Nat, pipe' = pipe, panicked' = FALSE,
         Level(free, trapframe[q], pagetable[q], NoJob, free', tf, sp, NoJob)
  PROVE  Inv'
<1>0. /\ Types /\ Balance /\ ProcsOK /\ ForksOK
      /\ free \in Nat /\ pipe \in 0 .. 1 /\ panicked = FALSE
      /\ trapframe \in [Procs -> BOOLEAN] /\ pagetable \in [Procs -> Spaces]
      /\ sz \in [Procs -> 0 .. MaxSz] /\ job \in [Procs -> Jobs]
  BY Unfold, Zenon
<1>1. /\ trapframe' \in [Procs -> BOOLEAN] /\ trapframe'[q] = tf
      /\ \A r \in Procs : r # q => trapframe'[r] = trapframe[r]
  <2>1. UpdFlag(trapframe, trapframe', q, tf)
    BY <1>0, Zenon DEF UpdFlag
  <2>2. UpdatedFlag(trapframe, trapframe', q, tf)
    BY ONLY <2>1, q \in Procs, UpdFlagIs, Zenon
  <2>. QED BY <2>2, Zenon DEF UpdatedFlag
<1>2. /\ pagetable' \in [Procs -> Spaces] /\ pagetable'[q] = sp
      /\ \A r \in Procs : r # q => pagetable'[r] = pagetable[r]
  <2>1. Updated(Spaces, pagetable, pagetable', q, sp)
    BY <1>0, UpdIs, Zenon
  <2>. QED BY <2>1, Zenon DEF Updated
<1>3. /\ sz' \in [Procs -> 0 .. MaxSz] /\ sz'[q] = s
      /\ \A r \in Procs : r # q => sz'[r] = sz[r]
  <2>1. Updated(0 .. MaxSz, sz, sz', q, s)
    BY <1>0, UpdIs, Zenon
  <2>. QED BY <2>1, Zenon DEF Updated
<1>4. /\ job' \in [Procs -> Jobs] /\ job'[p] = j
      /\ \A r \in Procs : r # p => job'[r] = job[r]
  <2>1. Updated(Jobs, job, job', p, j)
    BY <1>0, UpdIs, Zenon
  <2>. QED BY <2>1, Zenon DEF Updated
<1>5. Types'
  BY <1>0, <1>1, <1>2, <1>3, <1>4, Zenon DEF Types
<1>6. /\ Kid(q)' <=> j.kind = "copy"
      /\ \A r \in Procs : r # q => (Kid(r)' <=> Kid(r))
  <2>1. Kid(q)' => j.kind = "copy"
    BY <1>4, Zenon DEF Kid
  <2>2. j.kind = "copy" => Kid(q)'
    BY <1>4, Zenon DEF Kid
  <2>3. ASSUME NEW r \in Procs, r # q PROVE Kid(r)' <=> Kid(r)
    <3>1. ASSUME NEW t \in Procs, job'[t].kind = "copy", job'[t].child = r PROVE Kid(r)
      <4>1. t # p
        BY <1>4, <2>3, <3>1, Zenon
      <4>. QED BY <1>4, <3>1, <4>1, Zenon DEF Kid
    <3>2. ASSUME NEW t \in Procs, job[t].kind = "copy", job[t].child = r PROVE Kid(r)'
      <4>1. t # p
        BY <2>3, <3>2, Zenon
      <4>. QED BY <1>4, <3>2, <4>1, Zenon DEF Kid
    <3>. QED BY <3>1, <3>2, Zenon DEF Kid
  <2>. QED BY <2>1, <2>2, <2>3, Zenon
<1>7. JobOK(s, NoJob)
  BY Zenon DEF JobOK, NoJob
<1>8. ProcsOK'
  <2>. SUFFICES ASSUME NEW r \in Procs
       PROVE  /\ Kid(r)' => KidOK(trapframe'[r], pagetable'[r], sz'[r], job'[r])
              /\ ~Kid(r)' => OwnOK(trapframe'[r], pagetable'[r], sz'[r], job'[r])
              /\ JobOK(sz'[r], job'[r])
    BY Zenon DEF ProcsOK
  <2>1. CASE r = q
    <3>1. trapframe'[r] = tf /\ pagetable'[r] = sp /\ sz'[r] = s /\ job'[r] = NoJob
      BY <1>1, <1>2, <1>3, <1>4, <2>1, Zenon
    <3>. QED BY <1>6, <1>7, <2>1, <3>1, Zenon
  <2>2. CASE r = p
    <3>1. /\ trapframe'[r] = trapframe[p] /\ pagetable'[r] = pagetable[p]
          /\ sz'[r] = sz[p] /\ job'[r] = j /\ ~Kid(r)'
      BY <1>1, <1>2, <1>3, <1>4, <1>6, <2>2, Zenon
    <3>. QED BY <3>1, Zenon
  <2>3. CASE r # p /\ r # q
    <3>1. /\ trapframe'[r] = trapframe[r] /\ pagetable'[r] = pagetable[r]
          /\ sz'[r] = sz[r] /\ job'[r] = job[r] /\ (Kid(r)' <=> Kid(r))
      BY <1>1, <1>2, <1>3, <1>4, <1>6, <2>3, Zenon
    <3>. QED BY <1>0, <3>1, Zenon DEF ProcsOK
  <2>. QED BY <2>1, <2>2, <2>3, Zenon
<1>9. ForksOK'
  <2>. SUFFICES ASSUME NEW t \in Procs, NEW c \in Procs, job'[t].kind = "copy",
                       job'[t].child = c
       PROVE  /\ t # c /\ pagetable'[c].pg = 0 .. job'[t].i - 1
              /\ \A r \in Procs : job'[r].kind = "copy" /\ job'[r].child = c => r = t
    BY Zenon DEF ForksOK
  <2>1. CASE t = p
    <3>1. job'[t] = j /\ c = q
      BY <1>4, <2>1, Zenon
    <3>2. pagetable'[c].pg = 0 .. job'[t].i - 1
      BY <1>2, <3>1, Zenon
    <3>3. ASSUME NEW r \in Procs, job'[r].kind = "copy", job'[r].child = c PROVE r = t
      BY <1>4, <2>1, <3>1, <3>3, Zenon
    <3>. QED BY <2>1, <3>1, <3>2, <3>3, Zenon
  <2>2. CASE t # p
    <3>1. job'[t] = job[t] /\ c # q
      BY <1>4, <2>2, Zenon
    <3>2. /\ t # c /\ pagetable[c].pg = 0 .. job[t].i - 1
          /\ \A r \in Procs : job[r].kind = "copy" /\ job[r].child = c => r = t
      BY <1>0, <3>1, Zenon DEF ForksOK
    <3>3. pagetable'[c].pg = 0 .. job'[t].i - 1
      BY <1>2, <3>1, <3>2, Zenon
    <3>4. ASSUME NEW r \in Procs, job'[r].kind = "copy", job'[r].child = c PROVE r = t
      <4>1. r # p /\ job'[r] = job[r]
        BY <1>4, <3>1, <3>4, Zenon
      <4>. QED BY <3>2, <3>4, <4>1, Zenon
    <3>. QED BY <3>2, <3>3, <3>4, Zenon
  <2>. QED BY <2>1, <2>2, Zenon
<1>10. Balance'
  <2>1. \A r \in Procs : /\ Held(r) = HeldBy(trapframe[r], pagetable[r], job[r])
                         /\ Held(r)' = HeldBy(trapframe'[r], pagetable'[r], job'[r])
    BY HeldIs, Zenon
  <2>2. ASSUME NEW r \in Procs, r # q PROVE Held(r)' = Held(r)
    <3>1. trapframe'[r] = trapframe[r] /\ pagetable'[r] = pagetable[r]
      BY <1>1, <1>2, <2>2, Zenon
    <3>2. Building(job'[r]) = Building(job[r])
      BY <1>4, Zenon
    <3>. QED BY <2>1, <3>1, <3>2, Zenon DEF HeldBy
  <2>3. Held(q)' = HeldBy(tf, sp, NoJob) /\ Held(q) = HeldBy(trapframe[q], pagetable[q], NoJob)
    <3>1. trapframe'[q] = tf /\ pagetable'[q] = sp /\ job'[q] = NoJob
      BY <1>1, <1>2, <1>4, Zenon
    <3>. QED BY <2>1, <3>1, Zenon
  <2>4. /\ trapframe[q] \in BOOLEAN /\ pagetable[q] \in Spaces /\ NoJob \in Jobs
    BY <1>0, Zenon DEF Jobs
  <2>5. PICK a \in Nat, b \in Nat : a = Held(q) /\ b = Held(q)'
    BY <2>3, <2>4, HeldNat, Zenon
  <2>6. free' + b = free + a
    BY <2>3, <2>5, Zenon DEF Level
  <2>7. free' + pipe + b = free + pipe + a
    <3>1. PICK x \in Nat, f \in Nat, g \in Nat : x = pipe /\ f = free /\ g = free'
      <4>1. pipe \in 0 .. 1 /\ free \in Nat /\ free' \in Nat
        BY <1>0, Zenon
      <4>2. \A k \in 0 .. 1 : k \in Nat
        BY ONLY TRUE
      <4>. QED BY ONLY <4>1, <4>2, Zenon
    <3>2. g + b = f + a
      BY <2>6, <3>1, Zenon
    <3>3. g + x + b = f + x + a
      BY ONLY <3>2, x \in Nat, f \in Nat, g \in Nat, a \in Nat, b \in Nat
    <3>. QED BY <3>1, <3>3, Zenon
  <2>8. free' + pipe' + Held(q)' = free + pipe + Held(q)
    BY <2>5, <2>7, Zenon
  <2>. QED BY <1>0, <1>5, <2>2, <2>8, Moves, Zenon
<1>. QED BY <1>5, <1>8, <1>9, <1>10, Zenon DEF Inv

-----------------------------------------------------------------------------
(* The calls *)

\* What the invariant says of a process in user mode ...
LEMMA AliveIs ==
  ASSUME Inv, NEW p \in Procs, Alive(p)
  PROVE  /\ ~Kid(p) /\ job[p] = NoJob /\ job[p].kind # "copy" /\ trapframe[p]
         /\ pagetable[p].on /\ pagetable[p].pg = 0 .. RoundUp(sz[p]) - 1
<1>1. trapframe[p] /\ job[p] = NoJob /\ ~Kid(p)
  BY Zenon DEF Alive, Kid
<1>2. job[p].kind = "none"
  BY <1>1 DEF NoJob
<1>3. OwnOK(trapframe[p], pagetable[p], sz[p], job[p])
  BY <1>1, Unfold, Zenon DEF ProcsOK
<1>4. pagetable[p].on /\ pagetable[p].pg = 0 .. RoundUp(sz[p]) - 1
  <2>1. Top(sz[p], job[p]) = RoundUp(sz[p])
    BY <1>2 DEF Top
  <2>. QED BY <1>1, <1>3, <2>1, Zenon DEF OwnOK
<1>. QED BY <1>1, <1>2, <1>4

\* ... and of one that is in a call.
LEMMA BusyIs ==
  ASSUME Inv, NEW p \in Procs, job[p].kind # "none"
  PROVE  /\ ~Kid(p) /\ trapframe[p] /\ pagetable[p].on
         /\ pagetable[p].pg = 0 .. Top(sz[p], job[p]) - 1
         /\ JobOK(sz[p], job[p])
<1>1. job[p] # NoJob
  BY DEF NoJob
<1>2. ~Kid(p)
  BY <1>1, Unfold, Zenon DEF ProcsOK, KidOK
<1>3. OwnOK(trapframe[p], pagetable[p], sz[p], job[p]) /\ JobOK(sz[p], job[p])
  BY <1>2, Unfold, Zenon DEF ProcsOK
<1>. QED BY <1>1, <1>2, <1>3, Zenon DEF OwnOK

\* The types of what a process has.
LEMMA TypesAt ==
  ASSUME Inv, NEW p \in Procs
  PROVE  /\ trapframe[p] \in BOOLEAN /\ pagetable[p] \in Spaces
         /\ sz[p] \in 0 .. MaxSz /\ sz[p] \in Nat /\ job[p] \in Jobs /\ NoJob \in Jobs
<1>1. trapframe[p] \in BOOLEAN /\ pagetable[p] \in Spaces /\ sz[p] \in 0 .. MaxSz /\ job[p] \in Jobs
  BY Unfold, Zenon
<1>2. sz[p] \in Nat
  <2>1. MaxSz \in Nat
    BY RoundUpFacts, Zenon
  <2>2. PICK s \in 0 .. MaxSz : s = sz[p]
    BY <1>1, Zenon
  <2>3. s \in Nat
    BY <2>1
  <2>. QED BY <2>2, <2>3, Zenon
<1>. QED BY <1>1, <1>2, Zenon DEF Jobs

\* A variable that stays as it is.
LEMMA Keeps ==
  ASSUME NEW v, NEW w, w = v, NEW p
  PROVE  Upd(v, w, p, v[p])
BY Zenon DEF Upd

\* Without a call of exec() a process builds no address space.
LEMMA NoBuilding ==
  ASSUME NEW j, j.kind \notin {"load", "stack"}
  PROVE  Building(j) = 0
BY Zenon DEF Building

\* A turn of uvmalloc()'s loop is at a page of the new size, or at its end.
LEMMA Turn ==
  ASSUME NEW a \in Nat, NEW new \in Nat, a <= RoundUp(new)
  PROVE  /\ a * PGSIZE < new => a + 1 \in Nat /\ a + 1 <= RoundUp(new)
         /\ a * PGSIZE >= new => a = RoundUp(new)
<1>1. PICK r \in Nat : r = RoundUp(new)
  BY RoundUpIs, Zenon
<1>2. a * PGSIZE >= new <=> a >= r
  BY <1>1, RoundUpIs, Zenon
<1>3. a * PGSIZE \in Nat
  BY Numbers
<1>4. a * PGSIZE < new <=> ~(a * PGSIZE >= new)
  BY <1>3
<1>5. a <= r
  BY <1>1, Zenon
<1>6. /\ ~(a >= r) => a + 1 \in Nat /\ a + 1 <= r
      /\ a >= r => a = r
  BY ONLY <1>5, a \in Nat, r \in Nat
<1>. QED BY <1>1, <1>2, <1>4, <1>6, Zenon

\* The page after the ones that are mapped.
LEMMA NextVpn ==
  ASSUME NEW a \in Nat, a + 1 <= MaxVpn
  PROVE  a \in Vpns /\ a \notin 0 .. a - 1 /\ (0 .. a - 1) \cup {a} = 0 .. (a + 1) - 1
BY Numbers DEF Vpns

\* The step of a call that returns keeps the address space.
LEMMA OwnDone ==
  ASSUME NEW sp, NEW s, sp.on, sp.pg = 0 .. RoundUp(s) - 1, NEW tf, tf
  PROVE  OwnOK(tf, sp, s, NoJob) /\ JobOK(s, NoJob)
<1>1. Top(s, NoJob) = RoundUp(s)
  BY DEF Top, NoJob
<1>2. JobOK(s, NoJob)
  BY DEF JobOK, NoJob
<1>. QED BY <1>1, <1>2, Zenon DEF OwnOK

\* What a process without a call of exec() holds.
LEMMA HeldPlain ==
  ASSUME Counting, NEW tf, NEW sp \in Spaces, NEW j, j.kind \notin {"load", "stack"}
  PROVE  /\ HeldBy(tf, sp, j) = Frame(tf) + Count(sp) /\ Frame(tf) \in Nat /\ Count(sp) \in Nat
<1>1. Building(j) = 0
  BY NoBuilding, Zenon
<1>2. PICK f \in Nat, c \in Nat : f = Frame(tf) /\ c = Count(sp)
  <2>1. Frame(tf) \in Nat
    BY DEF Frame
  <2>. QED BY <2>1, CountIs, Zenon
<1>3. f + c + 0 = f + c
  OBVIOUS
<1>. QED BY <1>1, <1>2, <1>3, Zenon DEF HeldBy

\* Pages that move between the free list and the address space of a process ...
Moved(x, sp, j, y, sq, k) ==
  /\ x \in Nat /\ y \in Nat /\ sp \in Spaces /\ sq \in Spaces
  /\ j.kind \notin {"load", "stack"} /\ k.kind \notin {"load", "stack"}
  /\ y + Count(sq) = x + Count(sp)

\* ... keep the total.
LEMMA SameTotal ==
  ASSUME Counting, NEW tf, NEW sp, NEW sq, NEW j, NEW k, NEW x, NEW y,
         Moved(x, sp, j, y, sq, k)
  PROVE  Level(x, tf, sp, j, y, tf, sq, k)
<1>0. /\ x \in Nat /\ y \in Nat /\ sp \in Spaces /\ sq \in Spaces
      /\ j.kind \notin {"load", "stack"} /\ k.kind \notin {"load", "stack"}
      /\ y + Count(sq) = x + Count(sp)
  BY Zenon DEF Moved
<1>1. PICK f \in Nat, c \in Nat, d \in Nat :
        f = Frame(tf) /\ c = Count(sp) /\ d = Count(sq)
  BY <1>0, HeldPlain, Zenon
<1>2. y + d = x + c
  BY <1>0, <1>1, Zenon
<1>3. y + (f + d) = x + (f + c)
  BY ONLY <1>0, <1>2, f \in Nat, c \in Nat, d \in Nat
<1>4. HeldBy(tf, sq, k) = f + d
  BY <1>0, <1>1, HeldPlain, Zenon
<1>5. HeldBy(tf, sp, j) = f + c
  BY <1>0, <1>1, HeldPlain, Zenon
<1>. QED BY <1>3, <1>4, <1>5, Zenon DEF Level

\* Fields of the call of uvmalloc() for sbrk().
LEMMA GrowFields ==
  ASSUME NEW j \in Jobs, j.kind = "grow"
  PROVE  j \in GrowJobs /\ j.base \in Nat /\ j.a \in Nat /\ j.new \in Nat
<1>1. j \in GrowJobs
  BY Kinds
<1>. QED BY <1>1, Zenon DEF GrowJobs

\* sbrk_grow() keeps the invariant: uvmalloc()'s loop starts at the end of the pages.
LEMMA GrowStep ==
  ASSUME Counting, Inv, NEW p \in Procs, sbrk_grow(p)
  PROVE  Inv'
<1>1. User(p) /\ Alive(p) /\ sz[p] > 0
  BY Zenon DEF sbrk_grow, User
<1>2. PICK new \in Sizes : /\ new > sz[p]
                           /\ job' = [job EXCEPT ![p] = [kind |-> "grow", base |-> RoundUp(sz[p]),
                                                         a |-> RoundUp(sz[p]), new |-> new]]
  BY Zenon DEF sbrk_grow
<1>3. free' = free /\ trapframe' = trapframe /\ pagetable' = pagetable /\ sz' = sz /\ pipe' = pipe
      /\ panicked' = panicked
  BY Zenon DEF sbrk_grow, procVars
<1>4. /\ ~Kid(p) /\ job[p] = NoJob /\ job[p].kind # "copy" /\ trapframe[p]
      /\ pagetable[p].on /\ pagetable[p].pg = 0 .. RoundUp(sz[p]) - 1
  BY <1>1, AliveIs, Zenon
<1>5. /\ trapframe[p] \in BOOLEAN /\ pagetable[p] \in Spaces
      /\ sz[p] \in 0 .. MaxSz /\ sz[p] \in Nat
  BY TypesAt, Zenon
<1>6. PICK s \in Nat, r \in Nat : s = sz[p] /\ r = RoundUp(s)
  BY <1>5, RoundUpIs, Zenon
<1>7. new \in Nat /\ new <= MaxSz
  BY VmAssumption, RoundUpFacts DEF MaxSz
<1>. DEFINE j == [kind |-> "grow", base |-> r, a |-> r, new |-> new]
<1>8. j.kind = "grow" /\ j.base = r /\ j.a = r /\ j.new = new
  OBVIOUS
<1>9. j \in Jobs
  BY <1>7, Zenon DEF Jobs, GrowJobs
<1>10. Upd(job, job', p, j)
  BY <1>2, <1>6, Zenon DEF Upd
<1>. HIDE DEF j
<1>11. OwnOK(trapframe[p], pagetable[p], sz[p], j)
  BY <1>4, <1>6, <1>8, Zenon DEF OwnOK, Top
<1>12. GrowOK(s, r, r, new)
  <2>1. s < new
    BY <1>2, <1>6, <1>7
  <2>2. s <= new
    BY <2>1, <1>7
  <2>3. RoundUp(s) <= RoundUp(new)
    BY <2>2, <1>7, RoundUpFacts, Zenon
  <2>4. r <= r
    OBVIOUS
  <2>. QED BY <1>6, <1>7, <2>1, <2>3, <2>4, Zenon DEF GrowOK
<1>13. JobOK(sz[p], j)
  BY <1>1, <1>6, <1>8, <1>12 DEF JobOK
<1>14. HeldBy(trapframe[p], pagetable[p], j) = HeldBy(trapframe[p], pagetable[p], job[p])
  <2>1. Building(j) = 0 /\ Building(job[p]) = 0
    BY <1>4, <1>8, NoBuilding DEF NoJob
  <2>. QED BY <2>1, Zenon DEF HeldBy
<1>15. free \in Nat /\ panicked = FALSE
  BY Unfold, Zenon
<1>16. j.kind # "copy"
  BY <1>8
<1>17. /\ Upd(trapframe, trapframe', p, trapframe[p]) /\ Upd(pagetable, pagetable', p, pagetable[p])
       /\ Upd(sz, sz', p, sz[p])
  BY <1>3, Keeps, Zenon
<1>18. Level(free, trapframe[p], pagetable[p], job[p], free', trapframe[p], pagetable[p], j)
  BY <1>3, <1>14, Zenon DEF Level
<1>. QED BY <1>3, <1>4, <1>5, <1>9, <1>10, <1>11, <1>13, <1>15, <1>16, <1>17, <1>18, One, ZenonT(40)

\* grow_page() keeps it: the next page is mapped, or all of the loop are given back.
LEMMA GrowPageStep ==
  ASSUME Counting, Inv, NEW p \in Procs, grow_page(p)
  PROVE  Inv'
<1>0. job[p].kind = "grow" /\ job[p].a * PGSIZE < job[p].new
  BY Zenon DEF grow_page
<1>1. /\ ~Kid(p) /\ trapframe[p] /\ pagetable[p].on
      /\ pagetable[p].pg = 0 .. Top(sz[p], job[p]) - 1 /\ JobOK(sz[p], job[p])
  BY <1>0, BusyIs
<1>2. /\ trapframe[p] \in BOOLEAN /\ pagetable[p] \in Spaces
      /\ sz[p] \in 0 .. MaxSz /\ sz[p] \in Nat /\ job[p] \in Jobs /\ NoJob \in Jobs
  BY TypesAt, Zenon
<1>3. job[p] \in GrowJobs /\ job[p].base \in Nat /\ job[p].a \in Nat /\ job[p].new \in Nat
  BY <1>0, <1>2, GrowFields, Zenon
<1>4. PICK s \in Nat, base \in Nat, a \in Nat, new \in Nat :
        s = sz[p] /\ base = job[p].base /\ a = job[p].a /\ new = job[p].new
  BY <1>2, <1>3, Zenon
<1>5. GrowOK(s, base, a, new) /\ s > 0 /\ a * PGSIZE < new
  BY <1>0, <1>1, <1>4, Zenon DEF JobOK
<1>6. /\ base = RoundUp(s) /\ base <= a /\ a <= RoundUp(new) /\ s < new /\ new <= MaxSz
  BY <1>5, Zenon DEF GrowOK
<1>7. a + 1 \in Nat /\ a + 1 <= RoundUp(new)
  BY <1>5, <1>6, Turn, Zenon
<1>8. GrowOK(s, base, a + 1, new)
  <2>1. base <= a + 1
    BY <1>6
  <2>. QED BY <1>6, <1>7, <2>1, Zenon DEF GrowOK
<1>9. a \in Vpns /\ a \notin 0 .. a - 1 /\ (0 .. a - 1) \cup {a} = 0 .. (a + 1) - 1
  <2>1. RoundUp(new) \in Nat /\ RoundUp(new) <= MaxVpn
    <3>1. new \in 0 .. MaxSz
      BY <1>6, RoundUpFacts
    <3>. QED BY <3>1, RoundUpFacts, RoundUpIs, Zenon
  <2>2. a + 1 <= MaxVpn
    BY <1>7, <2>1, Numbers
  <2>. QED BY <2>2, NextVpn, Zenon
<1>10. pagetable[p].pg = 0 .. a - 1
  BY <1>0, <1>1, <1>4 DEF Top
<1>11. free \in Nat /\ panicked = FALSE
  BY Unfold, Zenon
<1>12. PICK m : m = MapPage(free, pagetable[p], a)
  OBVIOUS
<1>13. PICK u : u = uvmunmap(m.free, m.as, base, a)
  OBVIOUS
<1>14. Mapped(free, pagetable[p], a, m)
  <2>1. MapsTo(free, pagetable[p], a, m)
    BY <1>2, <1>9, <1>10, <1>11, <1>12, Zenon DEF MapsTo
  <2>. QED BY <2>1, MapPageIs, Zenon
<1>15. /\ IF m.ok
          THEN /\ free' = m.free /\ pagetable' = [pagetable EXCEPT ![p] = m.as]
               /\ job' = [job EXCEPT ![p].a = @ + 1] /\ Panic(m.bad)
          ELSE /\ free' = u.free /\ pagetable' = [pagetable EXCEPT ![p] = u.as]
               /\ Return(p) /\ Panic(u.bad)
       /\ trapframe' = trapframe /\ sz' = sz /\ pipe' = pipe
  BY <1>4, <1>12, <1>13, Zenon DEF grow_page
<1>16. Upd(trapframe, trapframe', p, trapframe[p]) /\ Upd(sz, sz', p, sz[p])
  BY <1>15, Keeps, Zenon
<1>17. job[p].kind # "copy" /\ job[p].kind \notin {"load", "stack"}
  BY <1>0
<1>18. CASE m.ok
  <2>1. m.free \in Nat /\ m.as \in Spaces /\ ~m.bad /\ m.as.on = pagetable[p].on
        /\ m.free + Count(m.as) = free + Count(pagetable[p])
        /\ m.as.pg = pagetable[p].pg \cup {a}
    BY <1>14, <1>18 DEF Mapped
  <2>2. m.as.on /\ m.as.pg = 0 .. (a + 1) - 1
    BY <1>1, <1>9, <1>10, <2>1, Zenon
  <2>. DEFINE j == [job[p] EXCEPT !.a = a + 1]
  <2>3. j \in GrowJobs /\ j.kind = "grow" /\ j.base = base /\ j.a = a + 1 /\ j.new = new
    BY <1>3, <1>4, <1>7, <1>0, Zenon DEF GrowJobs
  <2>4. Upd(job, job', p, j)
    BY <1>2, <1>4, <1>15, <1>18, Zenon DEF Upd
  <2>. HIDE DEF j
  <2>5. j \in Jobs /\ j.kind # "copy" /\ j.kind \notin {"load", "stack"}
    BY <2>3 DEF Jobs
  <2>6. OwnOK(trapframe[p], m.as, sz[p], j)
    <3>1. Top(sz[p], j) = a + 1
      BY <2>3, Zenon DEF Top
    <3>. QED BY <1>1, <2>2, <3>1, Zenon DEF OwnOK
  <2>7. JobOK(sz[p], j)
    BY <1>4, <1>5, <1>8, <2>3, Zenon DEF JobOK
  <2>8. Upd(pagetable, pagetable', p, m.as) /\ free' = m.free
    BY <1>15, <1>18, Zenon DEF Upd
  <2>9. panicked' = FALSE
    BY <1>11, <1>15, <1>18, <2>1, Zenon DEF Panic
  <2>10. Level(free, trapframe[p], pagetable[p], job[p], free', trapframe[p], m.as, j)
    <3>1. Moved(free, pagetable[p], job[p], free', m.as, j)
      BY <1>2, <1>11, <1>17, <2>1, <2>5, <2>8, Zenon DEF Moved
    <3>. QED BY <3>1, SameTotal, Zenon
  <2>. QED BY <1>1, <1>2, <1>15, <1>16, <1>17, <2>1, <2>4, <2>5, <2>6, <2>7, <2>8, <2>9, <2>10,
              One, ZenonT(40)
<1>19. CASE ~m.ok
  <2>1. m.as = pagetable[p] /\ m.free = free
    BY <1>14, <1>19, Zenon DEF Mapped
  <2>2. Unmapped(free, pagetable[p], base, u)
    <3>1. UnmapsTo(free, pagetable[p], base, a, u)
      BY <1>2, <1>6, <1>10, <1>11, <1>13, <2>1, Zenon DEF UnmapsTo
    <3>. QED BY <3>1, UnmapIs, Zenon
  <2>3. /\ u.free \in Nat /\ u.as \in Spaces /\ ~u.bad
        /\ u.free + Count(u.as) = free + Count(pagetable[p])
        /\ u.as.on = pagetable[p].on /\ u.as.pg = 0 .. base - 1
    BY <2>2, Zenon DEF Unmapped
  <2>4. u.as.on /\ u.as.pg = 0 .. RoundUp(sz[p]) - 1
    BY <1>1, <1>4, <1>6, <2>3, Zenon
  <2>5. OwnOK(trapframe[p], u.as, sz[p], NoJob) /\ JobOK(sz[p], NoJob)
    BY <1>1, <2>4, OwnDone, Zenon
  <2>6. Upd(pagetable, pagetable', p, u.as) /\ free' = u.free /\ Upd(job, job', p, NoJob)
    BY <1>15, <1>19, Zenon DEF Upd, Return
  <2>7. panicked' = FALSE
    BY <1>11, <1>15, <1>19, <2>3, Zenon DEF Panic
  <2>8. NoJob.kind # "copy" /\ NoJob.kind \notin {"load", "stack"}
    BY DEF NoJob
  <2>9. Level(free, trapframe[p], pagetable[p], job[p], free', trapframe[p], u.as, NoJob)
    <3>1. Moved(free, pagetable[p], job[p], free', u.as, NoJob)
      BY <1>2, <1>11, <1>17, <2>3, <2>6, <2>8, Zenon DEF Moved
    <3>. QED BY <3>1, SameTotal, Zenon
  <2>. QED BY <1>1, <1>2, <1>15, <1>16, <1>17, <2>3, <2>5, <2>6, <2>7, <2>8, <2>9, One, ZenonT(40)
<1>. QED BY <1>18, <1>19, Zenon

\* grow_done() keeps it: the loop has mapped all pages of the new size.
LEMMA GrowDoneStep ==
  ASSUME Counting, Inv, NEW p \in Procs, grow_done(p)
  PROVE  Inv'
<1>0. job[p].kind = "grow" /\ job[p].a * PGSIZE >= job[p].new
  BY Zenon DEF grow_done
<1>1. /\ ~Kid(p) /\ trapframe[p] /\ pagetable[p].on
      /\ pagetable[p].pg = 0 .. Top(sz[p], job[p]) - 1 /\ JobOK(sz[p], job[p])
  BY <1>0, BusyIs
<1>2. /\ trapframe[p] \in BOOLEAN /\ pagetable[p] \in Spaces
      /\ sz[p] \in Nat /\ job[p] \in Jobs /\ NoJob \in Jobs
  BY TypesAt, Zenon
<1>3. job[p].base \in Nat /\ job[p].a \in Nat /\ job[p].new \in Nat
  BY <1>0, <1>2, GrowFields, Zenon
<1>4. PICK s \in Nat, base \in Nat, a \in Nat, new \in Nat :
        s = sz[p] /\ base = job[p].base /\ a = job[p].a /\ new = job[p].new
  BY <1>2, <1>3, Zenon
<1>5. GrowOK(s, base, a, new) /\ a * PGSIZE >= new
  BY <1>0, <1>1, <1>4, Zenon DEF JobOK
<1>6. a <= RoundUp(new) /\ new <= MaxSz
  BY <1>5, Zenon DEF GrowOK
<1>7. a = RoundUp(new)
  BY <1>5, <1>6, Turn, Zenon
<1>8. new \in 0 .. MaxSz
  BY <1>6, RoundUpFacts
<1>9. pagetable[p].pg = 0 .. RoundUp(new) - 1
  BY <1>0, <1>1, <1>4, <1>7 DEF Top
<1>10. /\ sz' = [sz EXCEPT ![p] = new] /\ job' = [job EXCEPT ![p] = NoJob]
       /\ free' = free /\ trapframe' = trapframe /\ pagetable' = pagetable /\ pipe' = pipe
       /\ panicked' = panicked
  BY <1>4, Zenon DEF grow_done, Return
<1>11. free \in Nat /\ panicked = FALSE
  BY Unfold, Zenon
<1>12. OwnOK(trapframe[p], pagetable[p], new, NoJob) /\ JobOK(new, NoJob)
  BY <1>1, <1>9, OwnDone, Zenon
<1>13. /\ Upd(trapframe, trapframe', p, trapframe[p]) /\ Upd(pagetable, pagetable', p, pagetable[p])
       /\ Upd(sz, sz', p, new) /\ Upd(job, job', p, NoJob)
  BY <1>10, Zenon DEF Upd
<1>14. job[p].kind # "copy" /\ job[p].kind \notin {"load", "stack"}
       /\ NoJob.kind # "copy" /\ NoJob.kind \notin {"load", "stack"}
  BY <1>0 DEF NoJob
<1>15. Level(free, trapframe[p], pagetable[p], job[p], free', trapframe[p], pagetable[p], NoJob)
  <2>1. Moved(free, pagetable[p], job[p], free', pagetable[p], NoJob)
    BY <1>2, <1>10, <1>11, <1>14, Zenon DEF Moved
  <2>. QED BY <2>1, SameTotal, Zenon
<1>. QED BY <1>1, <1>2, <1>8, <1>10, <1>11, <1>12, <1>13, <1>14, <1>15, One, ZenonT(40)

\* The size after sbrk() of -n: smaller, or one that uvmdealloc() ignores.
LEMMA Shrunk ==
  ASSUME NEW s \in 0 .. MaxSz, NEW n \in 1 .. MaxSz, NEW new, new = (s - n) % UintMod
  PROVE  new \in Nat /\ (new < s => new \in 0 .. MaxSz)
<1>1. MaxSz \in Nat /\ UintMod \in Nat /\ UintMod > 0
  <2>1. MaxSz \in Nat
    BY RoundUpFacts, Zenon
  <2>2. 2 * MaxVpn * PGSIZE = 2 * MaxSz
    BY Numbers DEF MaxSz
  <2>. QED BY <2>1, <2>2, Numbers
<1>2. new \in Nat
  BY <1>1
<1>. QED BY <1>1, <1>2

\* sbrk_shrink() keeps it, also when the size wraps around or stays in its page.
LEMMA ShrinkStep ==
  ASSUME Counting, Inv, NEW p \in Procs, sbrk_shrink(p)
  PROVE  Inv'
<1>0. Alive(p) /\ sz[p] > 0
  BY Zenon DEF sbrk_shrink, User
<1>1. /\ ~Kid(p) /\ job[p] = NoJob /\ job[p].kind # "copy" /\ trapframe[p]
      /\ pagetable[p].on /\ pagetable[p].pg = 0 .. RoundUp(sz[p]) - 1
  BY <1>0, AliveIs, Zenon
<1>2. /\ trapframe[p] \in BOOLEAN /\ pagetable[p] \in Spaces
      /\ sz[p] \in 0 .. MaxSz /\ sz[p] \in Nat /\ job[p] \in Jobs /\ NoJob \in Jobs
  BY TypesAt, Zenon
<1>3. PICK n \in 1 .. MaxVpn * PGSIZE :
        LET new == (sz[p] - n) % UintMod
            u == uvmunmap(free, pagetable[p], RoundUp(new), RoundUp(sz[p]))
        IN IF new >= sz[p] THEN UNCHANGED <<free, pagetable, sz, panicked>>
           ELSE /\ sz' = [sz EXCEPT ![p] = new]
                /\ IF RoundUp(new) < RoundUp(sz[p])
                   THEN /\ free' = u.free /\ pagetable' = [pagetable EXCEPT ![p] = u.as]
                        /\ Panic(u.bad)
                   ELSE UNCHANGED <<free, pagetable, panicked>>
  BY Zenon DEF sbrk_shrink
<1>4. PICK s \in 0 .. MaxSz : s = sz[p]
  BY <1>2, Zenon
<1>5. PICK new : s = sz[p] /\ new = (s - n) % UintMod
  BY <1>4, Zenon
<1>6. new \in Nat /\ (new < s => new \in 0 .. MaxSz) /\ s \in Nat
  BY <1>2, <1>5, Shrunk, Zenon DEF MaxSz
<1>7. PICK r \in Nat, t \in Nat : r = RoundUp(new) /\ t = RoundUp(s)
  BY <1>6, RoundUpIs, Zenon
<1>8. PICK u : u = uvmunmap(free, pagetable[p], r, t)
  OBVIOUS
<1>9. IF new >= s THEN free' = free /\ pagetable' = pagetable /\ sz' = sz /\ panicked' = panicked
      ELSE /\ sz' = [sz EXCEPT ![p] = new]
           /\ IF r < t
              THEN /\ free' = u.free /\ pagetable' = [pagetable EXCEPT ![p] = u.as]
                   /\ Panic(u.bad)
              ELSE free' = free /\ pagetable' = pagetable /\ panicked' = panicked
  BY <1>3, <1>5, <1>7, <1>8, Zenon
<1>10. trapframe' = trapframe /\ job' = job /\ pipe' = pipe
  BY Zenon DEF sbrk_shrink
<1>11. free \in Nat /\ panicked = FALSE
  BY Unfold, Zenon
<1>12. /\ Upd(trapframe, trapframe', p, trapframe[p]) /\ Upd(job, job', p, NoJob)
  BY <1>1, <1>10, Zenon DEF Upd
<1>13. NoJob.kind # "copy" /\ NoJob.kind \notin {"load", "stack"}
  BY DEF NoJob
<1>14. CASE ~(new < s /\ r < t)
  <2>1. PICK z \in 0 .. MaxSz : Upd(sz, sz', p, z) /\ RoundUp(z) = t
    <3>1. CASE new >= s
      <4>1. Upd(sz, sz', p, s)
        BY <1>5, <1>9, <3>1, Zenon DEF Upd
      <4>. QED BY <1>7, <4>1, Zenon
    <3>2. CASE new < s
      <4>1. Upd(sz, sz', p, new)
        <5>1. ~(new >= s)
          BY <1>6, <3>2
        <5>. QED BY <1>9, <5>1, Zenon DEF Upd
      <4>2. r <= t
        <5>1. new <= s
          BY <1>6, <3>2
        <5>. QED BY <1>6, <1>7, <5>1, RoundUpFacts, Zenon
      <4>3. r = t
        BY <1>14, <3>2, <4>2
      <4>. QED BY <1>6, <1>7, <3>2, <4>1, <4>3, Zenon
    <3>. QED BY <1>6, <3>1, <3>2
  <2>2. free' = free /\ pagetable' = pagetable /\ panicked' = panicked
    <3>1. CASE new >= s
      BY <1>9, <3>1, Zenon
    <3>2. CASE ~(new >= s)
      <4>1. new < s
        BY <1>6, <3>2
      <4>. QED BY <1>9, <1>14, <3>2, <4>1, Zenon
    <3>. QED BY <3>1, <3>2, Zenon
  <2>3. pagetable[p].pg = 0 .. RoundUp(z) - 1
    BY <1>1, <1>5, <1>7, <2>1, Zenon
  <2>4. OwnOK(trapframe[p], pagetable[p], z, NoJob) /\ JobOK(z, NoJob)
    BY <1>1, <2>3, OwnDone, Zenon
  <2>5. Upd(pagetable, pagetable', p, pagetable[p])
    BY <2>2, Keeps, Zenon
  <2>6. Level(free, trapframe[p], pagetable[p], job[p], free', trapframe[p], pagetable[p], NoJob)
    BY <1>1, <2>2, Zenon DEF Level
  <2>. QED BY <1>1, <1>2, <1>10, <1>11, <1>12, <1>13, <2>1, <2>2, <2>4, <2>5, <2>6, One, ZenonT(40)
<1>15. CASE new < s /\ r < t
  <2>1. ~(new >= s) /\ r <= t
    BY <1>6, <1>15
  <2>2. /\ sz' = [sz EXCEPT ![p] = new] /\ free' = u.free
        /\ pagetable' = [pagetable EXCEPT ![p] = u.as] /\ Panic(u.bad)
    BY <1>9, <1>15, <2>1, Zenon
  <2>3. Unmapped(free, pagetable[p], r, u)
    <3>1. UnmapsTo(free, pagetable[p], r, t, u)
      BY <1>1, <1>2, <1>5, <1>7, <1>8, <1>11, <2>1, Zenon DEF UnmapsTo
    <3>. QED BY <3>1, UnmapIs, Zenon
  <2>4. /\ u.free \in Nat /\ u.as \in Spaces /\ ~u.bad
        /\ u.free + Count(u.as) = free + Count(pagetable[p])
        /\ u.as.on = pagetable[p].on /\ u.as.pg = 0 .. r - 1
    BY <2>3, Zenon DEF Unmapped
  <2>5. u.as.on /\ u.as.pg = 0 .. RoundUp(new) - 1
    BY <1>1, <1>7, <2>4, Zenon
  <2>6. OwnOK(trapframe[p], u.as, new, NoJob) /\ JobOK(new, NoJob)
    BY <1>1, <2>5, OwnDone, Zenon
  <2>7. Upd(pagetable, pagetable', p, u.as) /\ Upd(sz, sz', p, new)
    BY <2>2, Zenon DEF Upd
  <2>8. panicked' = FALSE
    BY <1>11, <2>2, <2>4, Zenon DEF Panic
  <2>9. Level(free, trapframe[p], pagetable[p], job[p], free', trapframe[p], u.as, NoJob)
    <3>1. Moved(free, pagetable[p], job[p], free', u.as, NoJob)
      BY <1>1, <1>2, <1>11, <1>13, <2>2, <2>4, Zenon DEF Moved
    <3>. QED BY <3>1, SameTotal, Zenon
  <2>10. new \in 0 .. MaxSz
    BY <1>6, <1>15, Zenon
  <2>. QED BY <1>1, <1>2, <1>10, <1>12, <1>13, <2>2, <2>4, <2>6, <2>7, <2>8, <2>9, <2>10, One,
              ZenonT(40)
<1>. QED BY <1>14, <1>15, Zenon

\* No address space holds no page.
LEMMA NoSpaceIs ==
  ASSUME Counting
  PROVE  NoSpace \in Spaces /\ Count(NoSpace) = 0 /\ Building(NoJob) = 0
<1>1. NoSpace \in Spaces
  BY Zenon DEF NoSpace, Spaces
<1>2. NoSpace.on = FALSE /\ NoSpace.tab = {} /\ NoSpace.pg = {}
  BY DEF NoSpace
<1>3. Cardinality({}) = 0
  BY Zenon DEF Counting
<1>4. Count(NoSpace) = 0
  BY <1>2, <1>3 DEF Count
<1>5. NoJob.kind \notin {"load", "stack"}
  BY DEF NoJob
<1>. QED BY <1>1, <1>4, <1>5, NoBuilding, Zenon

\* Freeing a process gives back its trapframe and its address space.
LEMMA Released ==
  ASSUME Counting, NEW x \in Nat, NEW tf, tf, NEW sp \in Spaces, NEW y, y = x + 1 + Count(sp)
  PROVE  Level(x, tf, sp, NoJob, y, FALSE, NoSpace, NoJob)
<1>1. Frame(tf) = 1 /\ Frame(FALSE) = 0
  BY Zenon DEF Frame
<1>2. PICK c \in Nat : c = Count(sp)
  BY CountIs, Zenon
<1>3. HeldBy(tf, sp, NoJob) = 1 + c + 0 /\ HeldBy(FALSE, NoSpace, NoJob) = 0 + 0 + 0
  BY <1>1, <1>2, NoSpaceIs, Zenon DEF HeldBy
<1>4. y = x + 1 + c
  BY <1>2, Zenon
<1>5. y + (0 + 0 + 0) = x + (1 + c + 0)
  BY <1>4, <1>2
<1>. QED BY <1>3, <1>5, Zenon DEF Level

\* freeproc() keeps it: the slot has no page left.
LEMMA FreeprocStep ==
  ASSUME Counting, Inv, NEW p \in Procs, freeproc(p)
  PROVE  Inv'
<1>0. Alive(p)
  BY Zenon DEF freeproc
<1>1. /\ ~Kid(p) /\ job[p] = NoJob /\ job[p].kind # "copy" /\ trapframe[p]
      /\ pagetable[p].on /\ pagetable[p].pg = 0 .. RoundUp(sz[p]) - 1
  BY <1>0, AliveIs, Zenon
<1>2. pagetable[p] \in Spaces /\ sz[p] \in Nat /\ NoJob \in Jobs
  BY TypesAt, Zenon
<1>3. free \in Nat /\ panicked = FALSE
  BY Unfold, Zenon
<1>4. PICK x \in Nat : x = free + 1
  BY <1>3
<1>5. PICK f : f = proc_freepagetable(x, pagetable[p], sz[p])
  OBVIOUS
<1>6. /\ free' = f.free /\ Panic(f.bad)
      /\ trapframe' = [trapframe EXCEPT ![p] = FALSE]
      /\ pagetable' = [pagetable EXCEPT ![p] = NoSpace]
      /\ sz' = [sz EXCEPT ![p] = 0] /\ job' = job /\ pipe' = pipe
  BY <1>4, <1>5, Zenon DEF freeproc
<1>7. f.free \in Nat /\ f.free = x + Count(pagetable[p]) /\ ~f.bad
  <2>1. FreesTo(x, pagetable[p], sz[p], f)
    BY <1>1, <1>2, <1>5, Zenon DEF FreesTo
  <2>. QED BY <2>1, FreeIs, Zenon DEF Freed
<1>8. free' = free + 1 + Count(pagetable[p])
  BY <1>4, <1>6, <1>7, Zenon
<1>9. Level(free, trapframe[p], pagetable[p], job[p], free', FALSE, NoSpace, NoJob)
  BY <1>1, <1>2, <1>3, <1>8, Released, Zenon
<1>10. panicked' = FALSE
  BY <1>3, <1>6, <1>7, Zenon DEF Panic
<1>11. /\ Upd(trapframe, trapframe', p, FALSE) /\ Upd(pagetable, pagetable', p, NoSpace)
       /\ Upd(sz, sz', p, 0) /\ Upd(job, job', p, NoJob)
  BY <1>1, <1>6, Zenon DEF Upd
<1>12. OwnOK(FALSE, NoSpace, 0, NoJob)
  BY Zenon DEF OwnOK
<1>13. JobOK(0, NoJob) /\ NoJob.kind # "copy"
  BY DEF JobOK, NoJob
<1>14. 0 \in 0 .. MaxSz /\ FALSE \in BOOLEAN
  BY RoundUpFacts
<1>. QED BY <1>1, <1>2, <1>6, <1>7, <1>9, <1>10, <1>11, <1>12, <1>13, <1>14, NoSpaceIs, One,
            ZenonT(40)

-----------------------------------------------------------------------------
(* exec *)

\* The free pages and those of the address space that a process is building.
Built(x, j, y, k) ==
  x \in Nat /\ y \in Nat /\ j \in Jobs /\ k \in Jobs /\ y + Building(k) = x + Building(j)

\* A step of exec() that keeps them keeps the total.
LEMMA SameBuilt ==
  ASSUME Counting, NEW tf \in BOOLEAN, NEW sp \in Spaces, NEW x, NEW j, NEW y, NEW k,
         Built(x, j, y, k)
  PROVE  Level(x, tf, sp, j, y, tf, sp, k)
<1>1. x \in Nat /\ y \in Nat /\ j \in Jobs /\ k \in Jobs /\ y + Building(k) = x + Building(j)
  BY Zenon DEF Built
<1>2. PICK f \in Nat, c \in Nat, b \in Nat, d \in Nat :
        f = Frame(tf) /\ c = Count(sp) /\ b = Building(j) /\ d = Building(k)
  BY <1>1, HeldNat, Zenon
<1>3. y + d = x + b
  BY <1>1, <1>2, Zenon
<1>4. x \in Nat /\ y \in Nat
  BY <1>1, Zenon
<1>5. y + (f + c + d) = x + (f + c + b)
  BY ONLY <1>3, <1>4, f \in Nat, c \in Nat, b \in Nat, d \in Nat
<1>. QED BY <1>2, <1>5, Zenon DEF Level, HeldBy

\* A step of a process p that only changes its call, to another step of exec().
LEMMA ExecOne ==
  ASSUME Counting, Inv, NEW p \in Procs, ~Kid(p), trapframe[p], pagetable[p].on,
         pagetable[p].pg = 0 .. RoundUp(sz[p]) - 1, job[p].kind # "copy",
         NEW j \in Jobs, j.kind \notin {"copy", "grow"}, JobOK(sz[p], j),
         Upd(job, job', p, j), trapframe' = trapframe, pagetable' = pagetable, sz' = sz,
         free' \in Nat, pipe' = pipe, panicked' = FALSE, Built(free, job[p], free', j)
  PROVE  Inv'
<1>1. /\ trapframe[p] \in BOOLEAN /\ pagetable[p] \in Spaces /\ sz[p] \in 0 .. MaxSz
  BY TypesAt, Zenon
<1>2. Top(sz[p], j) = RoundUp(sz[p]) /\ j.kind # "copy"
  BY Zenon DEF Top
<1>3. OwnOK(trapframe[p], pagetable[p], sz[p], j)
  BY <1>2, Zenon DEF OwnOK
<1>4. Level(free, trapframe[p], pagetable[p], job[p], free', trapframe[p], pagetable[p], j)
  BY <1>1, SameBuilt, Zenon
<1>5. /\ Upd(trapframe, trapframe', p, trapframe[p]) /\ Upd(pagetable, pagetable', p, pagetable[p])
      /\ Upd(sz, sz', p, sz[p])
  BY Keeps, Zenon
<1>. QED BY <1>1, <1>2, <1>3, <1>4, <1>5, One, ZenonT(40)

\* exec() keeps it: the new address space is empty, or there is none.
LEMMA ExecStep ==
  ASSUME Counting, Inv, NEW p \in Procs, exec(p)
  PROVE  Inv'
<1>0. Alive(p) /\ sz[p] > 0
  BY Zenon DEF exec, User
<1>1. /\ ~Kid(p) /\ job[p] = NoJob /\ job[p].kind # "copy" /\ trapframe[p]
      /\ pagetable[p].on /\ pagetable[p].pg = 0 .. RoundUp(sz[p]) - 1
  BY <1>0, AliveIs, Zenon
<1>2. free \in Nat /\ panicked = FALSE /\ free \in Int /\ free >= -1
  BY Unfold
<1>3. PICK pt : pt = proc_pagetable(free)
  OBVIOUS
<1>. DEFINE k == [kind |-> "load", as |-> pt.as, n |-> 0, a |-> 0, base |-> 0, new |-> 0]
<1>4. /\ free' = pt.free /\ job' = [job EXCEPT ![p] = IF ~pt.ok THEN NoJob ELSE k]
      /\ trapframe' = trapframe /\ pagetable' = pagetable /\ sz' = sz /\ pipe' = pipe
      /\ panicked' = panicked
  BY <1>3, Zenon DEF exec, procVars
<1>5. /\ pt.ok => /\ pt.free \in Nat /\ pt.free + 2 = free /\ Count(pt.as) = 2
                  /\ pt.as \in Spaces /\ pt.as.on = TRUE /\ pt.as.pg = {}
      /\ ~pt.ok => pt.free = free
  BY <1>2, <1>3, PagetableIs, Zenon
<1>6. NoJob \in Jobs
  BY TypesAt, Zenon
<1>7. CASE ~pt.ok
  <2>1. free' = free /\ Upd(job, job', p, NoJob)
    BY <1>4, <1>5, <1>7, Zenon DEF Upd
  <2>2. Built(free, job[p], free', NoJob)
    BY <1>1, <1>2, <1>6, <2>1, Zenon DEF Built
  <2>3. JobOK(sz[p], NoJob) /\ NoJob.kind \notin {"copy", "grow"}
    BY Zenon DEF JobOK, NoJob
  <2>. QED BY <1>1, <1>2, <1>4, <1>6, <2>1, <2>2, <2>3, ExecOne, ZenonT(40)
<1>8. CASE pt.ok
  <2>1. pt.as \in Spaces /\ pt.as.on /\ pt.as.pg = {} /\ free' \in Nat /\ free' + 2 = free
        /\ Count(pt.as) = 2
    BY <1>4, <1>5, <1>8, Zenon
  <2>2. k \in Jobs
    <3>1. k \in LoadJobs
      BY <2>1, Zenon DEF LoadJobs
    <3>. QED BY <3>1, Zenon DEF Jobs
  <2>3. k.kind = "load" /\ k.as = pt.as /\ k.n = 0 /\ k.a = 0 /\ k.base = 0 /\ k.new = 0
    OBVIOUS
  <2>4. Upd(job, job', p, k)
    BY <1>4, <1>8, Zenon DEF Upd
  <2>. HIDE DEF k
  <2>5. JobOK(sz[p], k)
    <3>1. LoadOK(pt.as.pg, 0, 0, 0, 0)
      <4>1. {} = 0 .. 0 - 1 /\ 0 <= 0
        OBVIOUS
      <4>. QED BY <2>1, <4>1, RoundUpFacts, Zenon DEF LoadOK
    <3>2. RoundUp(0) + 2 <= MaxVpn
      <4>1. 0 + 2 <= MaxVpn
        BY Numbers
      <4>. QED BY <4>1, RoundUpFacts, Zenon
    <3>. QED BY <1>0, <2>1, <2>3, <3>1, <3>2, Zenon DEF JobOK
  <2>6. Built(free, job[p], free', k)
    <3>1. Building(k) = 2 /\ Building(job[p]) = 0
      BY <1>1, <2>1, <2>3, NoSpaceIs, Zenon DEF Building
    <3>2. free' + 2 = free + 0
      <4>1. free = free + 0
        BY <1>2
      <4>. QED BY <2>1, <4>1, Zenon
    <3>. QED BY <1>1, <1>2, <1>6, <2>1, <2>2, <3>1, <3>2, Zenon DEF Built
  <2>7. k.kind \notin {"copy", "grow"}
    BY <2>3, Zenon
  <2>. QED BY <1>1, <1>2, <1>4, <2>1, <2>2, <2>4, <2>5, <2>6, <2>7, ExecOne, ZenonT(40)
<1>. QED BY <1>7, <1>8, Zenon

\* The numbers of a call of exec().
LoadFits(n, base, a, new) ==
  n \in Nat /\ base \in Nat /\ a \in Nat /\ new \in Nat /\ RoundUp(new) <= MaxVpn

\* A process in exec(): its old address space, and the new one.
LEMMA LoadingIs ==
  ASSUME Inv, NEW p \in Procs, Loading(p)
  PROVE  /\ ~Kid(p) /\ trapframe[p] /\ pagetable[p].on /\ sz[p] > 0
         /\ pagetable[p].pg = 0 .. RoundUp(sz[p]) - 1
         /\ job[p].kind \notin {"copy", "grow"} /\ job[p].kind # "copy"
         /\ job[p].kind \in {"load", "stack"} /\ Building(job[p]) = Count(job[p].as)
         /\ job[p] \in LoadJobs /\ job[p] \in Jobs /\ job[p].as \in Spaces /\ job[p].as.on
         /\ LoadOK(job[p].as.pg, job[p].n, job[p].base, job[p].a, job[p].new)
         /\ LoadFits(job[p].n, job[p].base, job[p].a, job[p].new)
         /\ job[p].kind = "load" => RoundUp(job[p].new) + 2 <= MaxVpn
         /\ job[p].kind = "stack" =>
              job[p].new = (job[p].base + 2) * PGSIZE /\ job[p].base + 2 <= MaxVpn
<1>1. job[p].kind \in {"load", "stack"}
  BY Zenon DEF Loading
<1>2. job[p].kind \notin {"copy", "grow"} /\ job[p].kind # "copy" /\ job[p].kind # "none"
  BY <1>1, Zenon
<1>3. /\ ~Kid(p) /\ trapframe[p] /\ pagetable[p].on
      /\ pagetable[p].pg = 0 .. Top(sz[p], job[p]) - 1 /\ JobOK(sz[p], job[p])
  BY <1>2, BusyIs
<1>4. Top(sz[p], job[p]) = RoundUp(sz[p])
  BY <1>2 DEF Top
<1>5. /\ sz[p] > 0 /\ job[p].as.on
      /\ LoadOK(job[p].as.pg, job[p].n, job[p].base, job[p].a, job[p].new)
      /\ job[p].kind = "load" => RoundUp(job[p].new) + 2 <= MaxVpn
      /\ job[p].kind = "stack" =>
           job[p].new = (job[p].base + 2) * PGSIZE /\ job[p].base + 2 <= MaxVpn
  BY <1>1, <1>2, <1>3, Zenon DEF JobOK
<1>6. job[p] \in Jobs
  BY TypesAt, Zenon
<1>7. job[p] \in LoadJobs /\ job[p].as \in Spaces
  BY <1>1, <1>6, LoadSpace, Zenon
<1>8. job[p].n \in Nat /\ job[p].base \in Nat /\ job[p].a \in Nat /\ job[p].new \in Nat
  BY <1>7 DEF LoadJobs
<1>9. LoadFits(job[p].n, job[p].base, job[p].a, job[p].new)
  <2>1. PICK base \in Nat, new \in Nat, r \in Nat :
          base = job[p].base /\ new = job[p].new /\ r = RoundUp(new)
    BY <1>8, RoundUpIs, Zenon
  <2>2. \/ r + 2 <= MaxVpn
        \/ new = (base + 2) * PGSIZE /\ base + 2 <= MaxVpn
    BY <1>1, <1>5, <2>1
  <2>3. r <= MaxVpn
    <3>1. CASE r + 2 <= MaxVpn
      BY <3>1, Numbers
    <3>2. CASE new = (base + 2) * PGSIZE /\ base + 2 <= MaxVpn
      <4>1. PICK k \in Nat : k = base + 2
        OBVIOUS
      <4>. QED BY <2>1, <3>2, <4>1, RoundUpFacts, Zenon
    <3>. QED BY <2>2, <3>1, <3>2, Zenon
  <2>. QED BY <1>8, <2>1, <2>3, Zenon DEF LoadFits
<1>10. Building(job[p]) = Count(job[p].as)
  BY <1>1, Zenon DEF Building
<1>. QED BY <1>1, <1>2, <1>3, <1>4, <1>5, <1>6, <1>7, <1>9, <1>10, Zenon

\* exec_segment() keeps it: the size so far is what "bad:" would free.
LEMMA ExecSegmentStep ==
  ASSUME Counting, Inv, NEW p \in Procs, exec_segment(p)
  PROVE  Inv'
<1>0. Loading(p) /\ job[p].kind = "load" /\ job[p].a * PGSIZE >= job[p].new
  BY Zenon DEF exec_segment, Loaded
<1>1. /\ ~Kid(p) /\ trapframe[p] /\ pagetable[p].on /\ sz[p] > 0
      /\ pagetable[p].pg = 0 .. RoundUp(sz[p]) - 1 /\ job[p].kind # "copy"
      /\ job[p] \in LoadJobs /\ job[p] \in Jobs /\ job[p].as \in Spaces /\ job[p].as.on
      /\ Building(job[p]) = Count(job[p].as)
      /\ LoadOK(job[p].as.pg, job[p].n, job[p].base, job[p].a, job[p].new)
      /\ LoadFits(job[p].n, job[p].base, job[p].a, job[p].new)
  BY <1>0, LoadingIs, Zenon
<1>2. PICK end \in Sizes :
        /\ end > job[p].new /\ RoundUp(end) + 2 <= MaxVpn
        /\ job' = [job EXCEPT ![p].n = job[p].new, ![p].base = RoundUp(job[p].new),
                              ![p].a = RoundUp(job[p].new), ![p].new = end]
  BY Zenon DEF exec_segment
<1>3. /\ free' = free /\ trapframe' = trapframe /\ pagetable' = pagetable /\ sz' = sz
      /\ pipe' = pipe /\ panicked' = panicked
  BY Zenon DEF exec_segment, procVars
<1>4. PICK n \in Nat, base \in Nat, a \in Nat, new \in Nat, r \in Nat :
        /\ n = job[p].n /\ base = job[p].base /\ a = job[p].a /\ new = job[p].new
        /\ r = RoundUp(new)
  BY <1>1, RoundUpIs, Zenon DEF LoadFits
<1>5. end \in Nat
  BY VmAssumption, Numbers
<1>6. LoadOK(job[p].as.pg, new, r, r, end)
  <2>1. LoadOK(job[p].as.pg, n, base, a, new) /\ a * PGSIZE >= new
    BY <1>0, <1>1, <1>4, Zenon
  <2>2. job[p].as.pg = 0 .. a - 1 /\ a <= RoundUp(new)
    BY <2>1, Zenon DEF LoadOK
  <2>3. a = RoundUp(new)
    BY <2>1, <2>2, Turn, Zenon
  <2>4. end > new
    BY <1>2, <1>4, Zenon
  <2>5. new <= end /\ r <= r
    BY <1>5, <2>4
  <2>6. r <= RoundUp(end)
    BY <1>4, <1>5, <2>5, RoundUpFacts, Zenon
  <2>. QED BY <1>4, <2>2, <2>3, <2>5, <2>6, Zenon DEF LoadOK
<1>. DEFINE j == [job[p] EXCEPT !.n = new, !.base = r, !.a = r, !.new = end]
<1>7. /\ j \in LoadJobs /\ j.kind = "load" /\ j.as = job[p].as /\ j.n = new /\ j.base = r
      /\ j.a = r /\ j.new = end
  BY <1>0, <1>1, <1>5, Zenon DEF LoadJobs
<1>8. Upd(job, job', p, j)
  <2>1. job \in [Procs -> Jobs]
    BY Unfold, Zenon
  <2>. QED BY <1>2, <1>4, <2>1, Zenon DEF Upd
<1>. HIDE DEF j
<1>9. j \in Jobs /\ j.kind \notin {"copy", "grow"}
  BY <1>7 DEF Jobs
<1>10. JobOK(sz[p], j)
  BY <1>1, <1>2, <1>6, <1>7, Zenon DEF JobOK
<1>11. free \in Nat /\ panicked = FALSE
  BY Unfold, Zenon
<1>12. Built(free, job[p], free', j)
  <2>1. Building(j) = Building(job[p])
    BY <1>1, <1>7, Zenon DEF Building
  <2>. QED BY <1>1, <1>3, <1>9, <1>11, <2>1, Zenon DEF Built
<1>. QED BY <1>1, <1>3, <1>8, <1>9, <1>10, <1>11, <1>12, ExecOne, Zenon

\* exec_stack() keeps it: the stack fits, as the segments left room for it.
LEMMA ExecStackStep ==
  ASSUME Counting, Inv, NEW p \in Procs, exec_stack(p)
  PROVE  Inv'
<1>0. Loading(p) /\ job[p].kind = "load" /\ job[p].a * PGSIZE >= job[p].new
  BY Zenon DEF exec_stack, Loaded
<1>1. /\ ~Kid(p) /\ trapframe[p] /\ pagetable[p].on /\ sz[p] > 0
      /\ pagetable[p].pg = 0 .. RoundUp(sz[p]) - 1 /\ job[p].kind # "copy"
      /\ job[p] \in LoadJobs /\ job[p] \in Jobs /\ job[p].as \in Spaces /\ job[p].as.on
      /\ Building(job[p]) = Count(job[p].as)
      /\ LoadOK(job[p].as.pg, job[p].n, job[p].base, job[p].a, job[p].new)
      /\ LoadFits(job[p].n, job[p].base, job[p].a, job[p].new)
      /\ RoundUp(job[p].new) + 2 <= MaxVpn
  BY <1>0, LoadingIs, Zenon
<1>2. /\ free' = free /\ trapframe' = trapframe /\ pagetable' = pagetable /\ sz' = sz
      /\ pipe' = pipe /\ panicked' = panicked
  BY Zenon DEF exec_stack, procVars
<1>3. PICK base \in Nat, a \in Nat, new \in Nat, n \in Nat, k \in Nat, top \in Nat, end \in Nat :
        /\ base = job[p].base /\ a = job[p].a /\ new = job[p].new
        /\ n = RoundUp(new) /\ k = n + 2 /\ top = n * PGSIZE /\ end = k * PGSIZE
  <2>1. PICK n \in Nat : n = RoundUp(job[p].new)
    BY <1>1, RoundUpIs, Zenon DEF LoadFits
  <2>2. PICK k \in Nat : k = n + 2
    OBVIOUS
  <2>3. n * PGSIZE \in Nat /\ k * PGSIZE \in Nat
    BY RoundUpFacts, Zenon
  <2>. QED BY <1>1, <2>1, <2>2, <2>3, Zenon DEF LoadFits
<1>4. job' = [job EXCEPT ![p].kind = "stack", ![p].n = top, ![p].base = n, ![p].a = n,
                         ![p].new = end]
  BY <1>3, Zenon DEF exec_stack
<1>5. LoadOK(job[p].as.pg, top, n, n, end)
  <2>1. LoadOK(job[p].as.pg, job[p].n, base, a, new) /\ a * PGSIZE >= new
    BY <1>0, <1>1, <1>3, Zenon
  <2>2. job[p].as.pg = 0 .. a - 1 /\ a <= RoundUp(new)
    BY <2>1, Zenon DEF LoadOK
  <2>3. a = n
    BY <1>3, <2>1, <2>2, Turn, Zenon
  <2>4. n <= k /\ n <= n
    BY <1>3
  <2>5. top <= end
    BY <1>3, <2>4, Numbers, TimesLe, Zenon
  <2>6. n = RoundUp(top) /\ k = RoundUp(end)
    BY <1>3, RoundUpFacts, Zenon
  <2>. QED BY <2>2, <2>3, <2>4, <2>5, <2>6, Zenon DEF LoadOK
<1>. DEFINE j == [job[p] EXCEPT !.kind = "stack", !.n = top, !.base = n, !.a = n, !.new = end]
<1>6. /\ j \in LoadJobs /\ j.kind = "stack" /\ j.as = job[p].as /\ j.n = top /\ j.base = n
      /\ j.a = n /\ j.new = end
  BY <1>1, Zenon DEF LoadJobs
<1>7. Upd(job, job', p, j)
  <2>1. job \in [Procs -> Jobs]
    BY Unfold, Zenon
  <2>. QED BY <1>4, <2>1, Zenon DEF Upd
<1>. HIDE DEF j
<1>8. j \in Jobs /\ j.kind \notin {"copy", "grow"}
  BY <1>6 DEF Jobs
<1>9. JobOK(sz[p], j)
  <2>1. end = (n + 2) * PGSIZE /\ n + 2 <= MaxVpn
    BY <1>1, <1>3, Zenon
  <2>2. j.kind # "load" /\ j.kind # "grow" /\ j.kind # "copy"
    BY <1>6
  <2>. QED BY <1>1, <1>5, <1>6, <2>1, <2>2, Zenon DEF JobOK
<1>10. free \in Nat /\ panicked = FALSE
  BY Unfold, Zenon
<1>11. Built(free, job[p], free', j)
  <2>1. Building(j) = Building(job[p])
    BY <1>1, <1>6, Zenon DEF Building
  <2>. QED BY <1>1, <1>2, <1>8, <1>10, <2>1, Zenon DEF Built
<1>. QED BY <1>1, <1>2, <1>7, <1>8, <1>9, <1>10, <1>11, ExecOne, Zenon

\* A step that ends exec() with an error gives back what it built.
LEMMA ExecFails ==
  ASSUME Counting, Inv, NEW p \in Procs, Loading(p), trapframe' = trapframe,
         pagetable' = pagetable, sz' = sz, pipe' = pipe, panicked' = FALSE,
         free' \in Nat, free' = free + Count(job[p].as), Return(p)
  PROVE  Inv'
<1>1. /\ ~Kid(p) /\ trapframe[p] /\ pagetable[p].on
      /\ pagetable[p].pg = 0 .. RoundUp(sz[p]) - 1 /\ job[p].kind # "copy"
      /\ job[p] \in Jobs /\ Building(job[p]) = Count(job[p].as)
  BY LoadingIs, Zenon
<1>2. NoJob \in Jobs
  BY TypesAt, Zenon
<1>3. free \in Nat
  BY Unfold, Zenon
<1>4. Built(free, job[p], free', NoJob)
  <2>1. PICK y \in Nat : y = free'
    BY Zenon
  <2>2. y + 0 = y
    OBVIOUS
  <2>3. free' + Building(NoJob) = free + Building(job[p])
    BY <1>1, <2>1, <2>2, NoSpaceIs, Zenon
  <2>. QED BY <1>1, <1>2, <1>3, <2>3, Zenon DEF Built
<1>5. JobOK(sz[p], NoJob) /\ NoJob.kind \notin {"copy", "grow"}
  BY DEF JobOK, NoJob
<1>6. Upd(job, job', p, NoJob)
  BY Zenon DEF Upd, Return
<1>. QED BY <1>1, <1>2, <1>4, <1>5, <1>6, ExecOne, ZenonT(40)

\* exec_page() keeps it: the next page is mapped, or the new image is given back.
LEMMA ExecPageStep ==
  ASSUME Counting, Inv, NEW p \in Procs, exec_page(p)
  PROVE  Inv'
<1>0. Loading(p) /\ ~(job[p].a * PGSIZE >= job[p].new)
  BY Zenon DEF exec_page, Loaded
<1>1. /\ ~Kid(p) /\ trapframe[p] /\ pagetable[p].on /\ sz[p] > 0
      /\ pagetable[p].pg = 0 .. RoundUp(sz[p]) - 1
      /\ job[p].kind \notin {"copy", "grow"} /\ job[p].kind # "copy"
      /\ job[p].kind \in {"load", "stack"} /\ Building(job[p]) = Count(job[p].as)
      /\ job[p] \in LoadJobs /\ job[p] \in Jobs /\ job[p].as \in Spaces /\ job[p].as.on
      /\ LoadOK(job[p].as.pg, job[p].n, job[p].base, job[p].a, job[p].new)
      /\ LoadFits(job[p].n, job[p].base, job[p].a, job[p].new)
  BY <1>0, LoadingIs, Zenon
<1>2. /\ job[p].kind = "load" => RoundUp(job[p].new) + 2 <= MaxVpn
      /\ job[p].kind = "stack" =>
           job[p].new = (job[p].base + 2) * PGSIZE /\ job[p].base + 2 <= MaxVpn
  BY <1>0, LoadingIs, Zenon
<1>3. PICK n \in Nat, base \in Nat, a \in Nat, new \in Nat, sp \in Spaces :
        /\ n = job[p].n /\ base = job[p].base /\ a = job[p].a /\ new = job[p].new
        /\ sp = job[p].as
  BY <1>1, Zenon DEF LoadFits
<1>4. /\ sp.pg = 0 .. a - 1 /\ base = RoundUp(n) /\ n <= new /\ base <= a /\ a <= RoundUp(new)
      /\ RoundUp(new) <= MaxVpn
  BY <1>1, <1>3, Zenon DEF LoadOK, LoadFits
<1>5. a * PGSIZE < new
  <2>1. ~(a * PGSIZE >= new)
    BY <1>0, <1>3, Zenon
  <2>. QED BY <2>1, Numbers
<1>6. a + 1 \in Nat /\ a + 1 <= RoundUp(new)
  BY <1>4, <1>5, Turn, Zenon
<1>7. a \in Vpns /\ a \notin 0 .. a - 1 /\ (0 .. a - 1) \cup {a} = 0 .. (a + 1) - 1
  <2>1. PICK r \in Nat : r = RoundUp(new)
    BY RoundUpIs, Zenon
  <2>2. a + 1 <= MaxVpn
    BY <1>4, <1>6, <2>1, Numbers
  <2>. QED BY <2>2, NextVpn, Zenon
<1>8. free \in Nat /\ panicked = FALSE
  BY Unfold, Zenon
<1>9. PICK m, u, f : /\ m = MapPage(free, sp, a) /\ u = uvmunmap(free, sp, base, a)
                     /\ f = proc_freepagetable(u.free, u.as, n)
  OBVIOUS
<1>10. /\ IF m.ok
          THEN /\ free' = m.free /\ Panic(m.bad)
               /\ job' = [job EXCEPT ![p].as = m.as, ![p].a = @ + 1]
          ELSE free' = f.free /\ Panic(u.bad \/ f.bad) /\ Return(p)
       /\ trapframe' = trapframe /\ pagetable' = pagetable /\ sz' = sz /\ pipe' = pipe
  BY <1>3, <1>9, Zenon DEF exec_page, procVars
<1>11. Mapped(free, sp, a, m)
  <2>1. MapsTo(free, sp, a, m)
    BY <1>4, <1>7, <1>8, <1>9, Zenon DEF MapsTo
  <2>. QED BY <2>1, MapPageIs, Zenon
<1>12. CASE m.ok
  <2>1. /\ m.free \in Nat /\ m.as \in Spaces /\ ~m.bad /\ m.as.on = sp.on
        /\ m.free + Count(m.as) = free + Count(sp) /\ m.as.pg = sp.pg \cup {a}
    BY <1>11, <1>12, Zenon DEF Mapped
  <2>2. m.as.on /\ m.as.pg = 0 .. (a + 1) - 1
    BY <1>1, <1>3, <1>4, <1>7, <2>1, Zenon
  <2>. DEFINE j == [job[p] EXCEPT !.as = m.as, !.a = a + 1]
  <2>3. /\ j \in LoadJobs /\ j.kind = job[p].kind /\ j.as = m.as /\ j.n = n /\ j.base = base
        /\ j.a = a + 1 /\ j.new = new
    BY <1>1, <1>3, <1>6, <2>1, Zenon DEF LoadJobs
  <2>4. Upd(job, job', p, j)
    <3>1. job \in [Procs -> Jobs]
      BY Unfold, Zenon
    <3>. QED BY <1>3, <1>10, <1>12, <3>1, Zenon DEF Upd
  <2>. HIDE DEF j
  <2>5. j \in Jobs /\ j.kind \notin {"copy", "grow"}
    BY <1>1, <2>3, Zenon DEF Jobs
  <2>6. LoadOK(m.as.pg, n, base, a + 1, new)
    <3>1. base <= a + 1
      BY <1>4
    <3>. QED BY <1>4, <1>6, <2>2, <3>1, Zenon DEF LoadOK
  <2>7. JobOK(sz[p], j)
    <3>1. j.kind # "grow" /\ j.kind # "copy"
      BY <1>1, <2>3, Zenon
    <3>. QED BY <1>1, <1>2, <1>3, <2>2, <2>3, <2>6, <3>1, ZenonT(40) DEF JobOK
  <2>8. free' = m.free /\ panicked' = FALSE
    BY <1>8, <1>10, <1>12, <2>1, Zenon DEF Panic
  <2>9. Built(free, job[p], free', j)
    <3>1. Building(j) = Count(m.as)
      BY <1>1, <2>3, Zenon DEF Building
    <3>. QED BY <1>1, <1>3, <1>8, <2>1, <2>5, <2>8, <3>1, Zenon DEF Built
  <2>. QED BY <1>1, <1>10, <2>1, <2>4, <2>5, <2>7, <2>8, <2>9, ExecOne, ZenonT(40)
<1>13. CASE ~m.ok
  <2>1. Unmapped(free, sp, base, u)
    <3>1. UnmapsTo(free, sp, base, a, u)
      BY <1>4, <1>8, <1>9, Zenon DEF UnmapsTo
    <3>. QED BY <3>1, UnmapIs, Zenon
  <2>2. /\ u.free \in Nat /\ u.as \in Spaces /\ ~u.bad
        /\ u.free + Count(u.as) = free + Count(sp)
        /\ u.as.on = sp.on /\ u.as.pg = 0 .. base - 1
    BY <2>1, Zenon DEF Unmapped
  <2>3. Freed(u.free, u.as, f)
    <3>1. FreesTo(u.free, u.as, n, f)
      BY <1>1, <1>3, <1>4, <1>9, <2>2, Zenon DEF FreesTo
    <3>. QED BY <3>1, FreeIs, Zenon
  <2>4. f.free \in Nat /\ f.free = free + Count(job[p].as) /\ ~f.bad
    BY <1>3, <2>2, <2>3, Zenon DEF Freed
  <2>5. free' = f.free /\ panicked' = FALSE /\ Return(p)
    BY <1>8, <1>10, <1>13, <2>2, <2>4, Zenon DEF Panic
  <2>. QED BY <1>0, <1>10, <2>4, <2>5, ExecFails, Zenon
<1>. QED BY <1>12, <1>13, Zenon

\* The image of a call of exec() whose uvmalloc() is done.
LEMMA LoadedIs ==
  ASSUME Inv, NEW p \in Procs, Loading(p), Loaded(p)
  PROVE  job[p].as.pg = 0 .. RoundUp(job[p].new) - 1 /\ job[p].new \in Nat
<1>1. /\ LoadOK(job[p].as.pg, job[p].n, job[p].base, job[p].a, job[p].new)
      /\ LoadFits(job[p].n, job[p].base, job[p].a, job[p].new)
  BY LoadingIs, Zenon
<1>2. PICK a \in Nat, new \in Nat : a = job[p].a /\ new = job[p].new
  BY <1>1, Zenon DEF LoadFits
<1>3. a * PGSIZE >= new /\ a <= RoundUp(new) /\ job[p].as.pg = 0 .. a - 1
  BY <1>1, <1>2, Zenon DEF LoadOK, Loaded
<1>4. a = RoundUp(new)
  BY <1>3, Turn, Zenon
<1>. QED BY <1>2, <1>3, <1>4, Zenon

\* exec_bad() keeps it: the new image is given back, of the size that it has.
LEMMA ExecBadStep ==
  ASSUME Counting, Inv, NEW p \in Procs, exec_bad(p)
  PROVE  Inv'
<1>0. Loading(p) /\ Loaded(p)
  BY Zenon DEF exec_bad
<1>1. job[p].as \in Spaces /\ job[p].as.on
  BY <1>0, LoadingIs, Zenon
<1>2. job[p].as.pg = 0 .. RoundUp(job[p].new) - 1 /\ job[p].new \in Nat
  BY <1>0, LoadedIs, Zenon
<1>3. PICK f : f = proc_freepagetable(free, job[p].as, job[p].new)
  OBVIOUS
<1>4. /\ free' = f.free /\ Panic(f.bad) /\ Return(p)
      /\ trapframe' = trapframe /\ pagetable' = pagetable /\ sz' = sz /\ pipe' = pipe
  BY <1>3, Zenon DEF exec_bad, procVars
<1>5. free \in Nat /\ panicked = FALSE
  BY Unfold, Zenon
<1>6. f.free \in Nat /\ f.free = free + Count(job[p].as) /\ ~f.bad
  <2>1. FreesTo(free, job[p].as, job[p].new, f)
    BY <1>1, <1>2, <1>3, <1>5, Zenon DEF FreesTo
  <2>. QED BY <2>1, FreeIs, Zenon DEF Freed
<1>7. panicked' = FALSE
  BY <1>4, <1>5, <1>6, Zenon DEF Panic
<1>. QED BY <1>0, <1>4, <1>6, <1>7, ExecFails, Zenon

\* exec_commit() keeps it: the new image replaces the old one, which is given back.
LEMMA ExecCommitStep ==
  ASSUME Counting, Inv, NEW p \in Procs, exec_commit(p)
  PROVE  Inv'
<1>0. Loading(p) /\ Loaded(p) /\ job[p].kind = "stack"
  BY Zenon DEF exec_commit
<1>1. /\ ~Kid(p) /\ trapframe[p] /\ pagetable[p].on /\ job[p] \in Jobs
      /\ pagetable[p].pg = 0 .. RoundUp(sz[p]) - 1 /\ job[p].kind # "copy"
      /\ Building(job[p]) = Count(job[p].as) /\ job[p].as \in Spaces /\ job[p].as.on
      /\ LoadFits(job[p].n, job[p].base, job[p].a, job[p].new)
      /\ job[p].new = (job[p].base + 2) * PGSIZE /\ job[p].base + 2 <= MaxVpn
  BY <1>0, LoadingIs, Zenon
<1>2. job[p].as.pg = 0 .. RoundUp(job[p].new) - 1 /\ job[p].new \in Nat
  BY <1>0, LoadedIs, Zenon
<1>3. PICK base \in Nat, k \in Nat, new \in Nat, sp \in Spaces :
        /\ base = job[p].base /\ k = base + 2 /\ new = job[p].new /\ sp = job[p].as
  <2>1. PICK base \in Nat : base = job[p].base
    BY <1>1, Zenon DEF LoadFits
  <2>2. base + 2 \in Nat
    OBVIOUS
  <2>. QED BY <1>1, <1>2, <2>1, <2>2, Zenon
<1>4. new = k * PGSIZE /\ k <= MaxVpn
  BY <1>1, <1>3, Zenon
<1>5. RoundUp(new) = k
  BY <1>4, RoundUpFacts, Zenon
<1>6. new \in 0 .. MaxSz
  <2>1. k * PGSIZE <= MaxVpn * PGSIZE
    BY <1>4, Numbers, TimesLe, Zenon
  <2>2. new <= MaxSz
    BY <1>4, <2>1, Zenon DEF MaxSz
  <2>. QED BY <2>2, RoundUpFacts
<1>7. RoundUp(new) - 2 \in Vpns
  <2>1. k - 2 \in Vpns
    BY <1>3, <1>4, Numbers DEF Vpns
  <2>. QED BY <1>5, <2>1, Zenon
<1>8. PICK image : image = uvmclear(sp, RoundUp(new) - 2)
  OBVIOUS
<1>9. /\ image \in Spaces /\ image.on = sp.on /\ image.pg = sp.pg /\ image.tab = sp.tab
  <2>1. sp.guard \cup {RoundUp(new) - 2} \subseteq Vpns
    BY <1>7, Fields, Zenon
  <2>2. image = [sp EXCEPT !.guard = @ \cup {RoundUp(new) - 2}]
    BY <1>8, Zenon DEF uvmclear
  <2>. QED BY <2>1, <2>2, Zenon DEF Spaces
<1>10. Count(image) = Count(sp)
  BY <1>9, Zenon DEF Count
<1>11. PICK f : f = proc_freepagetable(free, pagetable[p], sz[p])
  OBVIOUS
<1>12. /\ pagetable' = [pagetable EXCEPT ![p] = image] /\ sz' = [sz EXCEPT ![p] = new]
       /\ free' = f.free /\ Panic(f.bad) /\ Return(p) /\ trapframe' = trapframe /\ pipe' = pipe
  BY <1>3, <1>8, <1>11, Zenon DEF exec_commit
<1>13. /\ trapframe[p] \in BOOLEAN /\ pagetable[p] \in Spaces /\ sz[p] \in Nat /\ NoJob \in Jobs
  BY TypesAt, Zenon
<1>14. free \in Nat /\ panicked = FALSE
  BY Unfold, Zenon
<1>15. f.free \in Nat /\ f.free = free + Count(pagetable[p]) /\ ~f.bad
  <2>1. FreesTo(free, pagetable[p], sz[p], f)
    BY <1>1, <1>11, <1>13, <1>14, Zenon DEF FreesTo
  <2>. QED BY <2>1, FreeIs, Zenon DEF Freed
<1>16. panicked' = FALSE
  BY <1>12, <1>14, <1>15, Zenon DEF Panic
<1>17. OwnOK(trapframe[p], image, new, NoJob) /\ JobOK(new, NoJob)
  BY <1>1, <1>2, <1>3, <1>9, OwnDone, Zenon
<1>18. Level(free, trapframe[p], pagetable[p], job[p], free', trapframe[p], image, NoJob)
  <2>1. PICK x \in Nat, y \in Nat, t \in Nat, c \in Nat, b \in Nat :
          /\ x = free /\ y = free' /\ t = Frame(trapframe[p]) /\ c = Count(pagetable[p])
          /\ b = Count(sp)
    BY <1>12, <1>13, <1>14, <1>15, <1>1, HeldNat, CountIs, Zenon
  <2>2. y = x + c
    BY <1>12, <1>15, <2>1, Zenon
  <2>3. y + (t + b + 0) = x + (t + c + b)
    BY ONLY <2>2, x \in Nat, y \in Nat, t \in Nat, c \in Nat, b \in Nat
  <2>4. /\ HeldBy(trapframe[p], pagetable[p], job[p]) = t + c + b
        /\ HeldBy(trapframe[p], image, NoJob) = t + b + 0
    BY <1>1, <1>3, <1>10, <2>1, NoSpaceIs, Zenon DEF HeldBy
  <2>. QED BY <2>1, <2>3, <2>4, Zenon DEF Level
<1>19. /\ Upd(trapframe, trapframe', p, trapframe[p]) /\ Upd(pagetable, pagetable', p, image)
       /\ Upd(sz, sz', p, new) /\ Upd(job, job', p, NoJob)
  BY <1>12, Zenon DEF Upd, Return
<1>20. NoJob.kind # "copy"
  BY DEF NoJob
<1>. QED BY <1>1, <1>6, <1>9, <1>12, <1>13, <1>15, <1>16, <1>17, <1>18, <1>19, <1>20, One,
            ZenonT(40)

-----------------------------------------------------------------------------
(* fork *)

\* A fork() that copies its pages: the parent p and the child q.
LEMMA CopyingIs ==
  ASSUME Inv, NEW p \in Procs, job[p].kind = "copy"
  PROVE  \E q \in Procs, i \in Nat :
           /\ q = job[p].child /\ i = job[p].i /\ p # q /\ ~Kid(p) /\ job[q] = NoJob
           /\ trapframe[p] /\ pagetable[p].on /\ sz[p] > 0
           /\ pagetable[p].pg = 0 .. RoundUp(sz[p]) - 1 /\ i <= RoundUp(sz[p])
           /\ trapframe[q] /\ pagetable[q].on /\ sz[q] = 0 /\ pagetable[q].pg = 0 .. i - 1
           /\ \A r \in Procs : job[r].kind = "copy" /\ job[r].child = q => r = p
           /\ job[p] \in CopyJobs /\ Building(job[p]) = 0
<1>1. job[p].kind # "none" /\ job[p].kind # "grow" /\ job[p].kind \notin {"load", "stack"}
  OBVIOUS
<1>2. /\ ~Kid(p) /\ trapframe[p] /\ pagetable[p].on
      /\ pagetable[p].pg = 0 .. Top(sz[p], job[p]) - 1 /\ JobOK(sz[p], job[p])
  BY <1>1, BusyIs
<1>3. Top(sz[p], job[p]) = RoundUp(sz[p]) /\ sz[p] > 0 /\ job[p].i <= RoundUp(sz[p])
  BY <1>1, <1>2, Zenon DEF Top, JobOK
<1>4. job[p] \in Jobs
  BY TypesAt, Zenon
<1>5. job[p] \in CopyJobs
  BY <1>1, <1>4, Kinds, Zenon
<1>6. PICK q \in Procs, i \in Nat : q = job[p].child /\ i = job[p].i
  BY <1>5 DEF CopyJobs
<1>7. Kid(q)
  BY <1>6, Zenon DEF Kid
<1>8. trapframe[q] /\ pagetable[q].on /\ sz[q] = 0 /\ job[q] = NoJob
  BY <1>7, Unfold, Zenon DEF ProcsOK, KidOK
<1>9. /\ p # q /\ pagetable[q].pg = 0 .. job[p].i - 1
      /\ \A r \in Procs : job[r].kind = "copy" /\ job[r].child = q => r = p
  BY <1>6, Unfold, Zenon DEF ForksOK
<1>10. Building(job[p]) = 0
  BY <1>1, NoBuilding, Zenon
<1>11. pagetable[p].pg = 0 .. RoundUp(sz[p]) - 1
  BY <1>2, <1>3, Zenon
<1>. QED BY <1>2, <1>3, <1>5, <1>6, <1>8, <1>9, <1>10, <1>11, Zenon

\* A step of another user of kalloc() keeps what the processes have.
LEMMA OtherStep ==
  ASSUME Inv, trapframe' = trapframe, pagetable' = pagetable, sz' = sz, job' = job,
         panicked' = panicked, free' \in Nat, pipe' \in 0 .. 1, free' + pipe' = free + pipe
  PROVE  Inv'
<1>1. Types'
  BY Zenon DEF Inv, Types
<1>2. \A p : Kid(p)' = Kid(p) /\ Held(p)' = Held(p)
  BY Zenon DEF Kid, Held
<1>3. PagesHeld' = PagesHeld
  BY <1>2, Zenon DEF PagesHeld
<1>4. Balance'
  BY <1>3, Zenon DEF Inv, Balance
<1>5. ProcsOK'
  BY <1>2, Zenon DEF Inv, ProcsOK
<1>6. ForksOK'
  BY Zenon DEF Inv, ForksOK
<1>. QED BY <1>1, <1>4, <1>5, <1>6, Zenon DEF Inv

\* A step that changes nothing.
LEMMA SameState ==
  ASSUME Inv, free' = free, trapframe' = trapframe, pagetable' = pagetable, sz' = sz,
         job' = job, pipe' = pipe, panicked' = panicked
  PROVE  Inv'
BY Unfold, OtherStep, Zenon

\* A free slot.
LEMMA SlotIs ==
  ASSUME Inv, NEW q \in Procs, ~trapframe[q]
  PROVE  /\ ~Kid(q) /\ pagetable[q] = NoSpace /\ sz[q] = 0 /\ job[q] = NoJob
         /\ \A r \in Procs : job[r].kind = "copy" => job[r].child # q
<1>1. ~Kid(q)
  BY Unfold, Zenon DEF ProcsOK, KidOK
<1>2. pagetable[q] = NoSpace /\ sz[q] = 0 /\ job[q] = NoJob
  BY <1>1, Unfold, Zenon DEF ProcsOK, OwnOK
<1>. QED BY <1>1, <1>2, Zenon DEF Kid

\* fork() keeps it: the child is empty, or there is none.
LEMMA ForkStep ==
  ASSUME Counting, Inv, NEW p \in Procs, NEW q \in Procs, fork(p, q)
  PROVE  Inv'
<1>0. Alive(p) /\ sz[p] > 0 /\ ~trapframe[q]
  BY Zenon DEF fork, User
<1>1. /\ ~Kid(p) /\ job[p] = NoJob /\ job[p].kind # "copy" /\ trapframe[p]
      /\ pagetable[p].on /\ pagetable[p].pg = 0 .. RoundUp(sz[p]) - 1
  BY <1>0, AliveIs, Zenon
<1>2. free \in Nat /\ panicked = FALSE
  BY Unfold, Zenon
<1>3. PICK x \in Nat, fr \in Int : x = free /\ fr = x - 1
  BY <1>2
<1>4. PICK pt : pt = proc_pagetable(fr)
  OBVIOUS
<1>5. fr >= -1
  BY <1>3
<1>6. /\ pt.ok => /\ pt.free \in Nat /\ pt.free + 2 = fr /\ Count(pt.as) = 2
                  /\ pt.as \in Spaces /\ pt.as.on = TRUE /\ pt.as.pg = {}
      /\ ~pt.ok => pt.free = fr
  BY <1>4, <1>5, PagetableIs, Zenon
<1>. DEFINE j == [kind |-> "copy", child |-> q, i |-> 0]
<1>7. /\ IF x > 0 /\ pt.ok
         THEN /\ trapframe' = [trapframe EXCEPT ![q] = TRUE]
              /\ pagetable' = [pagetable EXCEPT ![q] = pt.as]
              /\ free' = pt.free /\ job' = [job EXCEPT ![p] = j]
         ELSE /\ free' = IF x > 0 THEN pt.free + 1 ELSE x
              /\ trapframe' = trapframe /\ pagetable' = pagetable /\ job' = job
      /\ sz' = sz /\ pipe' = pipe /\ panicked' = panicked
  BY <1>3, <1>4, Zenon DEF fork
<1>8. CASE ~(x > 0 /\ pt.ok)
  <2>1. free' = x
    <3>1. CASE x > 0
      <4>1. fr + 1 = x
        BY <1>3
      <4>. QED BY <1>6, <1>7, <1>8, <3>1, <4>1, Zenon
    <3>2. CASE ~(x > 0)
      BY <1>7, <3>2, Zenon
    <3>. QED BY <3>1, <3>2, Zenon
  <2>2. trapframe' = trapframe /\ pagetable' = pagetable /\ job' = job
    BY <1>7, <1>8, Zenon
  <2>. QED BY <1>3, <1>7, <2>1, <2>2, SameState, Zenon
<1>9. CASE x > 0 /\ pt.ok
  <2>1. /\ trapframe' = [trapframe EXCEPT ![q] = TRUE]
        /\ pagetable' = [pagetable EXCEPT ![q] = pt.as]
        /\ free' = pt.free /\ job' = [job EXCEPT ![p] = j]
    BY <1>7, <1>9, Zenon
  <2>2. /\ pt.free \in Nat /\ pt.free + 2 = fr /\ Count(pt.as) = 2
        /\ pt.as \in Spaces /\ pt.as.on /\ pt.as.pg = {}
    BY <1>6, <1>9, Zenon
  <2>3. j.kind = "copy" /\ j.child = q /\ j.i = 0
    OBVIOUS
  <2>4. j \in Jobs
    <3>1. j \in CopyJobs
      BY DEF CopyJobs
    <3>. QED BY <3>1, Zenon DEF Jobs
  <2>5. Upd(job, job', p, j) /\ Upd(trapframe, trapframe', q, TRUE)
        /\ Upd(pagetable, pagetable', q, pt.as)
    BY <2>1, Zenon DEF Upd
  <2>. HIDE DEF j
  <2>6. /\ ~Kid(q) /\ pagetable[q] = NoSpace /\ sz[q] = 0 /\ job[q] = NoJob
        /\ \A r \in Procs : job[r].kind = "copy" => job[r].child # q
    BY <1>0, SlotIs, Zenon
  <2>7. p # q
    BY <1>0, <1>1, Zenon
  <2>8. Upd(sz, sz', q, 0)
    BY <1>7, <2>6, Zenon DEF Upd
  <2>9. sz[p] \in Nat /\ RoundUp(sz[p]) \in Nat
    BY TypesAt, RoundUpIs, Zenon
  <2>10. OwnOK(trapframe[p], pagetable[p], sz[p], j)
    <3>1. Top(sz[p], j) = RoundUp(sz[p])
      BY <2>3 DEF Top
    <3>. QED BY <1>1, <3>1, Zenon DEF OwnOK
  <2>11. JobOK(sz[p], j)
    <3>1. 0 <= RoundUp(sz[p])
      BY <2>9
    <3>. QED BY <1>0, <2>3, <3>1 DEF JobOK
  <2>12. Building(j) = 0 /\ Building(job[p]) = 0
    <3>1. j.kind \notin {"load", "stack"}
      BY <2>3
    <3>. QED BY <1>1, <3>1, NoBuilding, NoSpaceIs, Zenon
  <2>13. KidOK(TRUE, pt.as, 0, NoJob)
    BY <2>2, Zenon DEF KidOK
  <2>14. pt.as.pg = 0 .. j.i - 1
    <3>1. {} = 0 .. 0 - 1
      OBVIOUS
    <3>. QED BY <2>2, <2>3, <3>1, Zenon
  <2>15. Level(free, trapframe[q], pagetable[q], NoJob, free', TRUE, pt.as, NoJob)
    <3>1. Frame(trapframe[q]) = 0 /\ Frame(TRUE) = 1
      BY <1>0, Zenon DEF Frame
    <3>2. HeldBy(trapframe[q], pagetable[q], NoJob) = 0 + 0 + 0
          /\ HeldBy(TRUE, pt.as, NoJob) = 1 + 2 + 0
      BY <2>2, <2>6, <3>1, NoSpaceIs, Zenon DEF HeldBy
    <3>3. PICK y \in Nat : y = pt.free
      BY <2>2, Zenon
    <3>4. y + 2 = fr
      BY <2>2, <3>3, Zenon
    <3>5. y + (1 + 2 + 0) = x + (0 + 0 + 0)
      BY ONLY <1>3, <3>4, x \in Nat, y \in Nat, fr \in Int, fr = x - 1
    <3>. QED BY <1>3, <2>1, <3>2, <3>3, <3>5, Zenon DEF Level
  <2>16. 0 \in 0 .. MaxSz /\ TRUE \in BOOLEAN
    BY RoundUpFacts
  <2>17. panicked' = FALSE /\ pipe' = pipe /\ free' \in Nat
    BY <1>2, <1>7, <2>1, <2>2, Zenon
  <2>18. \A r \in Procs : job[r].kind = "copy" /\ job[r].child = q => r = p
    BY <2>6, Zenon
  <2>. QED BY <1>1, <2>2, <2>3, <2>4, <2>5, <2>6, <2>7, <2>8, <2>10, <2>11, <2>12, <2>13, <2>14,
              <2>15, <2>16, <2>17, <2>18, Two, ZenonT(40)
<1>. QED BY <1>8, <1>9, Zenon

\* copy_done() keeps it: the child has all pages of its parent's size.
LEMMA CopyDoneStep ==
  ASSUME Counting, Inv, NEW p \in Procs, copy_done(p)
  PROVE  Inv'
<1>0. job[p].kind = "copy" /\ job[p].i * PGSIZE >= sz[p]
  BY Zenon DEF copy_done
<1>1. PICK q \in Procs, i \in Nat :
           /\ q = job[p].child /\ i = job[p].i /\ p # q /\ ~Kid(p) /\ job[q] = NoJob
           /\ trapframe[p] /\ pagetable[p].on /\ sz[p] > 0
           /\ pagetable[p].pg = 0 .. RoundUp(sz[p]) - 1 /\ i <= RoundUp(sz[p])
           /\ trapframe[q] /\ pagetable[q].on /\ sz[q] = 0 /\ pagetable[q].pg = 0 .. i - 1
           /\ \A r \in Procs : job[r].kind = "copy" /\ job[r].child = q => r = p
           /\ job[p] \in CopyJobs /\ Building(job[p]) = 0
  BY <1>0, CopyingIs, Zenon
<1>2. /\ sz[p] \in 0 .. MaxSz /\ sz[p] \in Nat /\ NoJob \in Jobs
      /\ trapframe[q] \in BOOLEAN /\ pagetable[q] \in Spaces
  BY TypesAt, Zenon
<1>3. i = RoundUp(sz[p])
  <2>1. i * PGSIZE >= sz[p]
    BY <1>0, <1>1, Zenon
  <2>. QED BY <1>1, <1>2, <2>1, Turn, Zenon
<1>4. /\ sz' = [sz EXCEPT ![q] = sz[p]] /\ job' = [job EXCEPT ![p] = NoJob] /\ free' = free
      /\ trapframe' = trapframe /\ pagetable' = pagetable /\ pipe' = pipe /\ panicked' = panicked
  BY <1>1, Zenon DEF copy_done, Return
<1>5. free' \in Nat /\ panicked' = FALSE
  BY <1>4, Unfold, Zenon
<1>6. /\ OwnOK(trapframe[p], pagetable[p], sz[p], NoJob) /\ JobOK(sz[p], NoJob)
      /\ OwnOK(trapframe[q], pagetable[q], sz[p], NoJob)
  BY <1>1, <1>3, OwnDone, Zenon
<1>7. /\ Upd(trapframe, trapframe', q, trapframe[q]) /\ Upd(pagetable, pagetable', q, pagetable[q])
      /\ Upd(sz, sz', q, sz[p]) /\ Upd(job, job', p, NoJob)
  BY <1>4, Zenon DEF Upd
<1>8. NoJob.kind # "copy"
  BY DEF NoJob
<1>9. Level(free, trapframe[q], pagetable[q], NoJob, free', trapframe[q], pagetable[q], NoJob)
  BY <1>4, Zenon DEF Level
<1>10. job[p].kind = "copy" => job[p].child = q
  BY <1>1, Zenon
<1>. QED BY <1>1, <1>2, <1>4, <1>5, <1>6, <1>7, <1>8, <1>9, <1>10, NoSpaceIs, Two, ZenonT(40)

\* copy_page() keeps it: the child has one more page, or its slot is free again.
LEMMA CopyPageStep ==
  ASSUME Counting, Inv, NEW p \in Procs, copy_page(p)
  PROVE  Inv'
<1>0. job[p].kind = "copy" /\ job[p].i * PGSIZE < sz[p]
  BY Zenon DEF copy_page
<1>1. PICK q \in Procs, i \in Nat :
           /\ q = job[p].child /\ i = job[p].i /\ p # q /\ ~Kid(p) /\ job[q] = NoJob
           /\ trapframe[p] /\ pagetable[p].on /\ sz[p] > 0
           /\ pagetable[p].pg = 0 .. RoundUp(sz[p]) - 1 /\ i <= RoundUp(sz[p])
           /\ trapframe[q] /\ pagetable[q].on /\ sz[q] = 0 /\ pagetable[q].pg = 0 .. i - 1
           /\ \A r \in Procs : job[r].kind = "copy" /\ job[r].child = q => r = p
           /\ job[p] \in CopyJobs /\ Building(job[p]) = 0
  BY <1>0, CopyingIs, Zenon
<1>2. /\ sz[p] \in 0 .. MaxSz /\ sz[p] \in Nat /\ NoJob \in Jobs
      /\ trapframe[q] \in BOOLEAN /\ pagetable[q] \in Spaces
  BY TypesAt, Zenon
<1>3. PICK sp \in Spaces, s \in 0 .. MaxSz, r \in Nat :
        sp = pagetable[q] /\ s = sz[p] /\ r = RoundUp(s) /\ s \in Nat
  BY <1>2, RoundUpIs, Zenon
<1>4. i + 1 \in Nat /\ i + 1 <= r /\ r <= MaxVpn
  <2>1. i * PGSIZE < s
    BY <1>0, <1>1, <1>3, Zenon
  <2>. QED BY <1>1, <1>3, <2>1, Turn, RoundUpFacts, Zenon
<1>5. i \in Vpns /\ i \notin 0 .. i - 1 /\ (0 .. i - 1) \cup {i} = 0 .. (i + 1) - 1
      /\ i \in 0 .. r - 1
  <2>1. i + 1 <= MaxVpn /\ i \in 0 .. r - 1
    BY <1>4, Numbers
  <2>. QED BY <2>1, NextVpn, Zenon
<1>6. free \in Nat /\ panicked = FALSE
  BY Unfold, Zenon
<1>7. PICK x \in Nat : x = free
  BY <1>6, Zenon
<1>8. PICK m, u : m = MapPage(x, sp, i) /\ u = uvmunmap(x, sp, 0, i)
  OBVIOUS
<1>9. PICK f : f = proc_freepagetable(u.free + 1, u.as, 0)
  OBVIOUS
<1>10. PICK flags : flags = {i} \cap pagetable[p].guard
  BY Zenon
<1>11. /\ IF m.ok
          THEN /\ free' = m.free
               /\ pagetable' = [pagetable EXCEPT ![q] = [m.as EXCEPT !.guard = @ \cup flags]]
               /\ job' = [job EXCEPT ![p].i = @ + 1]
               /\ Panic(m.bad \/ i \notin pagetable[p].pg) /\ trapframe' = trapframe
          ELSE /\ free' = f.free /\ pagetable' = [pagetable EXCEPT ![q] = NoSpace]
               /\ trapframe' = [trapframe EXCEPT ![q] = FALSE]
               /\ Return(p) /\ Panic(u.bad \/ f.bad)
       /\ sz' = sz /\ pipe' = pipe
  BY <1>1, <1>3, <1>7, <1>8, <1>9, <1>10, Zenon DEF copy_page
<1>12. Mapped(x, sp, i, m)
  <2>1. MapsTo(x, sp, i, m)
    BY <1>1, <1>3, <1>5, <1>8, Zenon DEF MapsTo
  <2>. QED BY <2>1, MapPageIs, Zenon
<1>13. job[p].kind = "copy" => job[p].child = q
  BY <1>1, Zenon
<1>14. Upd(sz, sz', q, 0) /\ 0 \in 0 .. MaxSz
  <2>1. 0 \in 0 .. MaxSz
    BY RoundUpFacts
  <2>. QED BY <1>1, <1>11, <2>1, Zenon DEF Upd
<1>15. CASE m.ok
  <2>1. /\ m.free \in Nat /\ m.as \in Spaces /\ ~m.bad /\ m.as.on = sp.on
        /\ m.free + Count(m.as) = x + Count(sp) /\ m.as.pg = sp.pg \cup {i}
    BY <1>12, <1>15, Zenon DEF Mapped
  <2>2. PICK new : new = [m.as EXCEPT !.guard = @ \cup flags]
    BY Zenon
  <2>3. new \in Spaces /\ new.on = m.as.on /\ new.pg = m.as.pg /\ new.tab = m.as.tab
    <3>1. flags \subseteq Vpns
      BY <1>5, <1>10, Zenon
    <3>2. m.as.guard \cup flags \subseteq Vpns
      BY <2>1, <3>1, Fields, Zenon
    <3>. QED BY <2>1, <2>2, <3>2, Zenon DEF Spaces
  <2>4. Count(new) = Count(m.as)
    BY <2>3, Zenon DEF Count
  <2>5. new.on /\ new.pg = 0 .. (i + 1) - 1
    BY <1>1, <1>3, <1>5, <2>1, <2>3, Zenon
  <2>. DEFINE j == [job[p] EXCEPT !.i = i + 1]
  <2>6. j \in CopyJobs /\ j.kind = "copy" /\ j.child = q /\ j.i = i + 1
    BY <1>0, <1>1, <1>4, Zenon DEF CopyJobs
  <2>7. Upd(job, job', p, j)
    <3>1. job \in [Procs -> Jobs]
      BY Unfold, Zenon
    <3>. QED BY <1>1, <1>11, <1>15, <3>1, Zenon DEF Upd
  <2>. HIDE DEF j
  <2>8. j \in Jobs
    BY <2>6, Zenon DEF Jobs
  <2>9. OwnOK(trapframe[p], pagetable[p], sz[p], j)
    <3>1. Top(sz[p], j) = RoundUp(sz[p])
      BY <2>6 DEF Top
    <3>. QED BY <1>1, <3>1, Zenon DEF OwnOK
  <2>10. JobOK(sz[p], j)
    <3>1. i + 1 <= RoundUp(sz[p])
      BY <1>3, <1>4, Zenon
    <3>. QED BY <1>1, <2>6, <3>1, Zenon DEF JobOK
  <2>11. Building(j) = 0
    <3>1. j.kind \notin {"load", "stack"}
      BY <2>6
    <3>. QED BY <3>1, NoBuilding, Zenon
  <2>12. KidOK(trapframe[q], new, 0, NoJob) /\ new.pg = 0 .. j.i - 1
    BY <1>1, <2>5, <2>6, Zenon DEF KidOK
  <2>13. panicked' = FALSE
    <3>1. i \in pagetable[p].pg
      BY <1>1, <1>3, <1>5, Zenon
    <3>. QED BY <1>6, <1>11, <1>15, <2>1, <3>1, Zenon DEF Panic
  <2>14. Upd(trapframe, trapframe', q, trapframe[q]) /\ Upd(pagetable, pagetable', q, new)
         /\ free' = m.free
    BY <1>11, <1>15, <2>2, Zenon DEF Upd
  <2>15. Level(free, trapframe[q], pagetable[q], NoJob, free', trapframe[q], new, NoJob)
    <3>1. NoJob.kind \notin {"load", "stack"}
      BY DEF NoJob
    <3>2. Moved(free, pagetable[q], NoJob, free', new, NoJob)
      BY <1>3, <1>7, <2>1, <2>3, <2>4, <2>14, <3>1, Zenon DEF Moved
    <3>. QED BY <3>2, SameTotal, Zenon
  <2>16. free' \in Nat /\ pipe' = pipe
    BY <1>11, <2>1, <2>14, Zenon
  <2>. QED BY <1>1, <1>2, <1>13, <1>14, <2>3, <2>6, <2>7, <2>8, <2>9, <2>10, <2>11, <2>12, <2>13,
              <2>14, <2>15, <2>16, Two, ZenonT(40)
<1>16. CASE ~m.ok
  <2>1. Unmapped(x, sp, 0, u)
    <3>1. 0 <= i /\ 0 \in Nat
      OBVIOUS
    <3>2. UnmapsTo(x, sp, 0, i, u)
      BY <1>1, <1>3, <1>8, <3>1, Zenon DEF UnmapsTo
    <3>. QED BY <3>2, UnmapIs, Zenon
  <2>2. /\ u.free \in Nat /\ u.as \in Spaces /\ ~u.bad
        /\ u.free + Count(u.as) = x + Count(sp)
        /\ u.as.on = sp.on /\ u.as.pg = 0 .. 0 - 1
    BY <2>1, Zenon DEF Unmapped
  <2>3. PICK y \in Nat, z \in Nat, c \in Nat, d \in Nat :
          y = u.free /\ z = y + 1 /\ c = Count(u.as) /\ d = Count(sp)
    <3>1. PICK y \in Nat : y = u.free
      BY <2>2, Zenon
    <3>2. y + 1 \in Nat
      OBVIOUS
    <3>. QED BY <2>2, <3>1, <3>2, CountIs, Zenon
  <2>4. Freed(z, u.as, f)
    <3>1. FreesTo(z, u.as, 0, f)
      BY <1>1, <1>3, <1>9, <2>2, <2>3, RoundUpFacts, Zenon DEF FreesTo
    <3>. QED BY <3>1, FreeIs, Zenon
  <2>5. f.free \in Nat /\ f.free = z + c /\ ~f.bad
    BY <2>3, <2>4, Zenon DEF Freed
  <2>6. f.free = x + 1 + d
    <3>1. y + c = x + d
      BY <2>2, <2>3, Zenon
    <3>2. z = y + 1
      BY <2>3, Zenon
    <3>3. z + c = x + 1 + d
      BY ONLY <3>1, <3>2, x \in Nat, y \in Nat, z \in Nat, c \in Nat, d \in Nat
    <3>. QED BY <2>5, <3>3, Zenon
  <2>7. Level(free, trapframe[q], pagetable[q], NoJob, free', FALSE, NoSpace, NoJob)
    <3>1. free' = free + 1 + Count(pagetable[q])
      BY <1>3, <1>7, <1>11, <1>16, <2>3, <2>6, Zenon
    <3>. QED BY <1>1, <1>2, <1>6, <3>1, Released, Zenon
  <2>8. /\ Upd(trapframe, trapframe', q, FALSE) /\ Upd(pagetable, pagetable', q, NoSpace)
        /\ Upd(job, job', p, NoJob)
    BY <1>11, <1>16, Zenon DEF Upd, Return
  <2>9. panicked' = FALSE /\ free' \in Nat /\ pipe' = pipe
    BY <1>6, <1>11, <1>16, <2>2, <2>5, Zenon DEF Panic
  <2>10. OwnOK(trapframe[p], pagetable[p], sz[p], NoJob) /\ JobOK(sz[p], NoJob)
    BY <1>1, OwnDone, Zenon
  <2>11. OwnOK(FALSE, NoSpace, 0, NoJob)
    BY Zenon DEF OwnOK
  <2>12. NoJob.kind # "copy" /\ FALSE \in BOOLEAN
    BY DEF NoJob
  <2>. QED BY <1>1, <1>2, <1>13, <1>14, <2>7, <2>8, <2>9, <2>10, <2>11, <2>12, NoSpaceIs, Two,
              ZenonT(40)
<1>. QED BY <1>15, <1>16, Zenon

-----------------------------------------------------------------------------
(* The other steps *)

\* kalloc() and kfree() of other pages keep it.
LEMMA KallocStep ==
  ASSUME Counting, Inv, kalloc \/ kfree
  PROVE  Inv'
<1>1. /\ trapframe' = trapframe /\ pagetable' = pagetable /\ sz' = sz /\ job' = job
      /\ panicked' = panicked
  BY Zenon DEF kalloc, kfree, procVars
<1>2. PICK x \in Nat, y \in 0 .. 1 : x = free /\ y = pipe
  BY Unfold, Zenon
<1>3. \/ x > 0 /\ y = 0 /\ pipe' = 1 /\ free' = x - 1
      \/ y > 0 /\ free' = x + 1 /\ pipe' = y - 1
  BY <1>2, Zenon DEF kalloc, kfree
<1>4. free' \in Nat /\ pipe' \in 0 .. 1 /\ free' + pipe' = x + y
  BY <1>3
<1>. QED BY <1>1, <1>2, <1>4, OtherStep, Zenon

\* Every step keeps the invariant.
LEMMA NextKeeps ==
  ASSUME Counting, Inv, [Next]_vars
  PROVE  Inv'
<1>1. CASE UNCHANGED vars
  BY <1>1, SameState, Zenon DEF vars, procVars
<1>2. CASE kalloc \/ kfree
  BY <1>2, KallocStep, Zenon
<1>3. ASSUME NEW p \in Procs,
             \/ sbrk_grow(p) \/ grow_page(p) \/ grow_done(p) \/ sbrk_shrink(p)
             \/ copy_page(p) \/ copy_done(p) \/ freeproc(p)
      PROVE  Inv'
  BY <1>3, GrowStep, GrowPageStep, GrowDoneStep, ShrinkStep, CopyPageStep, CopyDoneStep,
     FreeprocStep, Zenon
<1>4. ASSUME NEW p \in Procs,
             \/ exec(p) \/ exec_segment(p) \/ exec_stack(p) \/ exec_page(p)
             \/ exec_bad(p) \/ exec_commit(p)
      PROVE  Inv'
  BY <1>4, ExecStep, ExecSegmentStep, ExecStackStep, ExecPageStep, ExecBadStep,
     ExecCommitStep, Zenon
<1>5. ASSUME NEW p \in Procs, NEW q \in Procs, fork(p, q)
      PROVE  Inv'
  BY <1>5, ForkStep, Zenon
<1>. QED BY <1>1, <1>2, <1>3, <1>4, <1>5, Zenon DEF Next

\* The pages of one process, while the others have none.
LEMMA SumOfOne ==
  ASSUME Counting, NEW h \in [Procs -> Nat], NEW q \in Procs, \A p \in Procs : p # q => h[p] = 0
  PROVE  Sum(h) = h[q]
<1>. DEFINE z == [p \in Procs |-> 0]
<1>1. z \in [Procs -> Nat] /\ \A p \in Procs : z[p] = 0
  BY Zenon
<1>. HIDE DEF z
<1>2. Sum(z) = 0
  <2>1. 1 .. 0 = {}
    OBVIOUS
  <2>2. \A p \in Procs : {p} \X (1 .. z[p]) = {}
    BY <1>1, <2>1, Zenon
  <2>3. UNION {{p} \X (1 .. z[p]) : p \in Procs} = {}
    BY <2>2, Zenon
  <2>. QED BY <2>3, Zenon DEF Sum, Counting
<1>3. \A p \in Procs : p # q => h[p] = z[p]
  BY <1>1, Zenon
<1>4. Sum(h) = Sum(z) + h[q] - z[q]
  BY <1>1, <1>3, Zenon DEF Counting
<1>5. PICK a \in Nat : a = h[q]
  BY Zenon
<1>6. 0 + a - 0 = a
  OBVIOUS
<1>. QED BY <1>1, <1>2, <1>4, <1>5, <1>6, Zenon

\* userinit() establishes the invariant.
LEMMA InitInv ==
  ASSUME Counting, Init
  PROVE  Inv
<1>1. PICK n \in Nat, fr \in Int : n = NPages /\ n >= 5 /\ fr = n - 1
  BY Numbers
<1>2. PICK pt : pt = proc_pagetable(fr)
  OBVIOUS
<1>3. PICK m : m = MapPage(pt.free, pt.as, 0)
  OBVIOUS
<1>4. /\ free = m.free /\ trapframe = [p \in Procs |-> p = Init0]
      /\ pagetable = [p \in Procs |-> IF p = Init0 THEN m.as ELSE NoSpace]
      /\ sz = [p \in Procs |-> IF p = Init0 THEN PGSIZE ELSE 0]
      /\ job = [p \in Procs |-> NoJob] /\ pipe = 0 /\ panicked = FALSE
  BY <1>1, <1>2, <1>3, Zenon DEF Init, uvmfirst
<1>5. ~(fr < 2) /\ fr >= -1
  BY <1>1
<1>6. pt = [ok |-> TRUE, free |-> fr - 2, as |-> uvmcreate]
  BY <1>2, <1>5, Zenon DEF proc_pagetable
<1>7. pt.ok /\ pt.free = fr - 2 /\ pt.as = uvmcreate
  BY <1>6
<1>8. /\ pt.free \in Nat /\ pt.free + 2 = fr /\ Count(pt.as) = 2
      /\ pt.as \in Spaces /\ pt.as.on /\ pt.as.pg = {}
  BY <1>2, <1>5, <1>7, PagetableIs, Zenon
<1>9. 0 \in Vpns /\ Init0 \in Procs
  BY Numbers, VmAssumption DEF Vpns
<1>10. Mapped(pt.free, pt.as, 0, m)
  <2>1. MapsTo(pt.free, pt.as, 0, m)
    BY <1>3, <1>8, <1>9, Zenon DEF MapsTo
  <2>. QED BY <2>1, MapPageIs, Zenon
<1>11. m.ok
  <2>1. PICK x \in Nat : x = pt.free
    BY <1>8, Zenon
  <2>2. x + 2 = fr
    BY <1>8, <2>1, Zenon
  <2>3. ~(x < 1) /\ ~(x < 2)
    BY <1>1, <2>2
  <2>. QED BY <1>3, <2>1, <2>3, Zenon DEF MapPage
<1>12. /\ m.free \in Nat /\ m.as \in Spaces /\ m.as.on /\ m.as.pg = {0}
       /\ m.free + Count(m.as) = pt.free + 2
  BY <1>8, <1>10, <1>11, Zenon DEF Mapped
<1>13. RoundUp(PGSIZE) = 1 /\ PGSIZE \in 0 .. MaxSz
  <2>1. 1 * PGSIZE = PGSIZE /\ 1 \in Nat
    BY Numbers
  <2>2. RoundUp(PGSIZE) = 1
    BY <2>1, RoundUpFacts, Zenon
  <2>3. 1 * PGSIZE <= MaxVpn * PGSIZE
    <3>1. 1 <= MaxVpn
      BY Numbers
    <3>. QED BY <2>1, <3>1, Numbers, TimesLe, Zenon
  <2>4. PGSIZE <= MaxSz
    BY <2>1, <2>3, Zenon DEF MaxSz
  <2>. QED BY <2>2, <2>4, Numbers, RoundUpFacts
<1>14. 0 \in 0 .. MaxSz /\ 0 \in 0 .. 1
  BY RoundUpFacts
<1>15. NoJob \in Jobs /\ NoJob.kind # "copy" /\ NoJob.kind \notin {"load", "stack"}
  BY DEF Jobs, NoJob
<1>16. Types
  <2>1. trapframe \in [Procs -> BOOLEAN]
    BY <1>4, Zenon
  <2>2. pagetable \in [Procs -> Spaces]
    BY <1>4, <1>12, NoSpaceIs, Zenon
  <2>3. sz \in [Procs -> 0 .. MaxSz]
    BY <1>4, <1>13, <1>14, Zenon
  <2>4. job \in [Procs -> Jobs]
    BY <1>4, <1>15, Zenon
  <2>. QED BY <1>4, <1>12, <1>14, <2>1, <2>2, <2>3, <2>4, Zenon DEF Types
<1>17. \A p \in Procs : job[p] = NoJob
  BY <1>4, Zenon
<1>18. Balance
  <2>. DEFINE h == [p \in Procs |-> HeldBy(trapframe[p], pagetable[p], job[p])]
  <2>1. \A p \in Procs : Held(p) = HeldBy(trapframe[p], pagetable[p], job[p])
    BY HeldIs, Zenon
  <2>2. ASSUME NEW p \in Procs PROVE HeldBy(trapframe[p], pagetable[p], job[p]) \in Nat
    <3>1. trapframe[p] \in BOOLEAN /\ pagetable[p] \in Spaces /\ job[p] \in Jobs
      BY <1>16, Zenon DEF Types
    <3>. QED BY <3>1, HeldNat, Zenon
  <2>3. h \in [Procs -> Nat] /\ \A p \in Procs : h[p] = Held(p)
    BY <2>1, <2>2, Zenon
  <2>. HIDE DEF h
  <2>4. \A p \in Procs : p # Init0 => h[p] = 0
    <3>1. ASSUME NEW p \in Procs, p # Init0 PROVE h[p] = 0
      <4>1. ~trapframe[p] /\ pagetable[p] = NoSpace
        BY <1>4, <3>1, Zenon
      <4>2. Frame(trapframe[p]) = 0
        BY <4>1, Zenon DEF Frame
      <4>3. HeldBy(trapframe[p], pagetable[p], job[p]) = 0 + 0 + 0
        BY <1>17, <4>1, <4>2, NoSpaceIs, Zenon DEF HeldBy
      <4>4. 0 + 0 + 0 = 0
        OBVIOUS
      <4>. QED BY <2>1, <2>3, <4>3, <4>4, Zenon
    <3>. QED BY <3>1, Zenon
  <2>5. Sum(h) = h[Init0]
    BY <1>9, <2>3, <2>4, SumOfOne, Zenon
  <2>6. {{p} \X (1 .. Held(p)) : p \in Procs} = {{p} \X (1 .. h[p]) : p \in Procs}
    BY <2>3, Zenon
  <2>7. Cardinality(PagesHeld) = h[Init0]
    BY <2>5, <2>6, Zenon DEF PagesHeld, Sum
  <2>8. PICK x \in Nat, y \in Nat, c \in Nat : x = pt.free /\ y = m.free /\ c = Count(m.as)
    BY <1>8, <1>12, CountIs, Zenon
  <2>9. h[Init0] = 1 + c + 0
    <3>1. trapframe[Init0] /\ pagetable[Init0] = m.as
      BY <1>4, <1>9, Zenon
    <3>2. Frame(trapframe[Init0]) = 1
      BY <3>1, Zenon DEF Frame
    <3>3. HeldBy(trapframe[Init0], pagetable[Init0], job[Init0]) = 1 + c + 0
      BY <1>9, <1>17, <2>8, <3>1, <3>2, NoSpaceIs, Zenon DEF HeldBy
    <3>. QED BY <1>9, <2>1, <2>3, <3>3, Zenon
  <2>10. y + c = x + 2 /\ x + 2 = fr
    BY <1>8, <1>12, <2>8, Zenon
  <2>11. fr = n - 1
    BY <1>1, Zenon
  <2>12. y + 0 + (1 + c + 0) = n
    BY ONLY <2>10, <2>11, x \in Nat, y \in Nat, c \in Nat, n \in Nat, fr \in Int
  <2>. QED BY <1>1, <1>4, <2>7, <2>8, <2>9, <2>12, Zenon DEF Balance
<1>19. \A p \in Procs : ~Kid(p)
  BY <1>15, <1>17, Zenon DEF Kid
<1>20. ASSUME NEW p \in Procs
       PROVE  OwnOK(trapframe[p], pagetable[p], sz[p], job[p]) /\ JobOK(sz[p], job[p])
  <2>1. job[p] = NoJob
    BY <1>17, Zenon
  <2>2. CASE p = Init0
    <3>1. trapframe[p] /\ pagetable[p] = m.as /\ sz[p] = PGSIZE
      BY <1>4, <2>2, Zenon
    <3>2. {0} = 0 .. 1 - 1
      OBVIOUS
    <3>3. pagetable[p].on /\ pagetable[p].pg = 0 .. RoundUp(sz[p]) - 1
      BY <1>12, <1>13, <3>1, <3>2, Zenon
    <3>. QED BY <2>1, <3>1, <3>3, OwnDone, Zenon
  <2>3. CASE p # Init0
    <3>1. ~trapframe[p] /\ pagetable[p] = NoSpace /\ sz[p] = 0
      BY <1>4, <2>3, Zenon
    <3>2. JobOK(sz[p], NoJob)
      BY DEF JobOK, NoJob
    <3>. QED BY <2>1, <3>1, <3>2, Zenon DEF OwnOK
  <2>. QED BY <2>2, <2>3, Zenon
<1>21. ProcsOK
  BY <1>19, <1>20, Zenon DEF ProcsOK
<1>22. ForksOK
  BY <1>15, <1>17, Zenon DEF ForksOK
<1>. QED BY <1>16, <1>18, <1>21, <1>22, Zenon DEF Inv

\* The invariant implies that every page is in one place and nothing panicked.
LEMMA PagesExactHolds ==
  ASSUME Inv
  PROVE  PagesExact
BY Zenon DEF Inv, Types, Balance, PagesExact

\* It implies the types, and that a process has the pages below its size.
LEMMA MapExactHolds ==
  ASSUME Counting, Inv
  PROVE  MapExact
<1>1. /\ free \in Nat /\ pipe \in 0 .. 1 /\ panicked = FALSE
      /\ trapframe \in [Procs -> BOOLEAN] /\ pagetable \in [Procs -> Spaces]
      /\ sz \in [Procs -> 0 .. MaxSz] /\ job \in [Procs -> Jobs]
  BY Unfold, Zenon
<1>2. free \in 0 .. NPages
  <2>. DEFINE h == [p \in Procs |-> HeldBy(trapframe[p], pagetable[p], job[p])]
  <2>1. \A p \in Procs : Held(p) = HeldBy(trapframe[p], pagetable[p], job[p])
    BY HeldIs, Zenon
  <2>2. ASSUME NEW p \in Procs PROVE HeldBy(trapframe[p], pagetable[p], job[p]) \in Nat
    BY TypesAt, HeldNat, Zenon
  <2>3. h \in [Procs -> Nat] /\ \A p \in Procs : h[p] = Held(p)
    BY <2>1, <2>2, Zenon
  <2>. HIDE DEF h
  <2>4. {{p} \X (1 .. Held(p)) : p \in Procs} = {{p} \X (1 .. h[p]) : p \in Procs}
    BY <2>3, Zenon
  <2>5. Cardinality(PagesHeld) \in Nat
    BY <2>3, <2>4, Zenon DEF PagesHeld, Sum, Counting
  <2>6. PICK x \in Nat, y \in 0 .. 1, c \in Nat :
          x = free /\ y = pipe /\ c = Cardinality(PagesHeld)
    BY <1>1, <2>5, Zenon
  <2>7. x + y + c = NPages
    BY <2>6, Unfold, Zenon DEF Balance
  <2>8. x \in 0 .. NPages
    BY <2>7, Numbers
  <2>. QED BY <2>6, <2>8, Zenon
<1>3. \A p \in Procs : job[p].kind \in {"none", "grow", "copy", "load", "stack"}
  <2>1. ASSUME NEW p \in Procs PROVE job[p].kind \in {"none", "grow", "copy", "load", "stack"}
    <3>1. job[p] \in Jobs
      BY TypesAt, Zenon
    <3>. QED BY <3>1, Kinds, Zenon
  <2>. QED BY <2>1, Zenon
<1>4. TypeOK
  BY <1>1, <1>2, <1>3, Zenon DEF TypeOK, Spaces, MaxSz
<1>5. ASSUME NEW p \in Procs, Alive(p)
      PROVE  pagetable[p].on /\ pagetable[p].pg = 0 .. RoundUp(sz[p]) - 1
  BY <1>5, AliveIs, Zenon
<1>6. ASSUME NEW p \in Procs, ~trapframe[p]
      PROVE  pagetable[p] = NoSpace /\ sz[p] = 0
  BY <1>6, SlotIs, Zenon
<1>. QED BY <1>4, <1>5, <1>6, Zenon DEF MapExact

-----------------------------------------------------------------------------
(* Counting, and the theorems *)

INSTANCE FiniteSetTheorems

\* There are finitely many user pages, and so tables for them.
LEMMA FewFinite ==
  ASSUME NEW A, Few(A)
  PROVE  IsFiniteSet(A) /\ Cardinality(A) \in Nat
<1>1. IsFiniteSet(Vpns)
  <2>1. 0 \in Int /\ MaxVpn - 1 \in Int
    BY Numbers
  <2>. QED BY <2>1, FS_Interval, Zenon DEF Vpns
<1>2. IsFiniteSet(Tables)
  <2>. DEFINE f == [v \in Vpns |-> TableOf(v)]
  <2>1. f \in Surjection(Vpns, Tables)
    BY Zenon DEF Surjection, Tables
  <2>. QED BY <1>1, <2>1, FS_Surjection, Zenon
<1>3. IsFiniteSet(A)
  BY <1>1, <1>2, FS_Subset, Zenon DEF Few
<1>. QED BY <1>3, FS_CardinalityType, Zenon

\* The pages from .. to - 1 of a set of pages.
LEMMA RemoveInterval ==
  ASSUME NEW A, A \subseteq Vpns, NEW from \in Nat, NEW to \in Nat, from <= to,
         from .. to - 1 \subseteq A
  PROVE  Cardinality(A \ (from .. to - 1)) = Cardinality(A) - (to - from)
<1>. DEFINE I == from .. to - 1
<1>1. Cardinality(I) = to - from
  <2>1. from \in Int /\ to - 1 \in Int
    OBVIOUS
  <2>2. Cardinality(from .. to - 1) = IF from > to - 1 THEN 0 ELSE (to - 1) - from + 1
    BY <2>1, FS_Interval, Zenon
  <2>3. PICK c : c = Cardinality(from .. to - 1)
    OBVIOUS
  <2>4. c = IF from > to - 1 THEN 0 ELSE (to - 1) - from + 1
    BY <2>2, <2>3, Zenon
  <2>5. c = to - from
    BY <2>4
  <2>. QED BY <2>3, <2>5, Zenon
<1>2. A \cap I = I
  BY Zenon
<1>3. IsFiniteSet(A)
  BY FewFinite, Zenon DEF Few
<1>4. Cardinality(A \ I) = Cardinality(A) - Cardinality(A \cap I)
  BY <1>3, FS_Difference, Zenon
<1>. QED BY <1>1, <1>2, <1>4, Zenon

\* The pages of one process.
LEMMA PagesOfOne ==
  ASSUME NEW q, NEW n \in Nat
  PROVE  IsFiniteSet({q} \X (1 .. n)) /\ Cardinality({q} \X (1 .. n)) = n
<1>1. IsFiniteSet({q}) /\ Cardinality({q}) = 1
  BY FS_Singleton, Zenon
<1>2. 1 \in Int /\ n \in Int
  OBVIOUS
<1>3. IsFiniteSet(1 .. n) /\ Cardinality(1 .. n) = IF 1 > n THEN 0 ELSE n - 1 + 1
  BY <1>2, FS_Interval, Zenon
<1>4. (IF 1 > n THEN 0 ELSE n - 1 + 1) = n /\ 1 * n = n
  OBVIOUS
<1>5. /\ IsFiniteSet({q} \X (1 .. n))
      /\ Cardinality({q} \X (1 .. n)) = Cardinality({q}) * Cardinality(1 .. n)
  BY <1>1, <1>3, FS_Product, ZenonT(40)
<1>. QED BY <1>1, <1>3, <1>4, <1>5, ZenonT(40)

\* The pages of all processes are finitely many.
LEMMA SumFinite ==
  ASSUME NEW h \in [Procs -> Nat]
  PROVE  /\ IsFiniteSet(UNION {{p} \X (1 .. h[p]) : p \in Procs})
         /\ Sum(h) \in Nat
<1>. DEFINE S == {{p} \X (1 .. h[p]) : p \in Procs}
            f == [p \in Procs |-> {p} \X (1 .. h[p])]
<1>1. IsFiniteSet(Procs)
  BY VmAssumption, Zenon
<1>2. f \in Surjection(Procs, S)
  BY Zenon DEF Surjection
<1>3. IsFiniteSet(S)
  BY <1>1, <1>2, FS_Surjection, Zenon
<1>4. \A T \in S : IsFiniteSet(T)
  <2>1. ASSUME NEW p \in Procs PROVE IsFiniteSet({p} \X (1 .. h[p]))
    BY PagesOfOne, Zenon
  <2>. QED BY <2>1, Zenon
<1>. HIDE DEF S
<1>5. IsFiniteSet(UNION S)
  BY <1>3, <1>4, FS_UNION, ZenonT(40)
<1>6. Cardinality(UNION S) \in Nat
  BY <1>5, FS_CardinalityType, ZenonT(40)
<1>. QED BY <1>5, <1>6, Zenon DEF S, Sum

\* A change of one process changes the total by as much.
LEMMA SumShift ==
  ASSUME NEW h \in [Procs -> Nat], NEW k \in [Procs -> Nat], NEW q \in Procs,
         \A p \in Procs : p # q => k[p] = h[p]
  PROVE  Sum(k) = Sum(h) + k[q] - h[q]
<1>. DEFINE H == UNION {{p} \X (1 .. h[p]) : p \in Procs}
            K == UNION {{p} \X (1 .. k[p]) : p \in Procs}
            A == {q} \X (1 .. h[q])
            B == {q} \X (1 .. k[q])
<1>1. H \cap A = A /\ K \cap B = B
  BY Zenon
<1>2. H \ A = K \ B
  <2>1. ASSUME NEW x, x \in H, x \notin A PROVE x \in K \ B
    <3>1. PICK p \in Procs : x \in {p} \X (1 .. h[p])
      BY <2>1, Zenon
    <3>2. p # q
      BY <2>1, <3>1, Zenon
    <3>3. x \in {p} \X (1 .. k[p])
      BY <3>1, <3>2, Zenon
    <3>4. x \notin B
      BY <3>1, <3>2, Zenon
    <3>. QED BY <3>3, <3>4, Zenon
  <2>2. ASSUME NEW x, x \in K, x \notin B PROVE x \in H \ A
    <3>1. PICK p \in Procs : x \in {p} \X (1 .. k[p])
      BY <2>2, Zenon
    <3>2. p # q
      BY <2>2, <3>1, Zenon
    <3>3. x \in {p} \X (1 .. h[p])
      BY <3>1, <3>2, Zenon
    <3>4. x \notin A
      BY <3>1, <3>2, Zenon
    <3>. QED BY <3>3, <3>4, Zenon
  <2>. QED BY <2>1, <2>2, Zenon
<1>3. Cardinality(A) = h[q] /\ Cardinality(B) = k[q]
  BY PagesOfOne, Zenon
<1>4. IsFiniteSet(H) /\ IsFiniteSet(K) /\ Sum(h) \in Nat /\ Sum(k) \in Nat
  BY SumFinite, Zenon
<1>5. Sum(h) = Cardinality(H) /\ Sum(k) = Cardinality(K)
  BY Zenon DEF Sum
<1>. HIDE DEF H, K, A, B
<1>6. /\ Cardinality(H \ A) = Cardinality(H) - Cardinality(H \cap A)
      /\ Cardinality(K \ B) = Cardinality(K) - Cardinality(K \cap B)
  BY <1>4, FS_Difference, Zenon
<1>7. PICK a \in Nat, b \in Nat, c \in Nat, d \in Nat :
        a = h[q] /\ b = k[q] /\ c = Sum(h) /\ d = Sum(k)
  BY <1>4, Zenon
<1>8. c - a = d - b
  BY <1>1, <1>2, <1>3, <1>5, <1>6, <1>7, ZenonT(40)
<1>9. d = c + b - a
  BY ONLY <1>8, a \in Nat, b \in Nat, c \in Nat, d \in Nat, SMTT(30)
<1>. QED BY <1>7, <1>9, Zenon

\* What the proofs use of finite sets.
LEMMA CountingHolds == Counting
<1>1. Cardinality({}) = 0
  BY FS_EmptySet, Zenon
<1>2. \A A : Few(A) => Cardinality(A) \in Nat
  BY FewFinite, Zenon
<1>3. \A A, x : Few(A) /\ x \notin A => Cardinality(A \cup {x}) = Cardinality(A) + 1
  BY FewFinite, FS_AddElement, Zenon
<1>4. \A A : \A from, to \in Nat :
        A \subseteq Vpns /\ from <= to /\ from .. to - 1 \subseteq A =>
          Cardinality(A \ (from .. to - 1)) = Cardinality(A) - (to - from)
  BY RemoveInterval, Zenon
<1>5. \A h \in [Procs -> Nat] : Sum(h) \in Nat
  BY SumFinite, Zenon
<1>6. \A h, k \in [Procs -> Nat], q \in Procs :
        (\A p \in Procs : p # q => k[p] = h[p]) => Sum(k) = Sum(h) + k[q] - h[q]
  BY SumShift, ZenonT(40)
<1>. QED BY <1>1, <1>2, <1>3, <1>4, <1>5, <1>6, ZenonT(40) DEF Counting

\* The inductive invariant holds in every state of every behaviour.
THEOREM Invariance == Spec => []Inv
<1>1. Init => Inv
  BY CountingHolds, InitInv, Zenon
<1>2. Inv /\ [Next]_vars => Inv'
  BY CountingHolds, NextKeeps, Zenon
<1>. QED BY <1>1, <1>2, PTL DEF Spec

\* PagesExact: whichever calls of fork(), exec(), sbrk() and exit() run out of memory,
\* at whichever page, and however the loops of several processes interleave, every page
\* is free or in exactly one use, and no check of mappages(), uvmunmap(), freewalk() or
\* uvmcopy() panics.
THEOREM PagesExactThm == Spec => []PagesExact
<1>1. Inv => PagesExact
  BY PagesExactHolds, Zenon
<1>. QED BY <1>1, Invariance, PTL

\* MapExact: a process in user mode has exactly the pages below its size, also after a
\* call that failed half-way, and a slot that is free has no page.
THEOREM MapExactThm == Spec => []MapExact
<1>1. Inv => MapExact
  BY CountingHolds, MapExactHolds, Zenon
<1>. QED BY <1>1, Invariance, PTL

-----------------------------------------------------------------------------
(* Induction, and the theorem that rests on it *)

INSTANCE WellFoundedInduction

\* The least number that is not in a set is 0 or follows one that is.
LEMMA Induct ==
  ASSUME NEW T, 0 \in T, \A k \in Nat : k \in T => k + 1 \in T
  PROVE  \A k \in Nat : k \in T
<1> DEFINE F == {k \in Nat : k \notin T}
<1>1. SUFFICES ASSUME F # {} PROVE FALSE
  BY Zenon
<1>2. \E m \in F : \A k \in F : <<k, m>> \notin OpToRel(<, Nat)
  <2>1. F \subseteq Nat
    BY Zenon
  <2> HIDE DEF F
  <2>. QED BY <1>1, <2>1, WFMin, NatLessThanWellFounded, ZenonT(40)
<1>3. PICK m \in F : \A k \in F : <<k, m>> \notin OpToRel(<, Nat)
  BY <1>2, Zenon
<1>4. m \in Nat /\ m # 0
  BY Zenon
<1>5. m - 1 \in Nat /\ (m - 1) + 1 = m /\ m - 1 < m
  BY <1>4
<1>6. <<m - 1, m>> \in OpToRel(<, Nat)
  BY <1>4, <1>5 DEF OpToRel
<1>7. m - 1 \in T
  BY <1>3, <1>5, <1>6, ZenonT(40)
<1>. QED BY <1>5, <1>7, Zenon

\* The induction on which the loops rest.
LEMMA InductionHolds == Induction
BY Induct, ZenonT(40) DEF Induction

\* CopyRight: in the address space of every process that runs, copyin() and copyout()
\* succeed exactly when all bytes are user memory and then copy them in order,
\* copyinstr() ends at the first '\0', fetchaddr() reads below p->sz only, and none of
\* them touches another byte; for every page size, width of addresses and length.
THEOREM CopyRightThm == Spec => []CopyRight
<1>1. Inv => CopyRight
  <2>1. SUFFICES ASSUME Inv PROVE CopyRight
    BY Zenon
  <2>2. pagetable \in [Procs -> Spaces]
    BY <2>1, Zenon DEF Inv, Types
  <2>3. ASSUME NEW p \in Procs PROVE pagetable[p].pg \subseteq Vpns
    <3>1. pagetable[p] \in Spaces
      BY <2>2, Zenon
    <3>2. pagetable[p].pg \in SUBSET Vpns
      BY <3>1, Zenon DEF Spaces
    <3>. QED BY <3>2, Zenon
  <2>. QED BY <2>3, InductionHolds, CopyRightHolds, ZenonT(40)
<1>. QED BY <1>1, Invariance, PTL
==============================================================================
