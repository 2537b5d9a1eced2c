------------------------------ MODULE PipeProofs ------------------------------
(***************************************************************************)
(* Proofs about Pipe, for every set of readers and writers, every size of  *)
(* the buffer and every width of the counters: nobody sleeps without a     *)
(* reason, the page is freed only when unused, and the pipe implements     *)
(* Channel, the bounded FIFO.                                              *)
(***************************************************************************)
EXTENDS Pipe, SequenceTheorems, TLAPS

-----------------------------------------------------------------------------
(* Counters and buffer positions *)

\* A remainder is in range, and what it is next to the range.
LEMMA ModNear ==
  ASSUME NEW m \in Nat \ {0}, NEW x \in Int
  PROVE  /\ x % m \in 0 .. m - 1
         /\ 0 <= x /\ x < m => x % m = x
         /\ m <= x /\ x < 2 * m => x % m = x - m
         /\ -m <= x /\ x < 0 => x % m = x + m
OBVIOUS

\* Quotient and remainder.
LEMMA DivMod ==
  ASSUME NEW m \in Nat \ {0}, NEW x \in Int
  PROVE  x \div m \in Int /\ x = m * (x \div m) + (x % m)
OBVIOUS

\* A positive multiple of m is at least m.
LEMMA AtLeastOnce ==
  ASSUME NEW m \in Nat \ {0}, NEW k \in Int, k >= 1
  PROVE  k * m >= m
OBVIOUS

\* The remainder is unique.
LEMMA ModUnique ==
  ASSUME NEW m \in Nat \ {0}, NEW q \in Int, NEW r \in 0 .. m - 1
  PROVE  (q * m + r) % m = r
<1> DEFINE x == q * m + r
           d == q - (x \div m)
<1>1. x \in Int /\ x = m * (x \div m) + (x % m) /\ x \div m \in Int
  BY DivMod
<1>2. x % m \in 0 .. m - 1
  BY <1>1, ModNear, Zenon
<1>3. d \in Int /\ d * m = (x % m) - r
  BY <1>1, <1>2
<1>4. CASE d = 0
  BY <1>3, <1>4, <1>2
<1>5. CASE d >= 1
  BY <1>5, <1>3, <1>2, AtLeastOnce
<1>6. CASE -d >= 1
  <2>1. (-d) * m >= m /\ (-d) * m = r - (x % m)
    BY <1>6, <1>3, <1>2, AtLeastOnce
  <2>. QED BY <2>1, <1>2
<1>. QED BY <1>3, <1>4, <1>5, <1>6

\* Storing k bytes adds k to the number in use, whether or not a counter wraps.
LEMMA UsedAfterWrite ==
  ASSUME NEW m \in Nat \ {0}, NEW nr \in 0 .. m - 1, NEW nw \in 0 .. m - 1, NEW k \in Nat,
         ((nw - nr) % m) + k < m
  PROVE  (((nw + k) % m) - nr) % m = ((nw - nr) % m) + k
<1>1. CASE nw >= nr /\ nw + k < m
  <2>1. (nw - nr) % m = nw - nr /\ (nw + k) % m = nw + k
    BY <1>1
  <2>. QED BY <1>1, <2>1
<1>2. CASE nw >= nr /\ nw + k >= m
  <2>1. (nw - nr) % m = nw - nr
    BY <1>2
  <2>2. (nw + k) % m = nw + k - m
    BY <1>2, <2>1
  <2>. QED BY <1>2, <2>1, <2>2
<1>3. CASE nw < nr
  <2>1. (nw - nr) % m = nw - nr + m
    BY <1>3
  <2>2. (nw + k) % m = nw + k
    BY <1>3, <2>1
  <2>. QED BY <1>3, <2>1, <2>2
<1>. QED BY <1>1, <1>2, <1>3

\* Taking k bytes of those in use leaves the others.
LEMMA UsedAfterRead ==
  ASSUME NEW m \in Nat \ {0}, NEW nr \in 0 .. m - 1, NEW nw \in 0 .. m - 1, NEW k \in Nat,
         k <= (nw - nr) % m
  PROVE  (nw - ((nr + k) % m)) % m = ((nw - nr) % m) - k
<1>1. CASE nw >= nr
  <2>1. (nw - nr) % m = nw - nr /\ (nr + k) % m = nr + k
    BY <1>1
  <2>. QED BY <1>1, <2>1
<1>2. CASE nw < nr /\ nr + k < m
  <2>1. (nw - nr) % m = nw - nr + m /\ (nr + k) % m = nr + k
    BY <1>2
  <2>. QED BY <1>2, <2>1
<1>3. CASE nw < nr /\ nr + k >= m
  <2>1. (nw - nr) % m = nw - nr + m
    BY <1>3
  <2>2. (nr + k) % m = nr + k - m
    BY <1>3, <2>1
  <2>. QED BY <1>3, <2>1, <2>2
<1>. QED BY <1>1, <1>2, <1>3

\* A counter that wraps moves by whole buffers, as UintMod is a multiple of PIPESIZE.
LEMMA WrapAligned ==
  ASSUME NEW x \in Int
  PROVE  \E t \in Int : x % UintMod = x + t * PIPESIZE
<1>1. UintMod \div PIPESIZE \in Int /\ UintMod = PIPESIZE * (UintMod \div PIPESIZE)
  BY PipeAssumption, DivMod
<1>2. x \div UintMod \in Int /\ x = UintMod * (x \div UintMod) + (x % UintMod)
  BY PipeAssumption, DivMod, Zenon
<1> DEFINE t == (-(x \div UintMod)) * (UintMod \div PIPESIZE)
<1>3. t \in Int /\ t * PIPESIZE = -((x \div UintMod) * UintMod)
  BY <1>1, <1>2, PipeAssumption
<1>4. x % UintMod \in Int
  BY PipeAssumption, ModNear
<1>5. x % UintMod = x + t * PIPESIZE
  BY <1>2, <1>3, <1>4, PipeAssumption
<1> HIDE DEF t
<1>. QED BY <1>3, <1>5, Zenon

\* How far the place of counter value x is from that of b.
LEMMA PlaceDiff ==
  ASSUME NEW x \in Int, NEW b \in Int, NEW y \in 0 .. PIPESIZE - 1, NEW t \in Int,
         x - b = y + t * PIPESIZE
  PROVE  ((x % PIPESIZE) - b) % PIPESIZE = y
<1> DEFINE q == x \div PIPESIZE
<1>1. q \in Int /\ x = PIPESIZE * q + (x % PIPESIZE) /\ x % PIPESIZE \in Int
  BY PipeAssumption, DivMod, ModNear
<1>2. t - q \in Int /\ (x % PIPESIZE) - b = (t - q) * PIPESIZE + y
  BY <1>1, PipeAssumption
<1>. QED BY <1>2, ModUnique, PipeAssumption, Zenon

\* Places repeat after whole buffers.
LEMMA PlaceShift ==
  ASSUME NEW x \in Int, NEW t \in Int
  PROVE  (x + t * PIPESIZE) % PIPESIZE = x % PIPESIZE
<1> DEFINE q == x \div PIPESIZE
           r == x % PIPESIZE
<1>1. q \in Int /\ x = PIPESIZE * q + r /\ r \in 0 .. PIPESIZE - 1
  BY PipeAssumption, DivMod, ModNear, Zenon
<1>2. q + t \in Int /\ x + t * PIPESIZE = (q + t) * PIPESIZE + r
  BY <1>1, PipeAssumption
<1>3. ((q + t) * PIPESIZE + r) % PIPESIZE = r
  BY <1>1, <1>2, ModUnique, PipeAssumption, Zenon
<1> HIDE DEF q
<1>. QED BY <1>2, <1>3, Zenon

-----------------------------------------------------------------------------
(* The inductive invariant *)

\* The flags of struct pipe follow the open descriptors, the page is freed with
\* the last of them, and a process inside a call holds one.
Ends ==
  /\ readopen <=> holders \cap Readers # {}
  /\ writeopen <=> holders \cap Writers # {}
  /\ freed <=> ~readopen /\ ~writeopen
  /\ \A p \in Procs : pc[p] # "idle" => p \in holders

PipeInv == TypeOK /\ Used <= PIPESIZE /\ Ends /\ NoLostWakeup

\* The counters determine how much is in use.
LEMMA UsedType ==
  ASSUME TypeOK
  PROVE  Used \in 0 .. UintMod - 1 /\ (Used = 0 <=> nread = nwrite)
<1>1. nread \in 0 .. UintMod - 1 /\ nwrite \in 0 .. UintMod - 1 /\ UintMod \in Nat \ {0}
  BY PipeAssumption, Zenon DEF TypeOK
<1>2. CASE nwrite >= nread
  <2>1. Used = nwrite - nread
    BY <1>1, <1>2 DEF Used
  <2>. QED BY <1>1, <1>2, <2>1
<1>3. CASE nwrite < nread
  <2>1. Used = nwrite - nread + UintMod
    BY <1>1, <1>3 DEF Used
  <2>. QED BY <1>1, <1>3, <2>1
<1>. QED BY <1>1, <1>2, <1>3

\* wakeup() turns sleepers of the given set, and only those, into runnable ones.
LEMMA WakeType ==
  ASSUME NEW f \in [Procs -> {"idle", "run", "sleep"}], NEW set
  PROVE  /\ Wake(f, set) \in [Procs -> {"idle", "run", "sleep"}]
         /\ \A p \in Procs : Wake(f, set)[p] = "sleep" => f[p] = "sleep" /\ p \notin set
         /\ \A p \in Procs : Wake(f, set)[p] = "idle" <=> f[p] = "idle"
  BY Zenon DEF Wake

\* What a call that returns leaves behind.
LEMMA ReturnType ==
  ASSUME TypeOK, NEW p \in Procs, NEW f \in [Procs -> {"idle", "run", "sleep"}], Return(p, f)
  PROVE  /\ pc' \in [Procs -> {"idle", "run", "sleep"}]
         /\ n' \in [Procs -> Counts \cup {0}] /\ i' \in [Procs -> Nat]
         /\ \A q \in Procs : i'[q] <= n'[q]
         /\ \A q \in Procs : pc'[q] # "idle" => q # p /\ pc'[q] = f[q]
<1>1. n' \in [Procs -> Counts \cup {0}] /\ i' \in [Procs -> Nat]
  BY Zenon DEF TypeOK, Return
<1>2. \A q \in Procs : i'[q] <= n'[q]
  BY DEF TypeOK, Return
<1>. QED BY <1>1, <1>2, Zenon DEF Return

\* A call has moved at most the bytes it was asked for, the buffer holds at most PIPESIZE.
LEMMA CallType ==
  ASSUME PipeInv, NEW p \in Procs
  PROVE  /\ Used \in Nat /\ Used <= PIPESIZE
         /\ n[p] \in Nat /\ i[p] \in Nat /\ i[p] <= n[p]
<1>1. Used \in 0 .. UintMod - 1 /\ Used <= PIPESIZE
  BY UsedType, Zenon DEF PipeInv
<1>2. n[p] \in Counts \cup {0} /\ i[p] \in Nat /\ i[p] <= n[p]
  BY Zenon DEF PipeInv, TypeOK
<1>3. 0 \in Nat
  OBVIOUS
<1>4. n[p] \in Nat
  BY <1>2, <1>3, PipeAssumption, Zenon
<1>5. Used \in Nat
  BY <1>1
<1>. QED BY <1>1, <1>2, <1>4, <1>5, Zenon

\* pipealloc() establishes the invariant.
LEMMA InitInv == Init => PipeInv
<1> SUFFICES ASSUME Init PROVE PipeInv
  BY Zenon
<1>1. TypeOK
  <2>1. nread \in 0 .. UintMod - 1 /\ nwrite \in 0 .. UintMod - 1
    BY PipeAssumption DEF Init
  <2>2. \A q \in Procs : i[q] <= n[q]
    BY DEF Init
  <2>. QED BY <2>1, <2>2, Zenon DEF Init, TypeOK
<1>2. Used <= PIPESIZE
  BY PipeAssumption DEF Init, Used
<1>3. Ends /\ NoLostWakeup
  BY PipeAssumption, Zenon DEF Init, Ends, NoLostWakeup, Procs
<1>. QED BY <1>1, <1>2, <1>3, Zenon DEF PipeInv

\* Steps that leave the struct alone.
LEMMA CallInv == ASSUME PipeInv, NEW p \in Procs, call(p) PROVE PipeInv'
<1> USE DEF PipeInv, call, pipeVars
<1>1. TypeOK'
  <2>1. PICK m \in Counts : n' = [n EXCEPT ![p] = m]
    BY Zenon
  <2>2. m \in Nat
    BY PipeAssumption, Zenon
  <2>3. \A q \in Procs : i'[q] <= n'[q]
    BY <2>1, <2>2 DEF TypeOK
  <2>. QED BY <2>1, <2>3, Zenon DEF TypeOK
<1>2. Used' = Used
  BY Zenon DEF Used
<1>3. Ends'
  BY Zenon DEF Ends, TypeOK
<1>4. NoLostWakeup'
  BY <1>2, Zenon DEF NoLostWakeup, TypeOK
<1>. QED BY <1>1, <1>2, <1>3, <1>4, Zenon

\* A write that fails changes nothing but its caller.
LEMMA WriteFailInv == ASSUME PipeInv, NEW p \in Procs, write_fail(p) PROVE PipeInv'
<1> USE DEF PipeInv, write_fail, pipeVars
<1>1. pc \in [Procs -> {"idle", "run", "sleep"}]
  BY Zenon DEF TypeOK
<1>2. TypeOK'
  BY <1>1, ReturnType, Zenon DEF TypeOK
<1>3. Used' = Used
  BY Zenon DEF Used
<1>4. Ends'
  BY <1>1, ReturnType DEF Ends
<1>5. NoLostWakeup'
  BY <1>1, <1>3, ReturnType DEF NoLostWakeup
<1>. QED BY <1>2, <1>3, <1>4, <1>5, Zenon

\* A reader sleeps only on an empty pipe with a writer, and not killed.
LEMMA ReadEmptyInv == ASSUME PipeInv, NEW p \in Procs, read_empty(p) PROVE PipeInv'
<1> USE DEF PipeInv, read_empty, pipeVars
<1>1. pc \in [Procs -> {"idle", "run", "sleep"}]
  BY Zenon DEF TypeOK
<1>2. Used' = Used /\ Used = 0
  BY UsedType, Zenon DEF Used
<1>3. CASE killed[p]
  <2>1. TypeOK'
    BY <1>1, <1>3, ReturnType, Zenon DEF TypeOK
  <2>2. Ends'
    BY <1>1, <1>3, ReturnType DEF Ends
  <2>3. NoLostWakeup'
    BY <1>1, <1>2, <1>3, ReturnType DEF NoLostWakeup
  <2>. QED BY <1>2, <2>1, <2>2, <2>3, Zenon
<1>4. CASE ~killed[p]
  <2>1. TypeOK'
    BY <1>1, <1>4, Zenon DEF TypeOK
  <2>2. Ends'
    BY <1>1, <1>4, Zenon DEF Ends
  <2>3. NoLostWakeup'
    BY <1>1, <1>2, <1>4, PipeAssumption, Zenon DEF NoLostWakeup
  <2>. QED BY <1>2, <2>1, <2>2, <2>3, Zenon
<1>. QED BY <1>3, <1>4, Zenon

\* kill() wakes its victim.
LEMMA KillInv == ASSUME PipeInv, NEW p \in Procs, kill(p) PROVE PipeInv'
<1> USE DEF PipeInv, kill, pipeVars
<1>1. pc \in [Procs -> {"idle", "run", "sleep"}]
  BY Zenon DEF TypeOK
<1>2. TypeOK'
  BY <1>1, WakeType, Zenon DEF TypeOK
<1>3. Used' = Used
  BY Zenon DEF Used
<1>4. Ends'
  BY <1>1, WakeType DEF Ends
<1>5. NoLostWakeup'
  BY <1>1, <1>3, WakeType DEF NoLostWakeup, TypeOK
<1>. QED BY <1>2, <1>3, <1>4, <1>5, Zenon

\* Closing: at most one flag changes, and the sleepers that relied on it wake.
LEMMA CloseEnds ==
  ASSUME PipeInv, NEW p \in Procs, pipeclose(p)
  PROVE  /\ readopen' \in BOOLEAN /\ writeopen' \in BOOLEAN /\ freed' \in BOOLEAN
         /\ readopen' => readopen
         /\ writeopen' => writeopen
         /\ p \in Readers => writeopen' = writeopen
         /\ p \in Writers => readopen' = readopen
  BY PipeAssumption DEF pipeclose, PipeInv, Ends, TypeOK, Procs

\* pipeclose() keeps the flags in step and wakes the other end.
LEMMA CloseInv == ASSUME PipeInv, NEW p \in Procs, pipeclose(p) PROVE PipeInv'
<1> USE DEF PipeInv
<1>1. pc \in [Procs -> {"idle", "run", "sleep"}]
  BY Zenon DEF TypeOK
<1>2. \/ readopen' # readopen /\ pc' = Wake(pc, Writers)
      \/ readopen' = readopen /\ writeopen' # writeopen /\ pc' = Wake(pc, Readers)
      \/ readopen' = readopen /\ writeopen' = writeopen /\ pc' = pc
  BY Zenon DEF pipeclose
<1>3. /\ pc' \in [Procs -> {"idle", "run", "sleep"}]
      /\ \A q \in Procs : pc'[q] = "idle" <=> pc[q] = "idle"
      /\ \A q \in Procs : pc'[q] = "sleep" => pc[q] = "sleep"
  BY <1>1, <1>2, WakeType
<1>4. TypeOK'
  BY <1>3, CloseEnds, Zenon DEF TypeOK, pipeclose
<1>5. Used' = Used
  BY Zenon DEF Used, pipeclose
<1>6. Ends'
  BY <1>3, Zenon DEF Ends, pipeclose
<1>7. NoLostWakeup'
  <2> SUFFICES ASSUME NEW q \in Procs, pc'[q] = "sleep"
               PROVE  /\ ~killed'[q]
                      /\ q \in Writers => Used' = PIPESIZE /\ readopen'
                      /\ q \in Readers => Used' = 0 /\ writeopen'
    BY Zenon DEF NoLostWakeup
  <2>1. /\ ~killed[q]
        /\ q \in Writers => Used = PIPESIZE /\ readopen
        /\ q \in Readers => Used = 0 /\ writeopen
    BY <1>3, Zenon DEF NoLostWakeup
  <2>2. q \in Writers => readopen' = readopen
    BY <1>1, <1>2, WakeType
  <2>3. q \in Readers => writeopen' = writeopen
    <3>1. CASE readopen' # readopen
      BY <3>1, CloseEnds, Zenon DEF Procs
    <3>2. CASE readopen' = readopen
      BY <3>2, <1>1, <1>2, WakeType
    <3>. QED BY <3>1, <3>2, Zenon
  <2>. QED BY <2>1, <2>2, <2>3, <1>5, Zenon DEF pipeclose
<1>. QED BY <1>4, <1>5, <1>6, <1>7, Zenon

\* Storing and taking keep the types and move Used by the number of bytes.
LEMMA StoreUsed ==
  ASSUME PipeInv, NEW p \in Writers, NEW k \in Nat, k <= Space, Store(p, k), nread' = nread
  PROVE  /\ data' \in [0 .. PIPESIZE - 1 -> Bytes \cup {NoByte}]
         /\ nwrite' \in 0 .. UintMod - 1
         /\ Used' = Used + k
         /\ Used + k <= PIPESIZE
<1>1. Used \in 0 .. UintMod - 1 /\ Used <= PIPESIZE
  BY UsedType, Zenon DEF PipeInv
<1>2. Used + k <= PIPESIZE /\ Used + k < UintMod
  BY <1>1, PipeAssumption DEF Space
<1>3. nread \in 0 .. UintMod - 1 /\ nwrite \in 0 .. UintMod - 1 /\ UintMod \in Nat \ {0}
  BY PipeAssumption, Zenon DEF PipeInv, TypeOK
<1>4. nwrite' \in 0 .. UintMod - 1
  BY <1>3, ModNear DEF Store
<1>5. Used' = Used + k
  <2>1. ((nwrite - nread) % UintMod) + k < UintMod
    BY <1>2, Zenon DEF Used
  <2>2. (((nwrite + k) % UintMod) - nread) % UintMod = ((nwrite - nread) % UintMod) + k
    BY <1>3, <2>1, UsedAfterWrite, Zenon
  <2>. QED BY <2>2, Zenon DEF Used, Store
<1>6. data' \in [0 .. PIPESIZE - 1 -> Bytes \cup {NoByte}]
  <2>1. \A x \in Int : Byte(p, x) \in Bytes
    <3> TAKE x \in Int
    <3>1. x % 2 \in 0 .. 1 /\ (x % 2) % 2 = x % 2
      OBVIOUS
    <3>. QED BY <3>1 DEF Byte, Bytes
  <2>2. \A j \in 0 .. PIPESIZE - 1 : (j - nwrite) % PIPESIZE \in Int
    BY <1>3, PipeAssumption, ModNear
  <2>3. i[p] \in Int
    BY DEF PipeInv, TypeOK, Procs
  <2>4. \A j \in 0 .. PIPESIZE - 1 : Byte(p, i[p] + ((j - nwrite) % PIPESIZE)) \in Bytes
    BY <2>1, <2>2, <2>3
  <2>. QED BY <2>4, Zenon DEF Store, PipeInv, TypeOK
<1>. QED BY <1>2, <1>4, <1>5, <1>6, Zenon

\* pipewrite() sleeps only on a full pipe, having woken the readers.
LEMMA WriteInv == ASSUME PipeInv, NEW p \in Procs, pipewrite(p) PROVE PipeInv'
<1>1. PICK k \in 0 .. Smaller(n[p] - i[p], Space) :
        /\ Store(p, k)
        /\ IF i[p] + k < n[p] /\ Used + k = PIPESIZE
           THEN /\ i' = [i EXCEPT ![p] = @ + k] /\ UNCHANGED n
                /\ pc' = [Wake(pc, Readers) EXCEPT ![p] = "sleep"]
           ELSE Return(p, Wake(pc, Readers))
  BY Zenon DEF pipewrite
<1>2. /\ p \in Writers /\ pc[p] = "run" /\ p \in holders
      /\ i[p] < n[p] => readopen /\ ~killed[p]
      /\ UNCHANGED <<nread, readopen, writeopen, freed, holders, killed, eof>>
  BY Zenon DEF pipewrite, PipeInv, Ends
<1>3. Used \in Nat /\ n[p] \in Nat /\ i[p] \in Nat /\ i[p] <= n[p]
  BY CallType, Zenon
<1>4. k \in Nat /\ k <= Space /\ i[p] + k <= n[p]
  BY <1>1, <1>3, PipeAssumption DEF Smaller, Space
<1>5. /\ data' \in [0 .. PIPESIZE - 1 -> Bytes \cup {NoByte}]
      /\ nwrite' \in 0 .. UintMod - 1
      /\ Used' = Used + k /\ Used + k <= PIPESIZE
  BY <1>1, <1>2, <1>4, StoreUsed, Zenon
<1> DEFINE f == Wake(pc, Readers)
<1>6. /\ f \in [Procs -> {"idle", "run", "sleep"}]
      /\ \A q \in Procs : f[q] = "sleep" => pc[q] = "sleep" /\ q \notin Readers
      /\ \A q \in Procs : f[q] = "idle" <=> pc[q] = "idle"
  BY WakeType DEF PipeInv, TypeOK
<1> HIDE DEF f
<1>7. /\ pc' \in [Procs -> {"idle", "run", "sleep"}]
      /\ n' \in [Procs -> Counts \cup {0}] /\ i' \in [Procs -> Nat]
      /\ \A q \in Procs : i'[q] <= n'[q]
      /\ \A q \in Procs \ {p} : pc'[q] = f[q]
      /\ pc'[p] = "sleep" => i[p] < n[p] /\ Used' = PIPESIZE
  <2>1. CASE i[p] + k < n[p] /\ Used + k = PIPESIZE
    <3>1. i' = [i EXCEPT ![p] = @ + k] /\ n' = n /\ pc' = [f EXCEPT ![p] = "sleep"]
      BY <1>1, <2>1, Zenon DEF f
    <3>2. i' \in [Procs -> Nat] /\ \A q \in Procs : i'[q] <= n'[q]
      BY <3>1, <1>3, <1>4 DEF PipeInv, TypeOK
    <3>3. i[p] < n[p] /\ Used' = PIPESIZE
      BY <2>1, <1>3, <1>4, <1>5
    <3>. QED BY <3>1, <3>2, <3>3, <1>6, Zenon DEF PipeInv, TypeOK
  <2>2. CASE ~(i[p] + k < n[p] /\ Used + k = PIPESIZE)
    <3>1. Return(p, f)
      BY <1>1, <2>2, Zenon DEF f
    <3>2. pc'[p] = "idle" /\ \A q \in Procs \ {p} : pc'[q] = f[q]
      BY <3>1, <1>6, Zenon DEF Return
    <3>. QED BY <3>1, <3>2, <1>6, ReturnType, Zenon DEF PipeInv
  <2>. QED BY <2>1, <2>2, Zenon
<1>8. TypeOK'
  BY <1>2, <1>5, <1>7, Zenon DEF PipeInv, TypeOK
<1>9. Ends'
  BY <1>2, <1>6, <1>7, Zenon DEF PipeInv, Ends
<1>10. NoLostWakeup'
  <2> SUFFICES ASSUME NEW q \in Procs, pc'[q] = "sleep"
               PROVE  /\ ~killed'[q]
                      /\ q \in Writers => Used' = PIPESIZE /\ readopen'
                      /\ q \in Readers => Used' = 0 /\ writeopen'
    BY Zenon DEF NoLostWakeup
  <2>1. CASE q = p
    BY <2>1, <1>2, <1>7, PipeAssumption, Zenon
  <2>2. CASE q # p
    <3>1. pc[q] = "sleep" /\ q \notin Readers
      BY <2>2, <1>6, <1>7, Zenon
    <3>2. ~killed[q] /\ Used = PIPESIZE /\ readopen
      BY <3>1, Zenon DEF PipeInv, NoLostWakeup, Procs
    <3>3. Used' = PIPESIZE
      BY <3>2, <1>4, <1>5, PipeAssumption
    <3>. QED BY <3>1, <3>2, <3>3, <1>2, Zenon
  <2>. QED BY <2>1, <2>2, Zenon
<1>. QED BY <1>3, <1>4, <1>5, <1>8, <1>9, <1>10, Zenon DEF PipeInv

\* piperead() makes room only after waking the writers.
LEMMA ReadInv == ASSUME PipeInv, NEW p \in Procs, piperead(p) PROVE PipeInv'
<1>1. PICK k \in 0 .. Smaller(n[p], Used) :
        /\ nread' = (nread + k) % UintMod
        /\ data' = [j \in 0 .. PIPESIZE - 1 |->
             IF (j - nread) % PIPESIZE < k THEN NoByte ELSE data[j]]
  BY Zenon DEF piperead
<1>2. /\ p \in Readers /\ pc[p] = "run" /\ Return(p, Wake(pc, Writers))
      /\ UNCHANGED <<nwrite, readopen, writeopen, freed, holders, killed>>
      /\ eof' \in BOOLEAN
  BY Zenon DEF piperead
<1>3. Used \in Nat /\ n[p] \in Nat /\ Used <= PIPESIZE
  BY CallType, Zenon
<1>4. k \in Nat /\ k <= Used
  BY <1>1, <1>3 DEF Smaller
<1>5. nread \in 0 .. UintMod - 1 /\ nwrite \in 0 .. UintMod - 1 /\ UintMod \in Nat \ {0}
  BY PipeAssumption, Zenon DEF PipeInv, TypeOK
<1>6. nread' \in 0 .. UintMod - 1
  BY <1>1, <1>4, <1>5, ModNear
<1>7. Used' = Used - k
  <2>1. k <= (nwrite - nread) % UintMod
    BY <1>4, Zenon DEF Used
  <2>2. (nwrite - ((nread + k) % UintMod)) % UintMod = ((nwrite - nread) % UintMod) - k
    BY <1>4, <1>5, <2>1, UsedAfterRead
  <2>. QED BY <1>1, <1>2, <2>2, Zenon DEF Used
<1> DEFINE f == Wake(pc, Writers)
<1>8. /\ f \in [Procs -> {"idle", "run", "sleep"}]
      /\ \A q \in Procs : f[q] = "sleep" => pc[q] = "sleep" /\ q \notin Writers
      /\ \A q \in Procs : f[q] = "idle" <=> pc[q] = "idle"
  BY WakeType DEF PipeInv, TypeOK
<1>9. Return(p, f)
  BY <1>2, Zenon
<1> HIDE DEF f
<1>10. TypeOK'
  <2>1. data' \in [0 .. PIPESIZE - 1 -> Bytes \cup {NoByte}]
    BY <1>1, Zenon DEF PipeInv, TypeOK
  <2>. QED BY <1>2, <1>6, <1>8, <1>9, <2>1, ReturnType, Zenon DEF PipeInv, TypeOK
<1>11. Ends'
  <2>1. \A q \in Procs : pc'[q] # "idle" => pc[q] # "idle"
    BY <1>8, <1>9, ReturnType DEF PipeInv
  <2>. QED BY <1>2, <2>1, Zenon DEF PipeInv, Ends
<1>12. NoLostWakeup'
  <2> SUFFICES ASSUME NEW q \in Procs, pc'[q] = "sleep"
               PROVE  /\ ~killed'[q]
                      /\ q \in Writers => Used' = PIPESIZE /\ readopen'
                      /\ q \in Readers => Used' = 0 /\ writeopen'
    BY Zenon DEF NoLostWakeup
  <2>1. pc[q] = "sleep" /\ q \notin Writers
    BY <1>8, <1>9, ReturnType DEF PipeInv
  <2>2. ~killed[q] /\ Used = 0 /\ writeopen
    BY <2>1, Zenon DEF PipeInv, NoLostWakeup, Procs
  <2>3. Used' = 0
    BY <2>2, <1>4, <1>7
  <2>. QED BY <2>1, <2>2, <2>3, <1>2, Zenon
<1>. QED BY <1>3, <1>4, <1>7, <1>10, <1>11, <1>12, PipeAssumption DEF PipeInv

\* Every step preserves the invariant.
LEMMA NextInv == PipeInv /\ [Next]_vars => PipeInv'
<1> SUFFICES ASSUME PipeInv, [Next]_vars PROVE PipeInv'
  BY Zenon
<1>1. CASE Next
  <2>1. PICK p \in Procs : call(p) \/ Section(p) \/ pipeclose(p) \/ kill(p)
    BY <1>1, Zenon DEF Next
  <2>. QED BY <2>1, CallInv, WriteFailInv, WriteInv, ReadEmptyInv, ReadInv, CloseInv, KillInv, Zenon
           DEF Section
<1>2. CASE UNCHANGED vars
  BY <1>2, Zenon DEF vars, pipeVars, PipeInv, TypeOK, Used, Ends, NoLostWakeup
<1>. QED BY <1>1, <1>2, Zenon

\* The invariant holds throughout.
THEOREM Invariance == Spec => []PipeInv
  BY InitInv, NextInv, PTL DEF Spec

\* Nobody sleeps on a pipe that has what they wait for, with its other end closed,
\* or after being killed: every wakeup() pipe.c and kill() owe is given.
THEOREM NoLostWakeupThm == Spec => []NoLostWakeup
  BY Invariance, PTL DEF PipeInv

\* pipeclose() frees the page only when nobody is inside a call on the pipe.
THEOREM FreedUnusedThm == Spec => []FreedUnused
<1>1. PipeInv => FreedUnused
  BY Zenon DEF PipeInv, Ends, FreedUnused, Procs
<1>. QED BY <1>1, Invariance, PTL

-----------------------------------------------------------------------------
(* The pipe implements Channel *)

\* What a place of the buffer may hold.
Elems == Bytes \cup {NoByte}

\* A range from 1 determines its end.
LEMMA SameRange ==
  ASSUME NEW a \in Nat, NEW b \in Nat, 1 .. a = 1 .. b
  PROVE  a = b
<1>1. a > b => a \in 1 .. a /\ a \notin 1 .. b
  OBVIOUS
<1>2. b > a => b \in 1 .. b /\ b \notin 1 .. a
  OBVIOUS
<1>. QED BY <1>1, <1>2

\* The queue is a sequence of Used elements, the j-th at the place of nread + j - 1.
ContentsOK ==
  /\ Contents \in Seq(Elems) /\ Len(Contents) = Used
  /\ \A j \in 1 .. Used : Contents[j] = data[(nread + j - 1) % PIPESIZE]

\* The invariant makes Contents such a sequence.
LEMMA ContentsSeq == PipeInv => ContentsOK
<1> SUFFICES ASSUME PipeInv PROVE ContentsOK
  BY Zenon
<1>1. Used \in Nat /\ nread \in Nat
  BY UsedType DEF PipeInv, TypeOK
<1>2. \A j \in 1 .. Used : (nread + j - 1) % PIPESIZE \in 0 .. PIPESIZE - 1
  BY <1>1, PipeAssumption, ModNear
<1>3. \A j \in 1 .. Used : data[(nread + j - 1) % PIPESIZE] \in Elems
  BY <1>2, Zenon DEF PipeInv, TypeOK, Elems
<1>4. Contents \in [1 .. Used -> Elems]
  BY <1>3, Zenon DEF Contents
<1>5. Contents \in Seq(Elems)
  BY <1>1, <1>4, SeqDef, Zenon
<1>6. Len(Contents) = Used
  <2>1. Len(Contents) \in Nat /\ DOMAIN Contents = 1 .. Len(Contents)
    BY <1>5, LenProperties, Zenon
  <2>2. DOMAIN Contents = 1 .. Used
    BY Zenon DEF Contents
  <2>. QED BY <1>1, <2>1, <2>2, SameRange, Zenon
<1>. QED BY <1>5, <1>6, Zenon DEF Contents, ContentsOK

\* The same in the next state.
LEMMA ContentsSeqNext == PipeInv' => ContentsOK'
  BY ContentsSeq, PTL

\* A step that leaves the bytes and the counters alone leaves the queue alone.
LEMMA ContentsSame ==
  ASSUME UNCHANGED <<data, nread, nwrite>>
  PROVE  Contents' = Contents
  BY Zenon DEF Contents, Used

\* The counters differ by Used and whole buffers.
LEMMA CountersAligned ==
  ASSUME TypeOK
  PROVE  \E t \in Int : nwrite - nread = Used + t * PIPESIZE
<1>1. nwrite - nread \in Int /\ PIPESIZE \in Int /\ Used \in Int
  BY PipeAssumption, UsedType DEF TypeOK
<1>2. PICK t \in Int : Used = (nwrite - nread) + t * PIPESIZE
  BY <1>1, WrapAligned, Zenon DEF Used
<1>3. -t \in Int /\ nwrite - nread = Used + (-t) * PIPESIZE
  BY <1>1, <1>2
<1>. QED BY <1>3, Zenon

\* pipewrite() puts the bytes it copied at the end of the queue.
LEMMA StorePuts ==
  ASSUME PipeInv, PipeInv', NEW p \in Writers, NEW k \in Nat, k <= Space, Store(p, k),
         nread' = nread
  PROVE  LET s == [d \in 1 .. k |-> Byte(p, i[p] + d - 1)]
         IN  s \in [1 .. k -> Bytes] /\ Len(s) = k /\ Contents' = Contents \o s
<1> DEFINE s == [d \in 1 .. k |-> Byte(p, i[p] + d - 1)]
<1>1. Used' = Used + k /\ Used + k <= PIPESIZE /\ Used \in Nat
  BY StoreUsed, UsedType DEF PipeInv
<1>2. /\ nread \in Int /\ nwrite \in Int /\ i[p] \in Int
      /\ PIPESIZE \in Nat \ {0}
  BY PipeAssumption DEF PipeInv, TypeOK, Procs
<1>3. s \in [1 .. k -> Bytes]
  <2>1. \A x \in Int : Byte(p, x) \in Bytes
    <3> TAKE x \in Int
    <3>1. x % 2 \in 0 .. 1 /\ (x % 2) % 2 = x % 2
      OBVIOUS
    <3>. QED BY <3>1 DEF Byte, Bytes
  <2>2. \A d \in 1 .. k : Byte(p, i[p] + d - 1) \in Bytes
    BY <2>1, <1>2
  <2>. QED BY <2>2, Zenon
<1>4. s \in Seq(Elems) /\ Len(s) = k
  <2>1. s \in [1 .. k -> Elems]
    BY <1>3, Zenon DEF Elems
  <2>2. s \in Seq(Elems)
    BY <2>1, SeqDef
  <2>3. Len(s) \in Nat /\ DOMAIN s = 1 .. Len(s)
    BY <2>2, LenProperties, Zenon
  <2>4. DOMAIN s = 1 .. k
    BY Zenon
  <2>. QED BY <2>2, <2>3, <2>4, SameRange, Zenon
<1> HIDE DEF s
<1>5. /\ Contents \in Seq(Elems) /\ Len(Contents) = Used
      /\ \A j \in 1 .. Used : Contents[j] = data[(nread + j - 1) % PIPESIZE]
  BY ContentsSeq, Zenon DEF ContentsOK
<1>6. /\ Contents' \in Seq(Elems) /\ Len(Contents') = Used'
      /\ \A j \in 1 .. Used' : Contents'[j] = data'[(nread + j - 1) % PIPESIZE]
  BY ContentsSeqNext, Zenon DEF ContentsOK
<1>7. /\ Contents \o s \in Seq(Elems) /\ Len(Contents \o s) = Used + k
      /\ \A j \in 1 .. Used + k : (Contents \o s)[j] =
           IF j <= Used THEN Contents[j] ELSE s[j - Used]
  BY <1>4, <1>5, ConcatProperties
<1>8. \A j \in 1 .. Used + k : Contents'[j] = (Contents \o s)[j]
  <2> TAKE j \in 1 .. Used + k
  <2> DEFINE x == nread + j - 1
             idx == x % PIPESIZE
             d == (idx - nwrite) % PIPESIZE
  <2>1. idx \in 0 .. PIPESIZE - 1 /\ x \in Int
    BY <1>1, <1>2, ModNear
  <2>2. data'[idx] = IF d < k THEN Byte(p, i[p] + d) ELSE data[idx]
    BY <2>1, Zenon DEF Store
  <2>3. PICK t \in Int : nwrite - nread = Used + t * PIPESIZE
    BY CountersAligned, Zenon DEF PipeInv
  <2>4. ASSUME j <= Used PROVE data'[idx] = data[idx]
    <3>1. j - 1 - Used + PIPESIZE \in 0 .. PIPESIZE - 1 /\ -t - 1 \in Int
      BY <2>4, <1>1, <1>2
    <3>2. x - nwrite = (j - 1 - Used + PIPESIZE) + (-t - 1) * PIPESIZE
      BY <2>3, <1>1, <1>2
    <3>3. d = j - 1 - Used + PIPESIZE
      BY <2>1, <1>2, <3>1, <3>2, PlaceDiff, Zenon
    <3>4. ~(d < k)
      BY <3>3, <2>4, <1>1, <1>2
    <3>. QED BY <2>2, <2>4, <3>4, Zenon
  <2>5. ASSUME j > Used PROVE data'[idx] = Byte(p, i[p] + (j - Used) - 1)
    <3>1. j - 1 - Used \in 0 .. PIPESIZE - 1 /\ -t \in Int
      BY <2>5, <1>1, <1>2
    <3>2. x - nwrite = (j - 1 - Used) + (-t) * PIPESIZE
      BY <2>3, <1>1, <1>2
    <3>3. d = j - 1 - Used
      BY <2>1, <1>2, <3>1, <3>2, PlaceDiff, Zenon
    <3>4. d < k /\ i[p] + d = i[p] + (j - Used) - 1 /\ ~(j <= Used)
      BY <3>3, <2>5, <1>1, <1>2
    <3>. QED BY <2>2, <3>4, Zenon
  <2>6. Contents'[j] = data'[idx] /\ (j <= Used => Contents[j] = data[idx])
    BY <1>1, <1>5, <1>6
  <2>7. j > Used => s[j - Used] = Byte(p, i[p] + (j - Used) - 1)
    <3>1. j > Used => j - Used \in 1 .. k
      BY <1>1
    <3>. QED BY <3>1, Zenon DEF s
  <2> HIDE DEF idx
  <2>. QED BY <1>1, <1>7, <2>4, <2>5, <2>6, <2>7
<1>9. Contents' = Contents \o s
  BY <1>1, <1>6, <1>7, <1>8, SeqEqual, Zenon
<1>. QED BY <1>3, <1>4, <1>9, Zenon DEF s

\* piperead() takes the bytes it returns from the front of the queue.
LEMMA TakeGets ==
  ASSUME PipeInv, PipeInv', NEW k \in Nat, k <= Used,
         nread' = (nread + k) % UintMod, nwrite' = nwrite,
         data' = [j \in 0 .. PIPESIZE - 1 |->
                    IF (j - nread) % PIPESIZE < k THEN NoByte ELSE data[j]]
  PROVE  Contents' = SubSeq(Contents, k + 1, Len(Contents))
<1>1. /\ nread \in 0 .. UintMod - 1 /\ nwrite \in 0 .. UintMod - 1
      /\ UintMod \in Nat \ {0} /\ PIPESIZE \in Nat \ {0}
  BY PipeAssumption, Zenon DEF PipeInv, TypeOK
<1>2. Used \in Nat /\ Used <= PIPESIZE
  BY UsedType DEF PipeInv
<1>3. Used' = Used - k
  <2>1. k <= (nwrite - nread) % UintMod
    BY Zenon DEF Used
  <2>2. (nwrite - ((nread + k) % UintMod)) % UintMod = ((nwrite - nread) % UintMod) - k
    BY ONLY k \in Nat, <1>1, <2>1, UsedAfterRead
  <2>. QED BY <2>2, Zenon DEF Used
<1>4. /\ Contents \in Seq(Elems) /\ Len(Contents) = Used
      /\ \A j \in 1 .. Used : Contents[j] = data[(nread + j - 1) % PIPESIZE]
  BY ContentsSeq, Zenon DEF ContentsOK
<1>5. /\ Contents' \in Seq(Elems) /\ Len(Contents') = Used - k
      /\ \A j \in 1 .. Used - k : Contents'[j] = data'[(nread' + j - 1) % PIPESIZE]
  BY <1>3, ContentsSeqNext, Zenon DEF ContentsOK
<1> DEFINE rest == SubSeq(Contents, k + 1, Used)
<1>6. /\ rest \in Seq(Elems) /\ Len(rest) = Used - k
      /\ \A j \in 1 .. Used - k : rest[j] = Contents[k + j]
  <2>1. k + 1 \in Int /\ Used \in Int
    BY <1>2
  <2>2. \A j \in k + 1 .. Used : Contents[j] \in Elems
    BY <1>2, <1>4, ElementOfSeq
  <2>3. /\ rest \in Seq(Elems) /\ Len(rest) = IF k + 1 <= Used THEN Used - (k + 1) + 1 ELSE 0
        /\ \A j \in 1 .. Used - (k + 1) + 1 : rest[j] = Contents[(k + 1) + j - 1]
    BY <2>1, <2>2, SubSeqProperties
  <2> HIDE DEF rest
  <2>4. \A j \in 1 .. Used - k : (k + 1) + j - 1 = k + j /\ j \in 1 .. Used - (k + 1) + 1
    BY <1>2
  <2>. QED BY <1>2, <2>3, <2>4
<1> HIDE DEF rest
<1>7. \A j \in 1 .. Used - k : Contents'[j] = rest[j]
  <2> TAKE j \in 1 .. Used - k
  <2> DEFINE x == nread + (k + j) - 1
             idx == x % PIPESIZE
  <2>1. x \in Int /\ nread + k \in Int /\ k + j \in 1 .. Used /\ nread + k + j - 1 = x
    BY <1>1, <1>2
  <2>2. idx \in 0 .. PIPESIZE - 1
    BY <1>1, <2>1, ModNear, Zenon
  <2>3. PICK t \in Int : nread' = nread + k + t * PIPESIZE
    BY <2>1, WrapAligned, Zenon
  <2>4. (nread' + j - 1) % PIPESIZE = idx
    <3>1. nread' + j - 1 = x + t * PIPESIZE
      BY <1>1, <2>1, <2>3
    <3>. QED BY <3>1, <2>1, PlaceShift
  <2>5. (idx - nread) % PIPESIZE = k + j - 1
    <3>1. k + j - 1 \in 0 .. PIPESIZE - 1 /\ 0 \in Int /\ nread \in Int
      BY <1>1, <1>2, <2>1
    <3>2. x - nread = (k + j - 1) + 0 * PIPESIZE
      BY <1>1, <3>1
    <3>. QED BY <2>1, <3>1, <3>2, PlaceDiff, Zenon
  <2>6. Contents'[j] = data'[idx] /\ Contents[k + j] = data[idx]
    BY <1>4, <1>5, <2>1, <2>4, Zenon
  <2>7. data'[idx] = data[idx]
    <3>1. ~((idx - nread) % PIPESIZE < k)
      BY <2>5, <2>1
    <3>. QED BY <2>2, <3>1, Zenon
  <2> HIDE DEF idx
  <2>. QED BY <1>6, <2>6, <2>7, Zenon
<1>8. Contents' = rest
  BY <1>2, <1>5, <1>6, <1>7, SeqEqual, Zenon
<1>. QED BY <1>4, <1>8, Zenon DEF rest

\* A new pipe is an empty channel.
LEMMA InitRefines == Init => Ch!Init
<1> SUFFICES ASSUME Init PROVE Contents = <<>>
  BY Zenon DEF Init, Ch!Init
<1>1. PipeInv /\ Used = 0
  BY InitInv, UsedType, Zenon DEF Init, PipeInv
<1>2. Contents \in Seq(Elems) /\ Len(Contents) = 0
  BY <1>1, ContentsSeq, Zenon DEF ContentsOK
<1>. QED BY <1>2, EmptySeq, Zenon

\* pipewrite() is a Put of the bytes it stored, or a stutter.
LEMMA WriteRefines ==
  ASSUME PipeInv, PipeInv', NEW p \in Procs, pipewrite(p)
  PROVE  [Ch!Next]_(Ch!cvars)
<1>1. PICK k \in 0 .. Smaller(n[p] - i[p], Space) : Store(p, k)
  BY Zenon DEF pipewrite
<1>2. /\ p \in Writers /\ p \in holders
      /\ i[p] < n[p] => readopen
      /\ UNCHANGED <<nread, readopen, writeopen, eof>>
  BY Zenon DEF pipewrite, PipeInv, Ends
<1>3. k \in Nat /\ k <= Space /\ i[p] + k <= n[p] /\ i[p] \in Nat /\ n[p] \in Nat
  BY <1>1, CallType, PipeAssumption DEF Smaller, Space
<1> DEFINE s == [d \in 1 .. k |-> Byte(p, i[p] + d - 1)]
<1>4. s \in [1 .. k -> Bytes] /\ Len(s) = k /\ Contents' = Contents \o s
  BY <1>1, <1>2, <1>3, StorePuts, Zenon
<1> HIDE DEF s
<1>5. Contents \in Seq(Elems) /\ Len(Contents) = Used /\ Used \in Nat /\ Used + k <= PIPESIZE
  BY <1>1, <1>2, <1>3, ContentsSeq, StoreUsed, CallType, Zenon DEF ContentsOK
<1>6. CASE k = 0
  <2>1. UNCHANGED <<data, nread, nwrite>>
    <3>1. nwrite' = nwrite
      <4>1. nwrite \in 0 .. UintMod - 1 /\ UintMod \in Nat \ {0}
        BY PipeAssumption, Zenon DEF PipeInv, TypeOK
      <4>2. nwrite' = (nwrite + 0) % UintMod
        BY <1>1, <1>6, Zenon DEF Store
      <4>. QED BY <4>1, <4>2
    <3>2. \A j \in 0 .. PIPESIZE - 1 : ~((j - nwrite) % PIPESIZE < 0)
      <4>1. nwrite \in Int /\ PIPESIZE \in Nat \ {0}
        BY PipeAssumption DEF PipeInv, TypeOK
      <4>2. \A j \in 0 .. PIPESIZE - 1 : (j - nwrite) % PIPESIZE \in 0 .. PIPESIZE - 1
        BY <4>1
      <4>. QED BY <4>2
    <3>3. data' = data
      BY <1>1, <1>6, <3>2, Zenon DEF Store, PipeInv, TypeOK
    <3>. QED BY <1>2, <3>1, <3>3, Zenon
  <2>. QED BY <1>2, <2>1, ContentsSame, Zenon DEF Ch!cvars
<1>7. CASE k > 0
  <2>1. readopen /\ writeopen
    <3>1. i[p] < n[p]
      BY <1>3, <1>7
    <3>2. writeopen
      BY <1>2, Zenon DEF PipeInv, Ends
    <3>. QED BY <1>2, <3>1, <3>2, Zenon
  <2>2. Ch!Put(s)
    BY <1>2, <1>4, <1>5, <2>1, Zenon DEF Ch!Put
  <2>3. k \in 1 .. PIPESIZE
    BY <1>3, <1>5, <1>7, PipeAssumption
  <2>. QED BY <1>4, <2>2, <2>3, Zenon DEF Ch!Next
<1>. QED BY <1>3, <1>6, <1>7

\* piperead() is a Get, an Eof or a stutter.
LEMMA ReadRefines ==
  ASSUME PipeInv, PipeInv', NEW p \in Procs, piperead(p)
  PROVE  [Ch!Next]_(Ch!cvars)
<1>1. PICK k \in 0 .. Smaller(n[p], Used) :
        /\ k = 0 => n[p] = 0 \/ Used = 0
        /\ nread' = (nread + k) % UintMod
        /\ data' = [j \in 0 .. PIPESIZE - 1 |->
             IF (j - nread) % PIPESIZE < k THEN NoByte ELSE data[j]]
  BY Zenon DEF piperead
<1>2. /\ p \in Readers /\ p \in holders /\ readopen
      /\ nread # nwrite \/ ~writeopen
      /\ eof' = (eof \/ (n[p] > 0 /\ Used = 0))
      /\ UNCHANGED <<nwrite, readopen, writeopen>>
  BY Zenon DEF piperead, PipeInv, Ends
<1>3. Used \in Nat /\ Used <= PIPESIZE /\ n[p] \in Nat
  BY CallType, Zenon
<1>4. k \in Nat /\ k <= Used /\ k <= n[p]
  BY <1>1, <1>3 DEF Smaller
<1>5. Contents' = SubSeq(Contents, k + 1, Len(Contents))
  BY <1>1, <1>2, <1>4, TakeGets, Zenon
<1>6. CASE k > 0
  <2>1. eof' = eof
    BY <1>2, <1>3, <1>4, <1>6 DEF PipeInv, TypeOK
  <2>2. Ch!Get(k) /\ k \in 1 .. PIPESIZE
    BY <1>2, <1>3, <1>4, <1>5, <1>6, <2>1, PipeAssumption DEF Ch!Get
  <2>. QED BY <2>2, Zenon DEF Ch!Next
<1>7. CASE k = 0
  <2>1. Contents' = Contents
    <3>1. nread' = nread
      <4>1. nread \in 0 .. UintMod - 1 /\ UintMod \in Nat \ {0}
        BY PipeAssumption, Zenon DEF PipeInv, TypeOK
      <4>2. nread' = (nread + 0) % UintMod
        BY <1>1, <1>7, Zenon
      <4>. QED BY <4>1, <4>2
    <3>2. \A j \in 0 .. PIPESIZE - 1 : ~((j - nread) % PIPESIZE < 0)
      <4>1. nread \in Int /\ PIPESIZE \in Nat \ {0}
        BY PipeAssumption DEF PipeInv, TypeOK
      <4>2. \A j \in 0 .. PIPESIZE - 1 : (j - nread) % PIPESIZE \in 0 .. PIPESIZE - 1
        BY <4>1
      <4>. QED BY <4>2
    <3>3. data' = data
      BY <1>1, <1>7, <3>2, Zenon DEF PipeInv, TypeOK
    <3>. QED BY <1>2, <3>1, <3>3, ContentsSame, Zenon
  <2>2. CASE n[p] = 0
    <3>1. eof' = eof
      BY <1>2, <2>2 DEF PipeInv, TypeOK
    <3>. QED BY <1>2, <2>1, <3>1, Zenon DEF Ch!cvars
  <2>3. CASE n[p] # 0
    <3>1. Used = 0 /\ n[p] > 0
      BY <1>1, <1>3, <1>7, <2>3
    <3>2. ~writeopen
      BY <1>2, <3>1, UsedType, Zenon DEF PipeInv
    <3>3. Contents = <<>>
      BY <3>1, ContentsSeq, EmptySeq, Zenon DEF ContentsOK
    <3>4. eof' = TRUE
      BY <1>2, <3>1, Zenon
    <3>5. Ch!Eof
      BY <1>2, <2>1, <3>2, <3>3, <3>4, Zenon DEF Ch!Eof
    <3>. QED BY <3>5, Zenon DEF Ch!Next
  <2>. QED BY <2>2, <2>3, Zenon
<1>. QED BY <1>4, <1>6, <1>7

\* pipeclose() of the last descriptor of an end closes that end of the channel.
LEMMA CloseRefines ==
  ASSUME PipeInv, NEW p \in Procs, pipeclose(p)
  PROVE  [Ch!Next]_(Ch!cvars)
<1>1. Contents' = Contents /\ eof' = eof
  BY ContentsSame, Zenon DEF pipeclose
<1>2. /\ readopen' \in BOOLEAN /\ writeopen' \in BOOLEAN
      /\ readopen \in BOOLEAN /\ writeopen \in BOOLEAN
      /\ readopen' => readopen
      /\ writeopen' => writeopen
      /\ writeopen' = writeopen \/ readopen' = readopen
  BY CloseEnds, Zenon DEF Procs, PipeInv, TypeOK
<1>3. CASE readopen' = readopen /\ writeopen' = writeopen
  BY <1>1, <1>3, Zenon DEF Ch!cvars
<1>4. CASE readopen' # readopen
  <2>1. readopen' = FALSE /\ writeopen' = writeopen
    BY <1>2, <1>4, Zenon
  <2>. QED BY <1>1, <2>1, Zenon DEF Ch!Next, Ch!CloseRead
<1>5. CASE writeopen' # writeopen
  <2>1. writeopen' = FALSE /\ readopen' = readopen
    BY <1>2, <1>5, Zenon
  <2>. QED BY <1>1, <2>1, Zenon DEF Ch!Next, Ch!CloseWrite
<1>. QED BY <1>3, <1>4, <1>5, Zenon

\* Every step of the pipe is a step of the channel or a stutter.
LEMMA NextRefines == PipeInv /\ PipeInv' /\ [Next]_vars => [Ch!Next]_(Ch!cvars)
<1> SUFFICES ASSUME PipeInv, PipeInv', [Next]_vars PROVE [Ch!Next]_(Ch!cvars)
  BY Zenon
<1>1. ASSUME UNCHANGED <<pipeVars, eof>> PROVE UNCHANGED Ch!cvars
  BY <1>1, ContentsSame, Zenon DEF pipeVars, Ch!cvars
<1>2. CASE UNCHANGED vars
  BY <1>1, <1>2, Zenon DEF vars
<1>3. CASE Next
  <2>1. PICK p \in Procs : call(p) \/ Section(p) \/ pipeclose(p) \/ kill(p)
    BY <1>3, Zenon DEF Next
  <2>2. CASE call(p) \/ write_fail(p) \/ read_empty(p) \/ kill(p)
    BY <1>1, <2>2, Zenon DEF call, write_fail, read_empty, kill
  <2>. QED BY <2>1, <2>2, WriteRefines, ReadRefines, CloseRefines, Zenon DEF Section
<1>. QED BY <1>2, <1>3, Zenon

\* The pipe of pipe.c is a bounded FIFO with two ends, whatever the size of its
\* buffer and however often the counters wrap: no byte is lost, duplicated or
\* reordered, and end of file comes only after the last byte.
THEOREM Refinement == Spec => Fifo
  BY Invariance, InitRefines, NextRefines, PTL DEF Spec, Fifo, Ch!Spec
=============================================================================
