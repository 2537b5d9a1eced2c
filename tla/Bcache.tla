-------------------------------- MODULE Bcache --------------------------------
(***************************************************************************)
(* The buffer cache of kernel/bio.c with the sleep locks of                *)
(* kernel/sleeplock.c: lookup and recycling in LRU order on the linked     *)
(* list, reference counts, pins held by the log, and disk transfers.       *)
(*                                                                         *)
(* A step is a critical section under bcache.lock or under the spin lock   *)
(* of a sleep lock, or work on a buffer under its sleep lock.              *)
(*                                                                         *)
(* A process works with up to two buffers at a time: bmap() and itrunc()   *)
(* read a bitmap block while they hold an indirect block, write_log() and  *)
(* install_trans() hold a log block and a home block.  pc, b and want are  *)
(* therefore kept for each of the two uses <<p, 1>> and <<p, 2>> of p.     *)
(***************************************************************************)
EXTENDS Integers, FiniteSets

CONSTANTS
  Procs, Blocks, Vals,
  Level,     \* of two blocks that a process holds, the second has the greater level:
             \* log blocks come before indirect blocks, and these before the others
  NBUF,      \* buffers
  MaxPins    \* blocks the log pins at a time: log_write() takes no more than LOGSIZE - 1

\* The outer and the inner buffer of a process.
Uses == Procs \X {1, 2}
Other(u) == <<u[1], 3 - u[2]>>

Nobody == <<"nobody", 0>>
NoBlock == "none"

ASSUME BcacheAssumption ==
  /\ IsFiniteSet(Procs) /\ NoBlock \notin Blocks /\ Level \in [Blocks -> Nat]
  /\ NBUF \in Nat \ {0} /\ MaxPins \in Nat

VARIABLES
  blockno, valid, refcnt, data,  \* fields of struct buf
  locked,       \* holder of each buffer's sleep lock, or Nobody
  next, prev,   \* the linked list; 0 is bcache.head
  disk,         \* block contents on disk
  cur,          \* what was last stored in each block
  pinned,       \* blocks the log holds with bpin()
  pc, b,        \* where each use is, and with which buffer
  want,         \* the block it asks for
  panicked      \* panic("bget: no buffers")

listVars == <<next, prev>>
bufVars == <<blockno, valid, refcnt, data, locked>>
procVars == <<pc, b, want>>
vars == <<bufVars, listVars, disk, cur, pinned, procVars, panicked>>

Bufs == 1 .. NBUF
head == 0

\* binit() inserts the buffers one by one after the head.
Init ==
  /\ blockno = [i \in Bufs |-> NoBlock] /\ valid = [i \in Bufs |-> FALSE]
  /\ refcnt = [i \in Bufs |-> 0]
  /\ disk \in [Blocks -> Vals] /\ cur = disk
  /\ data \in {[i \in Bufs |-> v] : v \in Vals}
  /\ locked = [i \in Bufs |-> Nobody]
  /\ next = [i \in Bufs \cup {head} |-> IF i = head THEN NBUF ELSE i - 1]
  /\ prev = [i \in Bufs \cup {head} |-> IF i = NBUF THEN head ELSE i + 1]
  /\ pinned = {}
  /\ pc = [u \in Uses |-> "idle"] /\ b = [u \in Uses |-> head]
  /\ want = [u \in Uses |-> NoBlock]
  /\ panicked = FALSE

\* The buffers in the order of a walk along next or prev, from the head.
Walk(link) ==
  LET at[n \in 0 .. NBUF + 1] == IF n = 0 THEN head ELSE link[at[n-1]] IN at

\* The buffers that such a walk meets before it is back at the head.
Met(link) ==
  LET at == Walk(link)
  IN {at[n] : n \in {k \in 1 .. NBUF : \A j \in 1 .. k : at[j] # head}}

Goto(u, l) == pc' = [pc EXCEPT ![u] = l]

\* Whether u may take a step: its process is not busy with its other buffer.
Turn(u) == ~panicked /\ pc[Other(u)] \in {"idle", "held"}

\* Whether the process calls bread(bn) for u: with no buffer, or with one in which
\* it found where the next block is.
Asks(u, bn) ==
  /\ Turn(u) /\ pc[u] = "idle"
  /\ \/ u[2] = 1 /\ pc[Other(u)] = "idle"
     \/ u[2] = 2 /\ pc[Other(u)] = "held" /\ Level[want[Other(u)]] < Level[bn]

-----------------------------------------------------------------------------
(* bread *)

\* The buffers that hold block bn, and those where bget()'s walk finds it.
Cached(bn) == {i \in Bufs : blockno[i] = bn}
Found(bn) == Met(next) \cap Cached(bn)

\* Mutation: a hit takes no reference.
bget_hit_noref(u) ==
  /\ \E bn \in Blocks, i \in Bufs :
       /\ Asks(u, bn) /\ i \in Found(bn)
       /\ b' = [b EXCEPT ![u] = i] /\ want' = [want EXCEPT ![u] = bn]
  /\ Goto(u, "lock")
  /\ UNCHANGED <<bufVars, listVars, disk, cur, pinned, panicked>>

\* bget() finds the block cached.
bget_hit(u) ==
  /\ \E bn \in Blocks, i \in Bufs :
       /\ Asks(u, bn) /\ i \in Found(bn)
       /\ refcnt' = [refcnt EXCEPT ![i] = @ + 1]
       /\ b' = [b EXCEPT ![u] = i] /\ want' = [want EXCEPT ![u] = bn]
  /\ Goto(u, "lock")
  /\ UNCHANGED <<blockno, valid, data, locked, listVars, disk, cur, pinned, panicked>>

\* The least recently used buffer nobody refers to.
Recyclable == {i \in Met(prev) : refcnt[i] = 0}
Victim ==
  LET order == Walk(prev)
      n == CHOOSE k \in 1 .. NBUF :
             refcnt[order[k]] = 0 /\ \A j \in 1 .. k - 1 : refcnt[order[j]] # 0
  IN order[n]

\* bget() recycles a buffer for a block that is not cached, or panics.
bget_recycle(u) ==
  /\ \E bn \in Blocks :
       /\ Asks(u, bn) /\ Found(bn) = {}
       /\ IF Recyclable # {}
          THEN /\ blockno' = [blockno EXCEPT ![Victim] = bn]
               /\ valid' = [valid EXCEPT ![Victim] = FALSE]
               /\ refcnt' = [refcnt EXCEPT ![Victim] = 1]
               /\ b' = [b EXCEPT ![u] = Victim] /\ want' = [want EXCEPT ![u] = bn]
               /\ Goto(u, "lock") /\ UNCHANGED panicked
          ELSE panicked' = TRUE /\ UNCHANGED <<blockno, valid, refcnt, procVars>>
  /\ UNCHANGED <<data, locked, listVars, disk, cur, pinned>>

\* acquiresleep(): take the lock or sleep until it is released.
acquiresleep(u) ==
  /\ Turn(u) /\ pc[u] = "lock"
  /\ IF locked[b[u]] = Nobody
     THEN locked' = [locked EXCEPT ![b[u]] = u] /\ Goto(u, "fill")
     ELSE UNCHANGED locked /\ Goto(u, "sleep")
  /\ UNCHANGED <<blockno, valid, refcnt, data, listVars, disk, cur, pinned, b, want, panicked>>

\* bread() reads the block unless the buffer is valid.
bread(u) ==
  /\ Turn(u) /\ pc[u] = "fill"
  /\ data' = [data EXCEPT ![b[u]] = IF valid[b[u]] THEN @ ELSE disk[blockno[b[u]]]]
  /\ valid' = [valid EXCEPT ![b[u]] = TRUE]
  /\ Goto(u, "held")
  /\ UNCHANGED <<blockno, refcnt, locked, listVars, disk, cur, pinned, b, want, panicked>>

-----------------------------------------------------------------------------
(* Use of a locked buffer *)

\* Its holder changes the contents ...
modify(u) ==
  /\ Turn(u) /\ pc[u] = "held"
  /\ \E v \in Vals : data' = [data EXCEPT ![b[u]] = v] /\ cur' = [cur EXCEPT ![want[u]] = v]
  /\ Goto(u, "dirty")
  /\ UNCHANGED <<blockno, valid, refcnt, locked, listVars, disk, pinned, b, want, panicked>>

\* ... and then writes it through (the log's own blocks) ...
bwrite(u) ==
  /\ Turn(u) /\ pc[u] \in {"held", "dirty"}
  /\ disk' = [disk EXCEPT ![blockno[b[u]]] = data[b[u]]]
  /\ Goto(u, "held")
  /\ UNCHANGED <<bufVars, listVars, cur, pinned, b, want, panicked>>

\* ... or lets log_write() pin it, unless the transaction has it already.
bpin(u) ==
  /\ Turn(u) /\ pc[u] = "dirty"
  /\ \/ want[u] \in pinned /\ UNCHANGED <<refcnt, pinned>>
     \/ /\ want[u] \notin pinned /\ Cardinality(pinned) < MaxPins
        /\ refcnt' = [refcnt EXCEPT ![b[u]] = @ + 1]
        /\ pinned' = pinned \cup {want[u]}
  /\ Goto(u, "held")
  /\ UNCHANGED <<blockno, valid, data, locked, listVars, disk, cur, b, want, panicked>>

\* Mutation: the block is not written home before it is unpinned.
bunpin_nowrite(u) ==
  /\ Turn(u) /\ pc[u] = "held"
  /\ want[u] \in pinned
  /\ refcnt' = [refcnt EXCEPT ![b[u]] = @ - 1]
  /\ pinned' = pinned \ {want[u]}
  /\ UNCHANGED <<blockno, valid, data, locked, listVars, disk, cur, procVars, panicked>>

\* install_trans() unpins a block right after writing it to its home location.
bunpin(u) ==
  /\ Turn(u) /\ pc[u] = "held"
  /\ want[u] \in pinned
  /\ disk' = [disk EXCEPT ![blockno[b[u]]] = data[b[u]]]
  /\ refcnt' = [refcnt EXCEPT ![b[u]] = @ - 1]
  /\ pinned' = pinned \ {want[u]}
  /\ UNCHANGED <<blockno, valid, data, locked, listVars, cur, procVars, panicked>>

-----------------------------------------------------------------------------
(* brelse *)

\* Mutation: nobody is woken.
releasesleep_silent(u) ==
  /\ Turn(u) /\ pc[u] = "held"
  /\ locked' = [locked EXCEPT ![b[u]] = Nobody]
  /\ Goto(u, "unref")
  /\ UNCHANGED <<blockno, valid, refcnt, data, listVars, disk, cur, pinned, b, want, panicked>>

\* releasesleep(): unlock and wake every process sleeping on this lock.
releasesleep(u) ==
  /\ Turn(u) /\ pc[u] = "held"
  /\ locked' = [locked EXCEPT ![b[u]] = Nobody]
  /\ pc' = [q \in Uses |-> IF q = u THEN "unref"
                           ELSE IF pc[q] = "sleep" /\ b[q] = b[u] THEN "lock" ELSE pc[q]]
  /\ UNCHANGED <<blockno, valid, refcnt, data, listVars, disk, cur, pinned, b, want, panicked>>

\* The list after brelse() moved buffer i to the front: i is unlinked, then
\* linked in after the head, with the pointers as the assignments leave them.
UnlinkNext(i) == [next EXCEPT ![prev[i]] = next[i]]
UnlinkPrev(i) == [prev EXCEPT ![next[i]] = prev[i]]
FrontNext(i) == [UnlinkNext(i) EXCEPT ![i] = UnlinkNext(i)[head], ![head] = i]

\* The back pointers after the move.
FrontPrev(i) == [UnlinkPrev(i) EXCEPT ![i] = head, ![UnlinkNext(i)[head]] = i]

brelse(u) ==
  LET i == b[u] IN
  /\ Turn(u) /\ pc[u] = "unref"
  /\ refcnt' = [refcnt EXCEPT ![i] = @ - 1]
  /\ IF refcnt[i] = 1
     THEN next' = FrontNext(i) /\ prev' = FrontPrev(i)
     ELSE UNCHANGED listVars
  /\ pc' = [pc EXCEPT ![u] = "idle"]
  /\ b' = [b EXCEPT ![u] = head] /\ want' = [want EXCEPT ![u] = NoBlock]
  /\ UNCHANGED <<blockno, valid, data, locked, disk, cur, pinned, panicked>>

\* panic() does not return.
panic == panicked /\ UNCHANGED vars

Next ==
  \/ \E u \in Uses :
       \/ bget_hit(u) \/ bget_recycle(u) \/ acquiresleep(u) \/ bread(u)
       \/ modify(u) \/ bwrite(u) \/ bpin(u) \/ bunpin(u)
       \/ releasesleep(u) \/ brelse(u)
  \/ panic

Spec == Init /\ [][Next]_vars

-----------------------------------------------------------------------------
(* Properties *)

\* Every variable has its type.
TypeOK ==
  /\ blockno \in [Bufs -> Blocks \cup {NoBlock}] /\ valid \in [Bufs -> BOOLEAN]
  /\ refcnt \in [Bufs -> 0 .. Cardinality(Uses) + 1] /\ data \in [Bufs -> Vals]
  /\ locked \in [Bufs -> Uses \cup {Nobody}]
  /\ next \in [Bufs \cup {head} -> Bufs \cup {head}]
  /\ prev \in [Bufs \cup {head} -> Bufs \cup {head}]
  /\ disk \in [Blocks -> Vals] /\ cur \in [Blocks -> Vals] /\ pinned \subseteq Blocks
  /\ pc \in [Uses -> {"idle", "lock", "sleep", "fill", "held", "dirty", "unref"}]
  /\ b \in [Uses -> Bufs \cup {head}] /\ want \in [Uses -> Blocks \cup {NoBlock}]
  /\ panicked \in BOOLEAN

Holding(u) == pc[u] \in {"held", "dirty"}

\* The pointers of the LRU list form one ring through all buffers, the same in
\* both directions, whatever brelse() moved.
Ring ==
  /\ \A i \in Bufs \cup {head} : prev[next[i]] = i /\ next[prev[i]] = i
  /\ {Walk(next)[n] : n \in 1 .. NBUF} = Bufs

\* refcnt counts the uses between bget() and brelse() and the log's pins, so that
\* a buffer in use, or awaited, is never recycled; and bget() panics only when each
\* buffer is in use or pinned, as its two walks meet them all.
RefCounts ==
  /\ TypeOK /\ Ring
  /\ \A i \in Bufs : refcnt[i] = Cardinality({u \in Uses : b[u] = i}) +
                                 (IF blockno[i] \in pinned THEN 1 ELSE 0)
  /\ panicked => \A i \in Bufs : refcnt[i] # 0

\* Whoever holds a buffer after bread() has the block asked for, alone, in its
\* only buffer (lookup and recycling in bget() are one critical section), with
\* what was last stored in it, be it on disk, in the buffer or pinned.
Coherent ==
  \A u \in Uses : Holding(u) =>
    /\ Cached(want[u]) = {b[u]} /\ locked[b[u]] = u
    /\ data[b[u]] = cur[want[u]]

\* A process sleeps only on a sleep lock that somebody holds and will release.
NoLostWakeup == \A u \in Uses : pc[u] = "sleep" => locked[b[u]] # Nobody
=============================================================================
