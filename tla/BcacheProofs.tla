----------------------------- MODULE BcacheProofs -----------------------------
(***************************************************************************)
(* Proofs about Bcache, for every number of buffers, blocks and processes: *)
(* the reference counts, that the cache is coherent with the disk, and     *)
(* that no wakeup is lost.                                                 *)
(*                                                                         *)
(* The invariant says which process uses, and which one locks, each        *)
(* buffer, where the newest contents of a block are, that the list is one  *)
(* ring, what a reference count counts, and when bget() panics.            *)
(***************************************************************************)
EXTENDS Bcache, WellFoundedInduction, FiniteSetTheorems, TLAPS

Nodes == Bufs \cup {head}
Points == {"idle", "lock", "sleep", "fill", "held", "dirty", "unref"}

TypeInv ==
  /\ blockno \in [Bufs -> Blocks \cup {NoBlock}] /\ valid \in [Bufs -> BOOLEAN]
  /\ data \in [Bufs -> Vals]
  /\ locked \in [Bufs -> Uses \cup {Nobody}]
  /\ disk \in [Blocks -> Vals] /\ cur \in [Blocks -> Vals] /\ pinned \in SUBSET Blocks
  /\ pc \in [Uses -> Points]
  /\ b \in [Uses -> Nodes] /\ want \in [Uses -> Blocks \cup {NoBlock}]
  /\ panicked \in BOOLEAN

\* The ring, from the head on along next, is w.
IsRing(w, nx, pv) ==
  /\ w \in [0 .. NBUF -> Nodes] /\ w[0] = head
  /\ \A i \in Bufs : \E k \in 1 .. NBUF : w[k] = i
  /\ \A j, k \in 0 .. NBUF : w[j] = w[k] => j = k
  /\ \A k \in 0 .. NBUF - 1 : nx[w[k]] = w[k + 1] /\ pv[w[k + 1]] = w[k]
  /\ nx[w[NBUF]] = head /\ pv[head] = w[NBUF]
RingInv ==
  /\ next \in [Nodes -> Nodes] /\ prev \in [Nodes -> Nodes]
  /\ \E w \in [0 .. NBUF -> Nodes] : IsRing(w, next, prev)

\* A process that is in a call has a buffer with the block it asked for.
Locking(u) == pc[u] \in {"fill", "held", "dirty"}
UseInv ==
  \A u \in Uses :
    /\ pc[u] # "idle" => b[u] \in Bufs /\ want[u] \in Blocks /\ blockno[b[u]] = want[u]
    /\ pc[u] = "idle" => b[u] = head
    /\ Holding(u) => valid[b[u]]

\* A buffer's sleep lock is held by the process that fills or uses the buffer.
LockInv ==
  /\ \A u \in Uses : Locking(u) => locked[b[u]] = u
  /\ \A i \in Bufs, q \in Uses : locked[i] = q => b[q] = i /\ Locking(q)

\* No block is in two buffers.
OneBuf == \A i, j \in Bufs : blockno[i] = blockno[j] /\ blockno[i] # NoBlock => i = j

\* A valid buffer has the newest contents of its block, and so has the disk but
\* for pinned blocks, which are in a valid buffer, and blocks being changed.
ValidInv == \A i \in Bufs : valid[i] => blockno[i] \in Blocks /\ data[i] = cur[blockno[i]]
PinValid == \A bn \in pinned : \E i \in Bufs : blockno[i] = bn /\ valid[i]
Dirty(bn) == \E u \in Uses : pc[u] = "dirty" /\ want[u] = bn
DiskInv == \A bn \in Blocks : disk[bn] = cur[bn] \/ bn \in pinned \/ Dirty(bn)

\* What a reference count counts.
Users(i) == {u \in Uses : b[u] = i}
Pins(i) == IF blockno[i] \in pinned THEN 1 ELSE 0
CountInv ==
  /\ refcnt \in [Bufs -> Nat]
  /\ \A i \in Bufs : refcnt[i] = Cardinality(Users(i)) + Pins(i)

\* bget() gave up only when every buffer was in use.
PanicInv == panicked => \A i \in Bufs : refcnt[i] # 0

\* Who uses which buffer with which contents; the list and the counts, which
\* are about that, follow it.
CoreInv ==
  /\ TypeInv /\ UseInv /\ LockInv /\ OneBuf
  /\ ValidInv /\ PinValid /\ DiskInv /\ NoLostWakeup
CacheInv == CoreInv /\ RingInv /\ CountInv /\ PanicInv

-----------------------------------------------------------------------------
(* Buffers, their locks and their contents *)

\* What the proofs use of the constants.
LEMMA Consts ==
  /\ Nobody \notin Uses /\ NoBlock \notin Blocks /\ head \notin Bufs /\ IsFiniteSet(Uses)
  /\ Bufs \subseteq Nodes /\ head \in Nodes
<1>1. Nobody \notin Uses
  BY DEF Nobody, Uses
<1>2. IsFiniteSet(Uses)
  <2>1. IsFiniteSet(Procs)
    BY BcacheAssumption, Zenon
  <2>2. IsFiniteSet({1} \cup {2}) /\ {1} \cup {2} = {1, 2}
    BY FS_Singleton, FS_AddElement, Zenon
  <2>. QED BY <2>1, <2>2, FS_Product, Zenon DEF Uses
<1>3. NoBlock \notin Blocks /\ head \notin Bufs /\ Bufs \subseteq Nodes /\ head \in Nodes
  BY BcacheAssumption DEF Bufs, Nodes, head
<1>. QED BY <1>1, <1>2, <1>3, Zenon

\* A process in a call, and its buffer.
LEMMA InCall ==
  ASSUME CoreInv, NEW u \in Uses, pc[u] # "idle"
  PROVE  b[u] \in Bufs /\ want[u] \in Blocks /\ blockno[b[u]] = want[u] /\ want[u] # NoBlock
  BY Consts, Zenon DEF CoreInv, UseInv

\* Processes that ask for the same block have the same buffer.
LEMMA SameBuf ==
  ASSUME CoreInv, NEW u \in Uses, NEW i \in Bufs, pc[u] # "idle", blockno[i] = want[u]
  PROVE  b[u] = i
  BY InCall, Zenon DEF CoreInv, OneBuf

\* A sleep lock has one holder.
LEMMA OneHolder ==
  ASSUME CoreInv, NEW u \in Uses, NEW q \in Uses, Locking(u), Locking(q), b[u] = b[q]
  PROVE  u = q
  BY Zenon DEF CoreInv, LockInv

\* Who holds a buffer has it locked and valid, with the newest contents.
LEMMA Held ==
  ASSUME CoreInv, NEW u \in Uses, Holding(u)
  PROVE  /\ pc[u] # "idle" /\ Locking(u) /\ locked[b[u]] = u /\ valid[b[u]]
         /\ data[b[u]] = cur[want[u]]
<1>1. pc[u] # "idle" /\ Locking(u)
  BY Zenon DEF Holding, Locking
<1>2. locked[b[u]] = u /\ valid[b[u]]
  BY <1>1, Zenon DEF CoreInv, LockInv, UseInv
<1>. QED BY <1>1, <1>2, InCall DEF CoreInv, ValidInv

\* binit() establishes it.
LEMMA InitCore == ASSUME Init PROVE CoreInv
<1>1. TypeInv
  BY Consts, Zenon DEF Init, TypeInv, Points
<1>2. UseInv /\ LockInv /\ OneBuf /\ ValidInv /\ PinValid /\ DiskInv /\ NoLostWakeup
  BY Consts, Zenon DEF Init, UseInv, LockInv, OneBuf, ValidInv, PinValid, DiskInv, NoLostWakeup,
     Holding, Locking
<1>. QED BY <1>1, <1>2, Zenon DEF CoreInv

\* acquiresleep() takes a free lock, and sleeps on one that is held.
LEMMA AcquiresleepCore ==
  ASSUME CoreInv, NEW u \in Uses, acquiresleep(u) PROVE CoreInv'
<1>1. /\ pc[u] = "lock"
      /\ UNCHANGED <<blockno, valid, data, disk, cur, pinned, b, want, panicked>>
  BY Zenon DEF acquiresleep, listVars
<1>2. b[u] \in Bufs
  BY <1>1, InCall, Zenon
<1>3. pc \in [Uses -> Points] /\ locked \in [Bufs -> Uses \cup {Nobody}]
  BY Zenon DEF CoreInv, TypeInv
<1>4. \A q \in Uses \ {u} : pc'[q] = pc[q]
  BY <1>3, Zenon DEF acquiresleep, Goto
<1>5. \/ /\ locked[b[u]] = Nobody /\ locked' = [locked EXCEPT ![b[u]] = u]
         /\ pc' = [pc EXCEPT ![u] = "fill"]
      \/ locked[b[u]] # Nobody /\ locked' = locked /\ pc' = [pc EXCEPT ![u] = "sleep"]
  BY Zenon DEF acquiresleep, Goto
<1>6. /\ pc' \in [Uses -> Points] /\ locked' \in [Bufs -> Uses \cup {Nobody}]
      /\ pc'[u] \in {"fill", "sleep"}
      /\ pc'[u] = "fill" => locked[b[u]] = Nobody /\ locked'[b[u]] = u
      /\ pc'[u] = "sleep" => locked[b[u]] # Nobody /\ locked' = locked
      /\ \A i \in Bufs \ {b[u]} : locked'[i] = locked[i]
  BY <1>2, <1>3, <1>5 DEF Points
<1>7. TypeInv'
  BY <1>1, <1>6, Zenon DEF CoreInv, TypeInv
<1>8. UseInv'
  BY <1>1, <1>4, <1>6, Zenon DEF CoreInv, UseInv, Holding
<1>9. LockInv'
  <2>1. ~Locking(u) /\ ((Locking(u))' <=> pc'[u] = "fill")
    BY <1>1, <1>6, Zenon DEF Locking
  <2>2. \A q \in Uses \ {u} : (Locking(q))' <=> Locking(q)
    BY <1>4, Zenon DEF Locking
  <2>3. ASSUME NEW q \in Uses, (Locking(q))' PROVE locked'[b'[q]] = q
    <3>1. CASE q = u
      BY <1>1, <1>6, <2>1, <2>3, <3>1, Zenon
    <3>2. CASE q # u
      <4>1. locked[b[q]] = q /\ b[q] \in Bufs
        BY <2>2, <2>3, <3>2, InCall, Zenon DEF CoreInv, LockInv, Locking
      <4>. QED BY <1>1, <1>6, <3>2, <4>1, Consts, Zenon
    <3>. QED BY <3>1, <3>2, Zenon
  <2>4. ASSUME NEW i \in Bufs, NEW q \in Uses, locked'[i] = q PROVE b'[q] = i /\ (Locking(q))'
    <3>1. CASE i = b[u] /\ pc'[u] = "fill"
      BY <1>1, <1>6, <2>1, <2>4, <3>1, Zenon
    <3>2. CASE ~(i = b[u] /\ pc'[u] = "fill")
      <4>1. locked[i] = q
        BY <1>6, <2>4, <3>2, Zenon
      <4>2. b[q] = i /\ Locking(q) /\ q # u
        BY <2>1, <4>1, Zenon DEF CoreInv, LockInv
      <4>. QED BY <1>1, <2>2, <4>2, Zenon
    <3>. QED BY <3>1, <3>2, Zenon
  <2>. QED BY <2>3, <2>4, Zenon DEF LockInv
<1>10. OneBuf' /\ ValidInv' /\ PinValid'
  BY <1>1, Zenon DEF CoreInv, OneBuf, ValidInv, PinValid
<1>11. DiskInv'
  BY <1>1, <1>4 DEF CoreInv, DiskInv, Dirty
<1>12. NoLostWakeup'
  <2>1. ASSUME NEW q \in Uses, pc'[q] = "sleep" PROVE locked'[b[q]] # Nobody
    <3>1. CASE q = u
      BY <1>6, <2>1, <3>1, Zenon
    <3>2. CASE q # u
      <4>1. locked[b[q]] # Nobody /\ b[q] \in Bufs
        BY <1>4, <2>1, <3>2, InCall, Zenon DEF CoreInv, NoLostWakeup
      <4>. QED BY <1>6, <4>1, Consts, Zenon
    <3>. QED BY <3>1, <3>2, Zenon
  <2>. QED BY <1>1, <2>1, Zenon DEF NoLostWakeup
<1>. QED BY <1>1, <1>7, <1>8, <1>9, <1>10, <1>11, <1>12, Zenon DEF CoreInv

\* A step of the holder of a buffer that changes neither locks nor references, and
\* after which the holder is where the lock is held.
LEMMA HolderStep ==
  ASSUME CoreInv, NEW u \in Uses, Locking(u), UNCHANGED <<locked, b>>,
         pc' \in [Uses -> Points], pc'[u] \in {"held", "dirty"},
         \A q \in Uses \ {u} : pc'[q] = pc[q]
  PROVE  LockInv' /\ NoLostWakeup'
<1>1. \A q \in Uses : (Locking(q))' <=> Locking(q)
  BY Zenon DEF Locking
<1>2. \A q \in Uses : pc'[q] = "sleep" => pc[q] = "sleep"
  BY Zenon
<1>3. LockInv'
  BY <1>1, Zenon DEF CoreInv, LockInv
<1>. QED BY <1>2, <1>3, Zenon DEF CoreInv, NoLostWakeup

\* bread() fills a buffer that is not valid from the disk, which is up to date.
LEMMA BreadCore ==
  ASSUME CoreInv, NEW u \in Uses, bread(u) PROVE CoreInv'
<1>1. /\ pc[u] = "fill"
      /\ UNCHANGED <<blockno, locked, disk, cur, pinned, b, want, panicked>>
      /\ data' = [data EXCEPT ![b[u]] = IF valid[b[u]] THEN @ ELSE disk[blockno[b[u]]]]
      /\ valid' = [valid EXCEPT ![b[u]] = TRUE] /\ pc' = [pc EXCEPT ![u] = "held"]
  BY Zenon DEF bread, listVars, Goto
<1>2. b[u] \in Bufs /\ want[u] \in Blocks /\ blockno[b[u]] = want[u]
  BY <1>1, InCall, Zenon
<1>3. /\ pc \in [Uses -> Points] /\ valid \in [Bufs -> BOOLEAN] /\ data \in [Bufs -> Vals]
      /\ disk \in [Blocks -> Vals]
  BY Zenon DEF CoreInv, TypeInv
<1>4. /\ pc' \in [Uses -> Points] /\ pc'[u] = "held" /\ \A q \in Uses \ {u} : pc'[q] = pc[q]
  BY <1>1, <1>3, Zenon DEF Points
<1>5. /\ valid' \in [Bufs -> BOOLEAN] /\ valid'[b[u]]
      /\ \A i \in Bufs \ {b[u]} : valid'[i] = valid[i] /\ data'[i] = data[i]
  BY <1>1, <1>2, <1>3, Zenon
<1>6. /\ data' \in [Bufs -> Vals]
      /\ data'[b[u]] = IF valid[b[u]] THEN data[b[u]] ELSE disk[want[u]]
  BY <1>1, <1>2, <1>3, Zenon
<1>7. ~valid[b[u]] => disk[want[u]] = cur[want[u]]
  <2>1. SUFFICES ASSUME ~valid[b[u]] PROVE want[u] \notin pinned /\ ~Dirty(want[u])
    BY <1>2, Zenon DEF CoreInv, DiskInv
  <2>2. want[u] \notin pinned
    BY <1>1, <2>1, SameBuf DEF CoreInv, PinValid
  <2>3. ASSUME NEW q \in Uses, pc[q] = "dirty", want[q] = want[u] PROVE FALSE
    <3>1. valid[b[q]]
      BY <2>3, Held, Zenon DEF Holding
    <3>2. b[q] = b[u]
      BY <1>2, <2>3, SameBuf, Zenon
    <3>. QED BY <2>1, <3>1, <3>2, Zenon
  <2>. QED BY <2>2, <2>3, Zenon DEF Dirty
<1>8. TypeInv'
  BY <1>1, <1>4, <1>5, <1>6, Zenon DEF CoreInv, TypeInv
<1>9. UseInv'
  <2>1. \A q \in Uses \ {u} : (Holding(q))' => valid'[b[q]]
    <3>1. ASSUME NEW q \in Uses \ {u}, (Holding(q))' PROVE valid'[b[q]]
      <4>1. valid[b[q]] /\ b[q] \in Bufs
        BY <1>4, <3>1, Held, InCall, Zenon DEF Holding
      <4>. QED BY <1>5, <4>1, Zenon
    <3>. QED BY <3>1, Zenon
  <2>. QED BY <1>1, <1>2, <1>4, <1>5, <2>1, Zenon DEF CoreInv, UseInv
<1>10. LockInv' /\ NoLostWakeup'
  BY <1>1, <1>4, HolderStep, Zenon DEF Locking
<1>11. OneBuf'
  BY <1>1, Zenon DEF CoreInv, OneBuf
<1>12. ValidInv'
  BY <1>1, <1>2, <1>5, <1>6, <1>7 DEF CoreInv, ValidInv
<1>13. PinValid'
  BY <1>1, <1>5, Zenon DEF CoreInv, PinValid
<1>14. DiskInv'
  BY <1>1, <1>4, Zenon DEF CoreInv, DiskInv, Dirty
<1>. QED BY <1>1, <1>8, <1>9, <1>10, <1>11, <1>12, <1>13, <1>14, Zenon DEF CoreInv

\* The holder changes the contents: the block is dirty.
LEMMA ModifyCore ==
  ASSUME CoreInv, NEW u \in Uses, modify(u) PROVE CoreInv'
<1>1. /\ pc[u] = "held" /\ pc' = [pc EXCEPT ![u] = "dirty"]
      /\ UNCHANGED <<blockno, valid, locked, disk, pinned, b, want, panicked>>
  BY Zenon DEF modify, listVars, Goto
<1>2. PICK v \in Vals : data' = [data EXCEPT ![b[u]] = v] /\ cur' = [cur EXCEPT ![want[u]] = v]
  BY Zenon DEF modify
<1>3. b[u] \in Bufs /\ want[u] \in Blocks /\ blockno[b[u]] = want[u]
  BY <1>1, InCall, Zenon
<1>4. /\ pc \in [Uses -> Points] /\ data \in [Bufs -> Vals] /\ cur \in [Blocks -> Vals]
  BY Zenon DEF CoreInv, TypeInv
<1>5. /\ pc' \in [Uses -> Points] /\ pc'[u] = "dirty" /\ \A q \in Uses \ {u} : pc'[q] = pc[q]
  BY <1>1, <1>4, Zenon DEF Points
<1>6. /\ data' \in [Bufs -> Vals] /\ data'[b[u]] = v
      /\ \A i \in Bufs \ {b[u]} : data'[i] = data[i]
  BY <1>2, <1>3, <1>4, Zenon
<1>7. /\ cur' \in [Blocks -> Vals] /\ cur'[want[u]] = v
      /\ \A bn \in Blocks \ {want[u]} : cur'[bn] = cur[bn]
  BY <1>2, <1>3, <1>4, Zenon
<1>8. TypeInv'
  BY <1>1, <1>5, <1>6, <1>7, Zenon DEF CoreInv, TypeInv
<1>9. UseInv'
  <2>1. valid[b[u]]
    BY <1>1, Held, Zenon DEF Holding
  <2>. QED BY <1>1, <1>3, <1>5, <2>1, Zenon DEF CoreInv, UseInv, Holding
<1>10. LockInv' /\ NoLostWakeup'
  BY <1>1, <1>5, HolderStep, Zenon DEF Locking
<1>11. OneBuf' /\ PinValid'
  BY <1>1, Zenon DEF CoreInv, OneBuf, PinValid
<1>12. ValidInv'
  <2>1. \A i \in Bufs \ {b[u]} : blockno[i] # want[u]
    BY <1>1, SameBuf, Zenon
  <2>. QED BY <1>1, <1>3, <1>6, <1>7, <2>1 DEF CoreInv, ValidInv
<1>13. DiskInv'
  <2>1. (Dirty(want[u]))'
    BY <1>1, <1>5, Zenon DEF Dirty
  <2>2. \A bn \in Blocks : Dirty(bn) => (Dirty(bn))'
    BY <1>1, <1>5, Zenon DEF Dirty
  <2>. QED BY <1>1, <1>7, <2>1, <2>2 DEF CoreInv, DiskInv, Dirty
<1>. QED BY <1>1, <1>8, <1>9, <1>10, <1>11, <1>12, <1>13, Zenon DEF CoreInv

\* The holder writes the block to the disk.
LEMMA BwriteCore ==
  ASSUME CoreInv, NEW u \in Uses, bwrite(u) PROVE CoreInv'
<1>1. /\ Holding(u) /\ pc' = [pc EXCEPT ![u] = "held"]
      /\ disk' = [disk EXCEPT ![blockno[b[u]]] = data[b[u]]]
      /\ UNCHANGED <<blockno, valid, data, locked, cur, pinned, b, want, panicked>>
  BY Zenon DEF bwrite, bufVars, listVars, Goto, Holding
<1>2. /\ pc[u] # "idle" /\ Locking(u) /\ valid[b[u]] /\ data[b[u]] = cur[want[u]]
  BY <1>1, Held, Zenon
<1>3. b[u] \in Bufs /\ want[u] \in Blocks /\ blockno[b[u]] = want[u]
  BY <1>2, InCall, Zenon
<1>4. /\ pc \in [Uses -> Points] /\ data \in [Bufs -> Vals] /\ disk \in [Blocks -> Vals]
  BY Zenon DEF CoreInv, TypeInv
<1>5. /\ pc' \in [Uses -> Points] /\ pc'[u] = "held" /\ \A q \in Uses \ {u} : pc'[q] = pc[q]
  BY <1>1, <1>4, Zenon DEF Points
<1>6. /\ disk' \in [Blocks -> Vals] /\ disk'[want[u]] = cur[want[u]]
      /\ \A bn \in Blocks \ {want[u]} : disk'[bn] = disk[bn]
  BY <1>1, <1>2, <1>3, <1>4, Zenon
<1>7. TypeInv'
  BY <1>1, <1>5, <1>6, Zenon DEF CoreInv, TypeInv
<1>8. UseInv'
  BY <1>1, <1>2, <1>3, <1>5, Zenon DEF CoreInv, UseInv, Holding
<1>9. LockInv' /\ NoLostWakeup'
  BY <1>1, <1>2, <1>5, HolderStep, Zenon
<1>10. OneBuf' /\ PinValid' /\ ValidInv'
  BY <1>1, Zenon DEF CoreInv, OneBuf, PinValid, ValidInv
<1>11. DiskInv'
  <2>1. \A bn \in Blocks \ {want[u]} : Dirty(bn) => (Dirty(bn))'
    BY <1>1, <1>5, Zenon DEF Dirty
  <2>2. \A bn \in Blocks \ {want[u]} : disk[bn] = cur[bn] \/ bn \in pinned \/ Dirty(bn)
    BY Zenon DEF CoreInv, DiskInv
  <2>3. ASSUME NEW bn \in Blocks PROVE disk'[bn] = cur[bn] \/ bn \in pinned \/ (Dirty(bn))'
    BY <1>6, <2>1, <2>2, Zenon
  <2>. QED BY <1>1, <2>3, Zenon DEF DiskInv
<1>. QED BY <1>1, <1>7, <1>8, <1>9, <1>10, <1>11, Zenon DEF CoreInv

\* log_write() pins a block that it has not pinned yet, in its buffer.
LEMMA BpinCore ==
  ASSUME CoreInv, NEW u \in Uses, bpin(u) PROVE CoreInv'
<1>1. /\ pc[u] = "dirty" /\ Holding(u) /\ pc' = [pc EXCEPT ![u] = "held"]
      /\ UNCHANGED <<blockno, valid, data, locked, disk, cur, b, want, panicked>>
  BY Zenon DEF bpin, listVars, Goto, Holding
<1>2. /\ pc[u] # "idle" /\ Locking(u) /\ valid[b[u]] /\ data[b[u]] = cur[want[u]]
  BY <1>1, Held, Zenon
<1>3. b[u] \in Bufs /\ want[u] \in Blocks /\ blockno[b[u]] = want[u]
  BY <1>2, InCall, Zenon
<1>4. /\ pc \in [Uses -> Points] /\ pinned \in SUBSET Blocks
  BY Zenon DEF CoreInv, TypeInv
<1>5. /\ pc' \in [Uses -> Points] /\ pc'[u] = "held" /\ \A q \in Uses \ {u} : pc'[q] = pc[q]
  BY <1>1, <1>4, Zenon DEF Points
<1>6. pinned' = pinned \cup {want[u]}
  BY Zenon DEF bpin
<1>7. TypeInv'
  BY <1>1, <1>3, <1>4, <1>5, <1>6, Zenon DEF CoreInv, TypeInv
<1>8. UseInv'
  BY <1>1, <1>2, <1>3, <1>5, Zenon DEF CoreInv, UseInv, Holding
<1>9. LockInv' /\ NoLostWakeup'
  BY <1>1, <1>2, <1>5, HolderStep, Zenon
<1>10. OneBuf' /\ ValidInv'
  BY <1>1, Zenon DEF CoreInv, OneBuf, ValidInv
<1>11. PinValid'
  BY <1>1, <1>2, <1>3, <1>6, Zenon DEF CoreInv, PinValid
<1>12. DiskInv'
  <2>1. \A bn \in Blocks \ {want[u]} : Dirty(bn) => (Dirty(bn))'
    BY <1>1, <1>5, Zenon DEF Dirty
  <2>2. \A bn \in Blocks \ {want[u]} : disk[bn] = cur[bn] \/ bn \in pinned \/ Dirty(bn)
    BY Zenon DEF CoreInv, DiskInv
  <2>3. ASSUME NEW bn \in Blocks PROVE disk[bn] = cur[bn] \/ bn \in pinned' \/ (Dirty(bn))'
    BY <1>6, <2>1, <2>2, Zenon
  <2>. QED BY <1>1, <2>3, Zenon DEF DiskInv
<1>. QED BY <1>1, <1>7, <1>8, <1>9, <1>10, <1>11, <1>12, Zenon DEF CoreInv

\* install_trans() writes a pinned block home and unpins it.
LEMMA BunpinCore ==
  ASSUME CoreInv, NEW u \in Uses, bunpin(u) PROVE CoreInv'
<1>1. /\ pc[u] = "held" /\ Holding(u) /\ want[u] \in pinned
      /\ disk' = [disk EXCEPT ![blockno[b[u]]] = data[b[u]]]
      /\ pinned' = pinned \ {want[u]}
      /\ UNCHANGED <<blockno, valid, data, locked, cur, pc, b, want, panicked>>
  BY Zenon DEF bunpin, listVars, procVars, Holding
<1>2. /\ pc[u] # "idle" /\ Locking(u) /\ valid[b[u]] /\ data[b[u]] = cur[want[u]]
  BY <1>1, Held, Zenon
<1>3. b[u] \in Bufs /\ want[u] \in Blocks /\ blockno[b[u]] = want[u]
  BY <1>2, InCall, Zenon
<1>4. /\ pc \in [Uses -> Points] /\ pinned \in SUBSET Blocks
      /\ disk \in [Blocks -> Vals] /\ data \in [Bufs -> Vals]
  BY Zenon DEF CoreInv, TypeInv
<1>5. /\ disk' \in [Blocks -> Vals] /\ disk'[want[u]] = cur[want[u]]
      /\ \A bn \in Blocks \ {want[u]} : disk'[bn] = disk[bn]
  BY <1>1, <1>2, <1>3, <1>4, Zenon
<1>8. TypeInv'
  BY <1>1, <1>4, <1>5, Zenon DEF CoreInv, TypeInv
<1>9. UseInv' /\ LockInv' /\ NoLostWakeup' /\ OneBuf' /\ ValidInv'
  BY <1>1 DEF CoreInv, UseInv, LockInv, NoLostWakeup, OneBuf, ValidInv, Holding, Locking
<1>10. PinValid'
  BY <1>1, Zenon DEF CoreInv, PinValid
<1>11. DiskInv'
  <2>1. \A bn \in Blocks : (Dirty(bn))' <=> Dirty(bn)
    BY <1>1, Zenon DEF Dirty
  <2>2. \A bn \in Blocks \ {want[u]} : disk[bn] = cur[bn] \/ bn \in pinned \/ Dirty(bn)
    BY Zenon DEF CoreInv, DiskInv
  <2>3. ASSUME NEW bn \in Blocks PROVE disk'[bn] = cur[bn] \/ bn \in pinned' \/ (Dirty(bn))'
    BY <1>1, <1>5, <2>1, <2>2, Zenon
  <2>. QED BY <1>1, <2>3, Zenon DEF DiskInv
<1>. QED BY <1>1, <1>8, <1>9, <1>10, <1>11, Zenon DEF CoreInv

\* releasesleep() wakes everybody who sleeps on the lock.
LEMMA ReleasesleepCore ==
  ASSUME CoreInv, NEW u \in Uses, releasesleep(u) PROVE CoreInv'
<1>1. /\ pc[u] = "held" /\ Holding(u) /\ locked' = [locked EXCEPT ![b[u]] = Nobody]
      /\ pc' = [q \in Uses |-> IF q = u THEN "unref"
                                ELSE IF pc[q] = "sleep" /\ b[q] = b[u] THEN "lock" ELSE pc[q]]
      /\ UNCHANGED <<blockno, valid, data, disk, cur, pinned, b, want, panicked>>
  BY Zenon DEF releasesleep, listVars, Holding
<1>2. pc[u] # "idle" /\ Locking(u) /\ locked[b[u]] = u
  BY <1>1, Held, Zenon
<1>3. b[u] \in Bufs
  BY <1>2, InCall, Zenon
<1>4. pc \in [Uses -> Points] /\ locked \in [Bufs -> Uses \cup {Nobody}]
  BY Zenon DEF CoreInv, TypeInv
<1>5. /\ pc' \in [Uses -> Points] /\ pc'[u] = "unref"
      /\ \A q \in Uses \ {u} : \/ pc'[q] = pc[q] /\ ~(pc[q] = "sleep" /\ b[q] = b[u])
                               \/ pc[q] = "sleep" /\ b[q] = b[u] /\ pc'[q] = "lock"
  BY <1>1, <1>4, Zenon DEF Points
<1>6. /\ locked' \in [Bufs -> Uses \cup {Nobody}] /\ locked'[b[u]] = Nobody
      /\ \A i \in Bufs \ {b[u]} : locked'[i] = locked[i]
  BY <1>1, <1>3, <1>4, Zenon
<1>7. TypeInv'
  BY <1>1, <1>5, <1>6, Zenon DEF CoreInv, TypeInv
<1>8. UseInv'
  <2>1. \A q \in Uses : pc[q] = "idle" <=> pc'[q] = "idle"
    <3>1. pc[u] # "idle" /\ pc'[u] # "idle"
      BY <1>2, <1>5, Zenon
    <3>2. ASSUME NEW q \in Uses \ {u} PROVE pc[q] = "idle" <=> pc'[q] = "idle"
      BY <1>5, Zenon
    <3>. QED BY <3>1, <3>2, Zenon
  <2>2. \A q \in Uses : (Holding(q))' => Holding(q)
    BY <1>5, Zenon DEF Holding
  <2>. QED BY <1>1, <2>1, <2>2, Zenon DEF CoreInv, UseInv
<1>9. LockInv'
  <2>1. ~(Locking(u))' /\ \A q \in Uses \ {u} : (Locking(q))' <=> Locking(q)
    BY <1>5, Zenon DEF Locking
  <2>2. ASSUME NEW q \in Uses, (Locking(q))' PROVE locked'[b[q]] = q
    <3>1. q # u /\ Locking(q)
      BY <2>1, <2>2, Zenon
    <3>2. b[q] \in Bufs /\ locked[b[q]] = q
      BY <3>1, InCall, Zenon DEF CoreInv, LockInv, Locking
    <3>3. b[q] # b[u]
      BY <1>2, <3>1, <3>2, Zenon
    <3>. QED BY <1>6, <3>2, <3>3, Zenon
  <2>3. ASSUME NEW i \in Bufs, NEW q \in Uses, locked'[i] = q PROVE b[q] = i /\ (Locking(q))'
    <3>1. i # b[u] /\ locked[i] = q
      BY <1>6, <2>3, Consts, Zenon
    <3>2. b[q] = i /\ Locking(q)
      BY <3>1, Zenon DEF CoreInv, LockInv
    <3>3. q # u
      BY <3>1, <3>2, Zenon
    <3>. QED BY <2>1, <3>2, <3>3, Zenon
  <2>. QED BY <1>1, <2>2, <2>3, Zenon DEF LockInv
<1>10. OneBuf' /\ ValidInv' /\ PinValid'
  BY <1>1, Zenon DEF CoreInv, OneBuf, ValidInv, PinValid
<1>11. DiskInv'
  <2>1. \A q \in Uses : pc[q] = "dirty" => pc'[q] = "dirty"
    BY <1>1, <1>5, Zenon
  <2>. QED BY <1>1, <2>1, Zenon DEF CoreInv, DiskInv, Dirty
<1>12. NoLostWakeup'
  <2>1. ASSUME NEW q \in Uses, pc'[q] = "sleep" PROVE locked'[b[q]] # Nobody
    <3>1. q # u /\ pc[q] = "sleep" /\ b[q] # b[u]
      BY <1>5, <2>1, Zenon
    <3>2. b[q] \in Bufs /\ locked[b[q]] # Nobody
      BY <3>1, InCall, Zenon DEF CoreInv, NoLostWakeup
    <3>. QED BY <1>6, <3>1, <3>2, Zenon
  <2>. QED BY <1>1, <2>1, Zenon DEF NoLostWakeup
<1>. QED BY <1>1, <1>7, <1>8, <1>9, <1>10, <1>11, <1>12, Zenon DEF CoreInv

\* brelse() drops a reference; the last one puts the buffer in front.
LEMMA BrelseCore ==
  ASSUME CoreInv, NEW u \in Uses, brelse(u) PROVE CoreInv'
<1>1. /\ pc[u] = "unref" /\ pc' = [pc EXCEPT ![u] = "idle"]
      /\ b' = [b EXCEPT ![u] = head]
      /\ want' = [want EXCEPT ![u] = NoBlock]
      /\ UNCHANGED <<blockno, valid, data, locked, disk, cur, pinned, panicked>>
  BY Zenon DEF brelse
<1>3. /\ pc \in [Uses -> Points] /\ b \in [Uses -> Nodes]
      /\ want \in [Uses -> Blocks \cup {NoBlock}]
  BY Zenon DEF CoreInv, TypeInv
<1>5. /\ pc' \in [Uses -> Points] /\ pc'[u] = "idle" /\ b' \in [Uses -> Nodes] /\ b'[u] = head
      /\ want' \in [Uses -> Blocks \cup {NoBlock}]
      /\ \A q \in Uses \ {u} : pc'[q] = pc[q] /\ b'[q] = b[q] /\ want'[q] = want[q]
  BY <1>1, <1>3, Consts, Zenon DEF Points
<1>9. TypeInv'
  BY <1>1, <1>5, Zenon DEF CoreInv, TypeInv
<1>10. UseInv'
  BY <1>1, <1>5, Zenon DEF CoreInv, UseInv, Holding
<1>11. LockInv'
  <2>1. ~Locking(u) /\ ~(Locking(u))' /\ \A q \in Uses \ {u} : (Locking(q))' <=> Locking(q)
    BY <1>1, <1>5, Zenon DEF Locking
  <2>. QED BY <1>1, <1>5, <2>1 DEF CoreInv, LockInv
<1>12. OneBuf' /\ ValidInv' /\ PinValid'
  BY <1>1, Zenon DEF CoreInv, OneBuf, ValidInv, PinValid
<1>13. DiskInv'
  <2>1. \A bn \in Blocks : Dirty(bn) => (Dirty(bn))'
    BY <1>1, <1>5, Zenon DEF Dirty
  <2>. QED BY <1>1, <2>1, Zenon DEF CoreInv, DiskInv
<1>14. NoLostWakeup'
  BY <1>1, <1>5, Zenon DEF CoreInv, NoLostWakeup
<1>. QED BY <1>9, <1>10, <1>11, <1>12, <1>13, <1>14, Zenon DEF CoreInv

\* bget() changes nothing for the locks and the sleepers ...
LEMMA IdleStep ==
  ASSUME CoreInv, NEW u \in Uses, pc[u] = "idle", pc'[u] = "lock", locked' = locked,
         \A q \in Uses \ {u} : pc'[q] = pc[q] /\ b'[q] = b[q]
  PROVE  LockInv' /\ NoLostWakeup'
<1>1. ~Locking(u) /\ ~(Locking(u))' /\ \A q \in Uses \ {u} : (Locking(q))' <=> Locking(q)
  BY Zenon DEF Locking
<1>2. LockInv'
  <2>1. ASSUME NEW q \in Uses, (Locking(q))' PROVE locked'[b'[q]] = q
    BY <1>1, <2>1, Zenon DEF CoreInv, LockInv
  <2>2. ASSUME NEW i \in Bufs, NEW q \in Uses, locked'[i] = q PROVE b'[q] = i /\ (Locking(q))'
    BY <1>1, <2>2, Zenon DEF CoreInv, LockInv
  <2>. QED BY <2>1, <2>2, Zenon DEF LockInv
<1>3. NoLostWakeup'
  BY Zenon DEF CoreInv, NoLostWakeup
<1>. QED BY <1>2, <1>3, Zenon

\* ... and for what is on disk.
LEMMA IdleDisk ==
  ASSUME CoreInv, NEW u \in Uses, pc[u] = "idle", UNCHANGED <<disk, cur, pinned>>,
         \A q \in Uses \ {u} : pc'[q] = pc[q] /\ want'[q] = want[q]
  PROVE  DiskInv'
<1>1. \A bn \in Blocks : Dirty(bn) => (Dirty(bn))'
  BY Zenon DEF Dirty
<1>. QED BY <1>1, Zenon DEF CoreInv, DiskInv

\* bget() finds the block cached and takes a reference.
LEMMA BgetHitCore ==
  ASSUME CoreInv, NEW u \in Uses, bget_hit(u) PROVE CoreInv'
<1>1. PICK bn \in Blocks, i \in Bufs :
        /\ pc[u] = "idle" /\ i \in Cached(bn)
        /\ b' = [b EXCEPT ![u] = i] /\ want' = [want EXCEPT ![u] = bn]
  BY Zenon DEF bget_hit, Asks, Found
<1>2. /\ pc[u] = "idle" /\ pc' = [pc EXCEPT ![u] = "lock"]
      /\ UNCHANGED <<blockno, valid, data, locked, disk, cur, pinned, panicked>>
  BY <1>1, Zenon DEF bget_hit, listVars, Goto
<1>3. b[u] = head /\ blockno[i] = bn
  BY <1>1, <1>2, Zenon DEF CoreInv, UseInv, Cached
<1>4. /\ pc \in [Uses -> Points] /\ b \in [Uses -> Nodes]
      /\ want \in [Uses -> Blocks \cup {NoBlock}]
  BY Zenon DEF CoreInv, TypeInv
<1>5. /\ pc' \in [Uses -> Points] /\ pc'[u] = "lock" /\ b' \in [Uses -> Nodes] /\ b'[u] = i
      /\ want' \in [Uses -> Blocks \cup {NoBlock}] /\ want'[u] = bn
      /\ \A q \in Uses \ {u} : pc'[q] = pc[q] /\ b'[q] = b[q] /\ want'[q] = want[q]
  BY <1>1, <1>2, <1>4, Consts, Zenon DEF Points
<1>7. TypeInv'
  BY <1>2, <1>5, Zenon DEF CoreInv, TypeInv
<1>8. UseInv'
  BY <1>2, <1>3, <1>5 DEF CoreInv, UseInv, Holding
<1>9. LockInv' /\ NoLostWakeup'
  BY <1>2, <1>5, IdleStep, Zenon
<1>10. OneBuf' /\ ValidInv' /\ PinValid'
  BY <1>2, Zenon DEF CoreInv, OneBuf, ValidInv, PinValid
<1>11. DiskInv'
  BY <1>2, <1>5, IdleDisk, Zenon
<1>. QED BY <1>2, <1>7, <1>8, <1>9, <1>10, <1>11, Zenon DEF CoreInv

\* Nobody refers to the buffer.
Unused(i) == i \in Bufs /\ blockno[i] \notin pinned /\ \A q \in Uses : b[q] # i

\* bget() recycles a buffer that nobody refers to, for a block in no buffer.
LEMMA BgetRecycleCore ==
  ASSUME CoreInv, NEW u \in Uses, bget_recycle(u), Met(next) = Bufs,
         Recyclable # {} => Unused(Victim)
  PROVE  CoreInv'
<1>1. /\ pc[u] = "idle" /\ UNCHANGED <<data, locked, disk, cur, pinned>>
  BY Zenon DEF bget_recycle, Asks, listVars
<1>2. CASE /\ panicked' = TRUE /\ UNCHANGED <<blockno, valid, refcnt, procVars>>
  <2>1. TypeInv'
    BY <1>1, <1>2, Zenon DEF CoreInv, TypeInv, procVars
  <2>2. UseInv' /\ LockInv' /\ OneBuf' /\ ValidInv' /\ PinValid' /\ DiskInv' /\ NoLostWakeup'
    BY <1>1, <1>2 DEF CoreInv, procVars, UseInv, LockInv, OneBuf, ValidInv, PinValid, DiskInv,
       NoLostWakeup, Holding, Locking, Dirty
  <2>. QED BY <2>1, <2>2, Zenon DEF CoreInv
<1>3. CASE /\ Recyclable # {}
           /\ \E bn \in Blocks :
                /\ Found(bn) = {}
                /\ blockno' = [blockno EXCEPT ![Victim] = bn]
                /\ valid' = [valid EXCEPT ![Victim] = FALSE]
                /\ refcnt' = [refcnt EXCEPT ![Victim] = 1]
                /\ b' = [b EXCEPT ![u] = Victim] /\ want' = [want EXCEPT ![u] = bn]
                /\ pc' = [pc EXCEPT ![u] = "lock"] /\ panicked' = panicked
  <2>1. PICK v \in Bufs : v = Victim
    BY <1>3, Zenon DEF Unused
  <2>2. PICK bn \in Blocks :
          /\ Found(bn) = {} /\ blockno' = [blockno EXCEPT ![v] = bn]
          /\ valid' = [valid EXCEPT ![v] = FALSE]
          /\ b' = [b EXCEPT ![u] = v] /\ want' = [want EXCEPT ![u] = bn]
          /\ pc' = [pc EXCEPT ![u] = "lock"] /\ panicked' = panicked
    BY <1>3, <2>1, Zenon
  <2>3. blockno[v] \notin pinned /\ \A q \in Uses : b[q] # v
    BY <1>3, <2>1, Zenon DEF Unused
  <2>4. /\ pc \in [Uses -> Points] /\ b \in [Uses -> Nodes]
        /\ want \in [Uses -> Blocks \cup {NoBlock}] /\ valid \in [Bufs -> BOOLEAN]
        /\ blockno \in [Bufs -> Blocks \cup {NoBlock}]
    BY Zenon DEF CoreInv, TypeInv
  <2>5. /\ pc' \in [Uses -> Points] /\ pc'[u] = "lock" /\ b' \in [Uses -> Nodes] /\ b'[u] = v
        /\ want' \in [Uses -> Blocks \cup {NoBlock}] /\ want'[u] = bn
        /\ \A q \in Uses \ {u} : pc'[q] = pc[q] /\ b'[q] = b[q] /\ want'[q] = want[q]
    BY <2>2, <2>4, Consts, Zenon DEF Points
  <2>6. /\ blockno' \in [Bufs -> Blocks \cup {NoBlock}] /\ blockno'[v] = bn
        /\ valid' \in [Bufs -> BOOLEAN] /\ valid'[v] = FALSE
        /\ \A j \in Bufs \ {v} : valid'[j] = valid[j] /\ blockno'[j] = blockno[j]
    BY <2>2, <2>4, Zenon
  <2>8. \A j \in Bufs : blockno[j] # bn
    BY <2>2, Zenon DEF Found, Cached
  <2>9. bn \notin pinned /\ b[u] = head
    BY <1>1, <2>8, Zenon DEF CoreInv, PinValid, UseInv
  <2>10. TypeInv'
    BY <1>1, <2>2, <2>5, <2>6, Zenon DEF CoreInv, TypeInv
  <2>11. UseInv'
    <3>1. ASSUME NEW q \in Uses
          PROVE  /\ pc'[q] # "idle" => b'[q] \in Bufs /\ want'[q] \in Blocks
                                       /\ blockno'[b'[q]] = want'[q]
                 /\ pc'[q] = "idle" => b'[q] = head
                 /\ (Holding(q))' => valid'[b'[q]]
      <4>1. CASE q = u
        BY <2>5, <2>6, <4>1, Zenon DEF Holding
      <4>2. CASE q # u
        <5>1. b[q] # v /\ pc'[q] = pc[q] /\ b'[q] = b[q] /\ want'[q] = want[q]
          BY <2>3, <2>5, <4>2, Zenon
        <5>2. (Holding(q))' => Holding(q) /\ pc[q] # "idle"
          BY <5>1, Zenon DEF Holding
        <5>3. pc[q] # "idle" => /\ b[q] \in Bufs /\ want[q] \in Blocks /\ blockno[b[q]] = want[q]
                                /\ valid'[b[q]] = valid[b[q]] /\ blockno'[b[q]] = blockno[b[q]]
          BY <2>6, <5>1, InCall, Zenon
        <5>. QED BY <5>1, <5>2, <5>3, Zenon DEF CoreInv, UseInv
      <4>. QED BY <4>1, <4>2, Zenon
    <3>. QED BY <3>1, Zenon DEF UseInv
  <2>12. LockInv' /\ NoLostWakeup'
    BY <1>1, <2>5, IdleStep, Zenon
  <2>13. OneBuf'
    <3>1. ASSUME NEW i \in Bufs, NEW j \in Bufs, blockno'[i] = blockno'[j], blockno'[i] # NoBlock
          PROVE  i = j
      BY <2>6, <2>8, <3>1, Zenon DEF CoreInv, OneBuf
    <3>. QED BY <3>1, Zenon DEF OneBuf
  <2>14. ValidInv'
    BY <1>1, <2>6, Zenon DEF CoreInv, ValidInv
  <2>15. PinValid'
    <3>1. ASSUME NEW c \in pinned PROVE \E i \in Bufs : blockno'[i] = c /\ valid'[i]
      <4>1. PICK i \in Bufs : blockno[i] = c /\ valid[i]
        BY <3>1, Zenon DEF CoreInv, PinValid
      <4>2. i # v
        BY <2>3, <4>1, Zenon
      <4>. QED BY <2>6, <4>1, <4>2, Zenon
    <3>. QED BY <1>1, <3>1, Zenon DEF PinValid
  <2>16. DiskInv'
    BY <1>1, <2>5, IdleDisk, Zenon
  <2>. QED BY <1>1, <2>10, <2>11, <2>12, <2>13, <2>14, <2>15, <2>16, Zenon DEF CoreInv
<1>. QED BY <1>2, <1>3, Zenon DEF bget_recycle, Goto

-----------------------------------------------------------------------------
(* The LRU list *)

\* A step that leaves the list alone.
LEMMA RingKeeps == ASSUME RingInv, UNCHANGED listVars PROVE RingInv'
  BY Zenon DEF RingInv, listVars

\* The list that binit() makes.
LEMMA InitRing == ASSUME Init PROVE RingInv
<1> DEFINE w == [k \in 0 .. NBUF |-> IF k = 0 THEN head ELSE NBUF + 1 - k]
<1>1. w \in [0 .. NBUF -> Nodes]
  BY BcacheAssumption DEF Nodes, Bufs
<1>2. /\ next = [i \in Bufs \cup {head} |-> IF i = head THEN NBUF ELSE i - 1]
      /\ prev = [i \in Bufs \cup {head} |-> IF i = NBUF THEN head ELSE i + 1]
  BY Zenon DEF Init
<1>3. w[0] = head /\ \A k \in 1 .. NBUF : w[k] = NBUF + 1 - k
  BY BcacheAssumption
<1>4. ASSUME NEW i \in Bufs PROVE \E k \in 1 .. NBUF : w[k] = i
  <2>1. NBUF + 1 - i \in 1 .. NBUF /\ NBUF + 1 - (NBUF + 1 - i) = i
    BY BcacheAssumption DEF Bufs
  <2>. QED BY <1>3, <2>1, Zenon
<1>5. \A j, k \in 0 .. NBUF : w[j] = w[k] => j = k
  BY BcacheAssumption DEF head
<1> HIDE DEF w
<1>6. ASSUME NEW k \in 0 .. NBUF - 1 PROVE next[w[k]] = w[k + 1] /\ prev[w[k + 1]] = w[k]
  <2>1. k + 1 \in 1 .. NBUF /\ w[k + 1] = NBUF - k /\ NBUF - k \in Bufs
    BY <1>3, BcacheAssumption DEF Bufs
  <2>0. /\ next[head] = NBUF /\ prev[NBUF] = head
        /\ \A i \in Bufs : next[i] = i - 1 /\ (i # NBUF => prev[i] = i + 1)
    <3>1. NBUF \in Bufs /\ NBUF # head
      BY BcacheAssumption DEF Bufs, head
    <3>2. \A i \in Bufs : i # head
      BY Consts, Zenon
    <3>. QED BY <1>2, <3>1, <3>2, Zenon
  <2>2. CASE k = 0
    <3>1. k + 1 = 1 /\ NBUF - k = NBUF
      BY <2>2, BcacheAssumption
    <3>. QED BY <1>3, <2>0, <2>1, <2>2, <3>1, Zenon
  <2>3. CASE k # 0
    <3>1. w[k] = NBUF + 1 - k /\ NBUF + 1 - k \in Bufs /\ NBUF + 1 - k # head
      BY <1>3, <2>3, BcacheAssumption DEF Bufs, head
    <3>2. NBUF - k # NBUF /\ NBUF - k + 1 = NBUF + 1 - k /\ NBUF + 1 - k - 1 = NBUF - k
      BY <2>3, BcacheAssumption
    <3>3. PICK x \in Bufs : x = NBUF + 1 - k
      BY <3>1, Zenon
    <3>4. PICK y \in Bufs : y = NBUF - k /\ y # NBUF
      BY <2>1, <3>2, Zenon
    <3>5. next[x] = x - 1 /\ prev[y] = y + 1
      BY <2>0, <3>4, Zenon
    <3>. QED BY <2>1, <3>1, <3>2, <3>3, <3>4, <3>5
  <2>. QED BY <2>2, <2>3, Zenon
<1>7. next[w[NBUF]] = head /\ prev[head] = w[NBUF]
  <2>1. w[NBUF] = 1 /\ 1 \in Bufs /\ NBUF # head /\ head + 1 = 1 /\ 1 - 1 = head /\ 1 # head
    BY <1>3, BcacheAssumption DEF Bufs, head
  <2>. QED BY <1>2, <2>1, Zenon
<1>8. IsRing(w, next, prev)
  BY <1>1, <1>3, <1>4, <1>5, <1>6, <1>7, Zenon DEF IsRing
<1>9. next \in [Nodes -> Nodes] /\ prev \in [Nodes -> Nodes]
  BY BcacheAssumption DEF Init, Nodes, Bufs, head
<1>. QED BY <1>1, <1>8, <1>9, Zenon DEF RingInv

\* What the moves of brelse() leave at each node, for a buffer that is not first.
LEMMA FrontLinks ==
  ASSUME NEW w, IsRing(w, next, prev), next \in [Nodes -> Nodes], prev \in [Nodes -> Nodes],
         NEW m \in 2 .. NBUF
  PROVE  LET i == w[m] IN
         /\ FrontNext(i) \in [Nodes -> Nodes] /\ FrontPrev(i) \in [Nodes -> Nodes]
         /\ FrontNext(i)[head] = i /\ FrontNext(i)[i] = w[1] /\ FrontNext(i)[w[m - 1]] = next[i]
         /\ \A x \in Nodes \ {head, i, w[m - 1]} : FrontNext(i)[x] = next[x]
         /\ FrontPrev(i)[i] = head /\ FrontPrev(i)[w[1]] = i /\ FrontPrev(i)[next[i]] = w[m - 1]
         /\ \A x \in Nodes \ {w[1], i, next[i]} : FrontPrev(i)[x] = prev[x]
<1> DEFINE i == w[m]
<1>1. /\ m \in 0 .. NBUF /\ m - 1 \in 0 .. NBUF - 1 /\ m - 1 + 1 = m
      /\ m # 0 /\ m - 1 # 0 /\ m - 1 # m /\ m - 1 \in 0 .. NBUF
      /\ 1 \in 0 .. NBUF /\ 0 \in 0 .. NBUF - 1 /\ 0 + 1 = 1 /\ 0 \in 0 .. NBUF
      /\ 1 # m /\ 1 # 0
  BY BcacheAssumption
<1>2. w \in [0 .. NBUF -> Nodes] /\ w[0] = head
  BY Zenon DEF IsRing
<1>3. i # head /\ w[m - 1] # head /\ w[m - 1] # i /\ w[1] # i /\ w[1] # head
  BY <1>1, <1>2 DEF IsRing
<1>4. prev[i] = w[m - 1] /\ next[head] = w[1]
  BY <1>1, <1>2, Zenon DEF IsRing
<1>5. next[i] # i /\ next[i] # w[1]
  <2>1. CASE m = NBUF
    BY <1>3, <2>1, Zenon DEF IsRing
  <2>2. CASE m # NBUF
    <3>1. m \in 0 .. NBUF - 1 /\ m + 1 \in 0 .. NBUF /\ m + 1 # m /\ m + 1 # 1
      BY <2>2, BcacheAssumption
    <3>. QED BY <1>1, <3>1 DEF IsRing
  <2>. QED BY <2>1, <2>2, Zenon
<1>6. i \in Nodes /\ w[m - 1] \in Nodes /\ w[1] \in Nodes /\ next[i] \in Nodes /\ head \in Nodes
  BY <1>1, <1>2, Consts, Zenon
<1>7. UnlinkNext(i) = [next EXCEPT ![w[m - 1]] = next[i]] /\ UnlinkNext(i)[head] = w[1]
  BY <1>3, <1>4, <1>6, Zenon DEF UnlinkNext
<1>8. UnlinkPrev(i) = [prev EXCEPT ![next[i]] = w[m - 1]]
  BY <1>4, Zenon DEF UnlinkPrev
<1>9. FrontNext(i) = [[next EXCEPT ![w[m - 1]] = next[i]] EXCEPT ![i] = w[1], ![head] = i]
  BY <1>7, Zenon DEF FrontNext
<1>10. FrontPrev(i) = [[prev EXCEPT ![next[i]] = w[m - 1]] EXCEPT ![i] = head, ![w[1]] = i]
  BY <1>7, <1>8, Zenon DEF FrontPrev
<1>11. /\ FrontNext(i) \in [Nodes -> Nodes]
       /\ FrontNext(i)[head] = i /\ FrontNext(i)[i] = w[1] /\ FrontNext(i)[w[m - 1]] = next[i]
       /\ \A x \in Nodes \ {head, i, w[m - 1]} : FrontNext(i)[x] = next[x]
  BY <1>3, <1>6, <1>9, Zenon
<1>12. /\ FrontPrev(i) \in [Nodes -> Nodes]
       /\ FrontPrev(i)[i] = head /\ FrontPrev(i)[w[1]] = i /\ FrontPrev(i)[next[i]] = w[m - 1]
       /\ \A x \in Nodes \ {w[1], i, next[i]} : FrontPrev(i)[x] = prev[x]
  BY <1>3, <1>5, <1>6, <1>10
<1>. QED BY <1>11, <1>12, Zenon

\* brelse() leaves one ring, with the buffer that it moves in front.
LEMMA FrontRing ==
  ASSUME NEW w, IsRing(w, next, prev), next \in [Nodes -> Nodes], prev \in [Nodes -> Nodes],
         NEW m \in 2 .. NBUF
  PROVE  LET v == [k \in 0 .. NBUF |-> IF k = 0 THEN head ELSE IF k = 1 THEN w[m]
                                       ELSE IF k <= m THEN w[k - 1] ELSE w[k]]
         IN IsRing(v, FrontNext(w[m]), FrontPrev(w[m]))
<1> DEFINE i == w[m]
           v == [k \in 0 .. NBUF |-> IF k = 0 THEN head ELSE IF k = 1 THEN w[m]
                                     ELSE IF k <= m THEN w[k - 1] ELSE w[k]]
           nx == FrontNext(i)
           pv == FrontPrev(i)
<1>1. w \in [0 .. NBUF -> Nodes] /\ w[0] = head /\ \A j, k \in 0 .. NBUF : w[j] = w[k] => j = k
  BY Zenon DEF IsRing
<1>2. /\ v[0] = head /\ v[1] = i
      /\ \A k \in 2 .. m : v[k] = w[k - 1]
      /\ \A k \in m + 1 .. NBUF : v[k] = w[k]
  BY BcacheAssumption
<1>3. v \in [0 .. NBUF -> Nodes]
  BY <1>1, BcacheAssumption, Consts
<1>4. ASSUME NEW j \in Bufs PROVE \E k \in 1 .. NBUF : v[k] = j
  <2>1. PICK k \in 1 .. NBUF : w[k] = j
    BY Zenon DEF IsRing
  <2>2. CASE k < m
    <3>1. k + 1 \in 2 .. m /\ k + 1 \in 1 .. NBUF /\ k + 1 - 1 = k
      BY <2>2, BcacheAssumption
    <3>. QED BY <1>2, <2>1, <3>1
  <2>3. CASE k = m
    <3>1. 1 \in 1 .. NBUF
      BY BcacheAssumption
    <3>. QED BY <1>2, <2>1, <2>3, <3>1, Zenon
  <2>4. CASE k > m
    <3>1. k \in m + 1 .. NBUF
      BY <2>4, BcacheAssumption
    <3>. QED BY <1>2, <2>1, <3>1, Zenon
  <2>5. k < m \/ k = m \/ k > m
    BY BcacheAssumption
  <2>. QED BY <2>2, <2>3, <2>4, <2>5, Zenon
<1>5. ASSUME NEW j \in 0 .. NBUF, NEW k \in 0 .. NBUF, v[j] = v[k] PROVE j = k
  <2> DEFINE at(x) == IF x = 0 THEN 0 ELSE IF x = 1 THEN m ELSE IF x <= m THEN x - 1 ELSE x
  <2>1. \A x \in 0 .. NBUF : v[x] = w[at(x)] /\ at(x) \in 0 .. NBUF
    BY <1>1, BcacheAssumption
  <2>2. at(j) = at(k)
    BY <1>1, <1>5, <2>1, Zenon
  <2>. QED BY <2>2, BcacheAssumption
<1>6. /\ nx[head] = i /\ nx[i] = w[1] /\ nx[w[m - 1]] = next[i]
      /\ \A x \in Nodes \ {head, i, w[m - 1]} : nx[x] = next[x]
      /\ pv[i] = head /\ pv[w[1]] = i /\ pv[next[i]] = w[m - 1]
      /\ \A x \in Nodes \ {w[1], i, next[i]} : pv[x] = prev[x]
  BY FrontLinks
<1>7. /\ \A k \in 0 .. NBUF - 1 : next[w[k]] = w[k + 1] /\ prev[w[k + 1]] = w[k]
      /\ next[w[NBUF]] = head /\ prev[head] = w[NBUF]
  BY Zenon DEF IsRing
<1> HIDE DEF v, nx, pv
<1>8. ASSUME NEW k \in 0 .. NBUF - 1 PROVE nx[v[k]] = v[k + 1] /\ pv[v[k + 1]] = v[k]
  <2>1. CASE k = 0
    BY <1>2, <1>6, <2>1
  <2>2. CASE k = 1
    <3>1. 2 \in 2 .. m /\ k + 1 = 2 /\ 2 - 1 = 1
      BY <2>2
    <3>. QED BY <1>2, <1>6, <2>2, <3>1, Zenon
  <2>3. CASE k \in 2 .. m - 1
    <3>1. /\ k \in 2 .. m /\ k + 1 \in 2 .. m /\ k + 1 - 1 = k
          /\ k - 1 \in 0 .. NBUF - 1 /\ k - 1 + 1 = k
      BY <2>3, BcacheAssumption
    <3>2. v[k] = w[k - 1] /\ v[k + 1] = w[k] /\ next[w[k - 1]] = w[k] /\ prev[w[k]] = w[k - 1]
      BY <1>2, <1>7, <3>1
    <3>3. w[k - 1] \in Nodes \ {head, i, w[m - 1]}
      <4>1. k - 1 \in 0 .. NBUF /\ k - 1 # 0 /\ k - 1 # m /\ k - 1 # m - 1 /\ m - 1 \in 0 .. NBUF
            /\ m \in 0 .. NBUF /\ 0 \in 0 .. NBUF
        BY <2>3, BcacheAssumption
      <4>. QED BY <1>1, <4>1, Zenon
    <3>4. w[k] \in Nodes \ {w[1], i, next[i]}
      <4>1. k \in 0 .. NBUF /\ k # 1 /\ k # m /\ m \in 0 .. NBUF /\ 1 \in 0 .. NBUF
        BY <2>3, BcacheAssumption
      <4>2. w[k] \in Nodes /\ w[k] # w[1] /\ w[k] # i
        BY <1>1, <4>1, Zenon
      <4>3. w[k] # next[i]
        <5>1. CASE m = NBUF
          BY <1>1, <1>7, <2>3, <4>1, <5>1, BcacheAssumption
        <5>2. CASE m # NBUF
          <6>1. m \in 0 .. NBUF - 1 /\ m + 1 \in 0 .. NBUF /\ k # m + 1
            BY <2>3, <5>2, BcacheAssumption
          <6>. QED BY <1>1, <1>7, <4>1, <6>1
        <5>. QED BY <5>1, <5>2, Zenon
      <4>. QED BY <4>2, <4>3, Zenon
    <3>. QED BY <1>6, <3>2, <3>3, <3>4
  <2>4. CASE k = m
    <3>1. m \in 2 .. m /\ m + 1 \in m + 1 .. NBUF /\ m \in 0 .. NBUF - 1
      BY <2>4, BcacheAssumption
    <3>2. v[k] = w[m - 1] /\ v[k + 1] = next[i]
      BY <1>2, <1>7, <2>4, <3>1, Zenon
    <3>. QED BY <1>6, <3>2, Zenon
  <2>5. CASE k \in m + 1 .. NBUF - 1
    <3>1. k \in m + 1 .. NBUF /\ k + 1 \in m + 1 .. NBUF /\ k \in 0 .. NBUF - 1
      BY <2>5, BcacheAssumption
    <3>2. v[k] = w[k] /\ v[k + 1] = w[k + 1] /\ next[w[k]] = w[k + 1] /\ prev[w[k + 1]] = w[k]
      BY <1>2, <1>7, <3>1, Zenon
    <3>3. w[k] \in Nodes \ {head, i, w[m - 1]}
      <4>1. k \in 0 .. NBUF /\ k # 0 /\ k # m /\ k # m - 1 /\ m - 1 \in 0 .. NBUF
            /\ m \in 0 .. NBUF /\ 0 \in 0 .. NBUF
        BY <2>5, BcacheAssumption
      <4>. QED BY <1>1, <4>1, Zenon
    <3>4. w[k + 1] \in Nodes \ {w[1], i, next[i]}
      <4>1. /\ k + 1 \in 0 .. NBUF /\ k + 1 # 1 /\ k + 1 # m /\ k + 1 # m + 1
            /\ m \in 0 .. NBUF /\ 1 \in 0 .. NBUF /\ m + 1 \in 0 .. NBUF /\ m \in 0 .. NBUF - 1
        BY <2>5, BcacheAssumption
      <4>. QED BY <1>1, <1>7, <4>1
    <3>. QED BY <1>6, <3>2, <3>3, <3>4
  <2>. QED BY <2>1, <2>2, <2>3, <2>4, <2>5, BcacheAssumption
<1>9. nx[v[NBUF]] = head /\ pv[head] = v[NBUF]
  <2>1. CASE m = NBUF
    <3>1. NBUF \in 2 .. m
      BY <2>1, Zenon
    <3>2. v[NBUF] = w[m - 1] /\ next[i] = head
      BY <1>2, <1>7, <2>1, <3>1, Zenon
    <3>. QED BY <1>6, <3>2, Zenon
  <2>2. CASE m # NBUF
    <3>1. /\ NBUF \in m + 1 .. NBUF /\ NBUF \in 0 .. NBUF /\ 0 \in 0 .. NBUF /\ NBUF # 0
          /\ NBUF # m /\ NBUF # m - 1 /\ m - 1 \in 0 .. NBUF /\ m \in 0 .. NBUF
          /\ m \in 0 .. NBUF - 1 /\ m + 1 \in 0 .. NBUF /\ m + 1 # 0 /\ 1 \in 0 .. NBUF
          /\ m # 0
      BY <2>2, BcacheAssumption
    <3>2. v[NBUF] = w[NBUF]
      BY <1>2, <3>1, Zenon
    <3>3. w[NBUF] \in Nodes \ {head, i, w[m - 1]}
      BY <1>1, <3>1, Zenon
    <3>4. head \in Nodes \ {w[1], i, next[i]}
      BY <1>1, <1>7, <3>1, Consts
    <3>. QED BY <1>6, <1>7, <3>2, <3>3, <3>4, Zenon
  <2>. QED BY <2>1, <2>2, Zenon
<1>10. IsRing(v, nx, pv)
  BY <1>2, <1>3, <1>4, <1>5, <1>8, <1>9, Zenon DEF IsRing
<1>. QED BY <1>10, Zenon DEF v, nx, pv

\* The list stays a ring when a buffer is moved to the front.
LEMMA FrontKeepsRing ==
  ASSUME RingInv, NEW i \in Bufs, next' = FrontNext(i), prev' = FrontPrev(i)
  PROVE  RingInv'
<1>1. PICK w \in [0 .. NBUF -> Nodes] : IsRing(w, next, prev)
  BY Zenon DEF RingInv
<1>2. next \in [Nodes -> Nodes] /\ prev \in [Nodes -> Nodes]
  BY Zenon DEF RingInv
<1>3. PICK m \in 1 .. NBUF : w[m] = i
  BY <1>1, Zenon DEF IsRing
<1>4. CASE m = 1
  <2>1. /\ 0 \in 0 .. NBUF - 1 /\ 0 + 1 = 1 /\ 0 \in 0 .. NBUF /\ 1 \in 0 .. NBUF /\ 0 # 1
    BY BcacheAssumption
  <2>2. next[head] = i /\ prev[i] = head /\ i # head /\ i \in Nodes /\ head \in Nodes
    BY <1>1, <1>3, <1>4, <2>1, Consts DEF IsRing
  <2>3. next[i] # i /\ prev[next[i]] = i /\ next[i] \in Nodes
    <3>1. CASE NBUF = 1
      BY <1>1, <1>2, <1>3, <1>4, <2>2, <3>1, Zenon DEF IsRing
    <3>2. CASE NBUF # 1
      <4>1. 1 \in 0 .. NBUF - 1 /\ 1 + 1 \in 0 .. NBUF /\ 1 + 1 # 1
        BY <3>2, BcacheAssumption
      <4>. QED BY <1>1, <1>2, <1>3, <1>4, <2>1, <2>2, <4>1 DEF IsRing
    <3>. QED BY <3>1, <3>2, Zenon
  <2>4. UnlinkNext(i) = [next EXCEPT ![head] = next[i]] /\ UnlinkNext(i)[head] = next[i]
    BY <1>2, <2>2, Zenon DEF UnlinkNext
  <2>5. UnlinkPrev(i) = [prev EXCEPT ![next[i]] = head]
    BY <2>2, Zenon DEF UnlinkPrev
  <2>6. FrontNext(i) = next
    BY <1>2, <2>2, <2>4, Zenon DEF FrontNext
  <2>7. FrontPrev(i) = prev
    BY <1>2, <2>2, <2>3, <2>4, <2>5 DEF FrontPrev
  <2>. QED BY <1>1, <1>2, <2>6, <2>7, Zenon DEF RingInv
<1>5. CASE m # 1
  <2>1. m \in 2 .. NBUF
    BY <1>5
  <2> DEFINE v == [k \in 0 .. NBUF |-> IF k = 0 THEN head ELSE IF k = 1 THEN w[m]
                                       ELSE IF k <= m THEN w[k - 1] ELSE w[k]]
  <2>2. IsRing(v, FrontNext(i), FrontPrev(i))
    BY <1>1, <1>2, <1>3, <2>1, FrontRing, Zenon
  <2>3. v \in [0 .. NBUF -> Nodes]
    BY <2>2, Zenon DEF IsRing
  <2>4. FrontNext(i) \in [Nodes -> Nodes] /\ FrontPrev(i) \in [Nodes -> Nodes]
    BY <1>1, <1>2, <1>3, <2>1, FrontLinks, Zenon
  <2> HIDE DEF v
  <2>. QED BY <2>2, <2>3, <2>4, Zenon DEF RingInv
<1>. QED BY <1>4, <1>5, Zenon

\* brelse() puts the buffer in front, or leaves the list.
LEMMA BrelseRing ==
  ASSUME CoreInv, RingInv, NEW u \in Uses, brelse(u) PROVE RingInv'
<1>1. b[u] \in Bufs
  BY InCall, Zenon DEF brelse
<1>2. CASE UNCHANGED listVars
  BY <1>2, RingKeeps, Zenon
<1>3. CASE next' = FrontNext(b[u]) /\ prev' = FrontPrev(b[u])
  BY <1>1, <1>3, FrontKeepsRing, Zenon
<1>. QED BY <1>2, <1>3, Zenon DEF brelse

-----------------------------------------------------------------------------
(* The walks of bget() *)

\* A set of numbers that is not empty has a least element.
LEMMA Least ==
  ASSUME NEW T \in SUBSET Nat, T # {}
  PROVE  \E m \in T : \A k \in T : m <= k
<1>1. \E m \in T : \A k \in T : <<k, m>> \notin OpToRel(<, Nat)
  BY WFMin, NatLessThanWellFounded, Zenon
<1>2. \A k, m \in Nat : <<k, m>> \notin OpToRel(<, Nat) => m <= k
  BY DEF OpToRel
<1>. QED BY <1>1, <1>2, Zenon

\* Such a function as the walk along link is defined by exists.
LEMMA WalkExists ==
  ASSUME NEW link \in [Nodes -> Nodes], NEW n \in Nat
  PROVE  \E f \in [0 .. n -> Nodes] : f[0] = head /\ \A k \in 1 .. n : f[k] = link[f[k - 1]]
<1> DEFINE G(m) == \E f \in [0 .. m -> Nodes] :
                     f[0] = head /\ \A k \in 1 .. m : f[k] = link[f[k - 1]]
           T == {m \in Nat : ~G(m)}
<1>1. SUFFICES ASSUME T # {} PROVE FALSE
  BY Zenon
<1>2. PICK m \in T : \A k \in T : m <= k
  BY <1>1, Least, Zenon
<1>3. G(0)
  <2>. DEFINE f == [x \in 0 .. 0 |-> head]
  <2>1. f \in [0 .. 0 -> Nodes] /\ f[0] = head /\ \A k \in 1 .. 0 : f[k] = link[f[k - 1]]
    BY Consts
  <2>. QED BY <2>1, Zenon
<1>4. m \in Nat \ {0} /\ m - 1 \in Nat /\ G(m - 1)
  <2>1. m \in Nat /\ m # 0
    BY <1>3, Zenon
  <2>2. m - 1 \in Nat /\ ~(m <= m - 1)
    BY <2>1
  <2>3. m - 1 \notin T
    BY <1>2, <2>2, Zenon
  <2>. QED BY <2>1, <2>2, <2>3, Zenon
<1>5. PICK f \in [0 .. m - 1 -> Nodes] :
        f[0] = head /\ \A k \in 1 .. m - 1 : f[k] = link[f[k - 1]]
  BY <1>4, Zenon
<1>6. G(m)
  <2> DEFINE g == [x \in 0 .. m |-> IF x = m THEN link[f[m - 1]] ELSE f[x]]
  <2>1. g \in [0 .. m -> Nodes]
    BY <1>4, <1>5
  <2>2. g[0] = head
    BY <1>4, <1>5
  <2>3. ASSUME NEW k \in 1 .. m PROVE g[k] = link[g[k - 1]]
    BY <1>4, <1>5
  <2>. QED BY <2>1, <2>2, <2>3, Zenon
<1>. QED BY <1>6, Zenon

\* The walk starts at the head and follows link.
LEMMA WalkStep ==
  ASSUME NEW link \in [Nodes -> Nodes]
  PROVE  /\ Walk(link)[0] = head
         /\ \A k \in 1 .. NBUF + 1 : Walk(link)[k] = link[Walk(link)[k - 1]]
<1> DEFINE Eq(f) == f = [n \in 0 .. NBUF + 1 |-> IF n = 0 THEN head ELSE link[f[n - 1]]]
<1>1. \E f : Eq(f)
  <2>0. NBUF + 1 \in Nat
    BY BcacheAssumption
  <2>1. PICK f \in [0 .. NBUF + 1 -> Nodes] :
          f[0] = head /\ \A k \in 1 .. NBUF + 1 : f[k] = link[f[k - 1]]
    BY <2>0, WalkExists, Zenon
  <2>2. \A n \in 0 .. NBUF + 1 : f[n] = IF n = 0 THEN head ELSE link[f[n - 1]]
    BY <2>1, BcacheAssumption
  <2>3. Eq(f)
    BY <2>2, Zenon
  <2>. QED BY <2>3, Zenon
<1>2. Eq(Walk(link))
  BY <1>1, Zenon DEF Walk
<1>3. Walk(link) = [n \in 0 .. NBUF + 1 |-> IF n = 0 THEN head ELSE link[Walk(link)[n - 1]]]
  BY <1>2, Zenon
<1>. QED BY <1>3, BcacheAssumption

\* Along next the walk goes through the ring.
LEMMA WalkNext ==
  ASSUME NEW nx \in [Nodes -> Nodes], NEW pv, NEW w, IsRing(w, nx, pv)
  PROVE  \A n \in 0 .. NBUF : Walk(nx)[n] = w[n]
<1> DEFINE T == {n \in 0 .. NBUF : Walk(nx)[n] # w[n]}
<1>1. SUFFICES ASSUME T # {} PROVE FALSE
  BY Zenon
<1>2. T \in SUBSET Nat
  BY BcacheAssumption
<1>3. PICK m \in T : \A k \in T : m <= k
  BY <1>1, <1>2, Least, Zenon
<1>4. Walk(nx)[0] = head /\ \A k \in 1 .. NBUF + 1 : Walk(nx)[k] = nx[Walk(nx)[k - 1]]
  BY WalkStep, Zenon
<1>5. w[0] = head /\ \A k \in 0 .. NBUF - 1 : nx[w[k]] = w[k + 1]
  BY Zenon DEF IsRing
<1>6. m \in 1 .. NBUF /\ m - 1 \in 0 .. NBUF - 1 /\ m - 1 \in 0 .. NBUF /\ m \in 1 .. NBUF + 1
      /\ ~(m <= m - 1) /\ m - 1 + 1 = m
  <2>1. m \in 0 .. NBUF /\ m # 0
    BY <1>4, <1>5, Zenon
  <2>. QED BY <2>1, BcacheAssumption
<1>7. Walk(nx)[m - 1] = w[m - 1]
  BY <1>3, <1>6, Zenon
<1>8. Walk(nx)[m] = nx[w[m - 1]] /\ nx[w[m - 1]] = w[m]
  BY <1>4, <1>5, <1>6, <1>7, Zenon
<1>. QED BY <1>8, Zenon

\* Along prev it goes backwards.
LEMMA WalkPrev ==
  ASSUME NEW pv \in [Nodes -> Nodes], NEW nx, NEW w, IsRing(w, nx, pv)
  PROVE  \A n \in 1 .. NBUF : Walk(pv)[n] = w[NBUF + 1 - n]
<1> DEFINE T == {n \in 1 .. NBUF : Walk(pv)[n] # w[NBUF + 1 - n]}
<1>1. SUFFICES ASSUME T # {} PROVE FALSE
  BY Zenon
<1>2. T \in SUBSET Nat
  BY BcacheAssumption
<1>3. PICK m \in T : \A k \in T : m <= k
  BY <1>1, <1>2, Least, Zenon
<1>4. Walk(pv)[0] = head /\ \A k \in 1 .. NBUF + 1 : Walk(pv)[k] = pv[Walk(pv)[k - 1]]
  BY WalkStep, Zenon
<1>5. pv[head] = w[NBUF] /\ \A k \in 0 .. NBUF - 1 : pv[w[k + 1]] = w[k]
  BY Zenon DEF IsRing
<1>6. m \in 1 .. NBUF /\ m \in 1 .. NBUF + 1 /\ ~(m <= m - 1)
  BY BcacheAssumption
<1>7. m # 1
  <2>1. SUFFICES ASSUME m = 1 PROVE FALSE
    BY Zenon
  <2>2. m - 1 = 0 /\ NBUF + 1 - m = NBUF
    BY <2>1, BcacheAssumption
  <2>. QED BY <1>4, <1>5, <1>6, <2>2, Zenon
<1>8. m - 1 \in 1 .. NBUF /\ NBUF + 1 - m \in 0 .. NBUF - 1
      /\ NBUF + 1 - (m - 1) = NBUF + 1 - m + 1
  BY <1>6, <1>7, BcacheAssumption
<1>9. Walk(pv)[m - 1] = w[NBUF + 1 - m + 1]
  BY <1>3, <1>6, <1>8, Zenon
<1>10. Walk(pv)[m] = w[NBUF + 1 - m]
  BY <1>4, <1>5, <1>6, <1>8, <1>9, Zenon
<1>. QED BY <1>10, Zenon

\* Both walks meet every buffer before they are back at the head.
LEMMA MetAll ==
  ASSUME RingInv PROVE Met(next) = Bufs /\ Met(prev) = Bufs
<1>1. PICK w : IsRing(w, next, prev)
  BY Zenon DEF RingInv
<1>2. /\ \A n \in 1 .. NBUF : Walk(next)[n] = w[n]
      /\ \A n \in 1 .. NBUF : Walk(prev)[n] = w[NBUF + 1 - n]
  BY <1>1, WalkNext, WalkPrev, BcacheAssumption DEF RingInv
<1>3. \A n \in 1 .. NBUF : NBUF + 1 - n \in 1 .. NBUF /\ NBUF + 1 - (NBUF + 1 - n) = n
  BY BcacheAssumption
<1>4. \A n \in 1 .. NBUF : w[n] \in Bufs
  BY <1>1, BcacheAssumption DEF IsRing, Nodes
<1>5. \A i \in Bufs : \E n \in 1 .. NBUF : w[n] = i
  BY <1>1, Zenon DEF IsRing
<1>6. ASSUME NEW at, \A n \in 1 .. NBUF : at[n] \in Bufs,
             \A i \in Bufs : \E n \in 1 .. NBUF : at[n] = i
      PROVE  {at[n] : n \in {k \in 1 .. NBUF : \A j \in 1 .. k : at[j] # head}} = Bufs
  <2>1. ASSUME NEW k \in 1 .. NBUF, NEW j \in 1 .. k PROVE at[j] # head
    <3>1. j \in 1 .. NBUF
      BY BcacheAssumption
    <3>. QED BY <1>6, <3>1, Consts, Zenon
  <2>. QED BY <1>6, <2>1, Zenon
<1>7. Met(next) = Bufs
  <2>1. /\ \A n \in 1 .. NBUF : Walk(next)[n] \in Bufs
        /\ \A i \in Bufs : \E n \in 1 .. NBUF : Walk(next)[n] = i
    BY <1>2, <1>4, <1>5, Zenon
  <2>. QED BY <1>6, <2>1, Zenon DEF Met
<1>8. Met(prev) = Bufs
  <2>1. \A n \in 1 .. NBUF : Walk(prev)[n] \in Bufs
    BY <1>2, <1>3, <1>4, Zenon
  <2>2. ASSUME NEW i \in Bufs PROVE \E n \in 1 .. NBUF : Walk(prev)[n] = i
    <3>1. PICK k \in 1 .. NBUF : w[k] = i
      BY <1>5, Zenon
    <3>2. PICK n \in 1 .. NBUF : n = NBUF + 1 - k
      BY <1>3, Zenon
    <3>3. NBUF + 1 - n = k
      BY <3>2, BcacheAssumption
    <3>. QED BY <1>2, <3>1, <3>3, Zenon
  <2>. QED BY <1>6, <2>1, <2>2, Zenon DEF Met
<1>. QED BY <1>7, <1>8, Zenon

\* bget() finds a buffer that nobody refers to when there is one.
LEMMA VictimFree ==
  ASSUME RingInv, \E i \in Bufs : refcnt[i] = 0
  PROVE  Victim \in Bufs /\ refcnt[Victim] = 0
<1>1. PICK w : IsRing(w, next, prev)
  BY Zenon DEF RingInv
<1> DEFINE at == Walk(prev)
           Free(k) == refcnt[at[k]] = 0 /\ \A j \in 1 .. k - 1 : refcnt[at[j]] # 0
           T == {k \in 1 .. NBUF : refcnt[at[k]] = 0}
<1>2. \A n \in 1 .. NBUF : at[n] = w[NBUF + 1 - n]
  BY <1>1, WalkPrev DEF RingInv
<1>3. \A n \in 1 .. NBUF : at[n] \in Bufs
  <2>1. SUFFICES ASSUME NEW n \in 1 .. NBUF PROVE w[NBUF + 1 - n] \in Bufs
    BY <1>2, Zenon
  <2>2. NBUF + 1 - n \in 0 .. NBUF /\ NBUF + 1 - n # 0 /\ 0 \in 0 .. NBUF
    BY BcacheAssumption
  <2>3. w[NBUF + 1 - n] \in Nodes /\ w[NBUF + 1 - n] # head
    BY <1>1, <2>2 DEF IsRing
  <2>. QED BY <2>3, Zenon DEF Nodes
<1>4. T # {}
  <2>1. PICK i \in Bufs : refcnt[i] = 0
    BY Zenon
  <2>2. PICK k \in 1 .. NBUF : w[k] = i
    BY <1>1, Zenon DEF IsRing
  <2>3. NBUF + 1 - k \in 1 .. NBUF /\ NBUF + 1 - (NBUF + 1 - k) = k
    BY BcacheAssumption
  <2>4. at[NBUF + 1 - k] = i
    BY <1>2, <2>2, <2>3, Zenon
  <2>. QED BY <2>1, <2>3, <2>4, Zenon
<1>5. \E k \in 1 .. NBUF : Free(k)
  <2>1. T \in SUBSET Nat
    BY BcacheAssumption
  <2>2. PICK m \in T : \A k \in T : m <= k
    BY <1>4, <2>1, Least, Zenon
  <2>3. \A j \in 1 .. m - 1 : j \in 1 .. NBUF /\ ~(m <= j)
    BY <2>2, BcacheAssumption
  <2>. QED BY <2>2, <2>3, Zenon
<1>6. PICK k \in 1 .. NBUF : Victim = at[k] /\ Free(k)
  <2> DEFINE n == CHOOSE k \in 1 .. NBUF : Free(k)
  <2>1. n \in 1 .. NBUF /\ Free(n)
    BY <1>5, Zenon
  <2>2. Victim = at[n]
    BY Zenon DEF Victim
  <2>. QED BY <2>1, <2>2, Zenon
<1>. QED BY <1>3, <1>6, Zenon

-----------------------------------------------------------------------------
(* Reference counts *)

\* The processes of a call are counted, and finite in number.
LEMMA UsersFinite ==
  ASSUME NEW i PROVE IsFiniteSet(Users(i)) /\ Cardinality(Users(i)) \in Nat
<1>1. Users(i) \in SUBSET Uses
  BY Zenon DEF Users
<1>2. IsFiniteSet(Users(i))
  BY <1>1, Consts, FS_Subset, Zenon
<1>. QED BY <1>2, FS_CardinalityType, Zenon

\* A buffer that a process or a pin refers to has a count above 0.
LEMMA Counted ==
  ASSUME CountInv, NEW i \in Bufs
  PROVE  /\ refcnt[i] = 0 => Users(i) = {} /\ blockno[i] \notin pinned
         /\ Users(i) # {} \/ blockno[i] \in pinned => refcnt[i] > 0
         /\ refcnt[i] - 1 \in Nat \/ refcnt[i] = 0
<1>1. Cardinality(Users(i)) \in Nat /\ (Cardinality(Users(i)) = 0 <=> Users(i) = {})
  BY UsersFinite, FS_EmptySet, Zenon
<1>2. refcnt[i] = Cardinality(Users(i)) + Pins(i) /\ refcnt[i] \in Nat
  BY Zenon DEF CountInv
<1>3. Pins(i) \in {0, 1} /\ (Pins(i) = 1 <=> blockno[i] \in pinned)
  BY DEF Pins
<1>. QED BY <1>1, <1>2, <1>3

\* The buffer that bget() takes is nobody's.
LEMMA VictimUnused ==
  ASSUME RingInv, CountInv, Recyclable # {}
  PROVE  Unused(Victim) /\ refcnt[Victim] = 0
<1>1. Victim \in Bufs /\ refcnt[Victim] = 0
  <2>1. \E i \in Bufs : refcnt[i] = 0
    BY MetAll, Zenon DEF Recyclable
  <2>. QED BY <2>1, VictimFree, Zenon
<1>2. Users(Victim) = {} /\ blockno[Victim] \notin pinned
  BY <1>1, Counted, Zenon
<1>. QED BY <1>1, <1>2, Zenon DEF Users, Unused

\* A process more, or less, that uses buffer i.
LEMMA UsersMore ==
  ASSUME NEW u \in Uses, NEW i \in Bufs, b \in [Uses -> Nodes], b[u] = head,
         b' = [b EXCEPT ![u] = i]
  PROVE  /\ Cardinality((Users(i))') = Cardinality(Users(i)) + 1
         /\ \A j \in Bufs \ {i} : (Users(j))' = Users(j)
<1>1. \A q \in Uses \ {u} : b'[q] = b[q]
  BY Zenon
<1>2. b'[u] = i /\ \A j \in Bufs : j # head
  BY Consts, Zenon
<1>3. (Users(i))' = Users(i) \cup {u} /\ u \notin Users(i)
  BY <1>1, <1>2, Zenon DEF Users
<1>4. \A j \in Bufs \ {i} : (Users(j))' = Users(j)
  BY <1>1, <1>2, Zenon DEF Users
<1>5. IsFiniteSet(Users(i))
  BY UsersFinite, Zenon
<1>6. Cardinality(Users(i) \cup {u}) = Cardinality(Users(i)) + 1
  BY <1>3, <1>5, FS_AddElement, Zenon
<1>. QED BY <1>3, <1>4, <1>6, Zenon

\* The same when it leaves.
LEMMA UsersLess ==
  ASSUME NEW u \in Uses, NEW i \in Bufs, b \in [Uses -> Nodes], b[u] = i,
         b' = [b EXCEPT ![u] = head]
  PROVE  /\ Cardinality((Users(i))') = Cardinality(Users(i)) - 1
         /\ \A j \in Bufs \ {i} : (Users(j))' = Users(j)
<1>1. \A q \in Uses \ {u} : b'[q] = b[q]
  BY Zenon
<1>2. b'[u] = head /\ \A j \in Bufs : j # head
  BY Consts, Zenon
<1>3. (Users(i))' = Users(i) \ {u} /\ u \in Users(i)
  BY <1>1, <1>2, Zenon DEF Users
<1>4. \A j \in Bufs \ {i} : (Users(j))' = Users(j)
  BY <1>1, <1>2, Zenon DEF Users
<1>5. IsFiniteSet(Users(i))
  BY UsersFinite, Zenon
<1>6. Cardinality(Users(i) \ {u}) = Cardinality(Users(i)) - 1
  BY <1>3, <1>5, FS_RemoveElement, Zenon
<1>. QED BY <1>3, <1>4, <1>6, Zenon

\* A step that changes nothing of what is counted.
LEMMA CountKeeps ==
  ASSUME CountInv, UNCHANGED <<refcnt, b, blockno, pinned>> PROVE CountInv'
  BY Zenon DEF CountInv, Users, Pins

\* Nothing is counted at first.
LEMMA InitCount == ASSUME Init PROVE CountInv
<1>1. \A i \in Bufs : Users(i) = {} /\ Pins(i) = 0 /\ refcnt[i] = 0
  BY Consts, Zenon DEF Init, Users, Pins
<1>2. Cardinality({}) = 0
  BY FS_EmptySet, Zenon
<1>3. refcnt \in [Bufs -> Nat]
  BY Zenon DEF Init
<1>4. ASSUME NEW i \in Bufs PROVE refcnt[i] = Cardinality(Users(i)) + Pins(i)
  <2>1. Cardinality(Users(i)) = 0 /\ Pins(i) = 0 /\ refcnt[i] = 0
    BY <1>1, <1>2, Zenon
  <2>. QED BY <2>1
<1>. QED BY <1>3, <1>4, Zenon DEF CountInv

\* A pin is one reference more to the only buffer of the block.
LEMMA BpinCount ==
  ASSUME CoreInv, CountInv, NEW u \in Uses, bpin(u) PROVE CountInv'
<1>1. Holding(u) /\ UNCHANGED <<blockno, b>>
  BY Zenon DEF bpin, Holding
<1>2. pc[u] # "idle" /\ b[u] \in Bufs /\ blockno[b[u]] = want[u]
  BY <1>1, Held, InCall, Zenon
<1>3. CASE want[u] \in pinned /\ UNCHANGED <<refcnt, pinned>>
  BY <1>1, <1>3, CountKeeps, Zenon
<1>4. CASE /\ want[u] \notin pinned
           /\ refcnt' = [refcnt EXCEPT ![b[u]] = @ + 1] /\ pinned' = pinned \cup {want[u]}
  <2>1. PICK j \in Bufs : j = b[u]
    BY <1>2, Zenon
  <2>2. refcnt \in [Bufs -> Nat] /\ \A i \in Bufs : refcnt[i] = Cardinality(Users(i)) + Pins(i)
    BY Zenon DEF CountInv
  <2>3. /\ refcnt'[j] = refcnt[j] + 1 /\ \A i \in Bufs \ {j} : refcnt'[i] = refcnt[i]
        /\ refcnt' \in [Bufs -> Nat]
    BY <1>4, <2>1, <2>2
  <2>4. \A i \in Bufs : (Users(i))' = Users(i) /\ Cardinality(Users(i)) \in Nat
    BY <1>1, UsersFinite, Zenon DEF Users
  <2>5. \A i \in Bufs \ {j} : blockno[i] # want[u]
    BY <1>2, <2>1, SameBuf, Zenon
  <2>6. Pins(j) = 0 /\ (Pins(j))' = 1 /\ \A i \in Bufs \ {j} : (Pins(i))' = Pins(i)
    BY <1>1, <1>2, <1>4, <2>1, <2>5, Zenon DEF Pins
  <2>7. ASSUME NEW i \in Bufs PROVE refcnt'[i] = Cardinality((Users(i))') + (Pins(i))'
    <3>1. CASE i = j
      BY <2>2, <2>3, <2>4, <2>6, <3>1
    <3>2. CASE i # j
      BY <2>2, <2>3, <2>4, <2>6, <3>2, Zenon
    <3>. QED BY <3>1, <3>2, Zenon
  <2>. QED BY <2>3, <2>7, Zenon DEF CountInv
<1>. QED BY <1>3, <1>4, Zenon DEF bpin

\* An unpin is one reference less.
LEMMA BunpinCount ==
  ASSUME CoreInv, CountInv, NEW u \in Uses, bunpin(u) PROVE CountInv'
<1>1. /\ Holding(u) /\ want[u] \in pinned /\ UNCHANGED <<blockno, b>>
      /\ refcnt' = [refcnt EXCEPT ![b[u]] = @ - 1] /\ pinned' = pinned \ {want[u]}
  BY Zenon DEF bunpin, procVars, Holding
<1>2. pc[u] # "idle" /\ b[u] \in Bufs /\ blockno[b[u]] = want[u]
  BY <1>1, Held, InCall, Zenon
<1>3. PICK j \in Bufs : j = b[u]
  BY <1>2, Zenon
<1>4. refcnt \in [Bufs -> Nat] /\ \A i \in Bufs : refcnt[i] = Cardinality(Users(i)) + Pins(i)
  BY Zenon DEF CountInv
<1>5. refcnt[j] - 1 \in Nat
  BY <1>1, <1>2, <1>3, Counted, Zenon
<1>6. /\ refcnt'[j] = refcnt[j] - 1 /\ \A i \in Bufs \ {j} : refcnt'[i] = refcnt[i]
      /\ refcnt' \in [Bufs -> Nat]
  BY <1>1, <1>3, <1>4, <1>5, Zenon
<1>7. \A i \in Bufs : (Users(i))' = Users(i) /\ Cardinality(Users(i)) \in Nat
  BY <1>1, UsersFinite, Zenon DEF Users
<1>8. \A i \in Bufs \ {j} : blockno[i] # want[u]
  BY <1>2, <1>3, SameBuf, Zenon
<1>9. Pins(j) = 1 /\ (Pins(j))' = 0 /\ \A i \in Bufs \ {j} : (Pins(i))' = Pins(i)
  BY <1>1, <1>2, <1>3, <1>8, Zenon DEF Pins
<1>10. ASSUME NEW i \in Bufs PROVE refcnt'[i] = Cardinality((Users(i))') + (Pins(i))'
  <2>1. CASE i = j
    BY <1>4, <1>6, <1>7, <1>9, <2>1
  <2>2. CASE i # j
    BY <1>4, <1>6, <1>7, <1>9, <2>2, Zenon
  <2>. QED BY <2>1, <2>2, Zenon
<1>. QED BY <1>6, <1>10, Zenon DEF CountInv

\* A process that leaves is one reference less.
LEMMA BrelseCount ==
  ASSUME CoreInv, CountInv, NEW u \in Uses, brelse(u) PROVE CountInv'
<1>1. /\ pc[u] = "unref" /\ refcnt' = [refcnt EXCEPT ![b[u]] = @ - 1]
      /\ b' = [b EXCEPT ![u] = head] /\ UNCHANGED <<blockno, pinned>>
  BY Zenon DEF brelse
<1>2. PICK j \in Bufs : j = b[u]
  BY <1>1, InCall, Zenon
<1>3. refcnt \in [Bufs -> Nat] /\ \A i \in Bufs : refcnt[i] = Cardinality(Users(i)) + Pins(i)
  BY Zenon DEF CountInv
<1>4. refcnt[j] - 1 \in Nat
  <2>1. Users(j) # {}
    BY <1>2, Zenon DEF Users
  <2>. QED BY <2>1, Counted, Zenon
<1>5. /\ refcnt'[j] = refcnt[j] - 1 /\ \A i \in Bufs \ {j} : refcnt'[i] = refcnt[i]
      /\ refcnt' \in [Bufs -> Nat]
  BY <1>1, <1>2, <1>3, <1>4, Zenon
<1>6. \A i \in Bufs : (Pins(i))' = Pins(i) /\ Pins(i) \in Nat
  BY <1>1, Zenon DEF Pins
<1>7. /\ Cardinality((Users(j))') = Cardinality(Users(j)) - 1
      /\ \A i \in Bufs \ {j} : (Users(i))' = Users(i)
  BY <1>1, <1>2, UsersLess, Zenon DEF CoreInv, TypeInv
<1>8. Cardinality(Users(j)) \in Nat
  BY UsersFinite, Zenon
<1>9. ASSUME NEW i \in Bufs PROVE refcnt'[i] = Cardinality((Users(i))') + (Pins(i))'
  <2>1. CASE i = j
    BY <1>3, <1>5, <1>6, <1>7, <1>8, <2>1
  <2>2. CASE i # j
    BY <1>3, <1>5, <1>6, <1>7, <2>2, Zenon
  <2>. QED BY <2>1, <2>2, Zenon
<1>. QED BY <1>1, <1>5, <1>9, Zenon DEF CountInv

\* A hit is one reference more.
LEMMA BgetHitCount ==
  ASSUME CoreInv, CountInv, NEW u \in Uses, bget_hit(u) PROVE CountInv'
<1>1. PICK j \in Bufs : refcnt' = [refcnt EXCEPT ![j] = @ + 1] /\ b' = [b EXCEPT ![u] = j]
  BY Zenon DEF bget_hit
<1>2. b[u] = head /\ UNCHANGED <<blockno, pinned>>
  BY Zenon DEF bget_hit, Asks, CoreInv, UseInv
<1>3. refcnt \in [Bufs -> Nat] /\ \A i \in Bufs : refcnt[i] = Cardinality(Users(i)) + Pins(i)
  BY Zenon DEF CountInv
<1>4. /\ refcnt'[j] = refcnt[j] + 1 /\ \A i \in Bufs \ {j} : refcnt'[i] = refcnt[i]
      /\ refcnt' \in [Bufs -> Nat]
  BY <1>1, <1>3
<1>5. \A i \in Bufs : (Pins(i))' = Pins(i) /\ Pins(i) \in Nat
  BY <1>2, Zenon DEF Pins
<1>6. /\ Cardinality((Users(j))') = Cardinality(Users(j)) + 1
      /\ \A i \in Bufs \ {j} : (Users(i))' = Users(i)
  BY <1>1, <1>2, UsersMore, Zenon DEF CoreInv, TypeInv
<1>7. Cardinality(Users(j)) \in Nat
  BY UsersFinite, Zenon
<1>8. ASSUME NEW i \in Bufs PROVE refcnt'[i] = Cardinality((Users(i))') + (Pins(i))'
  <2>1. CASE i = j
    BY <1>3, <1>4, <1>5, <1>6, <1>7, <2>1
  <2>2. CASE i # j
    BY <1>3, <1>4, <1>5, <1>6, <2>2, Zenon
  <2>. QED BY <2>1, <2>2, Zenon
<1>. QED BY <1>2, <1>4, <1>8, Zenon DEF CountInv

\* A recycled buffer has one reference, of the process that took it.
LEMMA BgetRecycleCount ==
  ASSUME CoreInv, RingInv, CountInv, NEW u \in Uses, bget_recycle(u) PROVE CountInv'
<1>1. b[u] = head /\ pinned' = pinned
  BY Zenon DEF bget_recycle, Asks, CoreInv, UseInv
<1>2. CASE UNCHANGED <<blockno, valid, refcnt, procVars>>
  BY <1>1, <1>2, CountKeeps, Zenon DEF procVars
<1>3. CASE /\ Recyclable # {}
           /\ \E bn \in Blocks :
                /\ Found(bn) = {} /\ blockno' = [blockno EXCEPT ![Victim] = bn]
                /\ refcnt' = [refcnt EXCEPT ![Victim] = 1] /\ b' = [b EXCEPT ![u] = Victim]
  <2>1. PICK j \in Bufs : j = Victim /\ Unused(j) /\ refcnt[j] = 0
    BY <1>3, VictimUnused, Zenon DEF Unused
  <2>2. PICK bn \in Blocks :
          /\ Found(bn) = {} /\ blockno' = [blockno EXCEPT ![j] = bn]
          /\ refcnt' = [refcnt EXCEPT ![j] = 1] /\ b' = [b EXCEPT ![u] = j]
    BY <1>3, <2>1, Zenon
  <2>3. refcnt \in [Bufs -> Nat] /\ \A i \in Bufs : refcnt[i] = Cardinality(Users(i)) + Pins(i)
    BY Zenon DEF CountInv
  <2>4. /\ refcnt'[j] = 1 /\ \A i \in Bufs \ {j} : refcnt'[i] = refcnt[i]
        /\ refcnt' \in [Bufs -> Nat]
    BY <2>2, <2>3, Zenon
  <2>5. blockno'[j] = bn /\ \A i \in Bufs \ {j} : blockno'[i] = blockno[i]
    BY <2>2, Zenon DEF CoreInv, TypeInv
  <2>6. bn \notin pinned
    BY <2>2, MetAll, Zenon DEF Found, Cached, CoreInv, PinValid
  <2>7. Pins(j) = 0 /\ (Pins(j))' = 0 /\ \A i \in Bufs \ {j} : (Pins(i))' = Pins(i)
    BY <1>1, <2>1, <2>5, <2>6, Zenon DEF Pins, Unused
  <2>8. /\ Cardinality((Users(j))') = Cardinality(Users(j)) + 1
        /\ \A i \in Bufs \ {j} : (Users(i))' = Users(i)
    BY <1>1, <2>2, UsersMore, Zenon DEF CoreInv, TypeInv
  <2>9. Cardinality(Users(j)) \in Nat
    BY UsersFinite, Zenon
  <2>10. ASSUME NEW i \in Bufs PROVE refcnt'[i] = Cardinality((Users(i))') + (Pins(i))'
    <3>1. CASE i = j
      BY <2>1, <2>3, <2>4, <2>7, <2>8, <2>9, <3>1
    <3>2. CASE i # j
      BY <2>3, <2>4, <2>7, <2>8, <3>2, Zenon
    <3>. QED BY <3>1, <3>2, Zenon
  <2>. QED BY <1>1, <2>4, <2>10, Zenon DEF CountInv
<1>. QED BY <1>2, <1>3, Zenon DEF bget_recycle

-----------------------------------------------------------------------------
(* Theorems *)

\* bget() panics when its walk along prev meets only buffers in use, and from then
\* on nothing is done.
LEMMA NextPanic ==
  ASSUME RingInv, PanicInv, [Next]_vars PROVE PanicInv'
<1>1. CASE UNCHANGED <<panicked, refcnt>>
  BY <1>1, Zenon DEF PanicInv
<1>2. CASE ~panicked'
  BY <1>2, Zenon DEF PanicInv
<1>3. ASSUME NEW u \in Uses, bget_recycle(u) PROVE PanicInv'
  <2>1. \/ panicked' = panicked /\ ~panicked
        \/ Recyclable = {} /\ refcnt' = refcnt
    BY <1>3, Zenon DEF bget_recycle, Asks, Turn
  <2>2. Recyclable = {} => \A i \in Bufs : refcnt[i] # 0
    BY MetAll, Zenon DEF Recyclable
  <2>. QED BY <1>2, <2>1, <2>2, Zenon DEF PanicInv
<1>4. ASSUME NEW u \in Uses,
             \/ bget_hit(u) \/ acquiresleep(u) \/ bread(u) \/ modify(u) \/ bwrite(u)
             \/ bpin(u) \/ bunpin(u) \/ releasesleep(u) \/ brelse(u)
      PROVE  PanicInv'
  <2>1. ~panicked /\ panicked' = panicked
    BY <1>4, Zenon DEF bget_hit, acquiresleep, bread, modify, bwrite, bpin, bunpin,
       releasesleep, brelse, Asks, Turn
  <2>. QED BY <1>2, <2>1, Zenon
<1>5. CASE UNCHANGED vars
  BY <1>1, <1>5, Zenon DEF vars, bufVars
<1>. QED BY <1>3, <1>4, <1>5, Zenon DEF Next, panic

\* Every step preserves the invariant.
LEMMA NextCache == ASSUME CacheInv, [Next]_vars PROVE CacheInv'
<1>1. CoreInv /\ RingInv /\ CountInv /\ PanicInv'
  BY NextPanic, Zenon DEF CacheInv
<1>2. ASSUME NEW u \in Uses,
             acquiresleep(u) \/ bread(u) \/ modify(u) \/ bwrite(u) \/ releasesleep(u)
      PROVE  CacheInv'
  <2>1. UNCHANGED listVars /\ UNCHANGED <<refcnt, b, blockno, pinned>>
    BY <1>2, Zenon DEF acquiresleep, bread, modify, bwrite, releasesleep, bufVars
  <2>2. RingInv' /\ CountInv'
    BY <1>1, <2>1, RingKeeps, CountKeeps, Zenon
  <2>3. CoreInv'
    BY <1>1, <1>2, AcquiresleepCore, BreadCore, ModifyCore, BwriteCore, ReleasesleepCore
  <2>. QED BY <1>1, <2>2, <2>3, Zenon DEF CacheInv
<1>3. ASSUME NEW u \in Uses, bpin(u) \/ bunpin(u) \/ bget_hit(u)
      PROVE  CacheInv'
  <2>1. UNCHANGED listVars
    BY <1>3, Zenon DEF bpin, bunpin, bget_hit
  <2>2. RingInv' /\ CountInv'
    BY <1>1, <1>3, <2>1, RingKeeps, BpinCount, BunpinCount, BgetHitCount, Zenon
  <2>3. CoreInv'
    BY <1>1, <1>3, BpinCore, BunpinCore, BgetHitCore, Zenon
  <2>. QED BY <1>1, <2>2, <2>3, Zenon DEF CacheInv
<1>4. ASSUME NEW u \in Uses, brelse(u) PROVE CacheInv'
  BY <1>1, <1>4, BrelseCore, BrelseRing, BrelseCount, Zenon DEF CacheInv
<1>5. ASSUME NEW u \in Uses, bget_recycle(u) PROVE CacheInv'
  <2>1. UNCHANGED listVars
    BY <1>5, Zenon DEF bget_recycle
  <2>2. RingInv' /\ CountInv'
    BY <1>1, <1>5, <2>1, RingKeeps, BgetRecycleCount, Zenon
  <2>3. CoreInv'
    BY <1>1, <1>5, VictimUnused, MetAll, BgetRecycleCore, Zenon
  <2>. QED BY <1>1, <2>2, <2>3, Zenon DEF CacheInv
<1>6. ASSUME UNCHANGED vars PROVE CacheInv'
  <2>1. RingInv' /\ CountInv'
    BY <1>1, <1>6, RingKeeps, CountKeeps, Zenon DEF vars, bufVars, procVars
  <2>2. CoreInv'
    <3>1. /\ UNCHANGED <<blockno, valid, data, locked, disk, cur, pinned, pc, b, want>>
          /\ panicked' = panicked
      BY <1>6, Zenon DEF vars, bufVars, procVars
    <3>2. TypeInv' /\ UseInv' /\ LockInv' /\ OneBuf'
      BY <1>1, <3>1, Zenon DEF CoreInv, TypeInv, UseInv, LockInv, OneBuf, Holding, Locking
    <3>3. ValidInv' /\ PinValid' /\ DiskInv' /\ NoLostWakeup'
      BY <1>1, <3>1, Zenon DEF CoreInv, ValidInv, PinValid, DiskInv, Dirty, NoLostWakeup
    <3>. QED BY <3>2, <3>3, Zenon DEF CoreInv
  <2>. QED BY <1>1, <2>1, <2>2, Zenon DEF CacheInv
<1>. QED BY <1>2, <1>3, <1>4, <1>5, <1>6, Zenon DEF Next, panic

\* The invariant of bio.c holds in every reachable state, for any number of
\* buffers, also when bget() panics.
THEOREM CacheInvariance == Spec => []CacheInv
<1>1. Init => CacheInv
  BY InitCore, InitRing, InitCount, Zenon DEF Init, CacheInv, PanicInv
<1>2. CacheInv /\ [Next]_vars => CacheInv'
  BY NextCache, Zenon
<1>. QED BY <1>1, <1>2, PTL DEF Spec

\* Who holds a buffer after bread() has the block asked for, alone, in its only
\* buffer, with what was last stored in it.
THEOREM CoherentThm == Spec => []Coherent
<1>1. CacheInv => Coherent
  <2>1. ASSUME CacheInv, NEW u \in Uses, Holding(u)
        PROVE  /\ Cached(want[u]) = {b[u]} /\ locked[b[u]] = u /\ data[b[u]] = cur[want[u]]
    <3>1. pc[u] # "idle" /\ locked[b[u]] = u /\ data[b[u]] = cur[want[u]]
      BY <2>1, Held, Zenon DEF CacheInv
    <3>2. b[u] \in Bufs /\ blockno[b[u]] = want[u]
      BY <2>1, <3>1, InCall, Zenon DEF CacheInv
    <3>3. \A i \in Bufs : blockno[i] = want[u] => i = b[u]
      BY <2>1, <3>1, SameBuf, Zenon DEF CacheInv
    <3>4. Cached(want[u]) = {b[u]}
      BY <3>2, <3>3, Zenon DEF Cached
    <3>. QED BY <3>1, <3>4, Zenon
  <2>. QED BY <2>1, Zenon DEF Coherent
<1>. QED BY <1>1, CacheInvariance, PTL

\* Nobody sleeps on a sleep lock that is free.
THEOREM NoLostWakeupThm == Spec => []NoLostWakeup
<1>1. CacheInv => NoLostWakeup
  BY Zenon DEF CacheInv, CoreInv
<1>. QED BY <1>1, CacheInvariance, PTL

\* refcnt counts the uses in a call and the log's pins, the list is one ring, and
\* bget() panics only when each buffer is in use or pinned.
THEOREM RefCountsThm == Spec => []RefCounts
<1>1. CacheInv => RefCounts
  <2>1. SUFFICES ASSUME CacheInv PROVE RefCounts
    BY Zenon
  <2>2. \A i \in Bufs : refcnt[i] = Cardinality({u \in Uses : b[u] = i}) +
                                      (IF blockno[i] \in pinned THEN 1 ELSE 0)
    BY <2>1, Zenon DEF CacheInv, CountInv, Users, Pins
  <2>3. TypeOK
    <3>1. ASSUME NEW i \in Bufs PROVE refcnt[i] \in 0 .. Cardinality(Uses) + 1
      <4>1. /\ Cardinality(Users(i)) \in Nat /\ Cardinality(Users(i)) <= Cardinality(Uses)
            /\ Cardinality(Uses) \in Nat
        <5>1. Users(i) \in SUBSET Uses
          BY Zenon DEF Users
        <5>. QED BY <5>1, UsersFinite, Consts, FS_Subset, FS_CardinalityType, Zenon
      <4>2. Pins(i) \in {0, 1} /\ refcnt[i] = Cardinality(Users(i)) + Pins(i)
        BY <2>1, Zenon DEF CacheInv, CountInv, Pins
      <4>. QED BY <4>1, <4>2
    <3>2. refcnt \in [Bufs -> 0 .. Cardinality(Uses) + 1]
      BY <2>1, <3>1, Zenon DEF CacheInv, CountInv
    <3>. QED BY <2>1, <3>2, Zenon DEF CacheInv, CoreInv, RingInv, TypeInv, TypeOK, Nodes, Points
  <2>4. Ring
    <3>1. PICK w \in [0 .. NBUF -> Nodes] : IsRing(w, next, prev)
      BY <2>1, Zenon DEF CacheInv, RingInv
    <3>2. next \in [Nodes -> Nodes] /\ prev \in [Nodes -> Nodes]
      BY <2>1, Zenon DEF CacheInv, RingInv
    <3>3. {Walk(next)[n] : n \in 1 .. NBUF} = Bufs
      <4>1. \A n \in 1 .. NBUF : Walk(next)[n] = w[n]
        BY <3>1, <3>2, WalkNext, BcacheAssumption
      <4>2. \A n \in 1 .. NBUF : w[n] \in Bufs
        BY <3>1, BcacheAssumption DEF IsRing, Nodes
      <4>3. \A i \in Bufs : \E n \in 1 .. NBUF : w[n] = i
        BY <3>1, Zenon DEF IsRing
      <4>. QED BY <4>1, <4>2, <4>3, Zenon
    <3>4. \A i \in Nodes : \E k \in 0 .. NBUF : w[k] = i
      BY <3>1, BcacheAssumption DEF IsRing, Nodes
    <3>5. ASSUME NEW i \in Nodes PROVE prev[next[i]] = i /\ next[prev[i]] = i
      <4>1. PICK k \in 0 .. NBUF : w[k] = i
        BY <3>4, Zenon
      <4>2. prev[next[i]] = i
        <5>1. CASE k = NBUF
          BY <3>1, <4>1, <5>1, Zenon DEF IsRing
        <5>2. CASE k # NBUF
          <6>1. k \in 0 .. NBUF - 1
            BY <5>2, BcacheAssumption
          <6>. QED BY <3>1, <4>1, <6>1, Zenon DEF IsRing
        <5>. QED BY <5>1, <5>2, Zenon
      <4>3. next[prev[i]] = i
        <5>1. CASE k = 0
          BY <3>1, <4>1, <5>1, Zenon DEF IsRing
        <5>2. CASE k # 0
          <6>1. k - 1 \in 0 .. NBUF - 1 /\ (k - 1) + 1 = k
            BY <5>2, BcacheAssumption
          <6>. QED BY <3>1, <4>1, <6>1 DEF IsRing
        <5>. QED BY <5>1, <5>2, Zenon
      <4>. QED BY <4>2, <4>3, Zenon
    <3>. QED BY <3>3, <3>5, Zenon DEF Ring, Nodes
  <2>. QED BY <2>1, <2>2, <2>3, <2>4, Zenon DEF RefCounts, CacheInv, PanicInv
<1>. QED BY <1>1, CacheInvariance, PTL
=============================================================================
