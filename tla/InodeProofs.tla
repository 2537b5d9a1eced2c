----------------------------- MODULE InodeProofs -----------------------------
(***************************************************************************)
(* Proofs about Inode, for all sets of processes and names, numbers of     *)
(* inodes and sizes of the inode table.                                    *)
(***************************************************************************)
EXTENDS Inode, TLAPS

-----------------------------------------------------------------------------
(* The inductive invariant *)

\* Where a process holds the lock of its inode, and where ilock() returns to.
Locked == {"opened", "read_done", "create_link", "unlink_entry", "drop_link", "add_link",
           "itrunc"}
Returns == Locked \ {"itrunc"}
Labels == Locked \cup {"idle", "ilock", "iput", "iput_end", "link_entry"}

\* Process p is at l, or in the ilock() that returns to it.
Within(p, l) == pc[p] = l \/ (pc[p] = "ilock" /\ then[p] = l)

Opens(s) == {p \in Procs : open[p] = s}
Holds(s) == {p \in Procs : ip[p] = s /\ ~Reading(p)}
Named(n) == {x \in Names : dir[x] = n}

PcOK ==
  /\ pc \in [Procs -> Labels] /\ then \in [Procs -> Returns \cup {"idle"}]
  /\ \A p \in Procs : /\ pc[p] = "ilock" => then[p] \in Returns
                      /\ pc[p] = "idle" <=> ip[p] = 0
                      /\ Reading(p) => open[p] = ip[p]

\* The lock of an entry is held by the process that is at work on it.
LockOK == \A p \in Procs, s \in Slots : ilocked[s] = p <=> ip[p] = s /\ pc[p] \in Locked

\* ref counts the open files and the calls that hold an entry.
RefOK == \A s \in Slots : ref[s] = Cardinality(Opens(s)) + Cardinality(Holds(s))

InumOK == \A s \in Slots : ref[s] > 0 => inum[s] \in Inums

Unique == \A s, t \in Slots : ref[s] > 0 /\ ref[t] > 0 /\ inum[s] = inum[t] => s = t

\* A valid entry is for an inode in use and agrees with the disk, locked or not.
CacheOK ==
  \A s \in Slots : ref[s] > 0 /\ valid[s] =>
    dtype[inum[s]] /\ mtype[s] /\ nlink[s] = dlink[inum[s]]

\* A process that holds an entry holds an inode in use, until it has freed it.
Uses(p) ==
  /\ pc[p] \notin {"idle", "iput_end"} => dtype[inum[ip[p]]]
  /\ pc[p] \in Locked => valid[ip[p]]
  /\ pc[p] = "itrunc" => ref[ip[p]] = 1 /\ nlink[ip[p]] = 0
UseOK == \A p \in Procs : Uses(p)

\* create() holds the directory, in which its name is free; its inode has no links
\* and is held by nobody else, but for one that has freed it in its previous life.
Creates(p) ==
  Within(p, "create_link") =>
    /\ dlock = p /\ name[p] \in Names /\ dir[name[p]] = 0 /\ dlink[inum[ip[p]]] = 0
    /\ \A q \in Procs : /\ open[q] # ip[p]
                        /\ q # p /\ ip[q] = ip[p] => pc[q] = "iput_end"
CreateOK == \A p \in Procs : Creates(p)

\* unlink() holds the directory, in which its name is that of its inode.
Unlinks(p) ==
  Within(p, "unlink_entry") =>
    dlock = p /\ name[p] \in Names /\ dir[name[p]] = inum[ip[p]]
UnlinkOK == \A p \in Procs : Unlinks(p)

Running ==
  /\ PcOK /\ LockOK /\ RefOK /\ InumOK /\ Unique /\ CacheOK /\ UseOK
  /\ CreateOK /\ UnlinkOK

OpenOK == \A p \in Procs : open[p] # 0 => dtype[inum[open[p]]]

LinksOK ==
  \A n \in Inums :
    /\ dtype[n] => dlink[n] = Cardinality(Named(n)) + Cardinality(Pending(n))
    /\ ~dtype[n] => Named(n) = {}

Inv ==
  /\ TypeOK /\ panicked \in {"no", "iget"} /\ OpenOK /\ LinksOK
  /\ panicked = "no" => Running

-----------------------------------------------------------------------------
(* Counting *)

\* 1 for true.
B(b) == IF b THEN 1 ELSE 0

Differs(A, A1, x) == Cardinality(A1) = Cardinality(A) + B(x \in A1) - B(x \in A)

\* What the proofs use of finite sets (shown at the end, where the library's theorems
\* about them are at hand).
Counting ==
  /\ \A A : A \subseteq Procs \/ A \subseteq Names =>
       IsFiniteSet(A) /\ Cardinality(A) \in Nat
  /\ \A A, A1, x : IsFiniteSet(A) /\ IsFiniteSet(A1) /\ A \ {x} = A1 \ {x} =>
       Differs(A, A1, x)
  /\ Cardinality({}) = 0 /\ \A A : IsFiniteSet(A) /\ Cardinality(A) = 0 => A = {}
  /\ \A A, x : IsFiniteSet(A) /\ x \in A => Cardinality(A) > 0
  /\ \A A, x, y : IsFiniteSet(A) /\ x \in A /\ y \in A /\ x # y => Cardinality(A) > 1

-----------------------------------------------------------------------------
(* What processes hold *)

\* A step of p leaves the other processes where they are.
Others(p) ==
  \A q \in Procs : q # p =>
    /\ pc'[q] = pc[q] /\ then'[q] = then[q] /\ ip'[q] = ip[q] /\ name'[q] = name[q]
    /\ open'[q] = open[q]

\* How a step of p changes the references to an entry.
LEMMA RefMove ==
  ASSUME Counting, NEW p \in Procs, Others(p), NEW s
  PROVE  /\ Differs(Opens(s), Opens(s)', p)
         /\ Differs(Holds(s), Holds(s)', p)
         /\ Cardinality(Opens(s)) \in Nat /\ Cardinality(Holds(s)) \in Nat
         /\ Cardinality(Opens(s)') \in Nat /\ Cardinality(Holds(s)') \in Nat
<1>1. /\ Opens(s) \subseteq Procs /\ Opens(s)' \subseteq Procs
      /\ Holds(s) \subseteq Procs /\ Holds(s)' \subseteq Procs
  BY Zenon DEF Opens, Holds
<1>2. Opens(s) \ {p} = Opens(s)' \ {p}
  BY DEF Opens, Others
<1>3. Holds(s) \ {p} = Holds(s)' \ {p}
  BY DEF Holds, Others, Reading
<1>4. /\ IsFiniteSet(Opens(s)) /\ IsFiniteSet(Opens(s)') /\ IsFiniteSet(Holds(s))
      /\ IsFiniteSet(Holds(s)')
  BY <1>1, Zenon DEF Counting
<1>5. /\ Cardinality(Opens(s)) \in Nat /\ Cardinality(Holds(s)) \in Nat
      /\ Cardinality(Opens(s)') \in Nat /\ Cardinality(Holds(s)') \in Nat
  BY <1>1, Zenon DEF Counting
<1>6. Differs(Opens(s), Opens(s)', p)
  BY <1>2, <1>4, Zenon DEF Counting
<1>7. Differs(Holds(s), Holds(s)', p)
  BY <1>3, <1>4, Zenon DEF Counting
<1>. QED BY <1>5, <1>6, <1>7, Zenon

\* The references of p itself, before and after its step.
LEMMA OwnRefs ==
  ASSUME NEW p \in Procs, NEW s
  PROVE  /\ (p \in Opens(s)) <=> open[p] = s
         /\ (p \in Holds(s)) <=> (ip[p] = s /\ ~Reading(p))
         /\ (p \in Opens(s)') <=> open'[p] = s
         /\ (p \in Holds(s)') <=> (ip'[p] = s /\ ~Reading(p)')
BY DEF Opens, Holds

\* The reference counts after a step of p.
LEMMA RefKeep ==
  ASSUME Counting, NEW p \in Procs, Others(p), TypeOK, RefOK,
         \A s \in Slots :
           ref'[s] = ref[s] + B(open'[p] = s) - B(open[p] = s)
                     + B(ip'[p] = s /\ ~Reading(p)') - B(ip[p] = s /\ ~Reading(p))
  PROVE  RefOK' /\ (\A s \in Slots : ref'[s] \in Nat)
<1>. SUFFICES ASSUME NEW s \in Slots
     PROVE  ref'[s] = Cardinality(Opens(s)') + Cardinality(Holds(s)') /\ ref'[s] \in Nat
  BY Zenon DEF RefOK, Slots
<1>1. /\ Differs(Opens(s), Opens(s)', p)
      /\ Differs(Holds(s), Holds(s)', p)
  BY RefMove, Zenon
<1>2. /\ Cardinality(Opens(s)) \in Nat /\ Cardinality(Holds(s)) \in Nat
      /\ Cardinality(Opens(s)') \in Nat /\ Cardinality(Holds(s)') \in Nat
  BY RefMove, Zenon
<1>3. /\ B(p \in Opens(s)) = B(open[p] = s)
      /\ B(p \in Holds(s)) = B(ip[p] = s /\ ~Reading(p))
      /\ B(p \in Opens(s)') = B(open'[p] = s)
      /\ B(p \in Holds(s)') = B(ip'[p] = s /\ ~Reading(p)')
  BY OwnRefs DEF B
<1>4. ref[s] = Cardinality(Opens(s)) + Cardinality(Holds(s))
  BY Zenon DEF RefOK
<1>5. /\ B(open[p] = s) \in Nat /\ B(ip[p] = s /\ ~Reading(p)) \in Nat
      /\ B(open'[p] = s) \in Nat /\ B(ip'[p] = s /\ ~Reading(p)') \in Nat
  BY DEF B
<1>6. ref'[s] = ref[s] + B(open'[p] = s) - B(open[p] = s)
                + B(ip'[p] = s /\ ~Reading(p)') - B(ip[p] = s /\ ~Reading(p))
  BY Zenon
<1>7. PICK o \in Nat, h \in Nat, o1 \in Nat, h1 \in Nat :
        /\ o = Cardinality(Opens(s)) /\ h = Cardinality(Holds(s))
        /\ o1 = Cardinality(Opens(s)') /\ h1 = Cardinality(Holds(s)')
  BY <1>2, Zenon
<1>8. PICK a \in Nat, b \in Nat, a1 \in Nat, b1 \in Nat :
        /\ a = B(open[p] = s) /\ b = B(ip[p] = s /\ ~Reading(p))
        /\ a1 = B(open'[p] = s) /\ b1 = B(ip'[p] = s /\ ~Reading(p)')
  BY <1>5, Zenon
<1>9. o1 = o + a1 - a /\ h1 = h + b1 - b
  BY <1>1, <1>3, <1>7, <1>8, Zenon DEF Differs
<1>10. ref'[s] = o + h + a1 - a + b1 - b
  BY <1>4, <1>6, <1>7, <1>8, Zenon
<1>11. o + h + a1 - a + b1 - b = o1 + h1 /\ o1 + h1 \in Nat
  BY ONLY <1>9, o \in Nat, h \in Nat, o1 \in Nat, h1 \in Nat,
          a \in Nat, b \in Nat, a1 \in Nat, b1 \in Nat
<1>12. Cardinality(Opens(s)') + Cardinality(Holds(s)') = o1 + h1
  BY ONLY <1>7, Zenon
<1>13. ref'[s] = o1 + h1 /\ ref'[s] \in Nat
  BY ONLY <1>10, <1>11, Zenon
<1>. QED BY ONLY <1>12, <1>13, Zenon

\* What a process holds or has open is a live entry.
LEMMA Held ==
  ASSUME Counting, TypeOK, RefOK, PcOK, InumOK, NEW p \in Procs
  PROVE  /\ pc[p] # "idle" => ip[p] \in Slots /\ ref[ip[p]] > 0 /\ inum[ip[p]] \in Inums
         /\ open[p] # 0 =>
              open[p] \in Slots /\ ref[open[p]] > 0 /\ inum[open[p]] \in Inums
<1>1. \A s \in Slots :
        /\ Cardinality(Opens(s)) \in Nat /\ Cardinality(Holds(s)) \in Nat
        /\ open[p] = s => Cardinality(Opens(s)) > 0
        /\ ip[p] = s /\ ~Reading(p) => Cardinality(Holds(s)) > 0
  <2>. TAKE s \in Slots
  <2>1. IsFiniteSet(Opens(s)) /\ IsFiniteSet(Holds(s))
    BY Zenon DEF Counting, Opens, Holds
  <2>2. Cardinality(Opens(s)) \in Nat /\ Cardinality(Holds(s)) \in Nat
    BY Zenon DEF Counting, Opens, Holds
  <2>3. /\ open[p] = s => p \in Opens(s)
        /\ ip[p] = s /\ ~Reading(p) => p \in Holds(s)
    BY Zenon DEF Opens, Holds
  <2>. QED BY <2>1, <2>2, <2>3, Zenon DEF Counting
<1>2. \A s \in Slots : open[p] = s => ref[s] > 0
  BY <1>1 DEF RefOK
<1>3. \A s \in Slots : ip[p] = s => ref[s] > 0
  BY <1>1, <1>2 DEF RefOK, PcOK
<1>4. /\ pc[p] # "idle" => ip[p] \in Slots
      /\ open[p] # 0 => open[p] \in Slots
  BY InodeAssumption DEF PcOK, TypeOK, Slots
<1>. QED BY <1>2, <1>3, <1>4, Zenon DEF InumOK

\* The only reference to an entry is that of the process that holds it.
LEMMA Sole ==
  ASSUME Counting, TypeOK, RefOK, PcOK, NEW p \in Procs, NEW s \in Slots, ip[p] = s,
         ~Reading(p), ref[s] = 1
  PROVE  \A q \in Procs : open[q] # s /\ (q # p => ip[q] # s)
<1>1. IsFiniteSet(Opens(s)) /\ IsFiniteSet(Holds(s))
  BY Zenon DEF Counting, Opens, Holds
<1>2. Cardinality(Opens(s)) \in Nat /\ Cardinality(Holds(s)) \in Nat
  BY Zenon DEF Counting, Opens, Holds
<1>3. p \in Holds(s)
  BY Zenon DEF Holds
<1>4. Cardinality(Holds(s)) > 0
  BY <1>1, <1>3, Zenon DEF Counting
<1>5. Cardinality(Opens(s)) = 0 /\ Cardinality(Holds(s)) = 1
  BY <1>2, <1>4 DEF RefOK
<1>6. \A q \in Procs : open[q] # s
  <2>1. Opens(s) = {}
    BY <1>1, <1>5, Zenon DEF Counting
  <2>. QED BY <2>1, Zenon DEF Opens
<1>7. ASSUME NEW q \in Procs, q # p, ip[q] = s PROVE FALSE
  <2>1. ~Reading(q)
    BY <1>6, <1>7, Zenon DEF PcOK
  <2>2. q \in Holds(s)
    BY <1>7, <2>1, Zenon DEF Holds
  <2>3. Cardinality(Holds(s)) > 1
    BY <1>1, <1>3, <1>7, <2>2, Zenon DEF Counting
  <2>. QED BY <1>5, <2>3
<1>. QED BY <1>6, <1>7, Zenon

-----------------------------------------------------------------------------
(* Links *)

\* p has counted a link whose entry is not there, or not there any more.
Counted(p) == pc[p] = "link_entry" \/ Within(p, "drop_link")

\* The link of p itself, before and after its step.
LEMMA OwnLink ==
  ASSUME NEW p \in Procs, NEW n
  PROVE  /\ (p \in Pending(n)) <=> (ip[p] # 0 /\ inum[ip[p]] = n /\ Counted(p))
         /\ (p \in Pending(n)') <=> (ip'[p] # 0 /\ inum'[ip'[p]] = n /\ Counted(p)')
BY DEF Pending, Counted, Within

\* The entries that others hold are for the same inodes after a step of p.
SameInums(p) == \A q \in Procs : q # p /\ ip[q] # 0 => inum'[ip[q]] = inum[ip[q]]

\* How a step of p that changes at most the directory entry x changes the links.
LEMMA LinkMove ==
  ASSUME Counting, NEW p \in Procs, Others(p), SameInums(p), NEW n,
         NEW x, \A y \in Names : y # x => dir'[y] = dir[y]
  PROVE  /\ Differs(Named(n), Named(n)', x)
         /\ Differs(Pending(n), Pending(n)', p)
         /\ Cardinality(Named(n)) \in Nat /\ Cardinality(Pending(n)) \in Nat
         /\ Cardinality(Named(n)') \in Nat /\ Cardinality(Pending(n)') \in Nat
<1>1. /\ Named(n) \subseteq Names /\ Named(n)' \subseteq Names
      /\ Pending(n) \subseteq Procs /\ Pending(n)' \subseteq Procs
  BY Zenon DEF Named, Pending
<1>2. Named(n) \ {x} = Named(n)' \ {x}
  BY DEF Named
<1>3. Pending(n) \ {p} = Pending(n)' \ {p}
  <2>1. \A q \in Procs : q # p => ((q \in Pending(n)) <=> (q \in Pending(n)'))
    BY OwnLink DEF Others, SameInums, Counted, Within
  <2>. QED BY <1>1, <2>1, Zenon
<1>4. /\ IsFiniteSet(Named(n)) /\ IsFiniteSet(Named(n)') /\ IsFiniteSet(Pending(n))
      /\ IsFiniteSet(Pending(n)')
  BY <1>1, Zenon DEF Counting
<1>5. /\ Cardinality(Named(n)) \in Nat /\ Cardinality(Pending(n)) \in Nat
      /\ Cardinality(Named(n)') \in Nat /\ Cardinality(Pending(n)') \in Nat
  BY <1>1, Zenon DEF Counting
<1>6. Differs(Named(n), Named(n)', x)
  BY <1>2, <1>4, Zenon DEF Counting
<1>7. Differs(Pending(n), Pending(n)', p)
  BY <1>3, <1>4, Zenon DEF Counting
<1>. QED BY <1>5, <1>6, <1>7, Zenon

\* The links of an inode in use, as they change.
LinkCount(n) == dlink[n] = Cardinality(Named(n)) + Cardinality(Pending(n))

Owns(p, n) == ip[p] # 0 /\ inum[ip[p]] = n /\ Counted(p)
Names1(x, n) == x \in Names /\ dir[x] = n

\* The link count of an inode after a step of p.
LEMMA LinkKeep ==
  ASSUME Counting, NEW p \in Procs, Others(p), SameInums(p), NEW n \in Inums,
         NEW x, \A y \in Names : y # x => dir'[y] = dir[y], dlink[n] \in Nat,
         LinkCount(n),
         dlink'[n] = dlink[n] + B(Names1(x, n)') - B(Names1(x, n))
                     + B(Owns(p, n)') - B(Owns(p, n))
  PROVE  LinkCount(n)' /\ dlink'[n] \in Nat
<1>1. /\ Differs(Named(n), Named(n)', x)
      /\ Differs(Pending(n), Pending(n)', p)
  BY LinkMove, Zenon
<1>2. /\ Cardinality(Named(n)) \in Nat /\ Cardinality(Pending(n)) \in Nat
      /\ Cardinality(Named(n)') \in Nat /\ Cardinality(Pending(n)') \in Nat
  BY LinkMove, Zenon
<1>3. /\ B(p \in Pending(n)) = B(Owns(p, n))
      /\ B(p \in Pending(n)') = B(Owns(p, n)')
  BY OwnLink DEF B, Owns
<1>4. /\ B(x \in Named(n)) = B(Names1(x, n))
      /\ B(x \in Named(n)') = B(Names1(x, n)')
  BY DEF B, Named, Names1
<1>5. /\ B(Names1(x, n)) \in Nat /\ B(Owns(p, n)) \in Nat
      /\ B(Names1(x, n)') \in Nat /\ B(Owns(p, n)') \in Nat
  BY DEF B
<1>. QED BY ONLY <1>1, <1>2, <1>3, <1>4, <1>5, LinkCount(n), dlink[n] \in Nat,
         dlink'[n] = dlink[n] + B(Names1(x, n)') - B(Names1(x, n))
                     + B(Owns(p, n)') - B(Owns(p, n)) DEF Differs, LinkCount

\* The links after a step of p that changes at most the directory entry x.
LEMMA LinksKeep ==
  ASSUME Counting, NEW p \in Procs, Others(p), SameInums(p), TypeOK, LinksOK, dtype' = dtype,
         NEW x, \A y \in Names : y # x => dir'[y] = dir[y],
         \A n \in Inums : dtype[n] =>
           dlink'[n] = dlink[n] + B(Names1(x, n)') - B(Names1(x, n))
                     + B(Owns(p, n)') - B(Owns(p, n)),
         \A n \in Inums : ~dtype[n] => ~Names1(x, n)'
  PROVE  LinksOK'
<1>. SUFFICES ASSUME NEW n \in Inums
     PROVE  /\ dtype[n] => LinkCount(n)'
            /\ ~dtype[n] => Named(n)' = {}
  BY DEF LinksOK, LinkCount, Inums
<1>1. ASSUME dtype[n] PROVE LinkCount(n)'
  <2>1. LinkCount(n) /\ dlink[n] \in Nat
    BY <1>1 DEF LinksOK, LinkCount, TypeOK
  <2>. QED BY <1>1, <2>1, LinkKeep, Zenon
<1>2. ASSUME ~dtype[n] PROVE Named(n)' = {}
  <2>1. Named(n) = {}
    BY <1>2, Zenon DEF LinksOK
  <2>2. ~Names1(x, n)'
    BY <1>2, Zenon
  <2>. QED BY <2>1, <2>2 DEF Named, Names1
<1>. QED BY <1>1, <1>2, Zenon

\* A step that changes no link.
LEMMA LinksSame ==
  ASSUME Counting, NEW p \in Procs, Others(p), SameInums(p), TypeOK, LinksOK,
         UNCHANGED <<dtype, dlink, dir>>, \A n \in Inums : Owns(p, n)' <=> Owns(p, n)
  PROVE  LinksOK'
<1>1. ASSUME NEW n \in Inums, dtype[n]
      PROVE  dlink'[n] = dlink[n] + B(Names1(p, n)') - B(Names1(p, n))
                         + B(Owns(p, n)') - B(Owns(p, n))
  <2>1. dlink[n] \in Nat
    BY Zenon DEF TypeOK
  <2>2. B(Owns(p, n)') = B(Owns(p, n)) /\ B(Names1(p, n)') = B(Names1(p, n))
    BY DEF B, Names1
  <2>3. B(Owns(p, n)) \in Nat /\ B(Names1(p, n)) \in Nat
    BY DEF B
  <2>. QED BY <2>1, <2>2, <2>3
<1>2. \A n \in Inums : ~dtype[n] => ~Names1(p, n)'
  BY Zenon DEF LinksOK, Named, Names1
<1>. QED BY <1>1, <1>2, LinksKeep, Zenon

-----------------------------------------------------------------------------
(* Steps *)

\* What the invariant says while the kernel runs.
LEMMA Unfold ==
  ASSUME Inv, panicked = "no"
  PROVE  /\ TypeOK /\ OpenOK /\ LinksOK
         /\ PcOK /\ LockOK /\ RefOK /\ InumOK /\ Unique /\ CacheOK /\ UseOK
         /\ CreateOK /\ UnlinkOK
BY DEF Inv, Running

\* ... and what shows it after a step.
LEMMA Fold ==
  ASSUME TypeOK', OpenOK', LinksOK', panicked' = "no",
         PcOK', LockOK', RefOK', InumOK', Unique', CacheOK', UseOK', CreateOK', UnlinkOK'
  PROVE  Inv'
BY DEF Inv, Running

\* Some labels.
LEMMA LabelFacts ==
  /\ Returns \subseteq Locked /\ Locked \subseteq Labels /\ "itrunc" \notin Returns
  /\ "itrunc" \in Locked /\ Returns \subseteq Labels
  /\ {"idle", "ilock", "iput", "iput_end", "link_entry"} \cap Locked = {}
  /\ {"idle", "ilock", "iput", "iput_end", "link_entry"} \subseteq Labels
  /\ "idle" \notin Returns /\ "iput_end" \notin Returns
BY DEF Returns, Locked, Labels

\* Nobody is at work on an entry that is not locked, and one process at most on one
\* that is.
LEMMA Exclusive ==
  ASSUME Counting, TypeOK, PcOK, RefOK, InumOK, LockOK, NEW p \in Procs, NEW s \in Slots,
         ilocked[s] = Nobody \/ (ip[p] = s /\ pc[p] \in Locked),
         NEW q \in Procs, pc[q] \in Locked \/ pc[q] = "itrunc"
  PROVE  /\ ip[q] \in Slots
         /\ ip[q] = s => ilocked[s] # Nobody /\ q = p
<1>1. pc[q] \in Locked /\ pc[q] # "idle"
  BY DEF Locked
<1>2. ip[q] \in Slots
  BY <1>1, Held, Zenon
<1>3. ip[q] = s => ilocked[s] = q
  BY <1>1, Zenon DEF LockOK
<1>4. q # Nobody
  BY InodeAssumption, Zenon
<1>5. ip[p] = s /\ pc[p] \in Locked => ilocked[s] = p
  BY Zenon DEF LockOK
<1>. QED BY <1>2, <1>3, <1>4, <1>5, Zenon

\* The locks after a step of p.
LEMMA LockKeep ==
  ASSUME NEW p \in Procs, Others(p), LockOK,
         \A t \in Slots : ilocked'[t] = p <=> ip'[p] = t /\ pc'[p] \in Locked,
         \A t \in Slots, q \in Procs : q # p => (ilocked'[t] = q <=> ilocked[t] = q)
  PROVE  LockOK'
<1>. SUFFICES ASSUME NEW q \in Procs, NEW t \in Slots
     PROVE  ilocked'[t] = q <=> ip'[q] = t /\ pc'[q] \in Locked
  BY Zenon DEF LockOK
<1>1. ilocked[t] = q <=> ip[q] = t /\ pc[q] \in Locked
  BY Zenon DEF LockOK
<1>2. q # p => ip'[q] = ip[q] /\ pc'[q] = pc[q]
  BY Zenon DEF Others
<1>. QED BY <1>1, <1>2, Zenon

\* p locks s ...
LEMMA LockTake ==
  ASSUME NEW p \in Procs, Others(p), TypeOK, LockOK, NEW s \in Slots, ilocked[s] = Nobody,
         ip[p] = s, ip'[p] = s, pc[p] \notin Locked, pc'[p] \in Locked,
         ilocked' = [ilocked EXCEPT ![s] = p]
  PROVE  LockOK'
<1>1. ilocked'[s] = p /\ \A t \in Slots : t # s => ilocked'[t] = ilocked[t]
  BY Zenon DEF TypeOK
<1>2. \A t \in Slots : ilocked[t] # p
  BY Zenon DEF LockOK
<1>3. \A t \in Slots : ilocked'[t] = p <=> ip'[p] = t /\ pc'[p] \in Locked
  BY <1>1, <1>2, Zenon
<1>4. \A t \in Slots, q \in Procs : q # p => (ilocked'[t] = q <=> ilocked[t] = q)
  BY <1>1, InodeAssumption, Zenon
<1>. QED BY <1>3, <1>4, LockKeep, Zenon

\* ... unlocks it.
LEMMA LockDrop ==
  ASSUME NEW p \in Procs, Others(p), TypeOK, LockOK, NEW s \in Slots,
         ip[p] = s, pc[p] \in Locked, pc'[p] \notin Locked,
         ilocked' = [ilocked EXCEPT ![s] = Nobody]
  PROVE  LockOK'
<1>1. ilocked'[s] = Nobody /\ \A t \in Slots : t # s => ilocked'[t] = ilocked[t]
  BY Zenon DEF TypeOK
<1>2. \A t \in Slots : ilocked[t] = p <=> t = s
  <2>. TAKE t \in Slots
  <2>1. ilocked[t] = p <=> ip[p] = t /\ pc[p] \in Locked
    BY Zenon DEF LockOK
  <2>. QED BY <2>1, Zenon
<1>3. \A t \in Slots : ilocked'[t] # p
  BY <1>1, <1>2, InodeAssumption, Zenon
<1>4. ASSUME NEW t \in Slots, NEW q \in Procs, q # p
      PROVE  ilocked'[t] = q <=> ilocked[t] = q
  <2>0. q # Nobody
    BY InodeAssumption, Zenon
  <2>1. CASE t = s
    <3>1. ilocked[t] = p /\ ilocked'[t] = Nobody
      BY <1>1, <1>2, <2>1, Zenon
    <3>. QED BY <1>4, <2>0, <3>1, Zenon
  <2>2. CASE t # s
    BY <1>1, <2>2, Zenon
  <2>. QED BY <2>1, <2>2, Zenon
<1>. QED BY <1>3, <1>4, LockKeep, Zenon

\* ... keeps what it has.
LEMMA LockStay ==
  ASSUME NEW p \in Procs, Others(p), LockOK, ilocked' = ilocked,
         \/ pc[p] \notin Locked /\ pc'[p] \notin Locked
         \/ pc[p] \in Locked /\ pc'[p] \in Locked /\ ip'[p] = ip[p]
  PROVE  LockOK'
<1>1. \A t \in Slots : ilocked'[t] = p <=> ip'[p] = t /\ pc'[p] \in Locked
  BY Zenon DEF LockOK
<1>. QED BY <1>1, LockKeep, Zenon

\* The entries of the others after a step of p that takes nothing from them.
LEMMA UseKeep ==
  ASSUME Counting, NEW p \in Procs, Others(p), SameInums(p), TypeOK, RefOK, PcOK, InumOK,
         UseOK,
         \A k \in Inums : dtype[k] => dtype'[k],
         \A t \in Slots : ref[t] > 0 /\ valid[t] => valid'[t],
         \A q \in Procs : q # p /\ pc[q] = "itrunc" /\ ip[q] \in Slots =>
           ref'[ip[q]] = ref[ip[q]] /\ nlink'[ip[q]] = nlink[ip[q]],
         Uses(p)'
  PROVE  UseOK'
<1>. SUFFICES ASSUME NEW q \in Procs, q # p PROVE Uses(q)'
  BY Zenon DEF UseOK
<1>1. pc'[q] = pc[q] /\ ip'[q] = ip[q]
  BY Zenon DEF Others
<1>2. Uses(q)
  BY Zenon DEF UseOK
<1>3. CASE pc[q] = "idle"
  BY <1>1, <1>3, LabelFacts, Zenon DEF Uses
<1>4. CASE pc[q] # "idle"
  <2>1. ip[q] \in Slots /\ ref[ip[q]] > 0 /\ inum[ip[q]] \in Inums
    BY <1>4, Held, Zenon
  <2>2. ip[q] # 0
    BY <1>4, Zenon DEF PcOK
  <2>3. inum'[ip[q]] = inum[ip[q]]
    BY <2>2, Zenon DEF SameInums
  <2>. QED BY <1>1, <1>2, <2>1, <2>3, Zenon DEF Uses
<1>. QED BY <1>3, <1>4, Zenon

\* A step of p that looks nothing up leaves a locked directory to its holder.
Away(p) ==
  /\ dlock # p /\ dlock # Nobody => dlock' = dlock /\ dir' = dir
  /\ ip'[p] \in {0, ip[p], open[p]} /\ open'[p] \in {0, open[p], ip[p]}
  /\ pc[p] = "iput_end" => ip'[p] = 0 /\ open'[p] = open[p]
  /\ \A k \in Inums : dlink'[k] = dlink[k]
       \/ (pc[p] \notin {"idle", "iput_end"} /\ k = inum[ip[p]])

\* create() and unlink() of the others after such a step.
LEMMA DirKeep ==
  ASSUME Counting, NEW p \in Procs, Others(p), SameInums(p), TypeOK, RefOK, PcOK, InumOK,
         Unique, CreateOK, UnlinkOK, Away(p), Creates(p)', Unlinks(p)'
  PROVE  CreateOK' /\ UnlinkOK'
<1>. SUFFICES ASSUME NEW q \in Procs, q # p PROVE Creates(q)' /\ Unlinks(q)'
  BY Zenon DEF CreateOK, UnlinkOK
<1>1. pc'[q] = pc[q] /\ then'[q] = then[q] /\ ip'[q] = ip[q] /\ name'[q] = name[q]
  BY Zenon DEF Others
<1>2. ASSUME Within(q, "create_link") PROVE Creates(q)'
  <2>1. /\ dlock = q /\ name[q] \in Names /\ dir[name[q]] = 0 /\ dlink[inum[ip[q]]] = 0
        /\ \A r \in Procs : /\ open[r] # ip[q]
                            /\ r # q /\ ip[r] = ip[q] => pc[r] = "iput_end"
    BY <1>2, Zenon DEF CreateOK, Creates
  <2>2. pc[q] # "idle"
    BY <1>2, Zenon DEF Within
  <2>3. ip[q] # 0 /\ ip[q] \in Slots /\ ref[ip[q]] > 0 /\ inum[ip[q]] \in Inums
    BY <2>2, Held, Zenon DEF PcOK
  <2>4. inum'[ip[q]] = inum[ip[q]]
    BY <2>3, Zenon DEF SameInums
  <2>5. dlock' = dlock /\ dir' = dir
    BY <2>1, InodeAssumption, Zenon DEF Away
  <2>6. dlink'[inum[ip[q]]] = 0
    <3>1. ASSUME pc[p] \notin {"idle", "iput_end"}, inum[ip[q]] = inum[ip[p]] PROVE FALSE
      <4>1. ip[p] \in Slots /\ ref[ip[p]] > 0
        BY <3>1, Held, Zenon
      <4>2. ip[p] = ip[q]
        BY <2>3, <3>1, <4>1, Zenon DEF Unique
      <4>. QED BY <2>1, <3>1, <4>2, Zenon
    <3>. QED BY <2>1, <2>3, <3>1, Zenon DEF Away
  <2>7. open'[p] # ip[q] /\ (ip'[p] = ip[q] => pc'[p] = "iput_end")
    <3>1. open[p] # ip[q] /\ (ip[p] = ip[q] => pc[p] = "iput_end")
      BY <2>1, Zenon
    <3>. QED BY <2>3, <3>1, Zenon DEF Away
  <2>8. \A r \in Procs : /\ open'[r] # ip[q]
                         /\ r # q /\ ip'[r] = ip[q] => pc'[r] = "iput_end"
    BY <2>1, <2>7, Zenon DEF Others
  <2>. QED BY <1>1, <2>1, <2>4, <2>5, <2>6, <2>8, Zenon DEF Creates
<1>3. ~Within(q, "create_link") => Creates(q)'
  BY <1>1, Zenon DEF Creates, Within
<1>4. ASSUME Within(q, "unlink_entry") PROVE Unlinks(q)'
  <2>1. dlock = q /\ name[q] \in Names /\ dir[name[q]] = inum[ip[q]]
    BY <1>4, Zenon DEF UnlinkOK, Unlinks
  <2>2. pc[q] # "idle"
    BY <1>4, Zenon DEF Within
  <2>3. inum'[ip[q]] = inum[ip[q]]
    BY <2>2, Zenon DEF SameInums, PcOK
  <2>4. dlock' = dlock /\ dir' = dir
    BY <2>1, InodeAssumption, Zenon DEF Away
  <2>. QED BY <1>1, <2>1, <2>3, <2>4, Zenon DEF Unlinks
<1>5. ~Within(q, "unlink_entry") => Unlinks(q)'
  BY <1>1, Zenon DEF Unlinks, Within
<1>. QED BY <1>2, <1>3, <1>4, <1>5, Zenon

\* ilock()
LEMMA IlockStep ==
  ASSUME Counting, Inv, NEW p \in Procs, ilock(p)
  PROVE  Inv'
<1>. DEFINE s == ip[p]
<1>1. panicked = "no" /\ pc[p] = "ilock" /\ ilocked[s] = Nobody
  BY Zenon DEF ilock, At
<1>2. /\ TypeOK /\ OpenOK /\ LinksOK
      /\ PcOK /\ LockOK /\ RefOK /\ InumOK /\ Unique /\ CacheOK /\ UseOK
      /\ CreateOK /\ UnlinkOK
  BY <1>1, Unfold, Zenon
<1>3. s \in Slots /\ ref[s] > 0 /\ inum[s] \in Inums /\ dtype[inum[s]]
  <2>1. s \in Slots /\ ref[s] > 0 /\ inum[s] \in Inums
    BY <1>1, <1>2, Held, Zenon
  <2>. QED BY <1>1, <1>2, <2>1, Zenon DEF UseOK, Uses
<1>4. then[p] \in Returns
  BY <1>1, <1>2, Zenon DEF PcOK
<1>5. /\ pc' = [pc EXCEPT ![p] = then[p]] /\ then' = [then EXCEPT ![p] = "idle"]
      /\ ilocked' = [ilocked EXCEPT ![s] = p]
      /\ UNCHANGED <<dtype, dlink, dir, dlock, inum, ref, ip, name, open>>
      /\ panicked' = "no"
  BY <1>1, <1>3, Zenon DEF ilock, diskVars
<1>6. /\ valid[s] => UNCHANGED <<mtype, nlink, valid>>
      /\ ~valid[s] => /\ mtype' = [mtype EXCEPT ![s] = dtype[inum[s]]]
                      /\ nlink' = [nlink EXCEPT ![s] = dlink[inum[s]]]
                      /\ valid' = [valid EXCEPT ![s] = TRUE]
  BY Zenon DEF ilock
<1>7. Others(p) /\ SameInums(p)
  BY <1>2, <1>5 DEF Others, SameInums, PcOK
<1>8. pc'[p] = then[p] /\ (Reading(p)' <=> Reading(p)) /\ (Counted(p)' <=> Counted(p))
  BY <1>1, <1>2, <1>4, <1>5 DEF PcOK, Reading, Counted, Within, Returns, Locked
<1>9. TypeOK'
  <2>1. dtype[inum[s]] \in BOOLEAN /\ dlink[inum[s]] \in Nat
    BY <1>2, <1>3, Zenon DEF TypeOK
  <2>2. /\ valid' \in [Slots -> BOOLEAN] /\ mtype' \in [Slots -> BOOLEAN]
        /\ nlink' \in [Slots -> Nat]
    BY <1>2, <1>6, <2>1, Zenon DEF TypeOK
  <2>3. ilocked' \in [Slots -> Procs \cup {Nobody}]
    BY <1>2, <1>5, Zenon DEF TypeOK
  <2>. QED BY <1>2, <1>5, <2>2, <2>3, Zenon DEF TypeOK
<1>10. OpenOK'
  BY <1>2, <1>5, Zenon DEF OpenOK
<1>11. LinksOK'
  <2>1. \A n \in Inums : Owns(p, n)' <=> Owns(p, n)
    BY <1>5, <1>8, Zenon DEF Owns
  <2>. QED BY <1>2, <1>5, <1>7, <2>1, LinksSame, Zenon
<1>12. PcOK'
  BY <1>1, <1>2, <1>4, <1>5 DEF PcOK, Returns, Labels, Locked, Reading
<1>13. LockOK'
  <2>1. pc[p] \notin Locked /\ pc'[p] \in Locked
    BY <1>1, <1>4, <1>8, LabelFacts, Zenon
  <2>. QED BY <1>1, <1>2, <1>3, <1>5, <1>7, <2>1, LockTake, Zenon
<1>14. RefOK'
  <2>1. \A t \in Slots :
          ref'[t] = ref[t] + B(open'[p] = t) - B(open[p] = t)
                     + B(ip'[p] = t /\ ~Reading(p)') - B(ip[p] = t /\ ~Reading(p))
    BY <1>2, <1>5, <1>8 DEF TypeOK, B
  <2>. QED BY <1>2, <1>7, <2>1, RefKeep, Zenon
<1>15. InumOK' /\ Unique'
  BY <1>2, <1>5, Zenon DEF InumOK, Unique
<1>16. CacheOK'
  BY <1>2, <1>3, <1>5, <1>6 DEF CacheOK, TypeOK
<1>17. UseOK'
  <2>0. valid \in [Slots -> BOOLEAN]
    BY <1>2, Zenon DEF TypeOK
  <2>1. valid'[s] /\ \A t \in Slots : ref[t] > 0 /\ valid[t] => valid'[t]
    BY <1>3, <1>6, <2>0
  <2>2. \A q \in Procs : pc[q] = "itrunc" => ip[q] # s
    BY <1>1, <1>2, <1>3, Exclusive, Zenon
  <2>3. \A t \in Slots : t # s => nlink'[t] = nlink[t]
    BY <1>2, <1>6, Zenon DEF TypeOK
  <2>4. Uses(p)'
    BY <1>3, <1>4, <1>5, <1>8, <2>1, LabelFacts, Zenon DEF Uses
  <2>. QED BY <1>2, <1>5, <1>7, <2>1, <2>2, <2>3, <2>4, UseKeep, Zenon
<1>18. CreateOK' /\ UnlinkOK'
  <2>1. Away(p)
    BY <1>1, <1>5, Zenon DEF Away
  <2>2. \A l : l # "idle" => (Within(p, l)' => Within(p, l))
    BY <1>1, <1>5, <1>8, <1>4, LabelFacts DEF Within, PcOK
  <2>3. Creates(p)'
    BY <1>2, <1>5, <1>7, <2>2, Zenon DEF Creates, CreateOK, Others
  <2>4. Unlinks(p)'
    BY <1>2, <1>5, <2>2, Zenon DEF Unlinks, UnlinkOK
  <2>. QED BY <1>2, <1>7, <2>1, <2>3, <2>4, DirKeep, Zenon
<1>. QED
  BY <1>5, <1>9, <1>10, <1>11, <1>12, <1>13, <1>14, <1>15, <1>16, <1>17, <1>18, Fold, Zenon

\* The places of the processes after a step of p.
LEMMA PcKeep ==
  ASSUME NEW p \in Procs, Others(p), PcOK,
         pc' \in [Procs -> Labels], then' \in [Procs -> Returns \cup {"idle"}],
         pc'[p] = "ilock" => then'[p] \in Returns,
         pc'[p] = "idle" <=> ip'[p] = 0,
         Reading(p)' => open'[p] = ip'[p]
  PROVE  PcOK'
<1>. SUFFICES ASSUME NEW q \in Procs, q # p
     PROVE  /\ pc'[q] = "ilock" => then'[q] \in Returns
            /\ pc'[q] = "idle" <=> ip'[q] = 0
            /\ Reading(q)' => open'[q] = ip'[q]
  BY Zenon DEF PcOK
<1>1. /\ pc'[q] = pc[q] /\ then'[q] = then[q] /\ ip'[q] = ip[q] /\ open'[q] = open[q]
  BY Zenon DEF Others
<1>2. Reading(q)' => Reading(q)
  BY <1>1, Zenon DEF Reading
<1>. QED BY <1>1, <1>2, Zenon DEF PcOK

\* ... that jumps to l.
LEMMA PcGoto ==
  ASSUME NEW p \in Procs, Others(p), PcOK, NEW l \in Labels, l \notin {"ilock", "read_done"},
         pc' = [pc EXCEPT ![p] = l], then' = then, l = "idle" <=> ip'[p] = 0
  PROVE  PcOK'
<1>1. pc' \in [Procs -> Labels] /\ then' \in [Procs -> Returns \cup {"idle"}]
  BY Zenon DEF PcOK
<1>2. pc'[p] = l
  BY Zenon DEF PcOK
<1>3. ~Reading(p)'
  BY <1>2, Zenon DEF Reading
<1>. QED BY <1>1, <1>2, <1>3, PcKeep, Zenon

\* A step of p that recycles, frees and reads in no entry.
Steady(p) ==
  /\ UNCHANGED <<dtype, inum, ref, valid, mtype, panicked>>
  /\ Others(p)
  /\ ip' \in [Procs -> 0 .. NINODE] /\ name' \in [Procs -> Names \cup {NoName}]
  /\ open' \in [Procs -> 0 .. NINODE] /\ ilocked' \in [Slots -> Procs \cup {Nobody}]
  /\ dlock' \in Procs \cup {Nobody}
  /\ \A t \in Slots : B(open[p] = t) + B(ip[p] = t /\ ~Reading(p))
                        = B(open'[p] = t) + B(ip'[p] = t /\ ~Reading(p)')

\* Such a step keeps the invariant if it keeps what it says of p and of the links.
LEMMA SteadyStep ==
  ASSUME Counting, Inv, panicked = "no", NEW p \in Procs, Steady(p),
         dlink' \in [Inums -> Nat], nlink' \in [Slots -> Nat],
         dir' \in [Names -> 0 .. NInum],
         PcOK', LockOK', LinksOK', CacheOK', Uses(p)', CreateOK', UnlinkOK',
         \A q \in Procs : q # p /\ pc[q] = "itrunc" /\ ip[q] \in Slots =>
           nlink'[ip[q]] = nlink[ip[q]],
         open'[p] # 0 => dtype[inum[open'[p]]]
  PROVE  Inv'
<1>2. /\ TypeOK /\ OpenOK /\ LinksOK
      /\ PcOK /\ LockOK /\ RefOK /\ InumOK /\ Unique /\ CacheOK /\ UseOK
      /\ CreateOK /\ UnlinkOK
  BY Unfold, Zenon
<1>3. dtype' = dtype /\ inum' = inum /\ ref' = ref /\ valid' = valid /\ mtype' = mtype
      /\ panicked' = panicked
  BY Zenon DEF Steady
<1>4. Others(p) /\ SameInums(p)
  BY <1>3, Zenon DEF Steady, SameInums
<1>5. TypeOK'
  <2>1. dtype' \in [Inums -> BOOLEAN] /\ inum' \in [Slots -> 0 .. NInum]
    BY <1>2, <1>3, Zenon DEF TypeOK
  <2>2. ref' \in [Slots -> Nat] /\ valid' \in [Slots -> BOOLEAN]
        /\ mtype' \in [Slots -> BOOLEAN]
    BY <1>2, <1>3, Zenon DEF TypeOK
  <2>3. /\ ip' \in [Procs -> 0 .. NINODE] /\ name' \in [Procs -> Names \cup {NoName}]
        /\ open' \in [Procs -> 0 .. NINODE] /\ ilocked' \in [Slots -> Procs \cup {Nobody}]
        /\ dlock' \in Procs \cup {Nobody}
    BY Zenon DEF Steady
  <2>. QED BY <2>1, <2>2, <2>3, Zenon DEF TypeOK
<1>6. OpenOK'
  BY <1>2, <1>3, <1>4, Zenon DEF OpenOK, Others
<1>7. InumOK' /\ Unique'
  BY <1>2, <1>3, Zenon DEF InumOK, Unique
<1>9. RefOK'
  <2>1. ASSUME NEW t \in Slots
        PROVE  ref'[t] = ref[t] + B(open'[p] = t) - B(open[p] = t)
                     + B(ip'[p] = t /\ ~Reading(p)') - B(ip[p] = t /\ ~Reading(p))
    <3>1. /\ B(open[p] = t) \in Nat /\ B(ip[p] = t /\ ~Reading(p)) \in Nat
          /\ B(open'[p] = t) \in Nat /\ B(ip'[p] = t /\ ~Reading(p)') \in Nat
      BY DEF B
    <3>2. B(open[p] = t) + B(ip[p] = t /\ ~Reading(p))
            = B(open'[p] = t) + B(ip'[p] = t /\ ~Reading(p)')
      BY Zenon DEF Steady
    <3>3. ref'[t] = ref[t] /\ ref[t] \in Nat
      BY <1>2, <1>3, Zenon DEF TypeOK
    <3>. QED BY ONLY <3>1, <3>2, <3>3
  <2>. QED BY <1>2, <1>4, <2>1, RefKeep, Zenon
<1>10. UseOK'
  BY <1>2, <1>3, <1>4, UseKeep, Zenon
<1>. QED
  BY <1>3, <1>5, <1>6, <1>7, <1>9, <1>10, Fold, Zenon

\* A step that leaves the disk, the directory and the links alone, too.
Quiet(p) ==
  /\ Steady(p) /\ Away(p)
  /\ UNCHANGED <<dlink, dir, nlink>>
  /\ \A n \in Inums : Owns(p, n)' <=> Owns(p, n)

\* Such a step keeps the invariant if it keeps what it says of p.
LEMMA QuietStep ==
  ASSUME Counting, Inv, panicked = "no", NEW p \in Procs, Quiet(p), PcOK', LockOK',
         Uses(p)', Creates(p)', Unlinks(p)', open'[p] # 0 => dtype[inum[open'[p]]]
  PROVE  Inv'
<1>2. /\ TypeOK /\ OpenOK /\ LinksOK
      /\ PcOK /\ LockOK /\ RefOK /\ InumOK /\ Unique /\ CacheOK /\ UseOK
      /\ CreateOK /\ UnlinkOK
  BY Unfold, Zenon
<1>3. UNCHANGED <<dtype, inum, ref, valid, mtype, panicked, dlink, dir, nlink>>
  BY Zenon DEF Quiet, Steady
<1>4. Others(p) /\ SameInums(p) /\ Away(p)
  BY <1>3, Zenon DEF Quiet, Steady, SameInums
<1>5. /\ dlink' \in [Inums -> Nat] /\ nlink' \in [Slots -> Nat]
      /\ dir' \in [Names -> 0 .. NInum]
  BY <1>2, <1>3, Zenon DEF TypeOK
<1>7. CacheOK'
  BY <1>2, <1>3, Zenon DEF CacheOK
<1>8. LinksOK'
  BY <1>2, <1>3, <1>4, LinksSame, Zenon DEF Quiet
<1>11. CreateOK' /\ UnlinkOK'
  BY <1>2, <1>4, DirKeep, Zenon
<1>12. Steady(p)
  BY Zenon DEF Quiet
<1>. QED
  BY <1>3, <1>5, <1>7, <1>8, <1>11, <1>12, SteadyStep, Zenon

\* iput() of the last reference to an inode without links.
LEMMA IputTrunc ==
  ASSUME Counting, Inv, NEW p \in Procs, iput(p),
         ref[ip[p]] = 1, valid[ip[p]], nlink[ip[p]] = 0
  PROVE  Inv'
<1>. DEFINE s == ip[p]
<1>1. panicked = "no" /\ pc[p] = "iput" /\ ilocked[s] = Nobody
  BY Zenon DEF iput, At
<1>2. /\ TypeOK /\ OpenOK /\ LinksOK
      /\ PcOK /\ LockOK /\ RefOK /\ InumOK /\ Unique /\ CacheOK /\ UseOK
      /\ CreateOK /\ UnlinkOK
  BY <1>1, Unfold, Zenon
<1>3. s \in Slots /\ ref[s] > 0 /\ inum[s] \in Inums
  BY <1>1, <1>2, Held, Zenon
<1>4. dtype[inum[s]]
  BY <1>1, <1>2, Zenon DEF UseOK, Uses
<1>5. /\ pc' = [pc EXCEPT ![p] = "itrunc"] /\ then' = then
      /\ ilocked' = [ilocked EXCEPT ![s] = p]
      /\ UNCHANGED <<dtype, dlink, dir, dlock, inum, ref, ip, name, open>>
      /\ UNCHANGED <<mtype, nlink, valid, panicked>>
  BY Zenon DEF iput, Goto, diskVars
<1>7. Others(p)
  BY <1>2, <1>5 DEF Others, PcOK
<1>8. pc'[p] = "itrunc"
  BY <1>2, <1>5, Zenon DEF PcOK
<1>9. ~Reading(p)' /\ ~Reading(p) /\ ~Counted(p)' /\ ~Counted(p)
  BY <1>1, <1>8, Zenon DEF Reading, Counted, Within
<1>10. Quiet(p)
  <2>1. Away(p)
    BY <1>1, <1>5, Zenon DEF Away
  <2>2. ilocked' \in [Slots -> Procs \cup {Nobody}]
    BY <1>2, <1>5, Zenon DEF TypeOK
  <2>3. \A n \in Inums : Owns(p, n)' <=> Owns(p, n)
    BY ONLY <1>9, Zenon DEF Owns
  <2>4. \A t \in Slots : B(open[p] = t) + B(ip[p] = t /\ ~Reading(p))
                        = B(open'[p] = t) + B(ip'[p] = t /\ ~Reading(p)')
    BY <1>5, <1>9 DEF B
  <2>. QED BY <1>2, <1>5, <1>7, <2>1, <2>2, <2>3, <2>4, Zenon DEF Quiet, Steady, TypeOK
<1>11. PcOK'
  <2>1. "itrunc" \in Labels
    BY DEF Labels, Locked
  <2>2. ip'[p] # 0
    BY <1>1, <1>2, <1>5, Zenon DEF PcOK
  <2>. QED BY <1>2, <1>5, <1>7, <2>1, <2>2, PcGoto, Zenon
<1>12. LockOK'
  <2>1. pc[p] \notin Locked /\ pc'[p] \in Locked
    BY <1>1, <1>8, Zenon DEF Locked
  <2>. QED BY <1>1, <1>2, <1>3, <1>5, <1>7, <2>1, LockTake, Zenon
<1>13. Uses(p)'
  BY <1>4, <1>5, Zenon DEF Uses
<1>14. Creates(p)' /\ Unlinks(p)'
  BY <1>8, Zenon DEF Creates, Unlinks, Within
<1>15. open'[p] # 0 => dtype[inum[open'[p]]]
  BY <1>2, <1>5, Zenon DEF OpenOK
<1>. QED BY <1>1, <1>10, <1>11, <1>12, <1>13, <1>14, <1>15, QuietStep, Zenon

\* iput() drops a reference.
LEMMA PutStep ==
  ASSUME Counting, Inv, NEW p \in Procs, panicked = "no", pc[p] \in {"iput", "iput_end"},
         ref' = [ref EXCEPT ![ip[p]] = @ - 1], Done(p),
         UNCHANGED <<dtype, dlink, dir, inum, valid, ilocked, mtype, nlink, open, panicked>>
  PROVE  Inv'
<1>. DEFINE s == ip[p]
<1>2. /\ TypeOK /\ OpenOK /\ LinksOK
      /\ PcOK /\ LockOK /\ RefOK /\ InumOK /\ Unique /\ CacheOK /\ UseOK
      /\ CreateOK /\ UnlinkOK
  BY Unfold, Zenon
<1>3. s \in Slots /\ ref[s] > 0 /\ inum[s] \in Inums /\ s # 0
  <2>1. pc[p] # "idle"
    OBVIOUS
  <2>. QED BY <1>2, <2>1, Held, Zenon DEF PcOK
<1>5. /\ pc' = [pc EXCEPT ![p] = "idle"] /\ then' = then
      /\ ip' = [ip EXCEPT ![p] = 0] /\ name' = [name EXCEPT ![p] = NoName]
      /\ dlock' = IF dlock = p THEN Nobody ELSE dlock
  BY Zenon DEF Done, Goto
<1>7. Others(p) /\ SameInums(p)
  BY <1>2, <1>5 DEF Others, SameInums, PcOK, TypeOK
<1>8. pc'[p] = "idle" /\ ip'[p] = 0
  BY <1>2, <1>5, Zenon DEF PcOK, TypeOK
<1>11. ~Reading(p)' /\ ~Reading(p) /\ ~Counted(p)' /\ ~Counted(p)
  BY <1>8 DEF Reading, Counted, Within
<1>12. LinksOK'
  <2>1. \A n \in Inums : Owns(p, n)' <=> Owns(p, n)
    BY <1>11, Zenon DEF Owns
  <2>. QED BY <1>2, <1>5, <1>7, <2>1, LinksSame, Zenon
<1>13. PcOK'
  <2>1. "idle" \in Labels
    BY DEF Labels, Locked
  <2>2. ip'[p] = 0
    BY <1>8, Zenon
  <2>. QED BY <1>2, <1>5, <1>7, <1>8, <2>1, <2>2, PcGoto, Zenon
<1>14. LockOK'
  <2>1. pc[p] \notin Locked /\ pc'[p] \notin Locked
    BY <1>8 DEF Locked
  <2>. QED BY <1>2, <1>7, <2>1, LockStay, Zenon
<1>15. RefOK' /\ \A t \in Slots : ref'[t] \in Nat
  <2>1. ASSUME NEW t \in Slots
        PROVE  ref'[t] = ref[t] + B(open'[p] = t) - B(open[p] = t)
                     + B(ip'[p] = t /\ ~Reading(p)') - B(ip[p] = t /\ ~Reading(p))
    BY <1>2, <1>3, <1>8, <1>11 DEF TypeOK, B, Slots
  <2>. QED BY <1>2, <1>7, <2>1, RefKeep, Zenon
<1>16. \A t \in Slots : ref'[t] <= ref[t] /\ (t # s => ref'[t] = ref[t])
  BY <1>2, <1>3 DEF TypeOK
<1>17. \A t \in Slots : ref'[t] > 0 => ref[t] > 0
  BY <1>2, <1>15, <1>16 DEF TypeOK
<1>9. TypeOK'
  <2>1. ref' \in [Slots -> Nat]
    BY <1>2, <1>15, Zenon DEF TypeOK
  <2>2. dlock' \in Procs \cup {Nobody}
    BY <1>2, <1>5, Zenon DEF TypeOK
  <2>3. ip' \in [Procs -> 0 .. NINODE]
    BY <1>2, <1>5, InodeAssumption DEF TypeOK
  <2>4. name' \in [Procs -> Names \cup {NoName}]
    BY <1>2, <1>5, Zenon DEF TypeOK
  <2>. QED BY <1>2, <1>5, <2>1, <2>2, <2>3, <2>4, Zenon DEF TypeOK
<1>10. OpenOK' /\ InumOK' /\ Unique' /\ CacheOK'
  BY <1>2, <1>17, Zenon DEF OpenOK, InumOK, Unique, CacheOK
<1>18. UseOK'
  <2>1. Uses(p)'
    BY <1>8, Zenon DEF Uses, Locked
  <2>2. ASSUME NEW q \in Procs, q # p, pc[q] = "itrunc", ip[q] \in Slots
        PROVE  ref'[ip[q]] = ref[ip[q]]
    <3>1. ref[ip[q]] = 1 /\ ~Reading(q)
      BY <1>2, <2>2, Zenon DEF UseOK, Uses, Reading
    <3>2. ip[p] # ip[q]
      BY <1>2, <2>2, <3>1, Sole, Zenon
    <3>. QED BY <1>16, <2>2, <3>2, Zenon
  <2>. QED BY <1>2, <1>5, <1>7, <2>1, <2>2, UseKeep, Zenon
<1>19. CreateOK' /\ UnlinkOK'
  <2>1. Away(p)
    BY <1>5, <1>8, Zenon DEF Away
  <2>2. Creates(p)' /\ Unlinks(p)'
    BY <1>8, Zenon DEF Creates, Unlinks, Within
  <2>. QED BY <1>2, <1>7, <2>1, <2>2, DirKeep, Zenon
<1>. QED
  BY <1>5, <1>9, <1>10, <1>12, <1>13, <1>14, <1>15, <1>18, <1>19, Fold, Zenon

\* iput()
LEMMA IputStep ==
  ASSUME Counting, Inv, NEW p \in Procs, iput(p) \/ iput_end(p)
  PROVE  Inv'
<1>1. CASE iput(p) /\ ref[ip[p]] = 1 /\ valid[ip[p]] /\ nlink[ip[p]] = 0
  BY <1>1, IputTrunc, Zenon
<1>2. CASE iput(p) /\ ~(ref[ip[p]] = 1 /\ valid[ip[p]] /\ nlink[ip[p]] = 0)
  <2>1. /\ panicked = "no" /\ pc[p] \in {"iput", "iput_end"}
        /\ ref' = [ref EXCEPT ![ip[p]] = @ - 1] /\ Done(p)
        /\ UNCHANGED <<dtype, dlink, dir, inum, valid, ilocked, mtype, nlink, open, panicked>>
    BY <1>2, Zenon DEF iput, At, diskVars
  <2>. QED BY <2>1, PutStep, Zenon
<1>3. CASE iput_end(p)
  <2>1. /\ panicked = "no" /\ pc[p] \in {"iput", "iput_end"}
        /\ ref' = [ref EXCEPT ![ip[p]] = @ - 1] /\ Done(p)
        /\ UNCHANGED <<dtype, dlink, dir, inum, valid, ilocked, mtype, nlink, open, panicked>>
    BY <1>3, Zenon DEF iput_end, At, diskVars
  <2>. QED BY <2>1, PutStep, Zenon
<1>. QED BY <1>1, <1>2, <1>3, Zenon

\* iput() frees the inode.
LEMMA IputFreeStep ==
  ASSUME Counting, Inv, NEW p \in Procs, iput_free(p)
  PROVE  Inv'
<1>. DEFINE s == ip[p]
            m == inum[s]
<1>1. panicked = "no" /\ pc[p] = "itrunc"
  BY Zenon DEF iput_free, At
<1>2. /\ TypeOK /\ OpenOK /\ LinksOK
      /\ PcOK /\ LockOK /\ RefOK /\ InumOK /\ Unique /\ CacheOK /\ UseOK
      /\ CreateOK /\ UnlinkOK
  BY <1>1, Unfold, Zenon
<1>3. s \in Slots /\ ref[s] > 0 /\ m \in Inums
  BY <1>1, <1>2, Held, Zenon
<1>4. ref[s] = 1 /\ nlink[s] = 0 /\ valid[s]
  BY <1>1, <1>2 DEF UseOK, Uses, Locked
<1>5. dtype[m] /\ dlink[m] = 0
  BY <1>2, <1>3, <1>4, Zenon DEF CacheOK
<1>6. /\ pc' = [pc EXCEPT ![p] = "iput_end"] /\ then' = then
      /\ ilocked' = [ilocked EXCEPT ![s] = Nobody]
      /\ dtype' = [dtype EXCEPT ![m] = FALSE] /\ dlink' = [dlink EXCEPT ![m] = 0]
      /\ mtype' = [mtype EXCEPT ![s] = FALSE] /\ valid' = [valid EXCEPT ![s] = FALSE]
      /\ UNCHANGED <<dir, dlock, inum, ref, ip, name, open, nlink, panicked>>
  BY <1>4, Zenon DEF iput_free, Goto
<1>7. Others(p) /\ SameInums(p)
  BY <1>2, <1>6 DEF Others, SameInums, PcOK
<1>8. pc'[p] = "iput_end"
  BY <1>2, <1>6, Zenon DEF PcOK
<1>9. ~Reading(p)' /\ ~Reading(p) /\ ~Counted(p)' /\ ~Counted(p)
  BY <1>1, <1>8, Zenon DEF Reading, Counted, Within
<1>10. \A q \in Procs : open[q] # s /\ (q # p => ip[q] # s)
  BY <1>2, <1>3, <1>4, <1>9, Sole, Zenon
<1>11. /\ ~dtype'[m] /\ dlink' = dlink
       /\ \A k \in Inums : k # m => dtype'[k] = dtype[k]
  BY <1>2, <1>3, <1>5, <1>6 DEF TypeOK
<1>12. \A t \in Slots : ref[t] > 0 /\ t # s => inum[t] \in Inums /\ inum[t] # m
  BY <1>2, <1>3, Zenon DEF Unique, InumOK
<1>13. TypeOK'
  <2>1. ilocked' \in [Slots -> Procs \cup {Nobody}]
    BY <1>2, <1>6, Zenon DEF TypeOK
  <2>2. dtype' \in [Inums -> BOOLEAN] /\ mtype' \in [Slots -> BOOLEAN]
        /\ valid' \in [Slots -> BOOLEAN]
    BY <1>2, <1>6, Zenon DEF TypeOK
  <2>. QED BY <1>2, <1>6, <1>11, <2>1, <2>2, Zenon DEF TypeOK
<1>14. OpenOK'
  <2>1. ASSUME NEW q \in Procs, open[q] # 0 PROVE dtype'[inum[open[q]]]
    <3>1. open[q] \in Slots /\ ref[open[q]] > 0
      BY <1>2, <2>1, Held, Zenon
    <3>2. inum[open[q]] \in Inums /\ inum[open[q]] # m
      BY <1>10, <1>12, <3>1, Zenon
    <3>. QED BY <1>2, <1>11, <2>1, <3>2, Zenon DEF OpenOK
  <2>. QED BY <1>6, <2>1, Zenon DEF OpenOK
<1>15. InumOK' /\ Unique'
  BY <1>2, <1>6, Zenon DEF InumOK, Unique
<1>16. CacheOK'
  <2>1. ~valid'[s] /\ \A t \in Slots : t # s => valid'[t] = valid[t] /\ mtype'[t] = mtype[t]
    BY <1>2, <1>3, <1>6 DEF TypeOK
  <2>2. ASSUME NEW t \in Slots, ref[t] > 0, valid'[t]
        PROVE  dtype'[inum[t]] /\ mtype'[t] /\ nlink[t] = dlink[inum[t]]
    <3>1. t # s
      BY <2>1, <2>2, Zenon
    <3>2. inum[t] \in Inums /\ inum[t] # m
      BY <1>12, <2>2, <3>1, Zenon
    <3>3. dtype[inum[t]] /\ mtype[t] /\ nlink[t] = dlink[inum[t]]
      BY <1>2, <2>1, <2>2, <3>1, Zenon DEF CacheOK
    <3>. QED BY <1>11, <2>1, <3>1, <3>2, <3>3, Zenon
  <2>. QED BY <1>6, <1>11, <2>2, Zenon DEF CacheOK
<1>17. LinksOK'
  <2>. SUFFICES ASSUME NEW n \in Inums
       PROVE  /\ dtype'[n] => LinkCount(n)'
              /\ ~dtype'[n] => Named(n)' = {}
    BY DEF LinksOK, LinkCount, Inums
  <2>1. \A k \in Inums : Owns(p, k)' <=> Owns(p, k)
    BY ONLY <1>9, Zenon DEF Owns
  <2>2. Differs(Named(n), Named(n)', p) /\ Differs(Pending(n), Pending(n)', p)
    BY <1>6, <1>7, LinkMove, Zenon
  <2>3. Named(n)' = Named(n)
    BY <1>6, Zenon DEF Named
  <2>4. CASE n # m
    <3>1. ASSUME dtype[n] PROVE LinkCount(n)'
      <4>1. LinkCount(n) /\ dlink[n] \in Nat
        BY <1>2, <3>1 DEF LinksOK, LinkCount, TypeOK
      <4>2. B(Owns(p, n)') = B(Owns(p, n)) /\ B(Names1(p, n)') = B(Names1(p, n))
        BY <1>6, <2>1 DEF B, Names1
      <4>3. B(Owns(p, n)) \in Nat /\ B(Names1(p, n)) \in Nat
        BY DEF B
      <4>4. dlink'[n] = dlink[n] + B(Names1(p, n)') - B(Names1(p, n))
                         + B(Owns(p, n)') - B(Owns(p, n))
        BY <1>11, <4>1, <4>2, <4>3
      <4>. QED BY <1>6, <1>7, <4>1, <4>4, LinkKeep, Zenon
    <3>2. dtype'[n] = dtype[n]
      BY <1>11, <2>4, Zenon
    <3>. QED BY <1>2, <2>3, <3>1, <3>2, Zenon DEF LinksOK
  <2>5. CASE n = m
    <3>1. LinkCount(n)
      BY <1>2, <1>5, <2>5, Zenon DEF LinksOK, LinkCount
    <3>2. /\ IsFiniteSet(Named(n)) /\ Cardinality(Named(n)) \in Nat
          /\ Cardinality(Pending(n)) \in Nat
      BY Zenon DEF Counting, Named, Pending
    <3>3. Cardinality(Named(n)) = 0
      BY <1>5, <2>5, <3>1, <3>2 DEF LinkCount
    <3>4. Named(n) = {}
      BY <3>2, <3>3, Zenon DEF Counting
    <3>. QED BY <1>11, <2>3, <2>5, <3>4, Zenon
  <2>. QED BY <2>4, <2>5, Zenon
<1>18. PcOK'
  <2>1. "iput_end" \in Labels
    BY DEF Labels, Locked
  <2>2. ip'[p] # 0
    BY <1>1, <1>2, <1>6, Zenon DEF PcOK
  <2>. QED BY <1>2, <1>6, <1>7, <2>1, <2>2, PcGoto, Zenon
<1>19. LockOK'
  <2>1. pc[p] \in Locked /\ pc'[p] \notin Locked
    BY <1>1, <1>8, Zenon DEF Locked
  <2>. QED BY <1>2, <1>3, <1>6, <1>7, <2>1, LockDrop, Zenon
<1>20. RefOK'
  <2>1. \A t \in Slots :
          ref'[t] = ref[t] + B(open'[p] = t) - B(open[p] = t)
                     + B(ip'[p] = t /\ ~Reading(p)') - B(ip[p] = t /\ ~Reading(p))
    BY <1>2, <1>6, <1>9 DEF TypeOK, B
  <2>. QED BY <1>2, <1>7, <2>1, RefKeep, Zenon
<1>21. UseOK'
  <2>1. ASSUME NEW q \in Procs, q # p PROVE Uses(q)'
    <3>1. pc'[q] = pc[q] /\ ip'[q] = ip[q] /\ Uses(q)
      BY <1>2, <1>7, <2>1, Zenon DEF Others, UseOK
    <3>2. CASE pc[q] = "idle"
      BY <3>1, <3>2, Zenon DEF Uses, Locked
    <3>3. CASE pc[q] # "idle"
      <4>1. ip[q] \in Slots /\ ref[ip[q]] > 0 /\ ip[q] # s
        BY <1>2, <1>10, <2>1, <3>3, Held, Zenon
      <4>2. inum[ip[q]] \in Inums /\ inum[ip[q]] # m
        BY <1>12, <4>1, Zenon
      <4>3. valid'[ip[q]] = valid[ip[q]] /\ dtype'[inum[ip[q]]] = dtype[inum[ip[q]]]
        BY <1>2, <1>6, <1>11, <4>1, <4>2, Zenon DEF TypeOK
      <4>. QED BY <1>6, <3>1, <4>3, Zenon DEF Uses
    <3>. QED BY <3>2, <3>3, Zenon
  <2>2. Uses(p)'
    BY <1>8, Zenon DEF Uses, Locked
  <2>. QED BY <2>1, <2>2, Zenon DEF UseOK
<1>22. CreateOK' /\ UnlinkOK'
  <2>1. Away(p)
    BY <1>1, <1>6, <1>11, Zenon DEF Away
  <2>2. Creates(p)' /\ Unlinks(p)'
    BY <1>8, Zenon DEF Creates, Unlinks, Within
  <2>. QED BY <1>2, <1>7, <2>1, <2>2, DirKeep, Zenon
<1>23. panicked' = "no"
  BY <1>1, <1>6, Zenon
<1>. QED
  BY <1>13, <1>14, <1>15, <1>16, <1>17, <1>18, <1>19, <1>20, <1>21, <1>22, <1>23, Fold, Zenon

-----------------------------------------------------------------------------
(* open and close *)

\* The inode of an open() is locked, and becomes an open file.
LEMMA OpenedKept ==
  ASSUME Counting, Inv, NEW p \in Procs, At(p, "opened"),
         ilocked' = [ilocked EXCEPT ![ip[p]] = Nobody],
         open[p] = 0, open' = [open EXCEPT ![p] = ip[p]], Done(p),
         UNCHANGED <<dtype, dlink, dir, inum, ref, valid, mtype, nlink, panicked>>
  PROVE  Inv'
<1>. DEFINE s == ip[p]
<1>1. panicked = "no" /\ pc[p] = "opened"
  BY Zenon DEF At
<1>2. /\ TypeOK /\ OpenOK /\ LinksOK
      /\ PcOK /\ LockOK /\ RefOK /\ InumOK /\ Unique /\ CacheOK /\ UseOK
      /\ CreateOK /\ UnlinkOK
  BY <1>1, Unfold, Zenon
<1>3. s \in Slots /\ ref[s] > 0 /\ inum[s] \in Inums
  BY <1>1, <1>2, Held, Zenon
<1>4. dtype[inum[s]]
  BY <1>1, <1>2, Zenon DEF UseOK, Uses
<1>5. /\ pc' = [pc EXCEPT ![p] = "idle"] /\ then' = then
      /\ ip' = [ip EXCEPT ![p] = 0] /\ name' = [name EXCEPT ![p] = NoName]
      /\ dlock' = IF dlock = p THEN Nobody ELSE dlock
  BY Zenon DEF Done, Goto
<1>7. Others(p)
  BY <1>2, <1>5 DEF Others, PcOK, TypeOK
<1>8. pc'[p] = "idle" /\ ip'[p] = 0 /\ open'[p] = s
  BY <1>2, <1>5, Zenon DEF PcOK, TypeOK
<1>9. ~Reading(p)' /\ ~Reading(p) /\ ~Counted(p)' /\ ~Counted(p)
  BY <1>1, <1>8, Zenon DEF Reading, Counted, Within
<1>10. Quiet(p)
  <2>1. Away(p)
    BY <1>1, <1>5, <1>8, Zenon DEF Away
  <2>2. ilocked' \in [Slots -> Procs \cup {Nobody}]
    BY <1>2, Zenon DEF TypeOK
  <2>3. \A n \in Inums : Owns(p, n)' <=> Owns(p, n)
    BY ONLY <1>9, Zenon DEF Owns
  <2>4. \A t \in Slots : B(open[p] = t) + B(ip[p] = t /\ ~Reading(p))
                        = B(open'[p] = t) + B(ip'[p] = t /\ ~Reading(p)')
    <3>1. open[p] = 0 /\ 0 \notin Slots
      BY DEF Slots
    <3>2. ASSUME NEW t \in Slots
          PROVE  /\ B(open[p] = t) = 0 /\ B(ip[p] = t /\ ~Reading(p)) = B(s = t)
                 /\ B(open'[p] = t) = B(s = t) /\ B(ip'[p] = t /\ ~Reading(p)') = 0
      <4>1. /\ ~(open[p] = t) /\ ((ip[p] = t /\ ~Reading(p)) <=> s = t)
            /\ (open'[p] = t <=> s = t) /\ ~(ip'[p] = t /\ ~Reading(p)')
        BY <1>8, <1>9, <3>1, Zenon
      <4>. QED BY <4>1, Zenon DEF B
    <3>3. ASSUME NEW t \in Slots
          PROVE  B(open[p] = t) + B(ip[p] = t /\ ~Reading(p))
                   = B(open'[p] = t) + B(ip'[p] = t /\ ~Reading(p)')
      <4>1. B(s = t) \in Nat
        BY ONLY TRUE DEF B
      <4>2. PICK k \in Nat : k = B(s = t)
        BY <4>1, Zenon
      <4>3. 0 + k = k + 0
        BY ONLY k \in Nat
      <4>. QED BY <3>2, <4>2, <4>3, Zenon
    <3>. QED BY <3>3, Zenon
  <2>5. 0 \in 0 .. NINODE
    BY InodeAssumption
  <2>6. /\ ip' \in [Procs -> 0 .. NINODE] /\ name' \in [Procs -> Names \cup {NoName}]
        /\ open' \in [Procs -> 0 .. NINODE]
    BY <1>2, <1>5, <2>5, Zenon DEF TypeOK
  <2>7. dlock' \in Procs \cup {Nobody}
    BY <1>2, <1>5, Zenon DEF TypeOK
  <2>. QED BY <1>7, <2>1, <2>2, <2>3, <2>4, <2>6, <2>7, Zenon DEF Quiet, Steady
<1>11. PcOK'
  <2>1. "idle" \in Labels
    BY DEF Labels, Locked
  <2>2. ip'[p] = 0
    BY <1>8, Zenon
  <2>. QED BY <1>2, <1>5, <1>7, <1>8, <2>1, <2>2, PcGoto, Zenon
<1>12. LockOK'
  <2>1. pc[p] \in Locked /\ pc'[p] \notin Locked
    BY <1>1, <1>8, Zenon DEF Locked
  <2>. QED BY <1>2, <1>3, <1>7, <2>1, LockDrop, Zenon
<1>13. Uses(p)'
  BY <1>8, Zenon DEF Uses, Locked
<1>14. Creates(p)' /\ Unlinks(p)'
  BY <1>8, Zenon DEF Creates, Unlinks, Within
<1>. QED BY <1>1, <1>4, <1>8, <1>10, <1>11, <1>12, <1>13, <1>14, QuietStep, Zenon

\* ... or is dropped.
LEMMA OpenedDropped ==
  ASSUME Counting, Inv, NEW p \in Procs, At(p, "opened"),
         ilocked' = [ilocked EXCEPT ![ip[p]] = Nobody], Goto(p, "iput"),
         UNCHANGED <<dtype, dlink, dir, inum, ref, valid, mtype, nlink, panicked>>,
         UNCHANGED <<open, ip, name, dlock>>
  PROVE  Inv'
<1>. DEFINE s == ip[p]
<1>1. panicked = "no" /\ pc[p] = "opened"
  BY Zenon DEF At
<1>2. /\ TypeOK /\ OpenOK /\ LinksOK
      /\ PcOK /\ LockOK /\ RefOK /\ InumOK /\ Unique /\ CacheOK /\ UseOK
      /\ CreateOK /\ UnlinkOK
  BY <1>1, Unfold, Zenon
<1>3. s \in Slots
  BY <1>1, <1>2, Held, Zenon
<1>4. dtype[inum[s]]
  BY <1>1, <1>2, Zenon DEF UseOK, Uses
<1>5. pc' = [pc EXCEPT ![p] = "iput"] /\ then' = then
  BY Zenon DEF Goto
<1>7. Others(p)
  BY <1>2, <1>5 DEF Others, PcOK, TypeOK
<1>8. pc'[p] = "iput"
  BY <1>2, <1>5, Zenon DEF PcOK
<1>9. ~Reading(p)' /\ ~Reading(p) /\ ~Counted(p)' /\ ~Counted(p)
  BY <1>1, <1>8, Zenon DEF Reading, Counted, Within
<1>10. Quiet(p)
  <2>1. Away(p)
    BY <1>1, <1>5, <1>8, Zenon DEF Away
  <2>2. ilocked' \in [Slots -> Procs \cup {Nobody}]
    BY <1>2, Zenon DEF TypeOK
  <2>3. \A n \in Inums : Owns(p, n)' <=> Owns(p, n)
    BY ONLY <1>9, Zenon DEF Owns
  <2>4. \A t \in Slots : B(open[p] = t) + B(ip[p] = t /\ ~Reading(p))
                        = B(open'[p] = t) + B(ip'[p] = t /\ ~Reading(p)')
    BY <1>9 DEF B
  <2>. QED BY <1>2, <1>7, <2>1, <2>2, <2>3, <2>4, Zenon DEF Quiet, Steady, TypeOK
<1>11. PcOK'
  <2>1. "iput" \in Labels
    BY DEF Labels, Locked
  <2>2. ip'[p] # 0
    BY <1>1, <1>2, Zenon DEF PcOK
  <2>. QED BY <1>2, <1>5, <1>7, <2>1, <2>2, PcGoto, Zenon
<1>12. LockOK'
  <2>1. pc[p] \in Locked /\ pc'[p] \notin Locked
    BY <1>1, <1>8, Zenon DEF Locked
  <2>. QED BY <1>2, <1>3, <1>7, <2>1, LockDrop, Zenon
<1>13. Uses(p)'
  BY <1>4, <1>8, Zenon DEF Uses, Locked
<1>14. Creates(p)' /\ Unlinks(p)'
  BY <1>8, Zenon DEF Creates, Unlinks, Within
<1>15. open'[p] # 0 => dtype[inum[open'[p]]]
  BY <1>2, Zenon DEF OpenOK
<1>. QED BY <1>1, <1>10, <1>11, <1>12, <1>13, <1>14, <1>15, QuietStep, Zenon

\* opened()
LEMMA OpenedStep ==
  ASSUME Counting, Inv, NEW p \in Procs, opened(p)
  PROVE  Inv'
BY OpenedKept, OpenedDropped, Zenon DEF opened, diskVars

\* close()
LEMMA CloseStep ==
  ASSUME Counting, Inv, NEW p \in Procs, close(p)
  PROVE  Inv'
<1>. DEFINE s == open[p]
<1>1. panicked = "no" /\ pc[p] = "idle" /\ s # 0
  BY Zenon DEF close, begin_op, At
<1>2. /\ TypeOK /\ OpenOK /\ LinksOK
      /\ PcOK /\ LockOK /\ RefOK /\ InumOK /\ Unique /\ CacheOK /\ UseOK
      /\ CreateOK /\ UnlinkOK
  BY <1>1, Unfold, Zenon
<1>4. dtype[inum[s]] /\ ip[p] = 0
  BY <1>1, <1>2, Zenon DEF OpenOK, PcOK
<1>5. /\ pc' = [pc EXCEPT ![p] = "iput"] /\ then' = then
      /\ ip' = [ip EXCEPT ![p] = s] /\ open' = [open EXCEPT ![p] = 0]
      /\ UNCHANGED <<dtype, dlink, dir, dlock, inum, ref, name>>
      /\ UNCHANGED <<mtype, nlink, valid, panicked, ilocked>>
  BY Zenon DEF close, Goto, diskVars, memVars
<1>7. Others(p)
  BY <1>2, <1>5 DEF Others, PcOK, TypeOK
<1>8. pc'[p] = "iput" /\ ip'[p] = s /\ open'[p] = 0
  BY <1>2, <1>5, Zenon DEF PcOK, TypeOK
<1>9. ~Reading(p)' /\ ~Reading(p) /\ ~Counted(p)' /\ ~Counted(p)
  BY <1>1, <1>8, Zenon DEF Reading, Counted, Within
<1>10. Quiet(p)
  <2>1. Away(p)
    BY <1>1, <1>5, <1>8, Zenon DEF Away
  <2>3. \A n \in Inums : Owns(p, n)' <=> Owns(p, n)
    BY ONLY <1>9, Zenon DEF Owns
  <2>4. \A t \in Slots : B(open[p] = t) + B(ip[p] = t /\ ~Reading(p))
                        = B(open'[p] = t) + B(ip'[p] = t /\ ~Reading(p)')
    <3>. SUFFICES ASSUME NEW t \in Slots
         PROVE  B(open[p] = t) + B(ip[p] = t /\ ~Reading(p))
                  = B(open'[p] = t) + B(ip'[p] = t /\ ~Reading(p)')
      BY Zenon
    <3>1. t # 0
      BY DEF Slots
    <3>2. B(ip[p] = t /\ ~Reading(p)) = 0 /\ B(open'[p] = t) = 0
      BY <1>4, <1>8, <3>1, Zenon DEF B
    <3>3. B(ip'[p] = t /\ ~Reading(p)') = B(open[p] = t)
      BY <1>8, <1>9, Zenon DEF B
    <3>4. B(open[p] = t) \in Nat
      BY ONLY TRUE DEF B
    <3>5. PICK x \in Nat : x = B(open[p] = t)
      BY ONLY <3>4, Zenon
    <3>6. x + 0 = 0 + x
      BY ONLY x \in Nat
    <3>. QED BY ONLY <3>2, <3>3, <3>5, <3>6, Zenon
  <2>5. 0 \in 0 .. NINODE
    BY InodeAssumption
  <2>6. s \in 0 .. NINODE
    BY <1>2, Zenon DEF TypeOK
  <2>7. ip' \in [Procs -> 0 .. NINODE] /\ open' \in [Procs -> 0 .. NINODE]
    BY <1>2, <1>5, <2>5, <2>6, Zenon DEF TypeOK
  <2>. QED BY <1>2, <1>5, <1>7, <1>8, <2>1, <2>3, <2>4, <2>5, <2>6, <2>7, Zenon
           DEF Quiet, Steady, TypeOK
<1>11. PcOK'
  <2>1. "iput" \in Labels
    BY DEF Labels, Locked
  <2>2. ip'[p] # 0
    BY <1>1, <1>8, Zenon
  <2>. QED BY <1>2, <1>5, <1>7, <1>8, <2>1, <2>2, PcGoto, Zenon
<1>12. LockOK'
  <2>1. pc[p] \notin Locked /\ pc'[p] \notin Locked
    BY <1>1, <1>8, Zenon DEF Locked
  <2>. QED BY <1>2, <1>5, <1>7, <2>1, LockStay, Zenon
<1>13. Uses(p)'
  BY <1>4, <1>5, <1>8, Zenon DEF Uses, Locked
<1>14. Creates(p)' /\ Unlinks(p)'
  BY <1>8, Zenon DEF Creates, Unlinks, Within
<1>. QED BY <1>1, <1>8, <1>10, <1>11, <1>12, <1>13, <1>14, QuietStep, Zenon

\* fileread() takes the inode of the open file ...
LEMMA FilereadStep ==
  ASSUME Counting, Inv, NEW p \in Procs, fileread(p)
  PROVE  Inv'
<1>. DEFINE s == open[p]
<1>1. panicked = "no" /\ pc[p] = "idle" /\ s # 0
  BY Zenon DEF fileread, At
<1>2. /\ TypeOK /\ OpenOK /\ LinksOK
      /\ PcOK /\ LockOK /\ RefOK /\ InumOK /\ Unique /\ CacheOK /\ UseOK
      /\ CreateOK /\ UnlinkOK
  BY <1>1, Unfold, Zenon
<1>4. dtype[inum[s]] /\ ip[p] = 0
  BY <1>1, <1>2, Zenon DEF OpenOK, PcOK
<1>5. /\ pc' = [pc EXCEPT ![p] = "ilock"] /\ then' = [then EXCEPT ![p] = "read_done"]
      /\ ip' = [ip EXCEPT ![p] = s]
      /\ UNCHANGED <<dtype, dlink, dir, dlock, inum, ref, name, open>>
      /\ UNCHANGED <<mtype, nlink, valid, panicked, ilocked>>
  BY Zenon DEF fileread, CallIlock, diskVars, memVars
<1>7. Others(p)
  BY <1>2, <1>5 DEF Others, PcOK, TypeOK
<1>8. pc'[p] = "ilock" /\ then'[p] = "read_done" /\ ip'[p] = s
  BY <1>2, <1>5, Zenon DEF PcOK, TypeOK
<1>9. Reading(p)' /\ ~Counted(p)' /\ ~Counted(p)
  BY <1>1, <1>8, Zenon DEF Reading, Counted, Within
<1>10. Quiet(p)
  <2>1. Away(p)
    BY <1>1, <1>5, <1>8, Zenon DEF Away
  <2>3. \A n \in Inums : Owns(p, n)' <=> Owns(p, n)
    BY ONLY <1>9, Zenon DEF Owns
  <2>4. \A t \in Slots : B(open[p] = t) + B(ip[p] = t /\ ~Reading(p))
                        = B(open'[p] = t) + B(ip'[p] = t /\ ~Reading(p)')
    <3>. SUFFICES ASSUME NEW t \in Slots
         PROVE  B(open[p] = t) + B(ip[p] = t /\ ~Reading(p))
                  = B(open'[p] = t) + B(ip'[p] = t /\ ~Reading(p)')
      BY Zenon
    <3>1. t # 0
      BY DEF Slots
    <3>2. B(ip[p] = t /\ ~Reading(p)) = 0 /\ B(ip'[p] = t /\ ~Reading(p)') = 0
      BY <1>4, <1>9, <3>1, Zenon DEF B
    <3>3. B(open'[p] = t) = B(open[p] = t)
      BY <1>5, Zenon DEF B
    <3>. QED BY ONLY <3>2, <3>3, Zenon
  <2>7. ip' \in [Procs -> 0 .. NINODE]
    BY <1>2, <1>5, Zenon DEF TypeOK
  <2>. QED BY <1>2, <1>5, <1>7, <2>1, <2>3, <2>4, <2>7, Zenon DEF Quiet, Steady, TypeOK
<1>11. PcOK'
  <2>1. "ilock" \in Labels /\ "read_done" \in Returns
    BY DEF Labels, Locked, Returns
  <2>2. pc' \in [Procs -> Labels] /\ then' \in [Procs -> Returns \cup {"idle"}]
    BY <1>2, <1>5, <2>1, Zenon DEF PcOK
  <2>. QED BY <1>1, <1>2, <1>5, <1>7, <1>8, <2>1, <2>2, PcKeep, Zenon
<1>12. LockOK'
  <2>1. pc[p] \notin Locked /\ pc'[p] \notin Locked
    BY <1>1, <1>8, Zenon DEF Locked
  <2>. QED BY <1>2, <1>5, <1>7, <2>1, LockStay, Zenon
<1>13. Uses(p)'
  BY <1>4, <1>5, <1>8, Zenon DEF Uses, Locked
<1>14. Creates(p)' /\ Unlinks(p)'
  BY <1>8, Zenon DEF Creates, Unlinks, Within
<1>15. open'[p] # 0 => dtype[inum[open'[p]]]
  BY <1>2, <1>5, Zenon DEF OpenOK
<1>. QED BY <1>1, <1>10, <1>11, <1>12, <1>13, <1>14, <1>15, QuietStep, Zenon

\* ... and lets it go.
LEMMA ReadDoneStep ==
  ASSUME Counting, Inv, NEW p \in Procs, read_done(p)
  PROVE  Inv'
<1>. DEFINE s == ip[p]
<1>1. panicked = "no" /\ pc[p] = "read_done"
  BY Zenon DEF read_done, At
<1>2. /\ TypeOK /\ OpenOK /\ LinksOK
      /\ PcOK /\ LockOK /\ RefOK /\ InumOK /\ Unique /\ CacheOK /\ UseOK
      /\ CreateOK /\ UnlinkOK
  BY <1>1, Unfold, Zenon
<1>3. s \in Slots
  BY <1>1, <1>2, Held, Zenon
<1>5. /\ pc' = [pc EXCEPT ![p] = "idle"] /\ then' = then
      /\ ip' = [ip EXCEPT ![p] = 0] /\ name' = [name EXCEPT ![p] = NoName]
      /\ dlock' = IF dlock = p THEN Nobody ELSE dlock
      /\ ilocked' = [ilocked EXCEPT ![s] = Nobody]
      /\ UNCHANGED <<dtype, dlink, dir, inum, ref, open>>
      /\ UNCHANGED <<mtype, nlink, valid, panicked>>
  BY Zenon DEF read_done, Done, Goto, diskVars
<1>7. Others(p)
  BY <1>2, <1>5 DEF Others, PcOK, TypeOK
<1>8. pc'[p] = "idle" /\ ip'[p] = 0
  BY <1>2, <1>5, Zenon DEF PcOK, TypeOK
<1>9. ~Reading(p)' /\ Reading(p) /\ ~Counted(p)' /\ ~Counted(p)
  BY <1>1, <1>8, Zenon DEF Reading, Counted, Within
<1>10. Quiet(p)
  <2>1. Away(p)
    BY <1>1, <1>5, <1>8, Zenon DEF Away
  <2>2. ilocked' \in [Slots -> Procs \cup {Nobody}]
    BY <1>2, <1>5, Zenon DEF TypeOK
  <2>3. \A n \in Inums : Owns(p, n)' <=> Owns(p, n)
    BY ONLY <1>9, Zenon DEF Owns
  <2>4. \A t \in Slots : B(open[p] = t) + B(ip[p] = t /\ ~Reading(p))
                        = B(open'[p] = t) + B(ip'[p] = t /\ ~Reading(p)')
    BY <1>5, <1>8, <1>9 DEF B, Slots
  <2>5. 0 \in 0 .. NINODE
    BY InodeAssumption
  <2>6. /\ ip' \in [Procs -> 0 .. NINODE] /\ name' \in [Procs -> Names \cup {NoName}]
    BY <1>2, <1>5, <2>5, Zenon DEF TypeOK
  <2>7. dlock' \in Procs \cup {Nobody} /\ open' \in [Procs -> 0 .. NINODE]
    BY <1>2, <1>5, Zenon DEF TypeOK
  <2>. QED BY <1>5, <1>7, <2>1, <2>2, <2>3, <2>4, <2>6, <2>7, Zenon DEF Quiet, Steady
<1>11. PcOK'
  <2>1. "idle" \in Labels
    BY DEF Labels, Locked
  <2>. QED BY <1>2, <1>5, <1>7, <1>8, <2>1, PcGoto, Zenon
<1>12. LockOK'
  <2>1. pc[p] \in Locked /\ pc'[p] \notin Locked
    BY <1>1, <1>8, Zenon DEF Locked
  <2>. QED BY <1>2, <1>3, <1>5, <1>7, <2>1, LockDrop, Zenon
<1>13. Uses(p)'
  BY <1>8, Zenon DEF Uses, Locked
<1>14. Creates(p)' /\ Unlinks(p)'
  BY <1>8, Zenon DEF Creates, Unlinks, Within
<1>15. open'[p] # 0 => dtype[inum[open'[p]]]
  BY <1>2, <1>5, Zenon DEF OpenOK
<1>. QED BY <1>1, <1>10, <1>11, <1>12, <1>13, <1>14, <1>15, QuietStep, Zenon

-----------------------------------------------------------------------------
(* create, unlink and link *)

\* create() and unlink() of the others, if p has the directory to itself.
LEMMA DirAlone ==
  ASSUME NEW p \in Procs, Others(p), CreateOK, UnlinkOK, dlock \in {p, Nobody},
         Creates(p)', Unlinks(p)'
  PROVE  CreateOK' /\ UnlinkOK'
<1>. SUFFICES ASSUME NEW q \in Procs, q # p PROVE Creates(q)' /\ Unlinks(q)'
  BY Zenon DEF CreateOK, UnlinkOK
<1>1. pc'[q] = pc[q] /\ then'[q] = then[q]
  BY Zenon DEF Others
<1>2. dlock # q
  BY InodeAssumption, Zenon
<1>3. ~Within(q, "create_link") /\ ~Within(q, "unlink_entry")
  BY <1>2, Zenon DEF CreateOK, UnlinkOK, Creates, Unlinks
<1>4. ~Within(q, "create_link")' /\ ~Within(q, "unlink_entry")'
  BY <1>1, <1>3, Zenon DEF Within
<1>. QED BY <1>4, Zenon DEF Creates, Unlinks

\* A new link count goes to the entry and to the disk.
LEMMA SetLinksEffect ==
  ASSUME TypeOK, InumOK, Unique, CacheOK, NEW s \in Slots, ref[s] > 0, valid[s],
         NEW k \in Nat, SetLinks(s, k), UNCHANGED <<inum, ref, valid, mtype>>
  PROVE  /\ dtype' = dtype /\ dlink' \in [Inums -> Nat] /\ nlink' \in [Slots -> Nat]
         /\ dlink'[inum[s]] = k /\ \A n \in Inums : n # inum[s] => dlink'[n] = dlink[n]
         /\ \A t \in Slots : t # s => nlink'[t] = nlink[t]
         /\ CacheOK'
<1>1. inum[s] \in Inums /\ dtype[inum[s]] /\ mtype[s]
  BY Zenon DEF InumOK, CacheOK
<1>2. dtype' = dtype
  BY <1>1 DEF SetLinks, TypeOK
<1>3. dlink' \in [Inums -> Nat] /\ nlink' \in [Slots -> Nat]
  BY <1>1, Zenon DEF SetLinks, TypeOK
<1>4. dlink'[inum[s]] = k /\ \A n \in Inums : n # inum[s] => dlink'[n] = dlink[n]
  BY <1>1, Zenon DEF SetLinks, TypeOK
<1>5. nlink'[s] = k /\ \A t \in Slots : t # s => nlink'[t] = nlink[t]
  BY Zenon DEF SetLinks, TypeOK
<1>6. ASSUME NEW t \in Slots, ref[t] > 0, valid[t]
      PROVE  dtype[inum[t]] /\ mtype[t] /\ nlink'[t] = dlink'[inum[t]]
  <2>1. dtype[inum[t]] /\ mtype[t] /\ nlink[t] = dlink[inum[t]] /\ inum[t] \in Inums
    BY <1>6, Zenon DEF CacheOK, InumOK
  <2>2. t # s => inum[t] # inum[s]
    BY <1>6, Zenon DEF Unique
  <2>. QED BY <1>4, <1>5, <2>1, <2>2, Zenon
<1>7. CacheOK'
  BY <1>2, <1>6, Zenon DEF CacheOK
<1>. QED BY <1>2, <1>3, <1>4, <1>5, <1>7, Zenon

\* The link count of p's inode n changes with its entry x and with what p has counted.
Relinks(p, x, n) ==
  /\ \A y \in Names : y # x => dir'[y] = dir[y]
  /\ \A k \in Inums : k # n => dlink'[k] = dlink[k] /\ (Names1(x, k)' <=> Names1(x, k))
  /\ dlink'[n] = dlink[n] + B(Names1(x, n)') - B(Names1(x, n))
                 + B(Counted(p)') - B(Counted(p))

\* A step of create(), unlink() or link() from p's inode to l.
LEMMA LinkStep ==
  ASSUME Counting, Inv, panicked = "no", NEW p \in Procs,
         pc[p] \in {"create_link", "unlink_entry", "drop_link", "add_link", "link_entry"},
         UNCHANGED <<dtype, inum, ref, valid, mtype, ip, name, open, panicked>>,
         dlink' \in [Inums -> Nat], nlink' \in [Slots -> Nat],
         dir' \in [Names -> 0 .. NInum], dlock' \in Procs \cup {Nobody},
         NEW x, NEW m, m = inum[ip[p]], Relinks(p, x, m),
         \A t \in Slots : t # ip[p] => nlink'[t] = nlink[t],
         pc[p] \in Locked \/ nlink' = nlink,
         NEW l \in {"opened", "iput", "link_entry", "drop_link"},
         pc' = [pc EXCEPT ![p] = l], then' = then, l \in Locked => pc[p] \in Locked,
         \/ ilocked' = ilocked /\ (pc[p] \in Locked <=> l \in Locked)
         \/ /\ ilocked' = [ilocked EXCEPT ![ip[p]] = Nobody]
            /\ pc[p] \in Locked /\ l \notin Locked,
         CacheOK', Others(p) => CreateOK' /\ UnlinkOK'
  PROVE  Inv'
<1>. DEFINE s == ip[p]
<1>2. /\ TypeOK /\ OpenOK /\ LinksOK
      /\ PcOK /\ LockOK /\ RefOK /\ InumOK /\ Unique /\ CacheOK /\ UseOK
      /\ CreateOK /\ UnlinkOK
  BY Unfold, Zenon
<1>1. pc[p] \notin {"idle", "ilock", "iput_end", "read_done"}
  BY Zenon
<1>3. s \in Slots /\ m \in Inums /\ s # 0
  BY <1>1, <1>2, Held, Zenon DEF PcOK
<1>4. dtype[m] /\ (pc[p] \in Locked => valid[s])
  BY <1>1, <1>2, Zenon DEF UseOK, Uses
<1>5. Others(p) /\ SameInums(p)
  BY <1>2, Zenon DEF Others, SameInums, PcOK
<1>6. pc'[p] = l
  BY <1>2, Zenon DEF PcOK
<1>7. l \in Labels /\ l \notin {"idle", "ilock", "iput_end", "read_done", "itrunc"}
  BY Zenon DEF Labels, Locked
<1>8. PcOK'
  BY <1>2, <1>3, <1>5, <1>7, PcGoto, Zenon
<1>9. ~Reading(p) /\ ~Reading(p)'
  BY <1>1, <1>6, <1>7, Zenon DEF Reading
<1>10. LockOK'
  <2>1. CASE ilocked' = ilocked /\ (pc[p] \in Locked <=> l \in Locked)
    BY <1>2, <1>5, <1>6, <2>1, LockStay, Zenon
  <2>2. CASE /\ ilocked' = [ilocked EXCEPT ![s] = Nobody]
             /\ pc[p] \in Locked /\ l \notin Locked
    BY <1>2, <1>3, <1>5, <1>6, <2>2, LockDrop, Zenon
  <2>. QED BY <2>1, <2>2, Zenon
<1>11. Steady(p)
  <2>1. ilocked' \in [Slots -> Procs \cup {Nobody}]
    <3>1. CASE ilocked' = ilocked
      BY <1>2, <3>1, Zenon DEF TypeOK
    <3>2. CASE ilocked' = [ilocked EXCEPT ![s] = Nobody]
      BY <1>2, <3>2, Zenon DEF TypeOK
    <3>. QED BY <3>1, <3>2, Zenon
  <2>2. \A t \in Slots : B(open[p] = t) + B(ip[p] = t /\ ~Reading(p))
                        = B(open'[p] = t) + B(ip'[p] = t /\ ~Reading(p)')
    BY <1>9, Zenon DEF B
  <2>. QED BY <1>2, <1>5, <2>1, <2>2, Zenon DEF Steady, TypeOK
<1>12. LinksOK'
  <2>1. /\ \A n \in Inums : Owns(p, n) <=> n = m /\ Counted(p)
        /\ \A n \in Inums : Owns(p, n)' <=> n = m /\ Counted(p)'
    BY <1>3, Zenon DEF Owns
  <2>2. ASSUME NEW n \in Inums, dtype[n]
        PROVE  dlink'[n] = dlink[n] + B(Names1(x, n)') - B(Names1(x, n))
                           + B(Owns(p, n)') - B(Owns(p, n))
    <3>1. CASE n = m
      <4>1. B(Owns(p, n)') = B(Counted(p)') /\ B(Owns(p, n)) = B(Counted(p))
        BY ONLY n \in Inums, <2>1, <3>1 DEF B
      <4>2. dlink'[m] = dlink[m] + B(Names1(x, m)') - B(Names1(x, m))
                        + B(Counted(p)') - B(Counted(p))
        BY ONLY Relinks(p, x, m), Zenon DEF Relinks
      <4>. QED BY ONLY <3>1, <4>1, <4>2, Zenon
    <3>2. CASE n # m
      <4>1. B(Owns(p, n)') = 0 /\ B(Owns(p, n)) = 0
        BY ONLY n \in Inums, <2>1, <3>2 DEF B
      <4>2. B(Names1(x, n)') = B(Names1(x, n)) /\ B(Names1(x, n)) \in Nat
        BY <3>2, Zenon DEF B, Relinks
      <4>3. dlink'[n] = dlink[n] /\ dlink[n] \in Nat
        BY <1>2, <3>2, Zenon DEF Relinks, TypeOK
      <4>. QED BY ONLY <4>1, <4>2, <4>3
    <3>. QED BY <3>1, <3>2, Zenon
  <2>3. ASSUME NEW n \in Inums, ~dtype[n] PROVE ~Names1(x, n)'
    <3>1. n # m
      BY <1>4, <2>3, Zenon
    <3>2. ~Names1(x, n)
      BY <1>2, <2>3, Zenon DEF LinksOK, Named, Names1
    <3>. QED BY <3>1, <3>2, Zenon DEF Relinks
  <2>4. \A y \in Names : y # x => dir'[y] = dir[y]
    BY Zenon DEF Relinks
  <2>. QED BY <1>2, <1>5, <2>2, <2>3, <2>4, LinksKeep, Zenon
<1>13. Uses(p)'
  BY <1>4, <1>6, <1>7, Zenon DEF Uses
<1>14. ASSUME NEW q \in Procs, q # p, pc[q] = "itrunc", ip[q] \in Slots
       PROVE  nlink'[ip[q]] = nlink[ip[q]]
  <2>1. CASE pc[p] \in Locked
    <3>1. ip[q] # s
      BY ONLY Counting, p \in Procs, q \in Procs, <1>2, <1>3, <1>14, <2>1, Exclusive, Zenon
    <3>. QED BY <1>14, <3>1, Zenon
  <2>. QED BY <2>1, Zenon
<1>15. open'[p] # 0 => dtype[inum[open'[p]]]
  BY <1>2, Zenon DEF OpenOK
<1>16. CreateOK' /\ UnlinkOK'
  BY <1>5, Zenon
<1>. QED
  BY <1>8, <1>10, <1>11, <1>12, <1>13, <1>14, <1>15, <1>16, SteadyStep, Zenon

\* A process at work on the links of its inode has it locked and read in.
LEMMA AtWork ==
  ASSUME Counting, Inv, panicked = "no", NEW p \in Procs,
         pc[p] \in {"create_link", "unlink_entry", "drop_link", "add_link"}
  PROVE  /\ ip[p] \in Slots /\ ref[ip[p]] > 0 /\ valid[ip[p]] /\ pc[p] \in Locked
         /\ inum[ip[p]] \in Inums /\ inum[ip[p]] # 0 /\ ip[p] # 0
         /\ mtype[ip[p]] /\ nlink[ip[p]] = dlink[inum[ip[p]]] /\ nlink[ip[p]] \in Nat
         /\ dtype[inum[ip[p]]] /\ LinkCount(inum[ip[p]])
<1>1. pc[p] \in Locked /\ pc[p] # "idle"
  BY DEF Locked
<1>2. /\ TypeOK /\ LinksOK /\ PcOK /\ RefOK /\ InumOK /\ CacheOK /\ UseOK
  BY Unfold, Zenon
<1>3. ip[p] \in Slots /\ ref[ip[p]] > 0 /\ inum[ip[p]] \in Inums
  BY <1>1, <1>2, Held, Zenon
<1>4. valid[ip[p]]
  BY <1>1, <1>2, Zenon DEF UseOK, Uses
<1>5. /\ mtype[ip[p]] /\ nlink[ip[p]] = dlink[inum[ip[p]]] /\ dtype[inum[ip[p]]]
      /\ nlink[ip[p]] \in Nat
  BY <1>2, <1>3, <1>4, Zenon DEF CacheOK, TypeOK
<1>6. LinkCount(inum[ip[p]])
  BY <1>2, <1>3, <1>5, Zenon DEF LinksOK, LinkCount
<1>7. inum[ip[p]] # 0 /\ ip[p] # 0
  BY <1>3 DEF Inums, Slots
<1>. QED BY <1>1, <1>3, <1>4, <1>5, <1>6, <1>7, Zenon

\* A name or a call in progress is a link.
LEMMA Linked ==
  ASSUME Counting, NEW n, LinkCount(n), dlink[n] \in Nat,
         (\E x \in Names : dir[x] = n) \/ (\E p \in Procs : p \in Pending(n))
  PROVE  dlink[n] > 0
<1>1. /\ IsFiniteSet(Named(n)) /\ IsFiniteSet(Pending(n))
      /\ Cardinality(Named(n)) \in Nat /\ Cardinality(Pending(n)) \in Nat
  BY Zenon DEF Counting, Named, Pending
<1>2. (\E x \in Names : x \in Named(n)) \/ (\E p \in Procs : p \in Pending(n))
  BY Zenon DEF Named
<1>3. Cardinality(Named(n)) > 0 \/ Cardinality(Pending(n)) > 0
  BY <1>1, <1>2, Zenon DEF Counting
<1>. QED BY ONLY <1>1, <1>3, LinkCount(n), dlink[n] \in Nat DEF LinkCount

\* create() writes the link and the entry ...
LEMMA CreateLinked ==
  ASSUME Counting, Inv, NEW p \in Procs, At(p, "create_link"), SetLinks(ip[p], 1),
         dir' = [dir EXCEPT ![name[p]] = inum[ip[p]]], dlock' = Nobody, Goto(p, "opened"),
         ilocked' = ilocked, UNCHANGED <<inum, ref, valid, mtype, ip, name, open, panicked>>
  PROVE  Inv'
<1>1. panicked = "no" /\ pc[p] = "create_link"
  BY Zenon DEF At
<1>2. /\ TypeOK /\ PcOK /\ InumOK /\ Unique /\ CacheOK /\ CreateOK /\ UnlinkOK
  BY <1>1, Unfold, Zenon
<1>3. PICK s : s = ip[p]
  OBVIOUS
<1>4. PICK m : m = inum[s]
  OBVIOUS
<1>5. PICK x : x = name[p]
  OBVIOUS
<1>6. /\ s \in Slots /\ ref[s] > 0 /\ valid[s] /\ pc[p] \in Locked /\ m \in Inums /\ m # 0
  BY <1>1, <1>3, <1>4, AtWork, Zenon
<1>7. dlock = p /\ x \in Names /\ dir[x] = 0 /\ dlink[m] = 0
  BY <1>1, <1>2, <1>3, <1>4, <1>5, Zenon DEF CreateOK, Creates, Within
<1>8. /\ dtype' = dtype /\ dlink' \in [Inums -> Nat] /\ nlink' \in [Slots -> Nat]
      /\ dlink'[m] = 1 /\ \A n \in Inums : n # m => dlink'[n] = dlink[n]
      /\ \A t \in Slots : t # s => nlink'[t] = nlink[t]
      /\ CacheOK'
  <2>1. 1 \in Nat /\ SetLinks(s, 1) /\ UNCHANGED <<inum, ref, valid, mtype>>
    BY <1>3, Zenon
  <2>2. m = inum[s]
    BY <1>4
  <2>. QED BY ONLY <1>2, <1>6, <2>1, <2>2, SetLinksEffect, Zenon
<1>9. dir' \in [Names -> 0 .. NInum] /\ dir'[x] = m
      /\ \A y \in Names : y # x => dir'[y] = dir[y]
  <2>1. m \in 0 .. NInum
    BY <1>6 DEF Inums
  <2>. QED BY <1>2, <1>3, <1>4, <1>5, <1>7, <2>1, Zenon DEF TypeOK
<1>10. pc' = [pc EXCEPT ![p] = "opened"] /\ then' = then /\ pc'[p] = "opened"
  BY <1>2, Zenon DEF Goto, PcOK
<1>11. ~Counted(p) /\ ~Counted(p)'
  BY <1>1, <1>10, Zenon DEF Counted, Within
<1>12. Relinks(p, x, m)
  <2>1. \A k \in Inums : k # m => dlink'[k] = dlink[k] /\ (Names1(x, k)' <=> Names1(x, k))
    <3>1. 0 \notin Inums
      BY DEF Inums
    <3>. QED BY <1>7, <1>8, <1>9, <3>1, Zenon DEF Names1
  <2>2. /\ B(Names1(x, m)') = 1 /\ B(Names1(x, m)) = 0
        /\ B(Counted(p)') = 0 /\ B(Counted(p)) = 0
    BY <1>6, <1>7, <1>9, <1>11, Zenon DEF B, Names1
  <2>3. dlink'[m] = dlink[m] + B(Names1(x, m)') - B(Names1(x, m))
                    + B(Counted(p)') - B(Counted(p))
    BY ONLY <1>7, <1>8, <2>2
  <2>. QED BY <1>9, <2>1, <2>3, Zenon DEF Relinks
<1>13. Others(p) => CreateOK' /\ UnlinkOK'
  <2>1. Creates(p)' /\ Unlinks(p)'
    BY <1>10, Zenon DEF Creates, Unlinks, Within
  <2>. QED BY <1>2, <1>7, <2>1, DirAlone, Zenon
<1>14. "opened" \in Locked
  BY DEF Locked
<1>. QED
  BY <1>1, <1>3, <1>4, <1>6, <1>8, <1>9, <1>10, <1>12, <1>13, <1>14, LinkStep, Zenon

\* ... or fails, and drops the inode.
LEMMA CreateFails ==
  ASSUME Counting, Inv, NEW p \in Procs, At(p, "create_link"), SetLinks(ip[p], 0),
         UNCHANGED <<dir, dlock>>, ilocked' = [ilocked EXCEPT ![ip[p]] = Nobody],
         Goto(p, "iput"), UNCHANGED <<inum, ref, valid, mtype, ip, name, open, panicked>>
  PROVE  Inv'
<1>1. panicked = "no" /\ pc[p] = "create_link"
  BY Zenon DEF At
<1>2. /\ TypeOK /\ PcOK /\ InumOK /\ Unique /\ CacheOK /\ CreateOK /\ UnlinkOK
  BY <1>1, Unfold, Zenon
<1>3. PICK s : s = ip[p]
  OBVIOUS
<1>4. PICK m : m = inum[s]
  OBVIOUS
<1>6. /\ s \in Slots /\ ref[s] > 0 /\ valid[s] /\ pc[p] \in Locked /\ m \in Inums /\ m # 0
  BY <1>1, <1>3, <1>4, AtWork, Zenon
<1>7. dlock = p /\ dlink[m] = 0
  BY <1>1, <1>2, <1>3, <1>4, Zenon DEF CreateOK, Creates, Within
<1>8. /\ dtype' = dtype /\ dlink' \in [Inums -> Nat] /\ nlink' \in [Slots -> Nat]
      /\ dlink'[m] = 0 /\ \A n \in Inums : n # m => dlink'[n] = dlink[n]
      /\ \A t \in Slots : t # s => nlink'[t] = nlink[t]
      /\ CacheOK'
  <2>1. 0 \in Nat /\ SetLinks(s, 0) /\ UNCHANGED <<inum, ref, valid, mtype>>
    BY <1>3
  <2>2. m = inum[s]
    BY <1>4
  <2>. QED BY ONLY <1>2, <1>6, <2>1, <2>2, SetLinksEffect, Zenon
<1>9. dir' \in [Names -> 0 .. NInum] /\ dlock' \in Procs \cup {Nobody}
  BY <1>2, Zenon DEF TypeOK
<1>10. pc' = [pc EXCEPT ![p] = "iput"] /\ then' = then /\ pc'[p] = "iput"
  BY <1>2, Zenon DEF Goto, PcOK
<1>11. ~Counted(p) /\ ~Counted(p)'
  BY <1>1, <1>10, Zenon DEF Counted, Within
<1>12. Relinks(p, p, m)
  <2>1. \A k \in Inums : k # m => dlink'[k] = dlink[k] /\ (Names1(p, k)' <=> Names1(p, k))
    BY <1>8, Zenon DEF Names1
  <2>2. /\ B(Names1(p, m)') = B(Names1(p, m)) /\ B(Names1(p, m)) \in Nat
        /\ B(Counted(p)') = 0 /\ B(Counted(p)) = 0
    BY <1>11 DEF B, Names1
  <2>3. dlink'[m] = dlink[m] + B(Names1(p, m)') - B(Names1(p, m))
                    + B(Counted(p)') - B(Counted(p))
    BY ONLY <1>7, <1>8, <2>2
  <2>. QED BY <2>1, <2>3, Zenon DEF Relinks
<1>13. Others(p) => CreateOK' /\ UnlinkOK'
  <2>1. Creates(p)' /\ Unlinks(p)'
    BY <1>10, Zenon DEF Creates, Unlinks, Within
  <2>. QED BY <1>2, <1>7, <2>1, DirAlone, Zenon
<1>14. "iput" \notin Locked
  BY DEF Locked
<1>. QED
  BY <1>1, <1>3, <1>4, <1>6, <1>8, <1>9, <1>10, <1>12, <1>13, <1>14, LinkStep, Zenon

\* create_link()
LEMMA CreateLinkStep ==
  ASSUME Counting, Inv, NEW p \in Procs, create_link(p)
  PROVE  Inv'
BY CreateLinked, CreateFails, Zenon DEF create_link

\* unlink() finds a link to drop, and clears the entry.
LEMMA UnlinkEntryStep ==
  ASSUME Counting, Inv, NEW p \in Procs, unlink_entry(p)
  PROVE  Inv'
<1>1. panicked = "no" /\ pc[p] = "unlink_entry"
  BY Zenon DEF unlink_entry, At
<1>2. /\ TypeOK /\ PcOK /\ InumOK /\ Unique /\ CacheOK /\ CreateOK /\ UnlinkOK
  BY <1>1, Unfold, Zenon
<1>3. PICK s : s = ip[p]
  OBVIOUS
<1>4. PICK m : m = inum[s]
  OBVIOUS
<1>5. PICK x : x = name[p]
  OBVIOUS
<1>6. /\ s \in Slots /\ pc[p] \in Locked /\ m \in Inums /\ m # 0 /\ LinkCount(m)
      /\ nlink[s] = dlink[m] /\ nlink[s] \in Nat
  BY <1>1, <1>3, <1>4, AtWork, Zenon
<1>7. dlock = p /\ x \in Names /\ dir[x] = m
  BY <1>1, <1>2, <1>3, <1>4, <1>5, Zenon DEF UnlinkOK, Unlinks, Within
<1>8. ~(nlink[ip[p]] < 1)
  <2>1. dlink[m] > 0
    BY <1>6, <1>7, Linked, Zenon
  <2>. QED BY ONLY <1>3, <1>6, <2>1
<1>9. /\ dir' = [dir EXCEPT ![x] = 0] /\ dlock' = Nobody
      /\ pc' = [pc EXCEPT ![p] = "drop_link"] /\ then' = then /\ panicked' = panicked
      /\ UNCHANGED <<dtype, dlink, inum, ref, valid, ilocked, mtype, nlink, ip, name, open>>
  BY <1>5, <1>8, Zenon DEF unlink_entry, Goto, diskVars, memVars
<1>10. pc'[p] = "drop_link"
  BY <1>2, <1>9, Zenon DEF PcOK
<1>11. ~Counted(p) /\ Counted(p)'
  BY <1>1, <1>10, Zenon DEF Counted, Within
<1>12. /\ dir' \in [Names -> 0 .. NInum] /\ dir'[x] = 0
       /\ \A y \in Names : y # x => dir'[y] = dir[y]
  <2>1. 0 \in 0 .. NInum
    BY InodeAssumption
  <2>. QED BY <1>2, <1>7, <1>9, <2>1, Zenon DEF TypeOK
<1>13. Relinks(p, x, m)
  <2>1. \A k \in Inums : k # m => dlink'[k] = dlink[k] /\ (Names1(x, k)' <=> Names1(x, k))
    BY <1>7, <1>9, <1>12 DEF Names1, Inums
  <2>2. /\ B(Names1(x, m)') = 0 /\ B(Names1(x, m)) = 1
        /\ B(Counted(p)') = 1 /\ B(Counted(p)) = 0
    BY <1>6, <1>7, <1>11, <1>12 DEF B, Names1
  <2>3. dlink'[m] = dlink[m] + B(Names1(x, m)') - B(Names1(x, m))
                    + B(Counted(p)') - B(Counted(p))
    BY ONLY <1>6, <1>9, <2>2
  <2>. QED BY <1>12, <2>1, <2>3, Zenon DEF Relinks
<1>14. Others(p) => CreateOK' /\ UnlinkOK'
  <2>1. Creates(p)' /\ Unlinks(p)'
    BY <1>10, Zenon DEF Creates, Unlinks, Within
  <2>. QED BY <1>2, <1>7, <2>1, DirAlone, Zenon
<1>15. /\ dlink' \in [Inums -> Nat] /\ nlink' \in [Slots -> Nat] /\ CacheOK'
       /\ dlock' \in Procs \cup {Nobody}
  BY <1>2, <1>9, Zenon DEF TypeOK, CacheOK
<1>16. "drop_link" \in Locked
  BY DEF Locked
<1>. QED
  BY <1>1, <1>3, <1>4, <1>6, <1>9, <1>12, <1>13, <1>14, <1>15, <1>16, LinkStep, Zenon

\* The count of a link that is gone is dropped ...
LEMMA DropLinkStep ==
  ASSUME Counting, Inv, NEW p \in Procs, drop_link(p)
  PROVE  Inv'
<1>1. panicked = "no" /\ pc[p] = "drop_link"
  BY Zenon DEF drop_link, At
<1>2. /\ TypeOK /\ PcOK /\ RefOK /\ InumOK /\ Unique /\ CacheOK /\ CreateOK /\ UnlinkOK
  BY <1>1, Unfold, Zenon
<1>3. PICK s : s = ip[p]
  OBVIOUS
<1>4. PICK m : m = inum[s]
  OBVIOUS
<1>5. PICK k : k = nlink[s] - 1
  OBVIOUS
<1>6. /\ s \in Slots /\ ref[s] > 0 /\ valid[s] /\ pc[p] \in Locked /\ m \in Inums /\ s # 0
      /\ LinkCount(m) /\ nlink[s] = dlink[m] /\ nlink[s] \in Nat
  BY <1>1, <1>3, <1>4, AtWork, Zenon
<1>7. k \in Nat /\ dlink[m] = k + 1
  <2>1. p \in Pending(m)
    BY <1>1, <1>3, <1>4, <1>6, Zenon DEF Pending
  <2>2. dlink[m] > 0
    BY <1>6, <2>1, Linked, Zenon
  <2>. QED BY ONLY <1>5, <1>6, <2>2
<1>8. /\ SetLinks(s, k) /\ ilocked' = [ilocked EXCEPT ![s] = Nobody]
      /\ pc' = [pc EXCEPT ![p] = "iput"] /\ then' = then
      /\ UNCHANGED <<dir, dlock, inum, ref, valid, mtype, ip, name, open, panicked>>
  BY <1>3, <1>5, Zenon DEF drop_link, Goto
<1>9. /\ dtype' = dtype /\ dlink' \in [Inums -> Nat] /\ nlink' \in [Slots -> Nat]
      /\ dlink'[m] = k /\ \A n \in Inums : n # m => dlink'[n] = dlink[n]
      /\ \A t \in Slots : t # s => nlink'[t] = nlink[t]
      /\ CacheOK'
  BY ONLY <1>2, <1>4, <1>6, <1>7, <1>8, SetLinksEffect, Zenon
<1>10. pc'[p] = "iput"
  BY <1>2, <1>8, Zenon DEF PcOK
<1>11. Counted(p) /\ ~Counted(p)'
  BY <1>1, <1>10, Zenon DEF Counted, Within
<1>12. Relinks(p, p, m)
  <2>1. \A j \in Inums : j # m => dlink'[j] = dlink[j] /\ (Names1(p, j)' <=> Names1(p, j))
    BY <1>8, <1>9, Zenon DEF Names1
  <2>2. /\ B(Names1(p, m)') = B(Names1(p, m)) /\ B(Names1(p, m)) \in Nat
        /\ B(Counted(p)') = 0 /\ B(Counted(p)) = 1
    BY <1>8, <1>11 DEF B, Names1
  <2>3. dlink'[m] = dlink[m] + B(Names1(p, m)') - B(Names1(p, m))
                    + B(Counted(p)') - B(Counted(p))
    BY ONLY <1>7, <1>9, <2>2
  <2>. QED BY <1>8, <2>1, <2>3, Zenon DEF Relinks
<1>13. Others(p) => CreateOK' /\ UnlinkOK'
  <2>1. Creates(p)' /\ Unlinks(p)'
    BY <1>10, Zenon DEF Creates, Unlinks, Within
  <2>2. Away(p)
    BY <1>1, <1>3, <1>4, <1>8, <1>9, Zenon DEF Away
  <2>3. SameInums(p)
    BY <1>8, Zenon DEF SameInums
  <2>. QED BY <1>2, <2>1, <2>2, <2>3, DirKeep, Zenon
<1>14. dir' \in [Names -> 0 .. NInum] /\ dlock' \in Procs \cup {Nobody}
  BY <1>2, <1>8, Zenon DEF TypeOK
<1>15. "iput" \notin Locked
  BY DEF Locked
<1>. QED
  BY <1>1, <1>3, <1>4, <1>6, <1>8, <1>9, <1>12, <1>13, <1>14, <1>15, LinkStep, Zenon

\* ... and that of a link to come is added.
LEMMA AddLinkStep ==
  ASSUME Counting, Inv, NEW p \in Procs, add_link(p)
  PROVE  Inv'
<1>1. panicked = "no" /\ pc[p] = "add_link"
  BY Zenon DEF add_link, At
<1>2. /\ TypeOK /\ PcOK /\ RefOK /\ InumOK /\ Unique /\ CacheOK /\ CreateOK /\ UnlinkOK
  BY <1>1, Unfold, Zenon
<1>3. PICK s : s = ip[p]
  OBVIOUS
<1>4. PICK m : m = inum[s]
  OBVIOUS
<1>5. PICK k : k = nlink[s] + 1
  OBVIOUS
<1>6. /\ s \in Slots /\ ref[s] > 0 /\ valid[s] /\ pc[p] \in Locked /\ m \in Inums
      /\ nlink[s] = dlink[m] /\ nlink[s] \in Nat
  BY <1>1, <1>3, <1>4, AtWork, Zenon
<1>7. k \in Nat /\ k = dlink[m] + 1 /\ dlink[m] \in Nat
  BY ONLY <1>5, <1>6
<1>8. /\ SetLinks(s, k) /\ ilocked' = [ilocked EXCEPT ![s] = Nobody]
      /\ pc' = [pc EXCEPT ![p] = "link_entry"] /\ then' = then
      /\ UNCHANGED <<dir, dlock, inum, ref, valid, mtype, ip, name, open, panicked>>
  BY <1>3, <1>5, Zenon DEF add_link, Goto
<1>9. /\ dtype' = dtype /\ dlink' \in [Inums -> Nat] /\ nlink' \in [Slots -> Nat]
      /\ dlink'[m] = k /\ \A n \in Inums : n # m => dlink'[n] = dlink[n]
      /\ \A t \in Slots : t # s => nlink'[t] = nlink[t]
      /\ CacheOK'
  BY ONLY <1>2, <1>4, <1>6, <1>7, <1>8, SetLinksEffect, Zenon
<1>10. pc'[p] = "link_entry"
  BY <1>2, <1>8, Zenon DEF PcOK
<1>11. ~Counted(p) /\ Counted(p)'
  BY <1>1, <1>10, Zenon DEF Counted, Within
<1>12. Relinks(p, p, m)
  <2>1. \A j \in Inums : j # m => dlink'[j] = dlink[j] /\ (Names1(p, j)' <=> Names1(p, j))
    BY <1>8, <1>9, Zenon DEF Names1
  <2>2. /\ B(Names1(p, m)') = B(Names1(p, m)) /\ B(Names1(p, m)) \in Nat
        /\ B(Counted(p)') = 1 /\ B(Counted(p)) = 0
    BY <1>8, <1>11 DEF B, Names1
  <2>3. dlink'[m] = dlink[m] + B(Names1(p, m)') - B(Names1(p, m))
                    + B(Counted(p)') - B(Counted(p))
    BY ONLY <1>7, <1>9, <2>2
  <2>. QED BY <1>8, <2>1, <2>3, Zenon DEF Relinks
<1>13. Others(p) => CreateOK' /\ UnlinkOK'
  <2>1. Creates(p)' /\ Unlinks(p)'
    BY <1>10, Zenon DEF Creates, Unlinks, Within
  <2>2. Away(p)
    BY <1>1, <1>3, <1>4, <1>8, <1>9, Zenon DEF Away
  <2>3. SameInums(p)
    BY <1>8, Zenon DEF SameInums
  <2>. QED BY <1>2, <2>1, <2>2, <2>3, DirKeep, Zenon
<1>14. dir' \in [Names -> 0 .. NInum] /\ dlock' \in Procs \cup {Nobody}
  BY <1>2, <1>8, Zenon DEF TypeOK
<1>15. "link_entry" \notin Locked
  BY DEF Locked
<1>. QED
  BY <1>1, <1>3, <1>4, <1>6, <1>8, <1>9, <1>12, <1>13, <1>14, <1>15, LinkStep, Zenon

\* link() writes the entry that it has counted ...
LEMMA LinkEntered ==
  ASSUME Counting, Inv, NEW p \in Procs, At(p, "link_entry"), dlock = Nobody,
         NEW x \in Names, dir[x] = 0, dir' = [dir EXCEPT ![x] = inum[ip[p]]],
         Goto(p, "iput"),
         UNCHANGED <<dtype, dlink, dlock, inum, ref, valid, ilocked, mtype, nlink>>,
         UNCHANGED <<ip, name, open, panicked>>
  PROVE  Inv'
<1>1. panicked = "no" /\ pc[p] = "link_entry"
  BY Zenon DEF At
<1>2. /\ TypeOK /\ PcOK /\ RefOK /\ InumOK /\ CacheOK /\ CreateOK /\ UnlinkOK
  BY <1>1, Unfold, Zenon
<1>4. PICK m : m = inum[ip[p]]
  BY Zenon
<1>6. m \in Inums /\ m # 0
  <2>1. m \in Inums
    BY <1>1, <1>2, <1>4, Held, Zenon
  <2>. QED BY <2>1 DEF Inums
<1>9. /\ pc' = [pc EXCEPT ![p] = "iput"] /\ then' = then /\ pc'[p] = "iput"
  BY <1>2, Zenon DEF Goto, PcOK
<1>11. Counted(p) /\ ~Counted(p)'
  BY <1>1, <1>9, Zenon DEF Counted, Within
<1>12. /\ dir' \in [Names -> 0 .. NInum] /\ dir'[x] = m
       /\ \A y \in Names : y # x => dir'[y] = dir[y]
  <2>1. m \in 0 .. NInum
    BY <1>6 DEF Inums
  <2>. QED BY <1>2, <1>4, <2>1, Zenon DEF TypeOK
<1>13. Relinks(p, x, m)
  <2>1. \A k \in Inums : k # m => dlink'[k] = dlink[k] /\ (Names1(x, k)' <=> Names1(x, k))
    BY <1>12 DEF Names1, Inums
  <2>2. /\ B(Names1(x, m)') = 1 /\ B(Names1(x, m)) = 0
        /\ B(Counted(p)') = 0 /\ B(Counted(p)) = 1
    BY <1>6, <1>11, <1>12 DEF B, Names1
  <2>3. dlink'[m] = dlink[m] /\ dlink[m] \in Nat
    BY <1>2, <1>6, Zenon DEF TypeOK
  <2>4. dlink'[m] = dlink[m] + B(Names1(x, m)') - B(Names1(x, m))
                    + B(Counted(p)') - B(Counted(p))
    BY ONLY <2>2, <2>3
  <2>. QED BY <1>12, <2>1, <2>4, Zenon DEF Relinks
<1>14. Others(p) => CreateOK' /\ UnlinkOK'
  <2>1. Creates(p)' /\ Unlinks(p)'
    BY <1>9, Zenon DEF Creates, Unlinks, Within
  <2>. QED BY <1>2, <2>1, DirAlone, Zenon
<1>15. /\ dlink' \in [Inums -> Nat] /\ nlink' \in [Slots -> Nat] /\ CacheOK'
       /\ dlock' \in Procs \cup {Nobody}
  BY <1>2, Zenon DEF TypeOK, CacheOK
<1>16. "iput" \notin Locked /\ "link_entry" \notin Locked
  BY DEF Locked
<1>. QED
  BY <1>1, <1>4, <1>9, <1>12, <1>13, <1>14, <1>15, <1>16, LinkStep, Zenon

\* ... or goes back to the inode to drop it.
LEMMA LinkFails ==
  ASSUME Counting, Inv, NEW p \in Procs, At(p, "link_entry"), dlock = Nobody,
         CallIlock(p, "drop_link"), panicked' \in {panicked, "iget"},
         UNCHANGED <<dtype, dlink, dir, dlock, inum, ref, valid, ilocked, mtype, nlink>>,
         UNCHANGED <<ip, name, open>>
  PROVE  Inv'
<1>1. panicked = "no" /\ pc[p] = "link_entry"
  BY Zenon DEF At
<1>2. /\ TypeOK /\ OpenOK /\ LinksOK
      /\ PcOK /\ LockOK /\ RefOK /\ InumOK /\ Unique /\ CacheOK /\ UseOK
      /\ CreateOK /\ UnlinkOK
  BY <1>1, Unfold, Zenon
<1>5. pc' = [pc EXCEPT ![p] = "ilock"] /\ then' = [then EXCEPT ![p] = "drop_link"]
  BY Zenon DEF CallIlock
<1>7. Others(p) /\ SameInums(p)
  BY <1>2, <1>5 DEF Others, SameInums, PcOK
<1>8. pc'[p] = "ilock" /\ then'[p] = "drop_link"
  BY <1>2, <1>5, Zenon DEF PcOK
<1>9. ~Reading(p)' /\ ~Reading(p) /\ Counted(p)' /\ Counted(p)
  BY <1>1, <1>8, Zenon DEF Reading, Counted, Within
<1>10. \A n \in Inums : Owns(p, n)' <=> Owns(p, n)
  BY <1>9, Zenon DEF Owns
<1>11. CASE panicked' = panicked
  <2>1. Quiet(p)
    <3>1. Away(p)
      BY <1>1, Zenon DEF Away
    <3>2. \A t \in Slots : B(open[p] = t) + B(ip[p] = t /\ ~Reading(p))
                        = B(open'[p] = t) + B(ip'[p] = t /\ ~Reading(p)')
      BY <1>9, Zenon DEF B
    <3>. QED BY <1>2, <1>7, <1>10, <1>11, <3>1, <3>2, Zenon DEF Quiet, Steady, TypeOK
  <2>2. PcOK'
    <3>1. "ilock" \in Labels /\ "drop_link" \in Returns
      BY DEF Labels, Locked, Returns
    <3>2. pc' \in [Procs -> Labels] /\ then' \in [Procs -> Returns \cup {"idle"}]
      BY <1>2, <1>5, <3>1, Zenon DEF PcOK
    <3>3. ip[p] # 0
      BY <1>1, <1>2, Zenon DEF PcOK
    <3>. QED BY <1>2, <1>7, <1>8, <1>9, <3>1, <3>2, <3>3, PcKeep, Zenon
  <2>3. LockOK'
    <3>1. pc[p] \notin Locked /\ pc'[p] \notin Locked
      BY <1>1, <1>8, Zenon DEF Locked
    <3>. QED BY <1>2, <1>7, <3>1, LockStay, Zenon
  <2>4. Uses(p)'
    <3>1. dtype[inum[ip[p]]]
      BY <1>1, <1>2, Zenon DEF UseOK, Uses
    <3>. QED BY <1>8, <3>1, Zenon DEF Uses, Locked
  <2>5. Creates(p)' /\ Unlinks(p)'
    BY <1>8, Zenon DEF Creates, Unlinks, Within
  <2>6. open'[p] # 0 => dtype[inum[open'[p]]]
    BY <1>2, Zenon DEF OpenOK
  <2>. QED BY <1>1, <2>1, <2>2, <2>3, <2>4, <2>5, <2>6, QuietStep, Zenon
<1>12. CASE panicked' = "iget"
  <2>1. TypeOK' /\ OpenOK'
    BY <1>2, Zenon DEF TypeOK, OpenOK
  <2>2. LinksOK'
    BY <1>2, <1>7, <1>10, LinksSame, Zenon
  <2>. QED BY <1>12, <2>1, <2>2, Zenon DEF Inv
<1>. QED BY <1>11, <1>12, Zenon

\* link_entry()
LEMMA LinkEntryStep ==
  ASSUME Counting, Inv, NEW p \in Procs, link_entry(p)
  PROVE  Inv'
BY LinkEntered, LinkFails, Zenon DEF link_entry, diskVars, memVars

-----------------------------------------------------------------------------
(* Looking up *)

\* iget() gives p entry s for inode n: a live one, or an empty one if there is none.
Gets(p, n, s) ==
  /\ ip' = [ip EXCEPT ![p] = s] /\ ref' = [ref EXCEPT ![s] = @ + 1]
  /\ inum' = [inum EXCEPT ![s] = n]
  /\ \/ ref[s] > 0 /\ inum[s] = n /\ valid' = valid
     \/ ref[s] = 0 /\ valid' = [valid EXCEPT ![s] = FALSE] /\ Entry(n) = {}

\* What iget() does: it panics if the table is full.
LEMMA IgetEffect ==
  ASSUME TypeOK, NEW p \in Procs, NEW n \in Inums, iget(p, n)
  PROVE  \/ panicked' = "iget" /\ UNCHANGED <<inum, ref, valid, ip>>
         \/ panicked' = panicked /\ \E s \in Slots : Gets(p, n, s)
<1>1. CASE Entry(n) # {}
  <2>1. PICK s \in Entry(n) : /\ ref' = [ref EXCEPT ![s] = @ + 1]
                              /\ ip' = [ip EXCEPT ![p] = s]
                              /\ UNCHANGED <<inum, valid, panicked>>
    BY <1>1, Zenon DEF iget
  <2>2. s \in Slots /\ ref[s] > 0 /\ inum[s] = n
    BY Zenon DEF Entry
  <2>3. inum' = [inum EXCEPT ![s] = n]
    BY <2>1, <2>2 DEF TypeOK
  <2>. QED BY <2>1, <2>2, <2>3, Zenon DEF Gets
<1>2. CASE Entry(n) = {} /\ Empty # {}
  <2>1. PICK s \in Empty : /\ inum' = [inum EXCEPT ![s] = n]
                           /\ ref' = [ref EXCEPT ![s] = 1]
                           /\ valid' = [valid EXCEPT ![s] = FALSE]
                           /\ ip' = [ip EXCEPT ![p] = s]
                           /\ UNCHANGED panicked
    BY <1>2, Zenon DEF iget
  <2>2. s \in Slots /\ ref[s] = 0
    BY Zenon DEF Empty
  <2>3. ref' = [ref EXCEPT ![s] = @ + 1]
    BY <2>1, <2>2 DEF TypeOK
  <2>. QED BY <1>2, <2>1, <2>2, <2>3, Zenon DEF Gets
<1>3. CASE Entry(n) = {} /\ Empty = {}
  BY <1>3, Zenon DEF iget
<1>. QED BY <1>1, <1>2, <1>3, Zenon

\* The inode that a call asks for is the one that a name stands for, or a new one.
Finds(n) == UNCHANGED <<dtype, dlink>> /\ dtype[n] /\ dlink[n] > 0
Allocates(n) ==
  /\ ~dtype[n]
  /\ dtype' = [dtype EXCEPT ![n] = TRUE] /\ dlink' = [dlink EXCEPT ![n] = 0]

\* What both do to the disk.
LEMMA DiskEffect ==
  ASSUME TypeOK, NEW n \in Inums, Finds(n) \/ Allocates(n)
  PROVE  /\ dtype' \in [Inums -> BOOLEAN] /\ dlink' \in [Inums -> Nat]
         /\ dtype'[n] /\ (dtype[n] => dlink' = dlink /\ dtype' = dtype /\ dlink[n] > 0)
         /\ \A k \in Inums : k # n => dtype'[k] = dtype[k] /\ dlink'[k] = dlink[k]
<1>1. CASE Finds(n)
  BY <1>1, Zenon DEF Finds, TypeOK
<1>2. CASE Allocates(n)
  BY <1>2 DEF Allocates, TypeOK
<1>. QED BY <1>1, <1>2, Zenon

\* The links after that.
LEMMA LookupLinks ==
  ASSUME Counting, NEW p \in Procs, Others(p), SameInums(p), TypeOK, LinksOK, PcOK, UseOK,
         ~Counted(p), ~Counted(p)', NEW n \in Inums, Finds(n) \/ Allocates(n), dir' = dir
  PROVE  LinksOK'
<1>1. \A k \in Inums : Owns(p, k)' <=> Owns(p, k)
  BY Zenon DEF Owns
<1>2. CASE Finds(n)
  BY <1>1, <1>2, LinksSame, Zenon DEF Finds
<1>3. CASE Allocates(n)
  <2>1. ~dtype[n] /\ dtype'[n] /\ dlink'[n] = 0
    BY <1>3 DEF Allocates, TypeOK
  <2>2. \A k \in Inums : k # n => dtype'[k] = dtype[k] /\ dlink'[k] = dlink[k]
    BY DiskEffect, Zenon
  <2>. SUFFICES ASSUME NEW k \in Inums
       PROVE  /\ dtype'[k] => LinkCount(k)'
              /\ ~dtype'[k] => Named(k)' = {}
    BY DEF LinksOK, LinkCount, Inums
  <2>3. Named(k)' = Named(k)
    BY Zenon DEF Named
  <2>4. CASE k # n
    <3>1. ASSUME dtype[k] PROVE LinkCount(k)'
      <4>1. LinkCount(k) /\ dlink[k] \in Nat
        BY <3>1 DEF LinksOK, LinkCount, TypeOK
      <4>2. B(Owns(p, k)') = B(Owns(p, k)) /\ B(Names1(p, k)') = B(Names1(p, k))
        BY <1>1 DEF B, Names1
      <4>3. B(Owns(p, k)) \in Nat /\ B(Names1(p, k)) \in Nat
        BY DEF B
      <4>4. dlink'[k] = dlink[k]
        BY ONLY k \in Inums, <2>2, <2>4, Zenon
      <4>5. dlink'[k] = dlink[k] + B(Names1(p, k)') - B(Names1(p, k))
                         + B(Owns(p, k)') - B(Owns(p, k))
        <5>1. PICK r \in Nat, x \in Nat, y \in Nat :
                r = dlink[k] /\ x = B(Names1(p, k)) /\ y = B(Owns(p, k))
          BY ONLY <4>1, <4>3, Zenon
        <5>2. r + x - x + y - y = r
          BY ONLY r \in Nat, x \in Nat, y \in Nat
        <5>. QED BY ONLY <4>2, <4>4, <5>1, <5>2, Zenon
      <4>. QED BY <4>1, <4>5, LinkKeep, Zenon
    <3>. QED BY <2>2, <2>3, <2>4, <3>1, Zenon DEF LinksOK
  <2>5. CASE k = n
    <3>1. Named(n) = {}
      BY <2>1, Zenon DEF LinksOK
    <3>2. Pending(n)' = {}
      <4>1. ASSUME NEW q \in Procs, q \in Pending(n)' PROVE FALSE
        <5>1. ip'[q] # 0 /\ inum'[ip'[q]] = n /\ Counted(q)'
          BY <4>1, OwnLink, Zenon
        <5>2. q # p
          BY <5>1, Zenon
        <5>3. pc'[q] = pc[q] /\ then'[q] = then[q] /\ ip'[q] = ip[q]
          BY <5>2, Zenon DEF Others
        <5>4. Counted(q) /\ inum[ip[q]] = n
          BY <5>1, <5>2, <5>3, Zenon DEF Counted, Within, SameInums
        <5>5. dtype[n]
          BY <5>4, Zenon DEF Counted, Within, UseOK, Uses
        <5>. QED BY <2>1, <5>5, Zenon
      <4>. QED BY <4>1, Zenon DEF Pending
    <3>3. Cardinality(Named(n)') = 0 /\ Cardinality(Pending(n)') = 0
      BY <2>3, <2>5, <3>1, <3>2, Zenon DEF Counting
    <3>. QED BY ONLY <2>1, <2>5, <3>3 DEF LinkCount
  <2>. QED BY <2>4, <2>5, Zenon
<1>. QED BY <1>2, <1>3, Zenon

\* p has looked an inode up, from no call in progress.
Looks(p, n, l) ==
  /\ panicked = "no" /\ pc[p] = "idle" /\ dlock = Nobody
  /\ l \in {"opened", "create_link", "unlink_entry", "add_link"} /\ CallIlock(p, l)
  /\ Finds(n) \/ Allocates(n)
  /\ dlock' \in Procs \cup {Nobody} /\ name' \in [Procs -> Names \cup {NoName}]
  /\ \A q \in Procs : q # p => name'[q] = name[q]
  /\ UNCHANGED <<dir, ilocked, mtype, nlink, open>>

\* Where p is before and after it.
LEMMA LooksAt ==
  ASSUME NEW p \in Procs, NEW n, NEW l, Looks(p, n, l), PcOK, TypeOK, NEW s,
         ip' = [ip EXCEPT ![p] = s] \/ ip' = ip
  PROVE  /\ Others(p) /\ ip[p] = 0
         /\ pc' = [pc EXCEPT ![p] = "ilock"] /\ then' = [then EXCEPT ![p] = l]
         /\ pc'[p] = "ilock" /\ then'[p] = l
         /\ ~Reading(p) /\ ~Reading(p)' /\ ~Counted(p) /\ ~Counted(p)'
<1>1. /\ pc[p] = "idle" /\ open' = open
      /\ pc' = [pc EXCEPT ![p] = "ilock"] /\ then' = [then EXCEPT ![p] = l]
      /\ \A q \in Procs : q # p => name'[q] = name[q]
  BY Zenon DEF Looks, CallIlock
<1>2. \A q \in Procs : q # p => pc'[q] = pc[q] /\ then'[q] = then[q] /\ ip'[q] = ip[q]
  <2>. TAKE q \in Procs
  <2>. HAVE q # p
  <2>1. pc'[q] = pc[q] /\ then'[q] = then[q]
    BY <1>1, Zenon DEF PcOK
  <2>2. ip'[q] = ip[q]
    BY Zenon DEF TypeOK
  <2>. QED BY <2>1, <2>2, Zenon
<1>3. Others(p)
  BY <1>1, <1>2, Zenon DEF Others
<1>4. ip[p] = 0 /\ pc'[p] = "ilock" /\ then'[p] = l
  BY <1>1, Zenon DEF PcOK
<1>5. l \notin {"read_done", "drop_link"}
  BY Zenon DEF Looks
<1>6. ~Reading(p) /\ ~Reading(p)' /\ ~Counted(p) /\ ~Counted(p)'
  BY <1>1, <1>4, <1>5, Zenon DEF Reading, Counted, Within
<1>. QED BY <1>1, <1>3, <1>4, <1>6, Zenon

\* iget() panics after the lookup.
LEMMA LookupPanics ==
  ASSUME Counting, Inv, NEW p \in Procs, NEW n \in Inums, NEW l, Looks(p, n, l),
         panicked' = "iget", UNCHANGED <<inum, ref, valid, ip>>
  PROVE  Inv'
<1>1. /\ panicked = "no" /\ UNCHANGED <<dir, ilocked, mtype, nlink, open>>
      /\ Finds(n) \/ Allocates(n)
      /\ dlock' \in Procs \cup {Nobody} /\ name' \in [Procs -> Names \cup {NoName}]
  BY Zenon DEF Looks
<1>2. TypeOK /\ OpenOK /\ LinksOK /\ PcOK /\ RefOK /\ InumOK /\ UseOK
  BY <1>1, Unfold, Zenon
<1>3. Others(p) /\ ~Counted(p) /\ ~Counted(p)'
  BY <1>2, LooksAt, Zenon
<1>4. /\ dtype' \in [Inums -> BOOLEAN] /\ dlink' \in [Inums -> Nat]
      /\ dtype'[n] /\ \A k \in Inums : k # n => dtype'[k] = dtype[k]
  BY <1>1, <1>2, DiskEffect, Zenon
<1>5. TypeOK'
  BY <1>1, <1>2, <1>4, Zenon DEF TypeOK
<1>6. OpenOK'
  <2>1. ASSUME NEW q \in Procs, open[q] # 0 PROVE dtype'[inum[open[q]]]
    <3>1. inum[open[q]] \in Inums
      BY <1>2, <2>1, Held, Zenon
    <3>. QED BY <1>2, <1>4, <2>1, <3>1, Zenon DEF OpenOK
  <2>. QED BY <1>1, <2>1, Zenon DEF OpenOK
<1>7. SameInums(p)
  BY Zenon DEF SameInums
<1>8. LinksOK'
  BY <1>1, <1>2, <1>3, <1>7, LookupLinks, Zenon
<1>. QED BY <1>5, <1>6, <1>8, Zenon DEF Inv

\* iget() gives p an entry after the lookup.
LEMMA LookupStep ==
  ASSUME Counting, Inv, NEW p \in Procs, NEW n \in Inums, NEW l, Looks(p, n, l),
         NEW s \in Slots, Gets(p, n, s), panicked' = panicked, Creates(p)', Unlinks(p)'
  PROVE  Inv'
<1>1. /\ panicked = "no" /\ UNCHANGED <<dir, ilocked, mtype, nlink, open>>
      /\ Finds(n) \/ Allocates(n)
      /\ dlock = Nobody /\ dlock' \in Procs \cup {Nobody}
      /\ name' \in [Procs -> Names \cup {NoName}] /\ pc[p] = "idle"
      /\ l \in {"opened", "create_link", "unlink_entry", "add_link"}
  BY Zenon DEF Looks
<1>2. /\ TypeOK /\ OpenOK /\ LinksOK
      /\ PcOK /\ LockOK /\ RefOK /\ InumOK /\ Unique /\ CacheOK /\ UseOK
      /\ CreateOK /\ UnlinkOK
  BY <1>1, Unfold, Zenon
<1>3. /\ Others(p) /\ ip[p] = 0
      /\ pc' = [pc EXCEPT ![p] = "ilock"] /\ then' = [then EXCEPT ![p] = l]
      /\ pc'[p] = "ilock" /\ then'[p] = l
      /\ ~Reading(p) /\ ~Reading(p)' /\ ~Counted(p) /\ ~Counted(p)'
  BY <1>2, LooksAt, Zenon DEF Gets
<1>4. /\ dtype' \in [Inums -> BOOLEAN] /\ dlink' \in [Inums -> Nat]
      /\ dtype'[n] /\ (dtype[n] => dlink' = dlink /\ dtype' = dtype /\ dlink[n] > 0)
      /\ \A k \in Inums : k # n => dtype'[k] = dtype[k] /\ dlink'[k] = dlink[k]
  BY <1>1, <1>2, DiskEffect, Zenon
<1>5. /\ ip' = [ip EXCEPT ![p] = s] /\ ref' = [ref EXCEPT ![s] = @ + 1]
      /\ inum' = [inum EXCEPT ![s] = n]
  BY Zenon DEF Gets
<1>6. /\ ip'[p] = s /\ inum'[s] = n /\ \A t \in Slots : t # s => inum'[t] = inum[t]
      /\ s # 0 /\ s \in 0 .. NINODE /\ n \in 0 .. NInum
  <2>1. s # 0 /\ s \in 0 .. NINODE /\ n \in 0 .. NInum
    BY DEF Slots, Inums
  <2>. QED BY <1>2, <1>5, <2>1, Zenon DEF TypeOK
<1>7. /\ \A t \in Slots : t # s => ref'[t] = ref[t]
      /\ ref'[s] = ref[s] + 1 /\ ref[s] \in Nat /\ ref' \in [Slots -> Nat]
  BY <1>2, <1>5 DEF TypeOK
<1>8. /\ valid' \in [Slots -> BOOLEAN] /\ \A t \in Slots : t # s => valid'[t] = valid[t]
      /\ ref[s] > 0 => inum[s] = n /\ valid'[s] = valid[s]
      /\ ~(ref[s] > 0) => ~valid'[s]
  <2>1. CASE ref[s] > 0 /\ inum[s] = n /\ valid' = valid
    BY <1>2, <2>1, Zenon DEF TypeOK
  <2>2. CASE ref[s] = 0 /\ valid' = [valid EXCEPT ![s] = FALSE]
    <3>1. ~(ref[s] > 0)
      BY <2>2
    <3>. QED BY <1>2, <2>2, <3>1, Zenon DEF TypeOK
  <2>. QED BY <2>1, <2>2, Zenon DEF Gets
<1>9. \A t \in Slots : ref[t] > 0 /\ inum[t] = n => t = s
  <2>1. CASE ref[s] > 0 /\ inum[s] = n
    BY <1>2, <2>1, Zenon DEF Unique
  <2>2. CASE Entry(n) = {}
    BY <2>2, Zenon DEF Entry
  <2>. QED BY <2>1, <2>2, Zenon DEF Gets
<1>10. \A t \in Slots : ref[t] > 0 => inum'[t] = inum[t]
  BY <1>6, <1>8, Zenon
<1>11. SameInums(p)
  <2>1. ASSUME NEW q \in Procs, ip[q] # 0 PROVE inum'[ip[q]] = inum[ip[q]]
    <3>1. pc[q] # "idle"
      BY <1>2, <2>1, Zenon DEF PcOK
    <3>2. ip[q] \in Slots /\ ref[ip[q]] > 0
      BY <1>2, <3>1, Held, Zenon
    <3>. QED BY <1>10, <3>2, Zenon
  <2>. QED BY <2>1, Zenon DEF SameInums
<1>12. TypeOK'
  <2>1. ip' \in [Procs -> 0 .. NINODE] /\ inum' \in [Slots -> 0 .. NInum]
    BY <1>2, <1>5, <1>6, Zenon DEF TypeOK
  <2>2. /\ dir' \in [Names -> 0 .. NInum] /\ ilocked' \in [Slots -> Procs \cup {Nobody}]
        /\ mtype' \in [Slots -> BOOLEAN] /\ nlink' \in [Slots -> Nat]
        /\ open' \in [Procs -> 0 .. NINODE]
    BY <1>1, <1>2, Zenon DEF TypeOK
  <2>. QED BY <1>1, <1>4, <1>7, <1>8, <2>1, <2>2, Zenon DEF TypeOK
<1>13. OpenOK'
  <2>1. ASSUME NEW q \in Procs, open[q] # 0 PROVE dtype'[inum'[open[q]]]
    <3>1. open[q] \in Slots /\ ref[open[q]] > 0 /\ inum[open[q]] \in Inums
      BY <1>2, <2>1, Held, Zenon
    <3>2. dtype[inum[open[q]]]
      BY <1>2, <2>1, Zenon DEF OpenOK
    <3>. QED BY <1>4, <1>10, <3>1, <3>2, Zenon
  <2>. QED BY <1>1, <2>1, Zenon DEF OpenOK
<1>14. LinksOK'
  BY <1>1, <1>2, <1>3, <1>11, LookupLinks, Zenon
<1>15. InumOK' /\ Unique'
  <2>1. \A t \in Slots : ref'[t] > 0 /\ t # s => inum'[t] \in Inums /\ inum'[t] # n
    BY <1>2, <1>6, <1>7, <1>9, Zenon DEF InumOK
  <2>2. \A t \in Slots : ref'[t] > 0 => inum'[t] \in Inums
    BY <1>6, <2>1, Zenon
  <2>3. ASSUME NEW t \in Slots, NEW u \in Slots, ref'[t] > 0, ref'[u] > 0, inum'[t] = inum'[u]
        PROVE  t = u
    <3>1. CASE t = s \/ u = s
      BY <1>6, <2>1, <2>3, <3>1, Zenon
    <3>2. CASE t # s /\ u # s
      BY <1>2, <1>6, <1>7, <2>3, <3>2, Zenon DEF Unique
    <3>. QED BY <3>1, <3>2, Zenon
  <2>. QED BY <2>2, <2>3, Zenon DEF InumOK, Unique
<1>16. CacheOK'
  <2>1. ASSUME NEW t \in Slots, ref'[t] > 0, valid'[t]
        PROVE  dtype'[inum'[t]] /\ mtype[t] /\ nlink[t] = dlink'[inum'[t]]
    <3>1. ref[t] > 0 /\ valid[t]
      BY <1>7, <1>8, <2>1, Zenon
    <3>2. /\ dtype[inum[t]] /\ mtype[t] /\ nlink[t] = dlink[inum[t]]
          /\ inum'[t] = inum[t] /\ inum[t] \in Inums
      BY <1>2, <1>10, <3>1, Zenon DEF CacheOK, InumOK
    <3>. QED BY <1>4, <3>2, Zenon
  <2>. QED BY <1>1, <2>1, Zenon DEF CacheOK
<1>17. PcOK'
  <2>1. "ilock" \in Labels /\ l \in Returns
    BY <1>1 DEF Labels, Locked, Returns
  <2>2. pc' \in [Procs -> Labels] /\ then' \in [Procs -> Returns \cup {"idle"}]
    BY <1>2, <1>3, <2>1, Zenon DEF PcOK
  <2>. QED BY <1>2, <1>3, <1>6, <2>1, <2>2, PcKeep, Zenon
<1>18. LockOK'
  <2>1. pc[p] \notin Locked /\ pc'[p] \notin Locked
    BY <1>1, <1>3, Zenon DEF Locked
  <2>. QED BY <1>1, <1>2, <1>3, <2>1, LockStay, Zenon
<1>19. RefOK'
  <2>1. ASSUME NEW t \in Slots
        PROVE  ref'[t] = ref[t] + B(open'[p] = t) - B(open[p] = t)
                     + B(ip'[p] = t /\ ~Reading(p)') - B(ip[p] = t /\ ~Reading(p))
    <3>1. B(open'[p] = t) = B(open[p] = t) /\ B(open[p] = t) \in Nat
      <4>1. B(open'[p] = t) = B(open[p] = t)
        BY <1>1, Zenon DEF B
      <4>2. B(open[p] = t) \in Nat
        BY ONLY TRUE DEF B
      <4>. QED BY <4>1, <4>2, Zenon
    <3>2. B(ip'[p] = t /\ ~Reading(p)') = B(s = t) /\ B(ip[p] = t /\ ~Reading(p)) = 0
      <4>1. t # 0
        BY DEF Slots
      <4>2. (ip'[p] = t /\ ~Reading(p)' <=> s = t) /\ ~(ip[p] = t /\ ~Reading(p))
        BY <1>3, <1>6, <4>1, Zenon
      <4>. QED BY <4>2, Zenon DEF B
    <3>3. ref[t] \in Nat /\ ref'[t] = ref[t] + B(s = t)
      BY <1>2, <1>7 DEF B, TypeOK
    <3>4. B(s = t) \in Nat
      BY DEF B
    <3>5. PICK r \in Nat, x \in Nat, y \in Nat :
            r = ref[t] /\ x = B(open[p] = t) /\ y = B(s = t)
      BY ONLY <3>1, <3>3, <3>4, Zenon
    <3>6. r + x - x + y - 0 = r + y
      BY ONLY r \in Nat, x \in Nat, y \in Nat
    <3>. QED BY ONLY <3>1, <3>2, <3>3, <3>5, <3>6, Zenon
  <2>. QED BY <1>2, <1>3, <2>1, RefKeep, Zenon
<1>20. UseOK'
  <2>1. \A k \in Inums : dtype[k] => dtype'[k]
    BY <1>4, Zenon
  <2>2. \A t \in Slots : ref[t] > 0 /\ valid[t] => valid'[t]
    BY <1>8, Zenon
  <2>3. ASSUME NEW q \in Procs, q # p, pc[q] = "itrunc", ip[q] \in Slots
        PROVE  ref'[ip[q]] = ref[ip[q]] /\ nlink'[ip[q]] = nlink[ip[q]]
    <3>1. ref[ip[q]] > 0
      BY <1>2, <2>3, Held, Zenon
    <3>2. dtype[inum[ip[q]]] /\ valid[ip[q]] /\ nlink[ip[q]] = 0
      BY <1>2, <2>3, LabelFacts, Zenon DEF UseOK, Uses
    <3>3. dlink[inum[ip[q]]] = 0
      BY <1>2, <2>3, <3>1, <3>2, Zenon DEF CacheOK
    <3>4. inum[ip[q]] # n
      <4>1. dtype[n] => dlink[n] # 0
        BY <1>4
      <4>. QED BY <3>2, <3>3, <4>1, Zenon
    <3>5. ip[q] # s
      BY <1>8, <3>1, <3>4, Zenon
    <3>. QED BY <1>1, <1>7, <2>3, <3>5, Zenon
  <2>4. Uses(p)'
    BY <1>3, <1>4, <1>6, LabelFacts, Zenon DEF Uses
  <2>. QED BY <1>2, <1>3, <1>11, <2>1, <2>2, <2>3, <2>4, UseKeep, Zenon
<1>21. CreateOK' /\ UnlinkOK'
  BY <1>1, <1>2, <1>3, DirAlone, Zenon
<1>. QED
  BY <1>1, <1>12, <1>13, <1>14, <1>15, <1>16, <1>17, <1>18, <1>19, <1>20, <1>21, Fold, Zenon

\* An inode that has a name is in use and has a link.
LEMMA NamedFound ==
  ASSUME Counting, Inv, panicked = "no", NEW x \in Names, dir[x] # 0, UNCHANGED <<dtype, dlink>>
  PROVE  dir[x] \in Inums /\ Finds(dir[x])
<1>1. TypeOK /\ LinksOK
  BY Unfold, Zenon
<1>2. dir[x] \in Inums
  BY <1>1, InodeAssumption DEF TypeOK, Inums
<1>3. dtype[dir[x]]
  BY <1>1, <1>2, Zenon DEF LinksOK, Named
<1>4. LinkCount(dir[x]) /\ dlink[dir[x]] \in Nat
  BY <1>1, <1>2, <1>3, Zenon DEF LinksOK, LinkCount, TypeOK
<1>5. dlink[dir[x]] > 0
  BY <1>4, Linked, Zenon
<1>. QED BY <1>2, <1>3, <1>5, Zenon DEF Finds

\* open() and link() look a name up.
LEMMA FindStep ==
  ASSUME Counting, Inv, NEW p \in Procs, At(p, "idle"), dlock = Nobody,
         NEW x \in Names, dir[x] # 0, iget(p, dir[x]),
         NEW l \in {"opened", "add_link"}, CallIlock(p, l),
         UNCHANGED <<dtype, dlink, dir, dlock, ilocked, mtype, nlink, name, open>>
  PROVE  Inv'
<1>1. panicked = "no" /\ pc[p] = "idle"
  BY Zenon DEF At
<1>2. TypeOK /\ PcOK
  BY <1>1, Unfold, Zenon
<1>3. dir[x] \in Inums /\ Finds(dir[x])
  BY <1>1, NamedFound, Zenon
<1>4. PICK n : n = dir[x]
  OBVIOUS
<1>5. n \in Inums /\ iget(p, n)
  BY <1>3, <1>4, Zenon
<1>6. Looks(p, n, l)
  <2>1. l \in {"opened", "create_link", "unlink_entry", "add_link"}
    OBVIOUS
  <2>. QED BY <1>1, <1>2, <1>3, <1>4, <2>1, Zenon DEF Looks, TypeOK
<1>7. CASE panicked' = "iget" /\ UNCHANGED <<inum, ref, valid, ip>>
  BY <1>5, <1>6, <1>7, LookupPanics, Zenon
<1>8. ASSUME NEW s \in Slots, Gets(p, n, s), panicked' = panicked PROVE Inv'
  <2>1. pc'[p] = "ilock" /\ then'[p] = l
    BY <1>2, Zenon DEF PcOK, CallIlock
  <2>2. l # "create_link" /\ l # "unlink_entry"
    OBVIOUS
  <2>3. Creates(p)' /\ Unlinks(p)'
    BY <2>1, <2>2, Zenon DEF Creates, Unlinks, Within
  <2>. QED BY <1>5, <1>6, <1>8, <2>3, LookupStep, Zenon
<1>. QED BY <1>2, <1>5, <1>7, <1>8, IgetEffect, Zenon

\* sys_open()
LEMMA OpenStep ==
  ASSUME Counting, Inv, NEW p \in Procs, sys_open(p)
  PROVE  Inv'
BY FindStep, Zenon DEF sys_open, begin_op, diskVars

\* sys_link()
LEMMA SysLinkStep ==
  ASSUME Counting, Inv, NEW p \in Procs, sys_link(p)
  PROVE  Inv'
BY FindStep, Zenon DEF sys_link, begin_op, diskVars

\* unlink() looks its name up, and keeps the directory.
LEMMA UnlinkStep ==
  ASSUME Counting, Inv, NEW p \in Procs, sys_unlink(p)
  PROVE  Inv'
<1>1. /\ panicked = "no" /\ pc[p] = "idle" /\ dlock = Nobody /\ dlock' = p
      /\ CallIlock(p, "unlink_entry")
      /\ UNCHANGED <<dtype, dlink, dir, ilocked, mtype, nlink, open>>
  BY Zenon DEF sys_unlink, begin_op, At, diskVars
<1>2. TypeOK /\ PcOK
  BY <1>1, Unfold, Zenon
<1>3. PICK x \in Names : dir[x] # 0 /\ iget(p, dir[x]) /\ name' = [name EXCEPT ![p] = x]
  BY Zenon DEF sys_unlink
<1>4. PICK n : n = dir[x]
  OBVIOUS
<1>5. n \in Inums /\ iget(p, n) /\ Finds(n)
  BY <1>1, <1>3, <1>4, NamedFound, Zenon
<1>6. Looks(p, n, "unlink_entry")
  <2>1. /\ name' \in [Procs -> Names \cup {NoName}] /\ dlock' \in Procs \cup {Nobody}
        /\ \A q \in Procs : q # p => name'[q] = name[q]
    BY <1>1, <1>2, <1>3, Zenon DEF TypeOK
  <2>. QED BY <1>1, <1>5, <2>1, Zenon DEF Looks
<1>7. CASE panicked' = "iget" /\ UNCHANGED <<inum, ref, valid, ip>>
  BY <1>5, <1>6, <1>7, LookupPanics, Zenon
<1>8. ASSUME NEW s \in Slots, Gets(p, n, s), panicked' = panicked PROVE Inv'
  <2>1. pc'[p] = "ilock" /\ then'[p] = "unlink_entry" /\ name'[p] = x
    BY <1>1, <1>2, <1>3, Zenon DEF PcOK, CallIlock, TypeOK
  <2>2. ip'[p] = s /\ inum'[s] = n
    BY <1>2, <1>8, Zenon DEF TypeOK, Gets
  <2>3. Creates(p)'
    BY <2>1, Zenon DEF Creates, Within
  <2>4. Unlinks(p)'
    BY <1>1, <1>3, <1>4, <2>1, <2>2, Zenon DEF Unlinks
  <2>. QED BY <1>5, <1>6, <1>8, <2>3, <2>4, LookupStep, Zenon
<1>. QED BY <1>2, <1>5, <1>7, <1>8, IgetEffect, Zenon

\* create() marks a free inode, and keeps the directory.
LEMMA CreateStep ==
  ASSUME Counting, Inv, NEW p \in Procs, create(p)
  PROVE  Inv'
<1>1. /\ panicked = "no" /\ pc[p] = "idle" /\ dlock = Nobody /\ dlock' = p
      /\ CallIlock(p, "create_link")
      /\ UNCHANGED <<dir, ilocked, mtype, nlink, open>>
  BY Zenon DEF create, begin_op, At
<1>2. TypeOK /\ PcOK /\ OpenOK /\ UseOK /\ RefOK /\ InumOK
  BY <1>1, Unfold, Zenon
<1>3. PICK x \in Names, n \in Inums :
        /\ dir[x] = 0 /\ Allocates(n) /\ iget(p, n) /\ name' = [name EXCEPT ![p] = x]
  BY Zenon DEF create, Allocates
<1>6. Looks(p, n, "create_link")
  <2>1. /\ name' \in [Procs -> Names \cup {NoName}] /\ dlock' \in Procs \cup {Nobody}
        /\ \A q \in Procs : q # p => name'[q] = name[q]
    BY <1>1, <1>2, <1>3, Zenon DEF TypeOK
  <2>. QED BY <1>1, <1>3, <2>1, Zenon DEF Looks
<1>7. CASE panicked' = "iget" /\ UNCHANGED <<inum, ref, valid, ip>>
  BY <1>3, <1>6, <1>7, LookupPanics, Zenon
<1>8. ASSUME NEW s \in Slots, Gets(p, n, s), panicked' = panicked PROVE Inv'
  <2>1. /\ pc'[p] = "ilock" /\ then'[p] = "create_link" /\ name'[p] = x
    BY <1>1, <1>2, <1>3, Zenon DEF PcOK, CallIlock, TypeOK
  <2>2. /\ ip'[p] = s /\ inum'[s] = n /\ ip' = [ip EXCEPT ![p] = s]
        /\ ref[s] > 0 => inum[s] = n
    <3>1. ref[s] = 0 => ~(ref[s] > 0)
      OBVIOUS
    <3>. QED BY <1>2, <1>8, <3>1, Zenon DEF TypeOK, Gets
  <2>3. ~dtype[n] /\ dlink'[n] = 0
    BY <1>2, <1>3 DEF Allocates, TypeOK
  <2>4. ASSUME NEW q \in Procs PROVE open[q] # s /\ (q # p /\ ip[q] = s => pc[q] = "iput_end")
    <3>1. s # 0
      BY DEF Slots
    <3>2. open[q] # s
      <4>1. ASSUME open[q] = s PROVE FALSE
        <5>1. ref[s] > 0 /\ dtype[inum[s]]
          BY <1>2, <3>1, <4>1, Held, Zenon DEF OpenOK
        <5>. QED BY <2>2, <2>3, <5>1, Zenon
      <4>. QED BY <4>1, Zenon
    <3>3. ASSUME ip[q] = s, pc[q] # "iput_end" PROVE FALSE
      <4>1. pc[q] # "idle"
        BY <1>2, <3>1, <3>3, Zenon DEF PcOK
      <4>2. ref[s] > 0 /\ dtype[inum[s]]
        BY <1>2, <3>3, <4>1, Held, Zenon DEF UseOK, Uses
      <4>. QED BY <2>2, <2>3, <4>2, Zenon
    <3>. QED BY <3>2, <3>3, Zenon
  <2>5. \A q \in Procs : open'[q] # s /\ (q # p /\ ip'[q] = s => pc'[q] = "iput_end")
    <3>1. Others(p)
      BY <1>2, <1>6, <2>2, LooksAt, Zenon
    <3>. QED BY <1>1, <2>4, <3>1, Zenon DEF Others
  <2>6. Creates(p)'
    BY <1>1, <1>3, <2>1, <2>2, <2>3, <2>5, Zenon DEF Creates
  <2>7. Unlinks(p)'
    BY <2>1, Zenon DEF Unlinks, Within
  <2>. QED BY <1>3, <1>6, <1>8, <2>6, <2>7, LookupStep, Zenon
<1>. QED BY <1>2, <1>3, <1>7, <1>8, IgetEffect, Zenon

-----------------------------------------------------------------------------
(* The invariant *)

\* Nobody holds an entry of an empty table.
LEMMA EmptyTable ==
  ASSUME Counting, ref = [s \in Slots |-> 0], valid = [s \in Slots |-> FALSE],
         \A p \in Procs : pc[p] = "idle" /\ ip[p] = 0 /\ open[p] = 0
  PROVE  RefOK /\ InumOK /\ Unique /\ CacheOK /\ UseOK /\ CreateOK /\ UnlinkOK
<1>1. RefOK
  <2>. SUFFICES ASSUME NEW s \in Slots
       PROVE  ref[s] = Cardinality(Opens(s)) + Cardinality(Holds(s))
    BY Zenon DEF RefOK
  <2>1. s # 0
    BY ONLY s \in Slots DEF Slots
  <2>2. Opens(s) = {} /\ Holds(s) = {}
    BY <2>1, Zenon DEF Opens, Holds
  <2>3. Cardinality(Opens(s)) = 0 /\ Cardinality(Holds(s)) = 0 /\ ref[s] = 0
    BY <2>2, Zenon DEF Counting
  <2>. QED BY ONLY <2>3
<1>2. \A s \in Slots : ~(ref[s] > 0)
  <2>. SUFFICES ASSUME NEW s \in Slots PROVE ~(ref[s] > 0)
    BY Zenon
  <2>1. ref[s] = 0
    BY Zenon
  <2>. QED BY ONLY <2>1
<1>3. InumOK /\ Unique /\ CacheOK
  BY <1>2, Zenon DEF InumOK, Unique, CacheOK
<1>4. UseOK
  BY Zenon DEF UseOK, Uses, Locked
<1>5. CreateOK /\ UnlinkOK
  BY Zenon DEF CreateOK, UnlinkOK, Creates, Unlinks, Within
<1>. QED BY <1>1, <1>3, <1>4, <1>5, Zenon

\* ... after a step.
LEMMA EmptyAfter ==
  ASSUME Counting, ref' = [s \in Slots |-> 0], valid' = [s \in Slots |-> FALSE],
         \A p \in Procs : pc'[p] = "idle" /\ ip'[p] = 0 /\ open'[p] = 0
  PROVE  RefOK' /\ InumOK' /\ Unique' /\ CacheOK' /\ UseOK' /\ CreateOK' /\ UnlinkOK'
<1>1. RefOK'
  <2>. SUFFICES ASSUME NEW s \in Slots
       PROVE  ref'[s] = Cardinality(Opens(s)') + Cardinality(Holds(s)')
    BY Zenon DEF RefOK
  <2>1. s # 0
    BY ONLY s \in Slots DEF Slots
  <2>2. Opens(s)' = {} /\ Holds(s)' = {}
    BY <2>1, Zenon DEF Opens, Holds
  <2>3. Cardinality(Opens(s)') = 0 /\ Cardinality(Holds(s)') = 0 /\ ref'[s] = 0
    BY <2>2, Zenon DEF Counting
  <2>. QED BY ONLY <2>3
<1>2. \A s \in Slots : ~(ref'[s] > 0)
  OBVIOUS
<1>3. InumOK' /\ Unique' /\ CacheOK'
  BY <1>2, Zenon DEF InumOK, Unique, CacheOK
<1>4. UseOK'
  BY Zenon DEF UseOK, Uses, Locked
<1>5. CreateOK' /\ UnlinkOK'
  BY Zenon DEF CreateOK, UnlinkOK, Creates, Unlinks, Within
<1>. QED BY <1>1, <1>3, <1>4, <1>5, Zenon

\* Init: no inode is in use.
LEMMA InitInv ==
  ASSUME Counting, Init
  PROVE  Inv
<1>1. TypeOK
  <2>1. 0 \in 0 .. NInum /\ 0 \in 0 .. NINODE /\ 0 \in Nat
    BY InodeAssumption
  <2>2. /\ dtype \in [Inums -> BOOLEAN] /\ dlink \in [Inums -> Nat]
        /\ dir \in [Names -> 0 .. NInum] /\ dlock \in Procs \cup {Nobody}
        /\ inum \in [Slots -> 0 .. NInum] /\ ref \in [Slots -> Nat]
    BY <2>1, Zenon DEF Init
  <2>3. /\ valid \in [Slots -> BOOLEAN] /\ ilocked \in [Slots -> Procs \cup {Nobody}]
        /\ mtype \in [Slots -> BOOLEAN] /\ nlink \in [Slots -> Nat]
        /\ ip \in [Procs -> 0 .. NINODE] /\ name \in [Procs -> Names \cup {NoName}]
        /\ open \in [Procs -> 0 .. NINODE]
    BY <2>1, Zenon DEF Init
  <2>. QED BY <2>2, <2>3, Zenon DEF TypeOK
<1>2. \A p \in Procs : pc[p] = "idle" /\ ip[p] = 0 /\ open[p] = 0
  BY Zenon DEF Init
<1>3. OpenOK
  BY <1>2, Zenon DEF OpenOK
<1>4. LinksOK
  <2>1. \A n \in Inums : ~dtype[n]
    BY Zenon DEF Init
  <2>2. \A n \in Inums : Named(n) = {}
    BY DEF Init, Named, Inums
  <2>. QED BY <2>1, <2>2, Zenon DEF LinksOK
<1>5. PcOK
  <2>1. "idle" \in Labels
    BY DEF Labels
  <2>2. pc \in [Procs -> Labels] /\ then \in [Procs -> Returns \cup {"idle"}]
    BY <2>1, Zenon DEF Init
  <2>. QED BY <1>2, <2>2, Zenon DEF PcOK, Reading
<1>6. LockOK
  <2>1. \A p \in Procs : pc[p] \notin Locked
    BY <1>2, Zenon DEF Locked
  <2>2. \A p \in Procs, s \in Slots : ilocked[s] # p
    BY InodeAssumption, Zenon DEF Init
  <2>. QED BY <2>1, <2>2, Zenon DEF LockOK
<1>7. RefOK /\ InumOK /\ Unique /\ CacheOK /\ UseOK /\ CreateOK /\ UnlinkOK
  BY <1>2, EmptyTable, Zenon DEF Init
<1>. QED BY <1>1, <1>3, <1>4, <1>5, <1>6, <1>7, Zenon DEF Inv, Running, Init

\* A restart finds the disk with no call in progress.
LEMMA CrashStep ==
  ASSUME Counting, Inv, Crash
  PROVE  Inv'
<1>1. /\ ref' = [s \in Slots |-> 0] /\ inum' = [s \in Slots |-> 0]
      /\ valid' = [s \in Slots |-> FALSE]
      /\ mtype' = [s \in Slots |-> FALSE] /\ nlink' = [s \in Slots |-> 0]
      /\ open' = [p \in Procs |-> 0]
      /\ UNCHANGED <<dtype, dlink, dir, dlock, ilocked, pc, then, ip, name, panicked>>
  BY Zenon DEF Crash, diskVars, procVars
<1>2. \A p \in Procs : pc[p] = "idle" /\ open'[p] = 0
  BY <1>1, Zenon DEF Crash, At
<1>3. TypeOK /\ LinksOK /\ panicked \in {"no", "iget"}
  BY Zenon DEF Inv
<1>4. TypeOK'
  <2>1. 0 \in 0 .. NInum /\ 0 \in 0 .. NINODE /\ 0 \in Nat
    BY InodeAssumption
  <2>2. /\ dtype' \in [Inums -> BOOLEAN] /\ dlink' \in [Inums -> Nat]
        /\ dir' \in [Names -> 0 .. NInum] /\ dlock' \in Procs \cup {Nobody}
        /\ ilocked' \in [Slots -> Procs \cup {Nobody}]
        /\ ip' \in [Procs -> 0 .. NINODE] /\ name' \in [Procs -> Names \cup {NoName}]
    BY <1>1, <1>3, Zenon DEF TypeOK
  <2>3. /\ valid' \in [Slots -> BOOLEAN] /\ mtype' \in [Slots -> BOOLEAN]
        /\ inum' \in [Slots -> 0 .. NInum] /\ ref' \in [Slots -> Nat]
        /\ nlink' \in [Slots -> Nat] /\ open' \in [Procs -> 0 .. NINODE]
    BY <1>1, <2>1, Zenon
  <2>. QED BY <2>2, <2>3, Zenon DEF TypeOK
<1>5. OpenOK'
  BY <1>2, Zenon DEF OpenOK
<1>6. LinksOK'
  <2>1. \A n : Named(n)' = Named(n)
    BY <1>1, Zenon DEF Named
  <2>2. \A n : Pending(n)' = Pending(n)
    <3>. TAKE n
    <3>1. \A q \in Procs : q \notin Pending(n) /\ q \notin Pending(n)'
      BY <1>1, <1>2, Zenon DEF Pending
    <3>2. Pending(n) \subseteq Procs /\ Pending(n)' \subseteq Procs
      BY Zenon DEF Pending
    <3>. QED BY ONLY <3>1, <3>2, Zenon
  <2>. QED BY <1>1, <1>3, <2>1, <2>2, Zenon DEF LinksOK
<1>7. ASSUME panicked = "no" PROVE Running'
  <2>1. PcOK /\ LockOK
    BY <1>7, Unfold, Zenon
  <2>2. PcOK'
    BY <1>1, <1>2, <2>1, Zenon DEF PcOK, Reading
  <2>3. LockOK'
    BY <1>1, <2>1, Zenon DEF LockOK
  <2>4. \A p \in Procs : pc'[p] = "idle" /\ ip'[p] = 0 /\ open'[p] = 0
    BY <1>1, <1>2, <2>1, Zenon DEF PcOK
  <2>5. RefOK' /\ InumOK' /\ Unique' /\ CacheOK' /\ UseOK' /\ CreateOK' /\ UnlinkOK'
    BY <1>1, <2>4, EmptyAfter, Zenon
  <2>. QED BY <2>2, <2>3, <2>5, Zenon DEF Running
<1>. QED BY <1>1, <1>3, <1>4, <1>5, <1>6, <1>7, Zenon DEF Inv

\* Every step keeps the invariant.
LEMMA NextKeeps ==
  ASSUME Counting, Inv, [Next]_vars
  PROVE  Inv'
<1>1. ASSUME NEW p \in Procs, ilock(p) \/ iput(p) \/ iput_free(p) \/ iput_end(p) PROVE Inv'
  BY <1>1, IlockStep, IputStep, IputFreeStep, Zenon
<1>2. ASSUME NEW p \in Procs, sys_open(p) \/ opened(p) \/ close(p) PROVE Inv'
  BY <1>2, OpenStep, OpenedStep, CloseStep, Zenon
<1>3. ASSUME NEW p \in Procs, fileread(p) \/ read_done(p) PROVE Inv'
  BY <1>3, FilereadStep, ReadDoneStep, Zenon
<1>4. ASSUME NEW p \in Procs, create(p) \/ create_link(p) PROVE Inv'
  BY <1>4, CreateStep, CreateLinkStep, Zenon
<1>5. ASSUME NEW p \in Procs, sys_unlink(p) \/ unlink_entry(p) \/ drop_link(p) PROVE Inv'
  BY <1>5, UnlinkStep, UnlinkEntryStep, DropLinkStep, Zenon
<1>6. ASSUME NEW p \in Procs, sys_link(p) \/ add_link(p) \/ link_entry(p) PROVE Inv'
  BY <1>6, SysLinkStep, AddLinkStep, LinkEntryStep, Zenon
<1>7. CASE Crash
  BY <1>7, CrashStep, Zenon
<1>8. CASE UNCHANGED vars
  <2>1. /\ UNCHANGED <<dtype, dlink, dir, dlock, inum, ref, valid, ilocked, mtype, nlink>>
        /\ UNCHANGED <<pc, then, ip, name, open, panicked>>
    BY <1>8, Zenon DEF vars, diskVars, memVars, procVars
  <2>2. TypeOK' <=> TypeOK
    BY <2>1, Zenon DEF TypeOK
  <2>3. (OpenOK' <=> OpenOK) /\ (LinksOK' <=> LinksOK)
    <3>1. \A n : Named(n)' = Named(n) /\ Pending(n)' = Pending(n)
      <4>. TAKE n
      <4>1. Named(n)' = Named(n)
        BY ONLY <2>1, Zenon DEF Named
      <4>2. Pending(n)' = Pending(n)
        BY ONLY <2>1 DEF Pending
      <4>. QED BY <4>1, <4>2, Zenon
    <3>2. OpenOK' <=> OpenOK
      BY ONLY <2>1, Zenon DEF OpenOK
    <3>3. LinksOK' <=> LinksOK
      BY ONLY <2>1, <3>1, Zenon DEF LinksOK
    <3>. QED BY <3>2, <3>3, Zenon
  <2>4. (PcOK' <=> PcOK) /\ (LockOK' <=> LockOK) /\ (RefOK' <=> RefOK)
    <3>1. \A s : Opens(s)' = Opens(s) /\ Holds(s)' = Holds(s)
      BY <2>1, Zenon DEF Opens, Holds, Reading
    <3>2. RefOK' <=> RefOK
      BY <2>1, <3>1, Zenon DEF RefOK
    <3>3. LockOK' <=> LockOK
      BY ONLY <2>1 DEF LockOK
    <3>4. PcOK' <=> PcOK
      BY ONLY <2>1 DEF PcOK, Reading
    <3>. QED BY <3>2, <3>3, <3>4, Zenon
  <2>5. (InumOK' <=> InumOK) /\ (Unique' <=> Unique) /\ (CacheOK' <=> CacheOK)
    BY <2>1, Zenon DEF InumOK, Unique, CacheOK
  <2>6. (UseOK' <=> UseOK) /\ (CreateOK' <=> CreateOK) /\ (UnlinkOK' <=> UnlinkOK)
    BY <2>1, Zenon DEF UseOK, Uses, CreateOK, Creates, UnlinkOK, Unlinks, Within
  <2>. QED BY <2>1, <2>2, <2>3, <2>4, <2>5, <2>6, Zenon DEF Inv, Running
<1>9. CASE Halted
  BY <1>8, <1>9, Zenon DEF Halted
<1>. QED BY <1>1, <1>2, <1>3, <1>4, <1>5, <1>6, <1>7, <1>8, <1>9, Zenon DEF Next

\* The invariant implies RefExact ...
LEMMA RefExactHolds ==
  ASSUME Counting, Inv
  PROVE  RefExact
<1>1. ASSUME panicked = "no", NEW s \in Slots
      PROVE  /\ ref[s] = Cardinality({p \in Procs : open[p] = s})
                         + Cardinality({p \in Procs : ip[p] = s /\ ~Reading(p)})
             /\ \A t \in Slots : ref[s] > 0 /\ ref[t] > 0 /\ inum[s] = inum[t] => s = t
  <2>1. RefOK /\ Unique
    BY <1>1, Unfold, Zenon
  <2>. QED BY <2>1, Zenon DEF RefOK, Unique, Opens, Holds
<1>2. ASSUME NEW p \in Procs, At(p, "iput"), ref[ip[p]] = 1
      PROVE  ilocked[ip[p]] = Nobody
  <2>1. panicked = "no" /\ pc[p] = "iput" /\ pc[p] # "idle"
    BY <1>2, Zenon DEF At
  <2>2. TypeOK /\ PcOK /\ RefOK /\ InumOK /\ LockOK
    BY <2>1, Unfold, Zenon
  <2>3. ip[p] \in Slots /\ ~Reading(p)
    BY <2>1, <2>2, Held, Zenon DEF Reading
  <2>4. \A q \in Procs : q # p => ip[q] # ip[p]
    BY <1>2, <2>2, <2>3, Sole, Zenon
  <2>5. pc[p] \notin Locked
    BY <2>1, Zenon DEF Locked
  <2>6. \A q \in Procs : ilocked[ip[p]] # q
    BY <2>2, <2>3, <2>4, <2>5, Zenon DEF LockOK
  <2>. QED BY <2>2, <2>3, <2>6, Zenon DEF TypeOK
<1>. QED BY <1>1, <1>2, Zenon DEF RefExact

\* ... and LinksExact ...
LEMMA LinksExactHolds ==
  ASSUME Inv
  PROVE  LinksExact
<1>1. TypeOK /\ panicked \in {"no", "iget"} /\ OpenOK /\ LinksOK
  BY Zenon DEF Inv
<1>. QED BY <1>1, Zenon DEF LinksExact, OpenOK, LinksOK, Named

\* ... and CacheCurrent.
LEMMA CacheCurrentHolds ==
  ASSUME Inv
  PROVE  CacheCurrent
<1>. SUFFICES ASSUME panicked = "no", NEW s \in Slots, ref[s] > 0, valid[s]
     PROVE  mtype[s] = dtype[inum[s]] /\ nlink[s] = dlink[inum[s]]
  BY Zenon DEF CacheCurrent
<1>1. TypeOK /\ InumOK /\ CacheOK
  BY Unfold, Zenon
<1>2. dtype[inum[s]] /\ mtype[s] /\ nlink[s] = dlink[inum[s]]
  BY <1>1, Zenon DEF CacheOK
<1>3. dtype[inum[s]] \in BOOLEAN /\ mtype[s] \in BOOLEAN
  BY <1>1, Zenon DEF TypeOK, InumOK
<1>. QED BY <1>2, <1>3

-----------------------------------------------------------------------------
(* Counting, and the theorems *)

INSTANCE FiniteSetTheorems

\* Sets of processes and of names are finite.
LEMMA Finite ==
  ASSUME NEW A, A \subseteq Procs \/ A \subseteq Names
  PROVE  IsFiniteSet(A) /\ Cardinality(A) \in Nat
<1>1. IsFiniteSet(A)
  BY FS_Subset, InodeAssumption, Zenon
<1>. QED BY <1>1, FS_CardinalityType, Zenon

\* The cardinalities of sets that differ at most in x.
LEMMA OneChange ==
  ASSUME NEW A, NEW A1, NEW x, IsFiniteSet(A), IsFiniteSet(A1), A \ {x} = A1 \ {x}
  PROVE  Differs(A, A1, x)
<1>. DEFINE C == A \ {x}
<1>1. Cardinality(C) = Cardinality(A) - B(x \in A)
  <2>1. Cardinality(C) = IF x \in A THEN Cardinality(A) - 1 ELSE Cardinality(A)
    BY FS_RemoveElement, Zenon
  <2>2. Cardinality(A) \in Nat
    BY FS_CardinalityType, Zenon
  <2>. QED BY <2>1, <2>2 DEF B
<1>2. Cardinality(C) = Cardinality(A1) - B(x \in A1)
  <2>1. Cardinality(C) = IF x \in A1 THEN Cardinality(A1) - 1 ELSE Cardinality(A1)
    BY FS_RemoveElement, Zenon
  <2>2. Cardinality(A1) \in Nat
    BY FS_CardinalityType, Zenon
  <2>. QED BY <2>1, <2>2 DEF B
<1>3. Cardinality(A) \in Nat /\ Cardinality(A1) \in Nat
  BY FS_CardinalityType, Zenon
<1>4. B(x \in A) \in Nat /\ B(x \in A1) \in Nat
  BY DEF B
<1>. HIDE DEF C
<1>. QED BY <1>1, <1>2, <1>3, <1>4 DEF Differs

\* A finite set with an element has a positive cardinality.
LEMMA CountPos ==
  ASSUME NEW A, IsFiniteSet(A), NEW x \in A
  PROVE  Cardinality(A) \in Nat /\ Cardinality(A) > 0
<1>1. Cardinality(A) \in Nat /\ Cardinality(A) # 0
  BY FS_EmptySet, FS_CardinalityType, Zenon
<1>. QED BY <1>1

\* A finite set with two elements has a cardinality above one.
LEMMA CountTwo ==
  ASSUME NEW A, IsFiniteSet(A), NEW x \in A, NEW y \in A, x # y
  PROVE  Cardinality(A) \in Nat /\ Cardinality(A) > 1
<1>1. Cardinality(A) \in Nat /\ Cardinality(A) > 0
  BY CountPos, Zenon
<1>2. Cardinality(A) # 1
  <2>1. ASSUME Cardinality(A) = 1 PROVE FALSE
    <3>1. PICK z : A = {z}
      BY <2>1, FS_Singleton, Zenon
    <3>. QED BY <3>1, Zenon
  <2>. QED BY <2>1, Zenon
<1>. QED BY <1>1, <1>2

\* What the proofs use of finite sets.
LEMMA CountingHolds == Counting
<1>1. \A A : A \subseteq Procs \/ A \subseteq Names =>
        IsFiniteSet(A) /\ Cardinality(A) \in Nat
  BY Finite, Zenon
<1>2. \A A, A1, x : IsFiniteSet(A) /\ IsFiniteSet(A1) /\ A \ {x} = A1 \ {x} =>
        Differs(A, A1, x)
  BY OneChange, Zenon
<1>3. Cardinality({}) = 0 /\ \A A : IsFiniteSet(A) /\ Cardinality(A) = 0 => A = {}
  BY FS_EmptySet, Zenon
<1>4. \A A, x : IsFiniteSet(A) /\ x \in A => Cardinality(A) > 0
  BY CountPos, Zenon
<1>5. \A A, x, y : IsFiniteSet(A) /\ x \in A /\ y \in A /\ x # y => Cardinality(A) > 1
  BY CountTwo, Zenon
<1>. QED BY <1>1, <1>2, <1>3, <1>4, <1>5, Zenon DEF Counting

\* The inductive invariant holds in every state of every behaviour.
THEOREM Invariance == Spec => []Inv
<1>1. Init => Inv
  BY CountingHolds, InitInv, Zenon
<1>2. Inv /\ [Next]_vars => Inv'
  BY CountingHolds, NextKeeps, Zenon
<1>. QED BY <1>1, <1>2, PTL DEF Spec

\* RefExact: ref counts exactly the open files and the calls that hold an entry of the
\* inode table, no two live entries are for one inode, and the lock that iput() takes
\* for its last reference is free.
THEOREM RefExactThm == Spec => []RefExact
<1>1. Inv => RefExact
  BY CountingHolds, RefExactHolds, Zenon
<1>. QED BY <1>1, Invariance, PTL

\* LinksExact: the link count of an inode in use is the number of names that stand for
\* it and of calls that have counted a link that is not there; so no name and no open
\* file is for a free inode, and the checks of ilock() and unlink() never panic.
THEOREM LinksExactThm == Spec => []LinksExact
<1>1. Inv => LinksExact
  BY LinksExactHolds, Zenon
<1>. QED BY <1>1, Invariance, PTL

\* CacheCurrent: a valid entry of the inode table that nobody has locked agrees with the
\* inode on disk, so it never shows a previous life of its inode.
THEOREM CacheCurrentThm == Spec => []CacheCurrent
<1>1. Inv => CacheCurrent
  BY CacheCurrentHolds, Zenon
<1>. QED BY <1>1, Invariance, PTL
==============================================================================
