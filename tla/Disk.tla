--------------------------------- MODULE Disk ---------------------------------
(***************************************************************************)
(* The virtio block driver of platform/qemu/platform.c: descriptors, the   *)
(* available and used rings, the interrupt handler, and a device that      *)
(* completes requests in any order.                                        *)
(*                                                                         *)
(* A process step is a critical section under qemu_disk.lock, from taking  *)
(* the lock to sleeping or releasing it.  The device needs no lock, so the *)
(* interrupt handler is split into single iterations of its loop.          *)
(* Memory that is dead in the code (a ring entry both sides have passed, a *)
(* freed request header) is reset, to keep one state for its many values.  *)
(***************************************************************************)
EXTENDS Integers, Sequences, FiniteSets, FiniteSetsExt

CONSTANTS
  Procs,    \* processes; each does I/O on the block and buffer it has locked
  Vals,     \* block contents
  NUM,      \* descriptors, and entries of each ring
  IdxMod    \* width of the 16-bit ring indices: a multiple of NUM

ASSUME DiskAssumption == NUM \in Nat \ {0} /\ IdxMod \in Nat \ {0} /\ IdxMod % NUM = 0

VARIABLES
  free,      \* indices i with qemu_disk.free[i] set
  desc,      \* the descriptor table
  ops,       \* qemu_disk.ops: command and block of the request headed here
  status, done,          \* qemu_disk.info
  avail, availIdx,       \* available ring and its index
  usedRing, usedRingIdx, \* used ring and its index, written by the device
  used_idx,  \* the driver's position in the used ring
  devIdx,    \* the device's position in the available ring
  pending,   \* heads the device is working on
  irq,       \* interrupt asserted
  handler,   \* the interrupt handler runs, holding qemu_disk.lock
  disk, buf, \* contents of the blocks and of the processes' buffers
  pc,        \* "idle", "alloc", "sleep_free", "wait", "sleep_done", "check"
  req,       \* idx[0] and the direction of each process's request
  panicked

ringVars == <<avail, availIdx, usedRing, usedRingIdx, used_idx, devIdx, pending>>
ctlVars == <<irq, handler, panicked>>
vars == <<free, desc, ops, status, done, ringVars, ctlVars, disk, buf, pc, req>>

Descs == 0 .. NUM - 1
NoDesc == [addr |-> <<"null">>, next |-> 0, more |-> FALSE]
NoBlock == "none"
NoOp == [write |-> FALSE, block |-> NoBlock]
NoReq == [head |-> 0, write |-> FALSE]
\* Ring indices wrap.
Inc(i) == (i + 1) % IdxMod

Init ==
  /\ free = Descs
  /\ desc = [i \in Descs |-> NoDesc]
  /\ ops = [i \in Descs |-> NoOp]
  /\ status = [i \in Descs |-> "ok"] /\ done = [i \in Descs |-> FALSE]
  /\ avail = [i \in Descs |-> 0] /\ availIdx = 0
  /\ usedRing = [i \in Descs |-> 0] /\ usedRingIdx = 0
  /\ used_idx = 0 /\ devIdx = 0 /\ pending = {}
  /\ irq = FALSE /\ handler = FALSE /\ panicked = FALSE
  /\ disk \in [Procs -> Vals] /\ buf = disk
  /\ pc = [p \in Procs |-> "idle"]
  /\ req = [p \in Procs |-> NoReq]

Locked == handler \/ panicked
Goto(p, l) == pc' = [pc EXCEPT ![p] = l]

\* wakeup(&qemu_disk.free[0]) by p (which is not asleep itself).
WakeFree(f) == [q \in Procs |-> IF f[q] = "sleep_free" THEN "alloc" ELSE f[q]]
\* wakeup(&qemu_disk.info[id]).
WakeDone(f, id) ==
  [q \in Procs |-> IF f[q] = "sleep_done" /\ req[q].head = id THEN "wait" ELSE f[q]]

-----------------------------------------------------------------------------
(* Requests *)

\* The holder of the locked buffer changes it and calls platform_disk_write(),
\* or drops its contents and calls platform_disk_read().
rw(p) ==
  /\ ~panicked /\ pc[p] = "idle"
  /\ \E w \in BOOLEAN, v \in Vals :
       /\ buf' = [buf EXCEPT ![p] = v]
       /\ req' = [req EXCEPT ![p].write = w]
  /\ Goto(p, "alloc")
  /\ UNCHANGED <<free, desc, ops, status, done, ringVars, ctlVars, disk>>

\* alloc3_desc() fails: the descriptors it got go back, with a wakeup each.
alloc_fail(p) ==
  /\ ~Locked /\ pc[p] = "alloc" /\ Cardinality(free) < 3
  /\ pc' = [(IF free = {} THEN pc ELSE WakeFree(pc)) EXCEPT ![p] = "sleep_free"]
  /\ UNCHANGED <<free, desc, ops, status, done, ringVars, ctlVars, disk, buf, req>>

\* The lowest free descriptors, in order.
Idx0 == Min(free)
Idx1 == Min(free \ {Idx0})
Idx2 == Min(free \ {Idx0, Idx1})

\* Mutation: reads and writes are swapped.
HeaderSwapped(p) == [write |-> ~req[p].write, block |-> p]

\* The request header, struct virtio_blk_req.
Header(p) == [write |-> req[p].write, block |-> p]

\* Mutation: done is not reset, so the request looks finished at once.
submit_olddone(p) ==
  /\ ~Locked /\ pc[p] = "alloc" /\ Cardinality(free) >= 3
  /\ free' = free \ {Idx0, Idx1, Idx2}
  /\ ops' = [ops EXCEPT ![Idx0] = Header(p)]
  /\ desc' = [desc EXCEPT
       ![Idx0] = [addr |-> <<"op", Idx0>>, next |-> Idx1, more |-> TRUE],
       ![Idx1] = [addr |-> <<"buf", p>>, next |-> Idx2, more |-> TRUE],
       ![Idx2] = [addr |-> <<"status", Idx0>>, next |-> 0, more |-> FALSE]]
  /\ status' = [status EXCEPT ![Idx0] = "unset"]
  /\ avail' = [avail EXCEPT ![availIdx % NUM] = Idx0]
  /\ availIdx' = Inc(availIdx)
  /\ req' = [req EXCEPT ![p].head = Idx0]
  /\ Goto(p, "wait")
  /\ UNCHANGED <<done, usedRing, usedRingIdx, used_idx, devIdx, pending, ctlVars, disk, buf>>

\* Format the three descriptors, append the head to the available ring, notify
\* the device and go to wait for it.
submit(p) ==
  /\ ~Locked /\ pc[p] = "alloc" /\ Cardinality(free) >= 3
  /\ free' = free \ {Idx0, Idx1, Idx2}
  /\ ops' = [ops EXCEPT ![Idx0] = Header(p)]
  /\ desc' = [desc EXCEPT
       ![Idx0] = [addr |-> <<"op", Idx0>>, next |-> Idx1, more |-> TRUE],
       ![Idx1] = [addr |-> <<"buf", p>>, next |-> Idx2, more |-> TRUE],
       ![Idx2] = [addr |-> <<"status", Idx0>>, next |-> 0, more |-> FALSE]]
  /\ status' = [status EXCEPT ![Idx0] = "unset"]
  /\ done' = [done EXCEPT ![Idx0] = FALSE]
  /\ avail' = [avail EXCEPT ![availIdx % NUM] = Idx0]
  /\ availIdx' = Inc(availIdx)
  /\ req' = [req EXCEPT ![p].head = Idx0]
  /\ Goto(p, "sleep_done")
  /\ UNCHANGED <<usedRing, usedRingIdx, used_idx, devIdx, pending, ctlVars, disk, buf>>

\* Mutation: only the head of the chain is freed.
ChainHead(h) == {h}

\* The descriptors of the chain that starts at h (a request has three).
Chain(h) ==
  LET upto[n \in 0 .. 3] ==
        IF n = 0 THEN {h}
        ELSE LET c == upto[n-1] IN c \cup {desc[i].next : i \in {j \in c : desc[j].more}}
  IN upto[3]

\* Woken: if the request is done, free_chain() and leave the critical section;
\* the status is looked at after the lock is released.  free_desc() leaves the
\* request header as it is; the next submission overwrites it before the device
\* can read it, so the model forgets it.
complete(p) ==
  /\ ~Locked /\ pc[p] = "wait"
  /\ IF done[req[p].head]
     THEN /\ free' = free \cup Chain(req[p].head)
          /\ desc' = [i \in Descs |-> IF i \in Chain(req[p].head) THEN NoDesc ELSE desc[i]]
          /\ ops' = [ops EXCEPT ![req[p].head] = NoOp]
          /\ pc' = [WakeFree(pc) EXCEPT ![p] = "check"]
     ELSE Goto(p, "sleep_done") /\ UNCHANGED <<free, desc, ops>>
  /\ UNCHANGED <<status, done, ringVars, ctlVars, disk, buf, req>>

check(p) ==
  /\ ~panicked /\ pc[p] = "check"
  /\ panicked' = (status[req[p].head] # "ok")
  /\ req' = [req EXCEPT ![p] = NoReq]
  /\ Goto(p, "idle")
  /\ UNCHANGED <<free, desc, ops, status, done, ringVars, irq, handler, disk, buf>>

-----------------------------------------------------------------------------
(* The device (external) *)

dev_fetch ==
  /\ devIdx # availIdx
  /\ pending' = pending \cup {avail[devIdx % NUM]}
  /\ avail' = [avail EXCEPT ![devIdx % NUM] = 0]
  /\ devIdx' = Inc(devIdx)
  /\ UNCHANGED <<free, desc, ops, status, done, availIdx, usedRing, usedRingIdx,
                 used_idx, ctlVars, disk, buf, pc, req>>

\* Move the data, store the status, append to the used ring, interrupt.
dev_complete(h) ==
  LET data == desc[desc[h].next]
      stat == desc[data.next]
      op == ops[desc[h].addr[2]]
      owner == data.addr[2]
  IN /\ h \in pending
     /\ IF op.write
      THEN disk' = [disk EXCEPT ![op.block] = buf[owner]] /\ UNCHANGED buf
      ELSE buf' = [buf EXCEPT ![owner] = disk[op.block]] /\ UNCHANGED disk
     /\ status' = [status EXCEPT ![stat.addr[2]] = "ok"]
     /\ usedRing' = [usedRing EXCEPT ![usedRingIdx % NUM] = h]
     /\ usedRingIdx' = Inc(usedRingIdx)
     /\ pending' = pending \ {h}
     /\ irq' = TRUE
     /\ UNCHANGED <<free, desc, ops, done, avail, availIdx, used_idx, devIdx, handler,
                  panicked, pc, req>>

-----------------------------------------------------------------------------
(* platform_qemu_disk_intr() *)

\* Take the lock and acknowledge the interrupt.
intr ==
  /\ irq /\ ~Locked
  /\ handler' = TRUE /\ irq' = FALSE
  /\ UNCHANGED <<free, desc, ops, status, done, ringVars, panicked, disk, buf, pc, req>>

\* One iteration of the loop over the used ring ...
intr_used ==
  LET id == usedRing[used_idx % NUM] IN
  /\ handler /\ ~panicked /\ used_idx # usedRingIdx
  /\ IF status[id] # "ok"
     THEN panicked' = TRUE /\ UNCHANGED <<done, pc, used_idx, usedRing>>
     ELSE /\ done' = [done EXCEPT ![id] = TRUE]
          /\ pc' = WakeDone(pc, id)
          /\ usedRing' = [usedRing EXCEPT ![used_idx % NUM] = 0]
          /\ used_idx' = Inc(used_idx)
          /\ UNCHANGED panicked
  /\ UNCHANGED <<free, desc, ops, status, avail, availIdx, usedRingIdx, devIdx,
                 pending, irq, handler, disk, buf, req>>

\* Mutation: the interrupt is acknowledged after the loop instead of before.
intr_end_ack ==
  /\ handler /\ ~panicked
  /\ used_idx = usedRingIdx \/ irq   \* the loop's last look at used->idx is old
  /\ handler' = FALSE /\ irq' = FALSE
  /\ UNCHANGED <<free, desc, ops, status, done, ringVars, panicked, disk, buf, pc, req>>

\* ... and its end.
intr_end ==
  /\ handler /\ ~panicked /\ used_idx = usedRingIdx
  /\ handler' = FALSE
  /\ UNCHANGED <<free, desc, ops, status, done, ringVars, irq, panicked, disk, buf, pc, req>>

Driver(p) == alloc_fail(p) \/ submit(p) \/ complete(p) \/ check(p)

Next ==
  \/ \E p \in Procs : rw(p) \/ Driver(p)
  \/ \E h \in Descs : dev_complete(h)
  \/ dev_fetch \/ intr \/ intr_used \/ intr_end

Spec == Init /\ [][Next]_vars

-----------------------------------------------------------------------------
(* Properties *)

\* Every variable has its type.
TypeOK ==
  /\ free \subseteq Descs
  /\ \A i \in Descs : desc[i].next \in Descs /\ desc[i].more \in BOOLEAN
  /\ \A i \in Descs : ops[i].write \in BOOLEAN /\ ops[i].block \in Procs \cup {NoBlock}
  /\ status \in [Descs -> {"ok", "unset"}] /\ done \in [Descs -> BOOLEAN]
  /\ avail \in [Descs -> Descs] /\ usedRing \in [Descs -> Descs]
  /\ {availIdx, usedRingIdx, used_idx, devIdx} \subseteq 0 .. IdxMod - 1
  /\ pending \subseteq Descs
  /\ irq \in BOOLEAN /\ handler \in BOOLEAN /\ panicked \in BOOLEAN
  /\ disk \in [Procs -> Vals] /\ buf \in [Procs -> Vals]
  /\ pc \in [Procs -> {"idle", "alloc", "sleep_free", "wait", "sleep_done", "check"}]
  /\ \A p \in Procs : req[p].head \in Descs /\ req[p].write \in BOOLEAN

InFlight == {p \in Procs : pc[p] \in {"wait", "sleep_done"}}

\* Every descriptor is free or in the chain of exactly one request, and every
\* request has three: free_chain() and the failing alloc3_desc() lose none.
DescOwned ==
  LET chain == [p \in InFlight |-> Chain(req[p].head)] IN
  /\ TypeOK
  /\ \A p \in InFlight : Cardinality(chain[p]) = 3 /\ chain[p] \cap free = {}
  /\ \A p, q \in InFlight : p # q => chain[p] \cap chain[q] = {}
  /\ (UNION {chain[p] : p \in InFlight}) \cup free = Descs

\* When platform_qemu_disk_rw() is over, block and buffer agree: a write has
\* reached the disk and a read has filled the buffer.
Transferred == \A p \in Procs : pc[p] \in {"check", "idle"} => buf[p] = disk[p]

\* The device touches a block or a buffer only for the request of the process
\* that holds them, in that request's direction, and not after it returned.
DmaInWindow ==
  [][\A p \in Procs :
       /\ disk'[p] # disk[p] => p \in InFlight /\ req[p].write /\ disk'[p] = buf[p]
       /\ buf'[p] # buf[p] => pc[p] = "idle" \/ (p \in InFlight /\ ~req[p].write)]_vars

\* The entries of a ring between two indices.
Window(ring, from, to) ==
  {ring[i % NUM] : i \in {(from + k) % IdxMod : k \in 0 .. ((to - from + IdxMod) % IdxMod) - 1}}

\* No wakeup is missed: the request of a sleeping process is with the device or in
\* one of the rings, an entry of the used ring has an interrupt to come or a handler
\* that will see it, and that handler finds status 0; and nobody sleeps for
\* descriptors while a request's worth of them is free.
OnItsWay ==
  /\ \A p \in Procs : pc[p] = "sleep_done" =>
       req[p].head \in Window(avail, devIdx, availIdx) \cup pending
                        \cup Window(usedRing, used_idx, usedRingIdx)
  /\ used_idx # usedRingIdx => irq \/ handler
  /\ \A h \in Window(usedRing, used_idx, usedRingIdx) : status[h] = "ok"
  /\ Cardinality(free) >= 3 => \A p \in Procs : pc[p] # "sleep_free"
=============================================================================
