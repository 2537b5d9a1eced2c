--------------------------------- MODULE Log ---------------------------------
(***************************************************************************)
(* The redo log of kernel/log.c over the buffer cache of kernel/bio.c and  *)
(* a disk whose single-block writes are atomic, with a crash possible      *)
(* between any two of them.                                                *)
(*                                                                         *)
(* A step is either a critical section under log.lock or the work on one   *)
(* buffer while its sleep lock is held: nothing else can look at the state *)
(* in between.  The log's own blocks are written through under their       *)
(* buffer lock, so their cached copy never differs from the disk and they  *)
(* are read straight from it here; home blocks are read through the cache. *)
(***************************************************************************)
EXTENDS Integers, Sequences, FiniteSets

CONSTANTS
  Procs,        \* processes making file-system calls
  Blocks,       \* home block numbers
  Vals,         \* block contents
  Zero,         \* what mkfs leaves in the log blocks
  NoBuf,        \* "not cached"
  MAXOPBLOCKS,  \* log space begin_op() reserves for an operation
  LOGSIZE,      \* entries of struct logheader
  NLog,         \* superblock.nlog: blocks of the on-disk log, header included
  OpBlocks      \* most distinct blocks an operation really writes

ASSUME LogAssumption ==
  /\ IsFiniteSet(Procs)
  /\ Zero \in Vals
  /\ NoBuf \notin Vals
  /\ MAXOPBLOCKS \in Nat \ {0}
  /\ LOGSIZE \in Nat
  /\ MAXOPBLOCKS <= LOGSIZE
  /\ NLog \in Nat \ {0, 1}
  /\ OpBlocks \in Nat

VARIABLES
  home,         \* disk: the home locations
  head,         \* disk: the header block, as the sequence of its block numbers
  logblk,       \* disk: the log's data blocks, start+1 .. start+NLog-1
  cache,        \* contents of the cached home blocks
  pin,          \* reference counts held by the log (bpin / bunpin)
  lh,           \* log.lh, as the sequence of its block numbers
  outstanding,  \* log.outstanding
  committing,   \* log.committing
  pc,           \* where each process is
  wrote,        \* blocks each current operation has logged (its budget)
  phase,        \* progress of commit() or recover_from_log()
  tail,         \* their loop index
  recovering,   \* between a (re)boot and the end of recover_from_log()
  panicked      \* panic() was called

diskVars == <<home, head, logblk>>
memVars == <<cache, pin, lh, outstanding, committing, wrote>>
ctlVars == <<phase, tail, recovering, panicked>>
vars == <<diskVars, memVars, pc, ctlVars>>

Slots == 1 .. NLog - 1
Logged(s) == {s[i] : i \in 1 .. Len(s)}
Running == ~recovering /\ ~panicked

\* bread(): the cached contents if there are any, else the disk's.
bread(b) == IF cache[b] = NoBuf THEN home[b] ELSE cache[b]

-----------------------------------------------------------------------------
\* Power-on: the disk is intact, everything else starts empty, and the first
\* process calls fsinit() -> initlog() -> recover_from_log() before any other
\* process exists.
PowerOn ==
  /\ cache' = [b \in Blocks |-> NoBuf]
  /\ pin' = [b \in Blocks |-> 0]
  /\ lh' = <<>>
  /\ outstanding' = 0
  /\ committing' = FALSE
  /\ pc' = [p \in Procs |-> "out"]
  /\ wrote' = [p \in Procs |-> {}]
  /\ phase' = "read_head"
  /\ tail' = 0
  /\ recovering' = TRUE
  /\ panicked' = FALSE

\* mkfs wrote some file system and zeroes everywhere else.
Init ==
  /\ home \in [Blocks -> Vals]
  /\ head = <<>>
  /\ logblk = [i \in Slots |-> Zero]
  /\ cache = [b \in Blocks |-> NoBuf]
  /\ pin = [b \in Blocks |-> 0]
  /\ lh = <<>>
  /\ outstanding = 0
  /\ committing = FALSE
  /\ pc = [p \in Procs |-> "out"]
  /\ wrote = [p \in Procs |-> {}]
  /\ phase = "read_head"
  /\ tail = 0
  /\ recovering = TRUE
  /\ panicked = FALSE

Crash == PowerOn /\ UNCHANGED diskVars

-----------------------------------------------------------------------------
\* wakeup(&log)
WakeAll(f) == [p \in Procs |-> IF f[p] = "sleep" THEN "begin" ELSE f[p]]

LogFull == Len(lh) + (outstanding + 1) * MAXOPBLOCKS > LOGSIZE

\* Mutation: does not wait for a commit in progress.
begin_op_hasty(p) ==
  /\ Running
  /\ pc[p] \in {"out", "begin"}
  /\ IF LogFull
     THEN /\ pc' = [pc EXCEPT ![p] = "sleep"]
          /\ UNCHANGED <<outstanding, wrote>>
     ELSE /\ pc' = [pc EXCEPT ![p] = "in"]
          /\ outstanding' = outstanding + 1
          /\ wrote' = [wrote EXCEPT ![p] = {}]
  /\ UNCHANGED <<diskVars, cache, pin, lh, committing, ctlVars>>

\* One pass of begin_op()'s loop: sleep on &log, or be admitted.
begin_op(p) ==
  /\ Running
  /\ pc[p] \in {"out", "begin"}
  /\ IF committing \/ LogFull
     THEN /\ pc' = [pc EXCEPT ![p] = "sleep"]
          /\ UNCHANGED <<outstanding, wrote>>
     ELSE /\ pc' = [pc EXCEPT ![p] = "in"]
          /\ outstanding' = outstanding + 1
          /\ wrote' = [wrote EXCEPT ![p] = {}]
  /\ UNCHANGED <<diskVars, cache, pin, lh, committing, ctlVars>>

Panic ==
  /\ panicked' = TRUE
  /\ UNCHANGED <<diskVars, memVars, pc, phase, tail, recovering>>

\* bread(b), modify its data, log_write(b), brelse(b) inside an operation.
log_write(p, b, v) ==
  /\ Running
  /\ pc[p] = "in"
  /\ Cardinality(wrote[p] \cup {b}) <= OpBlocks
  /\ IF Len(lh) >= LOGSIZE \/ Len(lh) >= NLog - 1 \/ outstanding < 1
     THEN Panic
     ELSE /\ cache' = [cache EXCEPT ![b] = v]
          /\ wrote' = [wrote EXCEPT ![p] = @ \cup {b}]
          /\ IF b \in Logged(lh)
             THEN UNCHANGED <<lh, pin>>
             ELSE /\ lh' = Append(lh, b)
                  /\ pin' = [pin EXCEPT ![b] = @ + 1]
          /\ UNCHANGED <<diskVars, outstanding, committing, pc, ctlVars>>

\* end_op() up to the release of log.lock; the last operation goes on to
\* commit(), which does nothing when nothing was logged.
end_op(p) ==
  /\ Running
  /\ pc[p] = "in"
  /\ IF committing
     THEN Panic
     ELSE /\ outstanding' = outstanding - 1
          /\ IF outstanding = 1
             THEN /\ committing' = TRUE
                  /\ pc' = [pc EXCEPT ![p] = "commit"]
                  /\ phase' = IF Len(lh) > 0 THEN "write_log" ELSE "done"
             ELSE /\ pc' = WakeAll([pc EXCEPT ![p] = "out"])
                  /\ UNCHANGED <<committing, phase>>
          /\ UNCHANGED <<diskVars, cache, pin, lh, wrote, tail, recovering, panicked>>

\* Mutation: does not wake the processes waiting for the commit.
end_commit_silent(p) ==
  /\ Running
  /\ pc[p] = "commit" /\ phase = "done"
  /\ committing' = FALSE
  /\ phase' = "idle"
  /\ pc' = [pc EXCEPT ![p] = "out"]
  /\ UNCHANGED <<diskVars, cache, pin, lh, outstanding, wrote, tail, recovering, panicked>>

\* The end of end_op() after commit() has returned.
end_commit(p) ==
  /\ Running
  /\ pc[p] = "commit" /\ phase = "done"
  /\ committing' = FALSE
  /\ phase' = "idle"
  /\ pc' = WakeAll([pc EXCEPT ![p] = "out"])
  /\ UNCHANGED <<diskVars, cache, pin, lh, outstanding, wrote, tail, recovering, panicked>>

-----------------------------------------------------------------------------
\* The loops of write_log() and install_trans(): one iteration, then on to
\* the next phase after the last one.
Iterate(next) ==
  IF tail + 1 < Len(lh)
  THEN tail' = tail + 1 /\ UNCHANGED phase
  ELSE tail' = 0 /\ phase' = next

\* Copy one modified block from the cache to the log.
write_log ==
  /\ ~panicked /\ phase = "write_log"
  /\ LET b == lh[tail + 1] IN
       /\ logblk' = [logblk EXCEPT ![tail + 1] = bread(b)]
       /\ cache' = [cache EXCEPT ![b] = bread(b)]
  /\ Iterate("write_head")
  /\ UNCHANGED <<home, head, pin, lh, outstanding, committing, wrote, pc, recovering, panicked>>

\* Write the header: the commit point.
write_head ==
  /\ ~panicked /\ phase = "write_head"
  /\ head' = lh
  /\ phase' = "install_trans"
  /\ UNCHANGED <<home, logblk, memVars, pc, tail, recovering, panicked>>

\* Copy one committed block from the log to its home location.
install_trans ==
  /\ ~panicked /\ phase = "install_trans"
  /\ LET b == lh[tail + 1] IN
       /\ cache' = [cache EXCEPT ![b] = logblk[tail + 1]]
       /\ home' = [home EXCEPT ![b] = logblk[tail + 1]]
       /\ pin' = IF recovering THEN pin ELSE [pin EXCEPT ![b] = @ - 1]
  /\ Iterate("clear")
  /\ UNCHANGED <<head, logblk, lh, outstanding, committing, wrote, pc, recovering, panicked>>

\* log.lh.n = 0; write_head(): erase the transaction; recovery is then over.
clear_head ==
  /\ ~panicked /\ phase = "clear"
  /\ lh' = <<>>
  /\ head' = <<>>
  /\ phase' = IF recovering THEN "idle" ELSE "done"
  /\ recovering' = FALSE
  /\ UNCHANGED <<home, logblk, cache, pin, outstanding, committing, wrote, pc, tail, panicked>>

\* Mutation: recovery erases the log without replaying it.
read_head_noreplay ==
  /\ ~panicked /\ phase = "read_head"
  /\ phase' = "clear"
  /\ UNCHANGED <<diskVars, lh, cache, pin, outstanding, committing, wrote, pc, tail,
                 recovering, panicked>>

\* recover_from_log() starts by loading the header.
read_head ==
  /\ ~panicked /\ phase = "read_head"
  /\ lh' = head
  /\ phase' = IF Len(head) > 0 THEN "install_trans" ELSE "clear"
  /\ UNCHANGED <<diskVars, cache, pin, outstanding, committing, wrote, pc, tail, recovering,
                 panicked>>

-----------------------------------------------------------------------------
\* Any process, in an operation or not, may bring a block into the cache.
Fetch(b) ==
  /\ Running
  /\ cache[b] = NoBuf
  /\ cache' = [cache EXCEPT ![b] = home[b]]
  /\ UNCHANGED <<diskVars, pin, lh, outstanding, committing, wrote, pc, ctlVars>>

\* Mutation: bget() recycles a pinned buffer.
EvictPinned(b) ==
  /\ ~panicked
  /\ cache[b] # NoBuf
  /\ cache' = [cache EXCEPT ![b] = NoBuf]
  /\ UNCHANGED <<diskVars, pin, lh, outstanding, committing, wrote, pc, ctlVars>>

\* bget() recycles a buffer with reference count 0 for another block.
Evict(b) ==
  /\ ~panicked
  /\ cache[b] # NoBuf /\ pin[b] = 0
  /\ cache' = [cache EXCEPT ![b] = NoBuf]
  /\ UNCHANGED <<diskVars, pin, lh, outstanding, committing, wrote, pc, ctlVars>>

Next ==
  \/ \E p \in Procs : begin_op(p) \/ end_op(p) \/ end_commit(p)
  \/ \E p \in Procs, b \in Blocks, v \in Vals : log_write(p, b, v)
  \/ write_log \/ write_head \/ install_trans \/ clear_head \/ read_head
  \/ \E b \in Blocks : Fetch(b) \/ Evict(b)
  \/ Crash

Spec == Init /\ [][Next]_vars

\* A running kernel keeps scheduling its processes; operations finish.
\* Crashes, and the start of new operations, are never forced.
FairSpec ==
  /\ Spec
  /\ WF_vars(write_log) /\ WF_vars(write_head) /\ WF_vars(install_trans)
  /\ WF_vars(clear_head) /\ WF_vars(read_head)
  /\ \A p \in Procs : WF_vars(end_op(p)) /\ WF_vars(end_commit(p))
-----------------------------------------------------------------------------
\* What a reboot would reconstruct: the home blocks overlaid with the log
\* blocks of the transaction named by the header on disk.
Overlay(hm, hd, lb) ==
  [b \in Blocks |-> IF b \in Logged(hd)
                    THEN lb[CHOOSE i \in 1 .. Len(hd) : hd[i] = b]
                    ELSE hm[b]]

Durable == Overlay(home, head, logblk)

\* What the file system reads; nothing reads before recovery is over.
Current == IF recovering THEN Durable ELSE [b \in Blocks |-> bread(b)]

Active == {p \in Procs : pc[p] = "in"}

AD == INSTANCE AtomicDisk WITH cur <- Current, durable <- Durable, active <- Active

\* Crash atomicity: through every crash, also one in the middle of a commit
\* or of a recovery, the disk holds the effects of whole transactions only
\* (commit() and recover_from_log() implement AtomicDisk).
CrashAtomic == AD!Spec

Phases == {"read_head", "idle", "write_log", "write_head", "install_trans", "clear", "done"}

StateType ==
  /\ home \in [Blocks -> Vals]
  /\ head \in Seq(Blocks) /\ Len(head) <= NLog - 1
  /\ logblk \in [Slots -> Vals]
  /\ cache \in [Blocks -> Vals \cup {NoBuf}]
  /\ pin \in [Blocks -> {0, 1}]
  /\ lh \in Seq(Blocks) /\ Len(lh) <= NLog - 1
  /\ outstanding \in Nat
  /\ pc \in [Procs -> {"out", "begin", "sleep", "in", "commit"}]
  /\ wrote \in [Procs -> SUBSET Blocks]
  /\ phase \in Phases
  /\ tail \in Nat

FlagType == committing \in BOOLEAN /\ recovering \in BOOLEAN /\ panicked \in BOOLEAN

\* Types of the state of log.c; the log pins a buffer at most once however
\* often the block is logged (log absorption in log_write), and never logs
\* more blocks than the disk has room for.
TypeOK == StateType /\ FlagType

\* A process asleep in begin_op() always has somebody left to wake it: an
\* operation whose end_op() is to come, or a commit in progress.
NoLostWakeup ==
  \A p \in Procs : pc[p] = "sleep" => outstanding > 0 \/ committing

\* A transaction in progress is never mixed with a commit: commit() runs only
\* with no operation between begin_op() and end_op(), and what the last
\* end_op() leaves behind is on the disk in full.
CommitAlone ==
  /\ committing => Active = {}
  /\ Running /\ ~committing /\ Active = {} => Current = Durable

\* The log is never stuck: a process that went to sleep in begin_op() is
\* woken, unless the machine goes down.
SleeperWoken ==
  \A p \in Procs : pc[p] = "sleep" ~> (pc[p] # "sleep" \/ recovering \/ panicked)
-----------------------------------------------------------------------------
(***************************************************************************)
(* The inductive invariant behind the properties above, in four parts.     *)
(***************************************************************************)
Distinct(s) == \A i, j \in 1 .. Len(s) : s[i] = s[j] => i = j

\* Which header, log and loop index go with each phase.
PhaseInv ==
  /\ Distinct(lh) /\ Distinct(head)
  /\ phase \in {"write_log", "install_trans"} => tail < Len(lh)
  /\ phase \notin {"write_log", "install_trans"} => tail = 0
  /\ phase = "write_head" => Len(lh) > 0
  /\ phase \in {"install_trans", "clear"} => head = lh
  /\ phase \in {"idle", "write_log", "write_head", "done"} => head = <<>>
  /\ phase \in {"read_head", "done"} => lh = <<>>
  /\ recovering => /\ phase \in {"read_head", "install_trans", "clear"}
                   /\ ~committing /\ ~panicked
                   /\ \A p \in Procs : pc[p] = "out"
  /\ ~recovering => phase # "read_head" /\ (committing <=> phase # "idle")

\* log.outstanding counts the operations; the log is empty between them.
CountInv ==
  /\ outstanding = Cardinality(Active)
  /\ committing => outstanding = 0
  /\ phase = "idle" /\ outstanding = 0 => lh = <<>>
  /\ NoLostWakeup

\* The log holds one pin on each block it has still to install.
PinInv ==
  \A b \in Blocks :
    pin[b] = 1 <=> /\ ~recovering
                   /\ phase # "clear"
                   /\ \E i \in 1 .. Len(lh) :
                        lh[i] = b /\ (phase = "install_trans" => i > tail)

\* What the cache, the log blocks and the home blocks hold.
DataInv ==
  /\ \A b \in Blocks : IF pin[b] = 0 THEN cache[b] \in {NoBuf, home[b]}
                                      ELSE cache[b] # NoBuf
  /\ \A i \in 1 .. Len(lh) :
       /\ phase = "write_log" /\ i <= tail => logblk[i] = cache[lh[i]]
       /\ phase = "write_head" => logblk[i] = cache[lh[i]]
       /\ phase = "install_trans" /\ ~recovering /\ i > tail => logblk[i] = cache[lh[i]]
       /\ phase = "install_trans" /\ i <= tail => logblk[i] = home[lh[i]]
       /\ phase = "clear" => logblk[i] = home[lh[i]]

\* The log's bookkeeping is consistent at every instant: each logged block is
\* pinned until it is installed, and at each stage of commit() and of
\* recover_from_log() the copies that stage relies on agree.
LogInv == TypeOK /\ PhaseInv /\ CountInv /\ PinInv /\ DataInv
===============================================================================
