------------------------------ MODULE ProcProofs ------------------------------
(***************************************************************************)
(* Proofs about Proc, for every number of processes and CPUs: how p->lock  *)
(* is passed on between sched() and scheduler(), that no CPU is ever on a  *)
(* kernel stack that somebody else may use, that sleep() and wakeup() lose *)
(* no wakeup, and that every process keeps a parent that can wait for it.  *)
(***************************************************************************)
EXTENDS Proc, TLAPS

\* The states in which a process is alive, and the points at which it may be
\* switched out.
Live == {"RUNNING", "RUNNABLE", "SLEEPING"}
Safe == {"user", "fork_parent", "fork_run", "wait_again", "cond_again"}
Forking == {"fork_copy", "fork_parent", "fork_run"}

\* Process i is at a point at which it holds wait_lock, or lk.
HoldsWait(i) ==
  sw[i] = "none" /\ ( \/ pc[i] \in {"wait_scan", "wait_sleep", "exit_zombie"}
                      \/ pc[i] = "wakeup" /\ wk[i].ret = "exit_zombie" )
HoldsLk(i) ==
  sw[i] = "none" /\ ( \/ pc[i] \in {"cond_test", "cond_sleep", "cond_done"}
                      \/ pc[i] = "wakeup" /\ wk[i].ret = "cond_done" )
Copying(i) == sw[i] = "none" /\ pc[i] = "fork_copy"

Points == {"user", "fork_copy", "fork_parent", "fork_run", "exit_zombie", "wakeup", "wait_scan",
           "wait_sleep", "wait_again", "cond_test", "cond_sleep", "cond_again", "cond_done"}

\* The types, in terms of Procs and CPUs; and the scan of wakeup() is inside of
\* the table.
TypeInv ==
  /\ state \in [Procs -> {"UNUSED", "USED", "SLEEPING", "RUNNABLE", "RUNNING", "ZOMBIE"}]
  /\ chan \in [Procs -> Procs \cup {None, Cond}]
  /\ killed \in [Procs -> BOOLEAN] /\ cond \in BOOLEAN
  /\ parent \in [Procs -> Procs \cup {None}] /\ child \in [Procs -> Procs \cup {None}]
  /\ plock \in [Procs -> CPUs \cup {None}]
  /\ wait_lock \in CPUs \cup {None} /\ lk \in CPUs \cup {None}
  /\ cpu \in [CPUs -> Procs \cup {None}] /\ mode \in [CPUs -> {"sched", "run", "back"}]
  /\ pc \in [Procs -> Points]
  /\ sw \in [Procs -> {"none", "new", "yield", "sleep", "exit"}]
Scans == [chs : Seq(Nat), k : Procs, ret : {"user", "exit_zombie", "cond_done"}]
PidInv == pid \in [Procs -> 0 .. MaxPid] /\ nextpid \in 2 .. MaxPid + 1
ScanInv ==
  /\ wk \in [Procs -> Scans]
  /\ \A i \in Procs : pc[i] = "wakeup" => wk[i].chs # <<>> /\ wk[i].ret # "user"

\* Who runs where.
RunInv ==
  /\ \A c \in CPUs : mode[c] = "sched" <=> cpu[c] = None
  /\ \A c \in CPUs : mode[c] = "run" => state[cpu[c]] = "RUNNING"
  /\ \A c \in CPUs : mode[c] = "back" =>
       sw[cpu[c]] # "none" /\ state[cpu[c]] \in {"RUNNABLE", "SLEEPING", "ZOMBIE"}
  /\ \A c, d \in CPUs : cpu[c] # None /\ cpu[c] = cpu[d] => c = d
  /\ \A i \in Procs : state[i] = "RUNNING" => \E c \in CPUs : cpu[c] = i
  /\ \A i \in Procs : sw[i] = "none" => state[i] = "RUNNING"

\* Who holds which lock.
PlockInv ==
  /\ \A c \in CPUs : cpu[c] # None /\ sw[cpu[c]] # "none" => plock[cpu[c]] = c
  /\ \A c \in CPUs : cpu[c] # None /\ Copying(cpu[c]) => plock[child[cpu[c]]] = c
  /\ \A k \in Procs : plock[k] # None =>
       LET i == cpu[plock[k]]
       IN i # None /\ ((i = k /\ sw[k] # "none") \/ (Copying(i) /\ child[i] = k))

WaitLockInv ==
  /\ \A c \in CPUs : cpu[c] # None /\ HoldsWait(cpu[c]) => wait_lock = c
  /\ wait_lock # None => cpu[wait_lock] # None /\ HoldsWait(cpu[wait_lock])

LkInv ==
  /\ \A c \in CPUs : cpu[c] # None /\ HoldsLk(cpu[c]) => lk = c
  /\ lk # None => cpu[lk] # None /\ HoldsLk(cpu[lk])

\* Where a process is, and the child it makes.
PointInv ==
  /\ \A i \in Procs : state[i] \in Live /\ sw[i] # "none" => pc[i] \in Safe
  /\ \A i \in Procs : state[i] = "SLEEPING" => pc[i] \in {"wait_again", "cond_again"}
  /\ \A i \in Procs : child[i] # None <=> pc[i] \in Forking
  /\ \A i \in Procs : child[i] # None =>
       state[child[i]] = "USED" /\ state[i] \in {"RUNNING", "RUNNABLE"}
  /\ \A i, j \in Procs : child[i] # None /\ child[i] = child[j] => i = j

LockInv == TypeInv /\ PidInv /\ ScanInv /\ RunInv /\ PlockInv /\ WaitLockInv /\ LkInv /\ PointInv

\* What a step may do that leaves the process locks and CPUs alone: wake sleepers,
\* and move processes that execute, but not into or out of fork().
Calm ==
  /\ UNCHANGED <<plock, cpu, mode, sw, child>>
  /\ \A k \in Procs : state'[k] = state[k] \/ (state[k] = "SLEEPING" /\ state'[k] = "RUNNABLE")
  /\ \A k \in Procs : \/ pc'[k] = pc[k]
                      \/ /\ sw[k] = "none" /\ pc[k] # "fork_copy" /\ pc'[k] # "fork_copy"
                         /\ pc[k] \in Forking <=> pc'[k] \in Forking

\* Only process i moves, and CPU c takes or releases wait_lock, or lk, just when
\* i comes to a point that holds it or leaves it.
Moves(i) == UNCHANGED <<cpu, sw>> /\ \A k \in Procs \ {i} : pc'[k] = pc[k] /\ wk'[k] = wk[k]
TakesWait(c, i) ==
  \/ wait_lock' = wait_lock /\ ((HoldsWait(i))' <=> HoldsWait(i))
  \/ wait_lock = None /\ wait_lock' = c /\ (HoldsWait(i))'
  \/ HoldsWait(i) /\ wait_lock' = None /\ ~(HoldsWait(i))'
TakesLk(c, i) ==
  \/ lk' = lk /\ ((HoldsLk(i))' <=> HoldsLk(i))
  \/ lk = None /\ lk' = c /\ (HoldsLk(i))'
  \/ HoldsLk(i) /\ lk' = None /\ ~(HoldsLk(i))'

-----------------------------------------------------------------------------
(* Facts about the constants and types *)

\* None is neither a process nor a CPU; init is a process; Cond is no process.
LEMMA Consts ==
  /\ None \notin Procs /\ None \notin CPUs /\ initproc \in Procs
  /\ Cond \notin Procs /\ Cond # None
  BY ProcAssumption DEF None, Procs, CPUs, initproc, Cond

\* Types of TypeOK and of TypeInv are the same.
LEMMA TypesAgree == TypeInv /\ PidInv => TypeOK
<1>1. Procs \cup {None} = 0 .. NPROC /\ CPUs \cup {None} = 0 .. NCPU
      /\ Procs \cup {None, Cond} = 0 .. NPROC + 1
  BY ProcAssumption DEF Procs, CPUs, None, Cond
<1>. QED BY <1>1, Zenon DEF TypeInv, PidInv, TypeOK, Points

\* A CPU holds no lock, or the lock of process k and no other.
LEMMA HeldNone ==
  ASSUME NEW c \in CPUs
  PROVE  held(c) = {} <=> (\A k \in Procs : plock[k] # c) /\ wait_lock # c /\ lk # c
  BY Zenon DEF held

\* The one lock a CPU holds, when it is the lock of process k.
LEMMA HeldOne ==
  ASSUME NEW c \in CPUs, NEW k \in Procs, \A j \in Procs : plock[j] = c <=> j = k,
         wait_lock # c, lk # c
  PROVE  held(c) = {k}
  BY Zenon DEF held

\* The scan a process that is in no wakeup() is given.
LEMMA NoScanType == NoScan \in Scans
  BY Consts DEF NoScan, initproc, Scans

\* The parts of the invariant.
LEMMA LockType == LockInv => TypeInv
  BY Zenon DEF LockInv

\* Its part about pids.
LEMMA LockPid == LockInv => PidInv
  BY Zenon DEF LockInv

\* Its part about the scans of wakeup().
LEMMA LockScan == LockInv => ScanInv
  BY Zenon DEF LockInv

\* Its part about who runs where.
LEMMA LockRun == LockInv => RunInv
  BY Zenon DEF LockInv

\* Its part about the holders of the p->lock's.
LEMMA LockPlock == LockInv => PlockInv
  BY Zenon DEF LockInv

\* Its part about the holder of wait_lock.
LEMMA LockWait == LockInv => WaitLockInv
  BY Zenon DEF LockInv

\* Its part about the holder of lk.
LEMMA LockLk == LockInv => LkInv
  BY Zenon DEF LockInv

\* Its part about the points of the code a process can be at.
LEMMA LockPoint == LockInv => PointInv
  BY Zenon DEF LockInv

-----------------------------------------------------------------------------
(* The invariant is inductive *)

\* A process that executes holds a process lock only while it makes a child.
LEMMA OnFacts ==
  ASSUME LockInv, NEW c \in CPUs, NEW i \in Procs, On(c, i)
  PROVE  /\ state[i] = "RUNNING" /\ sw[i] = "none" /\ cpu[c] = i /\ mode[c] = "run"
         /\ \A d \in CPUs : cpu[d] = i => d = c
         /\ \A k \in Procs : plock[k] = c => Copying(i) /\ child[i] = k
         /\ wait_lock = c <=> HoldsWait(i)
         /\ lk = c <=> HoldsLk(i)
         /\ \A k \in Procs : child[k] # i
<1>1. sw[i] = "none" /\ cpu[c] = i /\ mode[c] = "run"
  BY Zenon DEF On
<1>2. state[i] = "RUNNING" /\ \A d \in CPUs : cpu[d] = i => d = c
  BY <1>1, Consts, LockRun DEF RunInv
<1>3. \A k \in Procs : plock[k] = c => Copying(i) /\ child[i] = k
  BY <1>1, Consts, LockPlock DEF PlockInv
<1>4. (wait_lock = c <=> HoldsWait(i)) /\ (lk = c <=> HoldsLk(i))
  BY <1>1, Consts, LockWait, LockLk, Zenon DEF WaitLockInv, LkInv
<1>5. \A k \in Procs : child[k] # i
  BY <1>2, Consts, LockPoint DEF PointInv
<1>. QED BY <1>1, <1>2, <1>3, <1>4, <1>5, Zenon

\* The child that fork() is copying to is a process.
LEMMA CopyingChild ==
  ASSUME LockInv PROVE \A i \in Procs : Copying(i) => child[i] \in Procs
  BY LockType, LockPoint DEF TypeInv, PointInv, Copying, Forking

\* What PointInv says of one process.
LEMMA PointAt ==
  ASSUME LockInv, NEW k \in Procs
  PROVE  /\ state[k] \in Live /\ sw[k] # "none" => pc[k] \in Safe
         /\ state[k] = "SLEEPING" => pc[k] \in {"wait_again", "cond_again"}
         /\ child[k] # None <=> pc[k] \in Forking
         /\ child[k] # None => child[k] \in Procs /\ state[child[k]] = "USED"
         /\ child[k] # None => state[k] \in {"RUNNING", "RUNNABLE"}
  BY LockType, LockPoint DEF TypeInv, PointInv

\* Two forks in progress have different children.
LEMMA OneParent ==
  ASSUME LockInv, NEW i \in Procs, NEW j \in Procs, child[i] # None, child[i] = child[j]
  PROVE  i = j
  BY LockPoint, Zenon DEF PointInv

\* A CPU on the stack of a process: the process is RUNNING, or switched out and
\* its lock is still held for it.
LEMMA OnStack ==
  ASSUME LockInv, NEW d \in CPUs, cpu[d] # None
  PROVE  /\ cpu[d] \in Procs
         /\ \/ state[cpu[d]] = "RUNNING"
            \/ /\ state[cpu[d]] \in {"RUNNABLE", "SLEEPING", "ZOMBIE"}
               /\ sw[cpu[d]] # "none" /\ plock[cpu[d]] = d
<1>1. cpu[d] \in Procs /\ mode[d] \in {"run", "back"}
  BY LockType, LockRun DEF TypeInv, RunInv
<1>2. CASE mode[d] = "run"
  BY <1>1, <1>2, LockRun, Zenon DEF RunInv
<1>3. CASE mode[d] = "back"
  BY <1>1, <1>3, LockRun, LockPlock, Zenon DEF RunInv, PlockInv
<1>. QED BY <1>1, <1>2, <1>3, Zenon

\* A slot that is free or being made has no CPU on its stack.
LEMMA OffStack ==
  ASSUME LockInv, NEW n \in Procs, state[n] \in {"UNUSED", "USED"}
  PROVE  sw[n] # "none" /\ child[n] = None /\ \A d \in CPUs : cpu[d] # n
<1>1. sw[n] # "none"
  BY LockRun, Zenon DEF RunInv
<1>2. child[n] = None
  BY PointAt, Zenon
<1>3. ASSUME NEW d \in CPUs, cpu[d] = n PROVE FALSE
  BY <1>3, OnStack, Consts, Zenon
<1>. QED BY <1>1, <1>2, <1>3, Zenon

\* A step that changes the state of one slot that no CPU uses, and does not make
\* it RUNNING, keeps who runs where.
LEMMA RunKeeps ==
  ASSUME LockInv, NEW n \in Procs, UNCHANGED <<cpu, mode>>, \A d \in CPUs : cpu[d] # n,
         state'[n] # "RUNNING", \A k \in Procs \ {n} : state'[k] = state[k],
         sw'[n] # "none", \A k \in Procs \ {n} : sw'[k] = sw[k]
  PROVE  RunInv'
<1>1. \A d \in CPUs : cpu[d] # None =>
        cpu[d] \in Procs /\ state'[cpu[d]] = state[cpu[d]] /\ sw'[cpu[d]] = sw[cpu[d]]
  BY OnStack, Zenon
<1>2. /\ \A d \in CPUs : mode'[d] = "sched" <=> cpu'[d] = None
      /\ \A d, e \in CPUs : cpu'[d] # None /\ cpu'[d] = cpu'[e] => d = e
  BY LockRun DEF RunInv
<1>3. \A d \in CPUs : mode'[d] = "run" => state'[cpu'[d]] = "RUNNING"
  BY <1>1, LockRun DEF RunInv
<1>4. \A d \in CPUs : mode'[d] = "back" =>
        sw'[cpu'[d]] # "none" /\ state'[cpu'[d]] \in {"RUNNABLE", "SLEEPING", "ZOMBIE"}
  BY <1>1, LockRun DEF RunInv
<1>5. \A k \in Procs : /\ state'[k] = "RUNNING" => \E d \in CPUs : cpu'[d] = k
                       /\ sw'[k] = "none" => state'[k] = "RUNNING"
  BY LockRun DEF RunInv
<1>. QED BY <1>2, <1>3, <1>4, <1>5, Zenon DEF RunInv

\* The process locks stay where they are when no process comes to sched(), to
\* fork()'s copy or away from them.
LEMMA PlockKeeps ==
  ASSUME LockInv, UNCHANGED <<plock, cpu>>,
         \A k \in Procs : sw'[k] # "none" <=> sw[k] # "none",
         \A k \in Procs : (Copying(k))' <=> Copying(k),
         \A k \in Procs : Copying(k) => child'[k] = child[k]
  PROVE  PlockInv'
<1>1. /\ \A d \in CPUs : cpu[d] # None => cpu[d] \in Procs
      /\ \A k \in Procs : plock[k] # None => plock[k] \in CPUs
  BY LockType, Zenon DEF TypeInv
<1>2. ASSUME NEW d \in CPUs, cpu[d] # None, sw'[cpu[d]] # "none" PROVE plock[cpu[d]] = d
  BY <1>1, <1>2, LockPlock, Zenon DEF PlockInv
<1>3. ASSUME NEW d \in CPUs, cpu[d] # None, (Copying(cpu[d]))' PROVE plock[child'[cpu[d]]] = d
  BY <1>1, <1>3, LockPlock, Zenon DEF PlockInv
<1>4. ASSUME NEW k \in Procs, plock[k] # None
      PROVE  \E j \in Procs : /\ cpu[plock[k]] = j
                              /\ (j = k /\ sw'[k] # "none") \/ ((Copying(j))' /\ child'[j] = k)
  <2>1. PICK j \in Procs : /\ cpu[plock[k]] = j
                           /\ (j = k /\ sw[k] # "none") \/ (Copying(j) /\ child[j] = k)
    BY <1>1, <1>4, LockPlock, Zenon DEF PlockInv
  <2>. QED BY <2>1, Zenon
<1>. QED BY <1>2, <1>3, <1>4, Consts DEF PlockInv

\* wait_lock and lk stay where they are when nobody comes to a point that holds
\* them or away from it.
LEMMA HoldsKeeps ==
  ASSUME LockInv, UNCHANGED <<wait_lock, lk, cpu>>,
         \A k \in Procs : (HoldsWait(k))' <=> HoldsWait(k),
         \A k \in Procs : (HoldsLk(k))' <=> HoldsLk(k)
  PROVE  WaitLockInv' /\ LkInv'
<1>1. /\ \A d \in CPUs : cpu[d] # None => cpu[d] \in Procs
      /\ (wait_lock # None => wait_lock \in CPUs) /\ (lk # None => lk \in CPUs)
  BY LockType, Zenon DEF TypeInv
<1>2. WaitLockInv'
  BY <1>1, LockWait, Zenon DEF WaitLockInv
<1>3. LkInv'
  BY <1>1, LockLk, Zenon DEF LkInv
<1>. QED BY <1>2, <1>3, Zenon

\* Init: all locks are free and no CPU runs a process.
LEMMA InitLock == Init => LockInv
<1> SUFFICES ASSUME Init PROVE LockInv
  BY Zenon
<1>1. TypeInv
  BY Consts, Zenon DEF Init, TypeInv, Points
<1>2. PidInv
  BY ProcAssumption DEF Init, PidInv
<1>3. ScanInv
  BY NoScanType, Zenon DEF Init, ScanInv
<1>4. RunInv /\ PlockInv /\ WaitLockInv /\ LkInv /\ PointInv
  BY Consts, Zenon DEF Init, RunInv, PlockInv, WaitLockInv, LkInv, PointInv, Safe, Forking
<1>. QED BY <1>1, <1>2, <1>3, <1>4, Zenon DEF LockInv

\* A calm step keeps who runs where and who holds which process lock.
LEMMA CalmKeeps ==
  ASSUME LockInv, Calm PROVE RunInv' /\ PlockInv' /\ PointInv'
<1>1. RunInv'
  BY LockType, LockRun DEF TypeInv, RunInv, Calm
<1>2. PlockInv'
  <2>1. \A k \in Procs : (Copying(k))' <=> Copying(k)
    BY Zenon DEF Calm, Copying
  <2>2. UNCHANGED <<plock, cpu, sw, child>>
    BY Zenon DEF Calm
  <2>. QED BY <2>1, <2>2, PlockKeeps, Zenon
<1>3. PointInv'
  BY LockType, LockRun, LockPoint DEF TypeInv, RunInv, PointInv, Calm, Live, Forking
<1>. QED BY <1>1, <1>2, <1>3, Zenon

\* Process i takes wait_lock, and lk, and releases them where it should.
LEMMA WaitMoves ==
  ASSUME LockInv, NEW c \in CPUs, NEW i \in Procs, On(c, i), Moves(i), TakesWait(c, i)
  PROVE  WaitLockInv'
<1>1. \A k \in Procs \ {i} : (HoldsWait(k))' <=> HoldsWait(k)
  BY Zenon DEF Moves, HoldsWait
<1>2. cpu[c] = i /\ (\A d \in CPUs : cpu[d] = i => d = c) /\ (wait_lock = c <=> HoldsWait(i))
  BY OnFacts, Zenon
<1>3. wait_lock \in CPUs \cup {None} /\ \A d \in CPUs : cpu[d] \in Procs \cup {None}
  BY LockType, Zenon DEF TypeInv
<1>4. cpu' = cpu
  BY Zenon DEF Moves
<1>. QED BY <1>1, <1>2, <1>3, <1>4, LockWait, Consts, Zenon DEF WaitLockInv, TakesWait

\* The same for lk.
LEMMA LkMoves ==
  ASSUME LockInv, NEW c \in CPUs, NEW i \in Procs, On(c, i), Moves(i), TakesLk(c, i)
  PROVE  LkInv'
<1>1. \A k \in Procs \ {i} : (HoldsLk(k))' <=> HoldsLk(k)
  BY Zenon DEF Moves, HoldsLk
<1>2. cpu[c] = i /\ (\A d \in CPUs : cpu[d] = i => d = c) /\ (lk = c <=> HoldsLk(i))
  BY OnFacts, Zenon
<1>3. lk \in CPUs \cup {None} /\ \A d \in CPUs : cpu[d] \in Procs \cup {None}
  BY LockType, Zenon DEF TypeInv
<1>4. cpu' = cpu
  BY Zenon DEF Moves
<1>. QED BY <1>1, <1>2, <1>3, <1>4, LockLk, Consts, Zenon DEF LkInv, TakesLk

\* What is left to show of a calm step of process i.
LEMMA CalmLock ==
  ASSUME LockInv, NEW c \in CPUs, NEW i \in Procs, On(c, i), Calm, Moves(i),
         TakesWait(c, i), TakesLk(c, i), TypeInv', PidInv', ScanInv'
  PROVE  LockInv'
<1>1. RunInv' /\ PlockInv' /\ PointInv'
  BY CalmKeeps, Zenon
<1>2. WaitLockInv' /\ LkInv'
  BY WaitMoves, LkMoves, Zenon
<1>. QED BY <1>1, <1>2, Zenon DEF LockInv

\* scheduler() takes p->lock of the process it switches to, for its own CPU.
LEMMA SchedulerLock ==
  ASSUME LockInv, NEW c \in CPUs, NEW i \in Procs, scheduler(c, i) PROVE LockInv'
<1>1. TypeInv'
  BY LockType, Zenon DEF TypeInv, scheduler, threadVars
<1>2. PidInv' /\ ScanInv'
  BY LockPid, LockScan, Zenon DEF PidInv, ScanInv, scheduler, threadVars
<1>3. RunInv'
  BY LockType, LockRun, LockPlock, Consts DEF TypeInv, RunInv, PlockInv, scheduler, threadVars
<1>4. PlockInv'
  BY LockType, LockRun, LockPlock, Consts
     DEF TypeInv, RunInv, PlockInv, Copying, scheduler, threadVars
<1>5. sw[i] # "none" /\ cpu[c] = None
  BY LockRun, Zenon DEF RunInv, scheduler
<1>6. WaitLockInv'
  BY <1>5, LockType, LockWait, Consts DEF TypeInv, WaitLockInv, HoldsWait, scheduler, threadVars
<1>7. LkInv'
  BY <1>5, LockType, LockLk, Consts DEF TypeInv, LkInv, HoldsLk, scheduler, threadVars
<1>8. PointInv'
  BY LockType, LockPoint DEF TypeInv, PointInv, Live, scheduler, threadVars
<1>. QED BY <1>1, <1>2, <1>3, <1>4, <1>6, <1>7, <1>8, Zenon DEF LockInv

\* Back in scheduler(): the lock that the process handed over is released.
LEMMA SchedulerBackLock ==
  ASSUME LockInv, NEW c \in CPUs, scheduler_back(c) PROVE LockInv'
<1>1. UNCHANGED <<state, chan, killed, pid, parent, nextpid, wait_lock, lk, cond, pc, sw, child,
                  wk>>
  BY Zenon DEF scheduler_back, tableVars, threadVars
<1>2. /\ mode[c] = "back" /\ plock' = [plock EXCEPT ![cpu[c]] = None]
      /\ cpu' = [cpu EXCEPT ![c] = None] /\ mode' = [mode EXCEPT ![c] = "sched"]
  BY Zenon DEF scheduler_back
<1>3. cpu[c] \in Procs /\ sw[cpu[c]] # "none" /\ state[cpu[c]] # "RUNNING"
  BY <1>2, LockType, LockRun DEF TypeInv, RunInv
<1>4. TypeInv'
  BY <1>1, <1>2, LockType, Zenon DEF TypeInv
<1>5. PidInv' /\ ScanInv'
  BY <1>1, LockPid, LockScan, Zenon DEF PidInv, ScanInv
<1>6. RunInv'
  BY <1>1, <1>2, <1>3, LockType, LockRun, Consts DEF TypeInv, RunInv
<1>7. PlockInv'
  BY <1>1, <1>2, <1>3, LockType, LockRun, LockPlock, Consts DEF TypeInv, RunInv, PlockInv, Copying
<1>8. WaitLockInv'
  BY <1>1, <1>2, <1>3, LockType, LockWait, Consts DEF TypeInv, WaitLockInv, HoldsWait
<1>9. LkInv'
  BY <1>1, <1>2, <1>3, LockType, LockLk, Consts DEF TypeInv, LkInv, HoldsLk
<1>10. PointInv'
  BY <1>1, LockPoint, Zenon DEF PointInv
<1>. QED BY <1>4, <1>5, <1>6, <1>7, <1>8, <1>9, <1>10, Zenon DEF LockInv

\* A process that was switched to releases its own lock and holds no other.
LEMMA ResumeLock ==
  ASSUME LockInv, NEW c \in CPUs, NEW i \in Procs, resume(c, i) PROVE LockInv'
<1>1. /\ UNCHANGED <<state, killed, pid, parent, nextpid, wait_lock, lk, cond, cpu, mode, pc, child,
                     wk>>
      /\ plock' = [plock EXCEPT ![i] = None] /\ sw' = [sw EXCEPT ![i] = "none"]
      /\ cpu[c] = i /\ mode[c] = "run" /\ sw[i] # "none"
  BY Zenon DEF resume, cpuVars
<1>2. chan' \in [Procs -> Procs \cup {None, Cond}]
  BY LockType, Zenon DEF TypeInv, resume
<1>3. state[i] = "RUNNING"
  BY <1>1, LockRun, Zenon DEF RunInv
<1>4. pc[i] \in Safe /\ \A k \in Procs : child[k] # i
  BY <1>1, <1>3, LockPoint, Consts DEF PointInv, Live
<1>5. TypeInv'
  BY <1>1, <1>2, LockType, Zenon DEF TypeInv
<1>6. PidInv' /\ ScanInv'
  BY <1>1, LockPid, LockScan, Zenon DEF PidInv, ScanInv
<1>7. RunInv'
  BY <1>1, <1>3, LockType, LockRun, Consts DEF TypeInv, RunInv
<1>8. PlockInv'
  BY <1>1, <1>4, LockType, LockRun, LockPlock, Consts DEF TypeInv, RunInv, PlockInv, Copying, Safe
<1>9. WaitLockInv'
  BY <1>1, <1>4, LockType, LockWait, Consts DEF TypeInv, WaitLockInv, HoldsWait, Safe
<1>10. LkInv'
  BY <1>1, <1>4, LockType, LockLk, Consts DEF TypeInv, LkInv, HoldsLk, Safe
<1>11. PointInv'
  BY <1>1, LockType, LockPoint DEF TypeInv, PointInv
<1>. QED BY <1>5, <1>6, <1>7, <1>8, <1>9, <1>10, <1>11, Zenon DEF LockInv

\* What sched() does to process i on CPU c: it keeps p->lock, and i is at a point
\* at which it may be switched out, or it has exited.
LEMMA SchedLock ==
  ASSUME LockInv, NEW c \in CPUs, NEW i \in Procs, On(c, i), ~Copying(i),
         NEW s \in {"RUNNABLE", "SLEEPING", "ZOMBIE"}, NEW why \in {"yield", "sleep", "exit"},
         Sched(c, i, s, why), UNCHANGED <<cpu, child, wk>>,
         pc' \in [Procs -> Points], \A k \in Procs \ {i} : pc'[k] = pc[k]
  PROVE  RunInv' /\ PlockInv'
<1>1. /\ cpu[c] = i /\ mode[c] = "run" /\ sw[i] = "none" /\ state[i] = "RUNNING"
      /\ \A d \in CPUs : cpu[d] = i => d = c
      /\ \A k \in Procs : child[k] # i
  BY OnFacts
<1>2. /\ state'[i] = s /\ \A k \in Procs \ {i} : state'[k] = state[k]
      /\ sw'[i] = why /\ \A k \in Procs \ {i} : sw'[k] = sw[k]
      /\ plock[i] = None /\ plock'[i] = c /\ \A k \in Procs \ {i} : plock'[k] = plock[k]
      /\ mode'[c] = "back" /\ \A d \in CPUs \ {c} : mode'[d] = mode[d]
  BY LockType DEF TypeInv, Sched
<1>3. RunInv'
  BY <1>1, <1>2, LockType, LockRun, Consts DEF TypeInv, RunInv
<1>4. \A k \in Procs : (Copying(k))' <=> Copying(k)
  BY <1>2, Zenon DEF Copying
<1>5. /\ \A d \in CPUs : cpu[d] \in Procs \cup {None}
      /\ \A k \in Procs : plock[k] \in CPUs \cup {None}
  BY LockType, Zenon DEF TypeInv
<1>6. PlockInv'
  <2>1. ASSUME NEW d \in CPUs, cpu[d] # None, sw'[cpu[d]] # "none" PROVE plock'[cpu[d]] = d
    <3>1. PlockInv
      BY LockPlock, Zenon
    <3>. QED BY ONLY c \in CPUs, i \in Procs, <1>1, <1>2, <1>5, <2>1, <3>1 DEF PlockInv
  <2>2. ASSUME NEW d \in CPUs, cpu[d] # None, (Copying(cpu[d]))' PROVE plock'[child[cpu[d]]] = d
    BY <1>1, <1>2, <1>4, <1>5, <2>2, CopyingChild, LockPlock DEF PlockInv
  <2>3. ASSUME NEW k \in Procs, plock'[k] # None
        PROVE  \E j \in Procs : /\ cpu[plock'[k]] = j
                                /\ (j = k /\ sw'[k] # "none") \/ ((Copying(j))' /\ child[j] = k)
    <3>1. CASE k = i
      BY <1>1, <1>2, <3>1, Zenon
    <3>2. CASE k # i
      <4>1. plock'[k] = plock[k] /\ plock[k] \in CPUs /\ sw'[k] = sw[k]
        BY <1>2, <1>5, <2>3, <3>2, Zenon
      <4>2. PICK j \in Procs : /\ cpu[plock[k]] = j
                               /\ (j = k /\ sw[k] # "none") \/ (Copying(j) /\ child[j] = k)
        BY <1>5, <2>3, <4>1, LockPlock, Zenon DEF PlockInv
      <4>. QED BY <1>4, <4>1, <4>2, Zenon
    <3>. QED BY <3>1, <3>2, Zenon
  <2>4. cpu' = cpu /\ child' = child
    OBVIOUS
  <2>. QED BY <2>1, <2>2, <2>3, <2>4, Consts DEF PlockInv
<1>. QED BY <1>3, <1>6, Zenon

\* yield() comes only where the CPU holds no lock: the process is at a safe
\* point.
LEMMA YieldSafe ==
  ASSUME LockInv, NEW c \in CPUs, NEW i \in Procs, yield(c, i)
  PROVE  ~HoldsWait(i) /\ ~HoldsLk(i) /\ ~Copying(i) /\ pc[i] \in Safe
<1>1. On(c, i) /\ sw[i] = "none"
  BY Zenon DEF yield, On
<1>2. (\A k \in Procs : plock[k] # c) /\ wait_lock # c /\ lk # c
  BY HeldNone, Zenon DEF yield
<1>3. ~HoldsWait(i) /\ ~HoldsLk(i)
  BY <1>1, <1>2, OnFacts, Zenon
<1>4. ~Copying(i)
  <2>1. Copying(i) => plock[child[i]] = c
    BY <1>1, OnFacts, LockPlock, Consts DEF PlockInv
  <2>. QED BY <1>2, <2>1, CopyingChild, Zenon
<1>5. pc[i] \in Points /\ (pc[i] = "wakeup" => wk[i].ret \in {"exit_zombie", "cond_done"})
  BY LockType, LockScan DEF TypeInv, ScanInv, Scans
<1>6. pc[i] \in Safe
  BY <1>1, <1>3, <1>4, <1>5, Zenon DEF HoldsWait, HoldsLk, Copying, Safe, Points
<1>. QED BY <1>3, <1>4, <1>6, Zenon

\* yield() gives up the CPU with its own p->lock held and no other lock.
LEMMA YieldLock ==
  ASSUME LockInv, NEW c \in CPUs, NEW i \in Procs, yield(c, i) PROVE LockInv'
<1>1. /\ On(c, i) /\ Sched(c, i, "RUNNABLE", "yield")
      /\ UNCHANGED <<chan, killed, pid, parent, nextpid, wait_lock, lk, cond, cpu, pc, child, wk>>
  BY Zenon DEF yield
<1>2. /\ cpu[c] = i /\ sw[i] = "none" /\ state[i] = "RUNNING"
      /\ \A k \in Procs : child[k] # i
  BY <1>1, OnFacts, Zenon
<1>3. TypeInv'
  BY <1>1, LockType, Zenon DEF TypeInv, Sched
<1>4. PidInv' /\ ScanInv'
  BY <1>1, LockPid, LockScan, Zenon DEF PidInv, ScanInv
<1>5. RunInv' /\ PlockInv'
  BY <1>1, <1>3, YieldSafe, SchedLock, Zenon DEF TypeInv
<1>6. WaitLockInv' /\ LkInv'
  <2>1. sw'[i] # "none" /\ \A k \in Procs \ {i} : sw'[k] = sw[k]
    BY <1>1, LockType, Zenon DEF TypeInv, Sched
  <2>2. ASSUME NEW k \in Procs
        PROVE  ((HoldsWait(k))' <=> HoldsWait(k)) /\ ((HoldsLk(k))' <=> HoldsLk(k))
    <3>1. CASE k = i
      BY <2>1, <3>1, YieldSafe, Zenon DEF HoldsWait, HoldsLk
    <3>2. CASE k # i
      BY <1>1, <2>1, <3>2, Zenon DEF HoldsWait, HoldsLk
    <3>. QED BY <3>1, <3>2, Zenon
  <2>. QED BY <1>1, <2>2, HoldsKeeps, Zenon
<1>7. PointInv'
  BY <1>1, <1>2, YieldSafe, LockType, LockPoint DEF TypeInv, PointInv, Sched
<1>. QED BY <1>3, <1>4, <1>5, <1>6, <1>7, Zenon DEF LockInv

\* sleep() gives up the lock it was passed once it holds p->lock.
LEMMA SleepLock ==
  ASSUME LockInv, NEW c \in CPUs, NEW i \in Procs, sleep(c, i) PROVE LockInv'
<1>1. /\ On(c, i) /\ Sched(c, i, "SLEEPING", "sleep")
      /\ UNCHANGED <<killed, pid, parent, nextpid, cond, cpu, child, wk>>
  BY Zenon DEF sleep, At
<1>2. \/ /\ pc[i] = "wait_sleep" /\ pc' = [pc EXCEPT ![i] = "wait_again"]
         /\ chan' = [chan EXCEPT ![i] = i] /\ wait_lock' = None /\ lk' = lk
      \/ /\ pc[i] = "cond_sleep" /\ pc' = [pc EXCEPT ![i] = "cond_again"]
         /\ chan' = [chan EXCEPT ![i] = Cond] /\ lk' = None /\ wait_lock' = wait_lock
  BY Zenon DEF sleep, At, Goto
<1>3. /\ cpu[c] = i /\ sw[i] = "none" /\ state[i] = "RUNNING"
      /\ \A d \in CPUs : cpu[d] = i => d = c
      /\ wait_lock = c <=> HoldsWait(i)
      /\ lk = c <=> HoldsLk(i)
  BY <1>1, OnFacts, Zenon
<1>4. ~Copying(i) /\ child[i] = None /\ \A k \in Procs : child[k] # i
  BY <1>1, <1>2, OnFacts, LockPoint, Zenon DEF PointInv, Forking, Copying
<1>5. /\ pc' \in [Procs -> Points] /\ chan' \in [Procs -> Procs \cup {None, Cond}]
      /\ {wait_lock', lk'} \subseteq CPUs \cup {None}
      /\ pc'[i] \in {"wait_again", "cond_again"} /\ \A k \in Procs \ {i} : pc'[k] = pc[k]
  BY <1>2, LockType DEF TypeInv, Points
<1>6. /\ state'[i] = "SLEEPING" /\ \A k \in Procs \ {i} : state'[k] = state[k]
      /\ sw'[i] = "sleep" /\ \A k \in Procs \ {i} : sw'[k] = sw[k]
  BY <1>1, LockType, Zenon DEF TypeInv, Sched
<1>7. TypeInv'
  BY <1>1, <1>5, LockType, Zenon DEF TypeInv, Sched
<1>8. PidInv' /\ ScanInv'
  <2>1. \A k \in Procs : pc'[k] = "wakeup" => pc[k] = "wakeup"
    BY <1>5, Zenon
  <2>. QED BY <1>1, <2>1, LockPid, LockScan, Zenon DEF PidInv, ScanInv
<1>9. RunInv' /\ PlockInv'
  BY <1>1, <1>4, <1>5, SchedLock, Zenon
<1>10. /\ \A k \in Procs \ {i} : (HoldsWait(k))' = HoldsWait(k) /\ (HoldsLk(k))' = HoldsLk(k)
       /\ ~(HoldsWait(i))' /\ ~(HoldsLk(i))'
  BY <1>1, <1>5, <1>6, Zenon DEF HoldsWait, HoldsLk
<1>11. /\ HoldsWait(i) => wait_lock' = None
       /\ HoldsLk(i) => lk' = None
       /\ ~HoldsWait(i) => wait_lock' = wait_lock
       /\ ~HoldsLk(i) => lk' = lk
  BY <1>2, <1>3, Zenon DEF HoldsWait, HoldsLk
<1>12. WaitLockInv'
  BY <1>1, <1>3, <1>10, <1>11, LockType, LockWait, Consts DEF TypeInv, WaitLockInv
<1>13. LkInv'
  BY <1>1, <1>3, <1>10, <1>11, LockType, LockLk, Consts DEF TypeInv, LkInv
<1>14. PointInv'
  <2>1. child' = child
    BY <1>1, Zenon
  <2>2. ASSUME NEW k \in Procs
        PROVE  /\ state'[k] \in Live /\ sw'[k] # "none" => pc'[k] \in Safe
               /\ state'[k] = "SLEEPING" => pc'[k] \in {"wait_again", "cond_again"}
               /\ child[k] # None <=> pc'[k] \in Forking
               /\ child[k] # None => state'[child[k]] = "USED"
               /\ child[k] # None => state'[k] \in {"RUNNING", "RUNNABLE"}
    <3>1. CASE k = i
      BY <1>4, <1>5, <3>1, Zenon DEF Safe, Forking
    <3>2. CASE k # i
      BY <1>4, <1>5, <1>6, <3>2, PointAt
    <3>. QED BY <3>1, <3>2, Zenon
  <2>. QED BY <2>1, <2>2, OneParent, Zenon DEF PointInv
<1>. QED BY <1>7, <1>8, <1>9, <1>12, <1>13, <1>14, Zenon DEF LockInv

\* exit() releases wait_lock after it has p->lock, and calls sched().
LEMMA ExitZombieLock ==
  ASSUME LockInv, NEW c \in CPUs, NEW i \in Procs, exit_zombie(c, i) PROVE LockInv'
<1>1. /\ On(c, i) /\ pc[i] = "exit_zombie" /\ Sched(c, i, "ZOMBIE", "exit") /\ wait_lock' = None
      /\ UNCHANGED <<chan, killed, pid, parent, nextpid, lk, cond, cpu, pc, child, wk>>
  BY Zenon DEF exit_zombie, At
<1>2. /\ cpu[c] = i /\ sw[i] = "none" /\ state[i] = "RUNNING"
      /\ \A d \in CPUs : cpu[d] = i => d = c
      /\ wait_lock = c
  BY <1>1, OnFacts DEF HoldsWait
<1>3. ~Copying(i) /\ child[i] = None /\ \A k \in Procs : child[k] # i
  BY <1>1, OnFacts, LockPoint, Zenon DEF PointInv, Forking, Copying
<1>4. TypeInv'
  BY <1>1, LockType, Zenon DEF TypeInv, Sched
<1>5. PidInv' /\ ScanInv'
  BY <1>1, LockPid, LockScan, Zenon DEF PidInv, ScanInv
<1>6. RunInv' /\ PlockInv'
  BY <1>1, <1>3, <1>4, SchedLock, Zenon DEF TypeInv
<1>7. WaitLockInv'
  BY <1>1, <1>2, LockType, LockWait, Consts DEF TypeInv, WaitLockInv, HoldsWait, Sched
<1>8. LkInv'
  BY <1>1, <1>2, LockType, LockLk DEF TypeInv, LkInv, HoldsLk, Sched
<1>9. PointInv'
  BY <1>1, <1>3, LockType, LockPoint DEF TypeInv, PointInv, Live, Forking, Sched
<1>. QED BY <1>4, <1>5, <1>6, <1>7, <1>8, <1>9, Zenon DEF LockInv

\* allocproc() returns with the lock of a slot that was free.
LEMMA ForkLock ==
  ASSUME LockInv, NEW c \in CPUs, NEW i \in Procs, fork(c, i) PROVE LockInv'
<1>1. /\ On(c, i) /\ pc[i] = "user" /\ pc' = [pc EXCEPT ![i] = "fork_copy"]
      /\ nextpid <= MaxPid /\ nextpid' = nextpid + 1
      /\ UNCHANGED <<chan, killed, parent, wait_lock, lk, cond, cpu, mode, sw, wk>>
  BY Zenon DEF fork, At, Goto, cpuVars
<1>2. PICK n \in Procs :
        /\ state[n] = "UNUSED" /\ plock[n] = None
        /\ plock' = [plock EXCEPT ![n] = c] /\ state' = [state EXCEPT ![n] = "USED"]
        /\ pid' = [pid EXCEPT ![n] = nextpid] /\ child' = [child EXCEPT ![i] = n]
  BY Zenon DEF fork
<1>3. /\ cpu[c] = i /\ mode[c] = "run" /\ sw[i] = "none" /\ state[i] = "RUNNING"
      /\ \A d \in CPUs : cpu[d] = i => d = c
  BY <1>1, OnFacts, Zenon
<1>4. sw[n] # "none" /\ \A k \in Procs : child[k] # n
  BY <1>2, OffStack, PointAt, Consts, Zenon
<1>5. TypeInv'
  BY <1>1, <1>2, LockType, Zenon DEF TypeInv, Points
<1>6. PidInv'
  BY <1>1, <1>2, LockPid, ProcAssumption DEF PidInv
<1>7. ScanInv'
  BY <1>1, LockType, LockScan, Zenon DEF TypeInv, ScanInv
<1>8. RunInv'
  <2>1. \A d \in CPUs : cpu[d] # n
    BY <1>2, OffStack, Zenon
  <2>2. state'[n] = "USED" /\ \A k \in Procs \ {n} : state'[k] = state[k]
    BY <1>2, LockType, Zenon DEF TypeInv
  <2>. QED BY <1>1, <1>4, <2>1, <2>2, RunKeeps, Zenon
<1>9. PlockInv'
  <2>1. (Copying(i))' /\ ~Copying(i) /\ \A k \in Procs \ {i} : (Copying(k))' <=> Copying(k)
    BY <1>1, <1>3, LockType, Zenon DEF TypeInv, Copying
  <2>2. \A d \in CPUs : cpu[d] # n
    BY <1>2, OffStack, Zenon
  <2>. QED BY <1>1, <1>2, <1>3, <1>4, <2>1, <2>2, CopyingChild, LockType, LockPlock, Consts
           DEF TypeInv, PlockInv
<1>10. Moves(i) /\ TakesWait(c, i) /\ TakesLk(c, i)
  BY <1>1, LockType, Zenon DEF TypeInv, Moves, TakesWait, TakesLk, HoldsWait, HoldsLk
<1>11. WaitLockInv' /\ LkInv'
  BY <1>1, <1>10, WaitMoves, LkMoves, Zenon
<1>12. PointInv'
  BY <1>1, <1>2, <1>3, <1>4, LockType, LockPoint DEF TypeInv, PointInv, Live, Forking
<1>. QED BY <1>5, <1>6, <1>7, <1>8, <1>9, <1>11, <1>12, Zenon DEF LockInv

\* fork() that fails frees the slot and releases its lock.
LEMMA ForkFailLock ==
  ASSUME LockInv, NEW c \in CPUs, NEW i \in Procs, fork_fail(c, i) PROVE LockInv'
<1> DEFINE n == child[i]
<1>1. /\ On(c, i) /\ pc[i] = "fork_copy" /\ pc' = [pc EXCEPT ![i] = "user"]
      /\ freeproc(n) /\ plock' = [plock EXCEPT ![n] = None] /\ child' = [child EXCEPT ![i] = None]
      /\ UNCHANGED <<nextpid, wait_lock, lk, cond, cpu, mode, sw, wk>>
  BY Zenon DEF fork_fail, At, Goto, cpuVars
<1>2. /\ cpu[c] = i /\ sw[i] = "none" /\ state[i] = "RUNNING" /\ Copying(i)
      /\ \A d \in CPUs : cpu[d] = i => d = c
      /\ \A k \in Procs : plock[k] = c => k = n
  <2>1. /\ cpu[c] = i /\ sw[i] = "none" /\ state[i] = "RUNNING"
        /\ \A d \in CPUs : cpu[d] = i => d = c
    BY <1>1, OnFacts, Zenon
  <2>2. Copying(i)
    BY <1>1, <2>1, Zenon DEF Copying
  <2>3. On(c, i)
    BY <1>1, Zenon
  <2>4. \A k \in Procs : plock[k] = c => k = n
    BY ONLY LockInv, c \in CPUs, i \in Procs, <2>3, OnFacts
  <2>. QED BY <2>1, <2>2, <2>4, Zenon
<1>3. /\ n \in Procs /\ state[n] = "USED" /\ sw[n] # "none"
      /\ \A k \in Procs \ {i} : child[k] # n
  <2>1. n \in Procs /\ n # None /\ state[n] = "USED"
    <3>1. n \in Procs
      BY <1>2, CopyingChild, Zenon
    <3>2. n # None
      BY <3>1, Consts, Zenon
    <3>. QED BY <3>1, <3>2, PointAt, Zenon
  <2>. QED BY <2>1, OffStack, OneParent, Zenon
<1> HIDE DEF n
<1>4. /\ state' = [state EXCEPT ![n] = "UNUSED"] /\ pid' = [pid EXCEPT ![n] = 0]
      /\ parent' = [parent EXCEPT ![n] = None] /\ chan' = [chan EXCEPT ![n] = None]
      /\ killed' = [killed EXCEPT ![n] = FALSE]
  BY <1>1, Zenon DEF freeproc
<1>5. TypeInv'
  BY <1>1, <1>4, LockType, Zenon DEF TypeInv, Points
<1>6. PidInv'
  <2>1. pid' = [pid EXCEPT ![n] = 0] /\ nextpid' = nextpid
    BY <1>1, <1>4, Zenon
  <2>2. 0 \in 0 .. MaxPid
    BY ProcAssumption
  <2>. QED BY <2>1, <2>2, LockPid, Zenon DEF PidInv
<1>7. ScanInv'
  BY <1>1, LockType, LockScan, Zenon DEF TypeInv, ScanInv
<1>8. RunInv'
  <2>1. \A d \in CPUs : cpu[d] # n
    BY <1>3, OffStack, Zenon
  <2>2. state'[n] = "UNUSED" /\ \A k \in Procs \ {n} : state'[k] = state[k]
    BY <1>3, <1>4, LockType, Zenon DEF TypeInv
  <2>. QED BY <1>1, <1>3, <2>1, <2>2, RunKeeps, Zenon
<1>9. PlockInv'
  <2>1. ~(Copying(i))' /\ \A k \in Procs \ {i} : (Copying(k))' <=> Copying(k)
    BY <1>1, LockType, Zenon DEF TypeInv, Copying
  <2>2. n = child[i] /\ plock[n] = c
    BY <1>2, LockPlock, Consts, Zenon DEF PlockInv, n
  <2>. QED BY <1>1, <1>2, <1>3, <2>1, <2>2, CopyingChild, LockType, LockPlock, Consts
           DEF TypeInv, PlockInv
<1>10. Moves(i) /\ TakesWait(c, i) /\ TakesLk(c, i)
  BY <1>1, LockType, Zenon DEF TypeInv, Moves, TakesWait, TakesLk, HoldsWait, HoldsLk
<1>11. WaitLockInv' /\ LkInv'
  BY <1>1, <1>10, WaitMoves, LkMoves, Zenon
<1>12. PointInv'
  BY <1>1, <1>2, <1>3, <1>4, LockType, LockPoint DEF TypeInv, PointInv, Live, Forking
<1>. QED BY <1>5, <1>6, <1>7, <1>8, <1>9, <1>11, <1>12, Zenon DEF LockInv

\* fork() releases the child's lock; the child stays USED.
LEMMA ForkCopiedLock ==
  ASSUME LockInv, NEW c \in CPUs, NEW i \in Procs, fork_copied(c, i) PROVE LockInv'
<1>1. /\ On(c, i) /\ pc[i] = "fork_copy" /\ pc' = [pc EXCEPT ![i] = "fork_parent"]
      /\ plock' = [plock EXCEPT ![child[i]] = None]
      /\ UNCHANGED <<state, chan, killed, pid, parent, nextpid, wait_lock, lk, cond, cpu, mode, sw,
                     child, wk>>
  BY Zenon DEF fork_copied, At, Goto, cpuVars, tableVars
<1>2. /\ cpu[c] = i /\ sw[i] = "none" /\ Copying(i)
      /\ \A d \in CPUs : cpu[d] = i => d = c
  <2>1. cpu[c] = i /\ sw[i] = "none" /\ \A d \in CPUs : cpu[d] = i => d = c
    BY <1>1, OnFacts, Zenon
  <2>2. Copying(i)
    BY <1>1, <2>1, Zenon DEF Copying
  <2>. QED BY <2>1, <2>2, Zenon
<1>3. /\ child[i] \in Procs /\ plock[child[i]] = c /\ sw[child[i]] # "none"
      /\ \A k \in Procs \ {i} : child[k] # child[i]
  <2>1. child[i] \in Procs /\ child[i] # None
    BY <1>2, CopyingChild, Consts, Zenon
  <2>2. plock[child[i]] = c
    BY <1>2, LockPlock, Consts, Zenon DEF PlockInv
  <2>3. \A k \in Procs \ {i} : child[k] # child[i]
    BY <2>1, OneParent, Zenon
  <2>4. sw[child[i]] # "none"
    BY <2>1, PointAt, OffStack, Zenon
  <2>. QED BY <2>1, <2>2, <2>3, <2>4, Zenon
<1>4. TypeInv'
  BY <1>1, LockType, Zenon DEF TypeInv, Points
<1>5. PidInv' /\ ScanInv'
  BY <1>1, LockType, LockPid, LockScan, Zenon DEF TypeInv, PidInv, ScanInv
<1>6. RunInv'
  <2>1. UNCHANGED <<state, cpu, mode, sw>>
    BY <1>1, Zenon
  <2>. QED BY <2>1, LockRun, Zenon DEF RunInv
<1>7. PlockInv'
  <2>1. ~(Copying(i))' /\ \A k \in Procs \ {i} : (Copying(k))' <=> Copying(k)
    BY <1>1, LockType, Zenon DEF TypeInv, Copying
  <2>. QED BY <1>1, <1>2, <1>3, <2>1, CopyingChild, LockType, LockPlock, Consts
           DEF TypeInv, PlockInv
<1>8. Moves(i) /\ TakesWait(c, i) /\ TakesLk(c, i)
  BY <1>1, LockType, Zenon DEF TypeInv, Moves, TakesWait, TakesLk, HoldsWait, HoldsLk
<1>9. WaitLockInv' /\ LkInv'
  BY <1>1, <1>8, WaitMoves, LkMoves, Zenon
<1>10. PointInv'
  BY <1>1, <1>2, LockType, LockPoint DEF TypeInv, PointInv, Forking
<1>. QED BY <1>4, <1>5, <1>6, <1>7, <1>9, <1>10, Zenon DEF LockInv

\* The child becomes RUNNABLE at a safe point; no CPU is on its stack.
LEMMA ForkRunLock ==
  ASSUME LockInv, NEW c \in CPUs, NEW i \in Procs, fork_run(c, i) PROVE LockInv'
<1> DEFINE n == child[i]
<1>1. /\ On(c, i) /\ pc[i] = "fork_run" /\ plock[n] = None
      /\ state' = [state EXCEPT ![n] = "RUNNABLE"] /\ sw' = [sw EXCEPT ![n] = "new"]
      /\ pc' = [pc EXCEPT ![n] = "user", ![i] = "user"] /\ child' = [child EXCEPT ![i] = None]
      /\ UNCHANGED <<chan, killed, pid, parent, nextpid, plock, wait_lock, lk, cond, cpu, mode, wk>>
  BY Zenon DEF fork_run, At, cpuVars, lockVars
<1>2. /\ cpu[c] = i /\ sw[i] = "none" /\ state[i] = "RUNNING"
      /\ \A d \in CPUs : cpu[d] = i => d = c
  BY <1>1, OnFacts, Zenon
<1>3. n \in Procs /\ state[n] = "USED" /\ n # i /\ \A k \in Procs \ {i} : child[k] # n
  <2>1. n \in Procs /\ n # None /\ state[n] = "USED"
    BY <1>1, PointAt, Consts, Zenon DEF Forking
  <2>. QED BY <1>2, <2>1, OneParent, Zenon
<1>4. sw[n] # "none" /\ child[n] = None /\ \A d \in CPUs : cpu[d] # n
  BY <1>3, OffStack, Zenon
<1> HIDE DEF n
<1>5. /\ pc' \in [Procs -> Points] /\ pc'[n] = "user" /\ pc'[i] = "user"
      /\ \A k \in Procs \ {i, n} : pc'[k] = pc[k]
  BY <1>1, <1>3, LockType, Zenon DEF TypeInv, Points
<1>6. TypeInv'
  BY <1>1, <1>5, LockType, Zenon DEF TypeInv
<1>7. PidInv' /\ ScanInv'
  <2>1. \A k \in Procs : pc'[k] = "wakeup" => pc[k] = "wakeup"
    BY <1>5, Zenon
  <2>. QED BY <1>1, <2>1, LockPid, LockScan, Zenon DEF PidInv, ScanInv
<1>8. RunInv'
  <2>1. /\ state'[n] = "RUNNABLE" /\ \A k \in Procs \ {n} : state'[k] = state[k]
        /\ sw'[n] = "new" /\ \A k \in Procs \ {n} : sw'[k] = sw[k]
    BY <1>1, <1>3, LockType, Zenon DEF TypeInv
  <2>. QED BY <1>1, <1>3, <1>4, <2>1, RunKeeps, Zenon
<1>9. \A k \in Procs : /\ (HoldsWait(k))' <=> HoldsWait(k)
                       /\ (HoldsLk(k))' <=> HoldsLk(k)
                       /\ (Copying(k))' <=> Copying(k)
  <2>1. sw'[n] # "none" /\ \A k \in Procs \ {n} : sw'[k] = sw[k]
    BY <1>1, <1>3, LockType, Zenon DEF TypeInv
  <2>2. wk' = wk
    BY <1>1, Zenon
  <2>3. ASSUME NEW k \in Procs
        PROVE  /\ (HoldsWait(k))' <=> HoldsWait(k)
               /\ (HoldsLk(k))' <=> HoldsLk(k)
               /\ (Copying(k))' <=> Copying(k)
    <3>1. CASE k = n
      BY <1>4, <2>1, <3>1, Zenon DEF HoldsWait, HoldsLk, Copying
    <3>2. CASE k = i
      BY <1>1, <1>5, <3>2, Zenon DEF HoldsWait, HoldsLk, Copying
    <3>3. CASE k \notin {i, n}
      BY <1>5, <2>1, <2>2, <3>3, Zenon DEF HoldsWait, HoldsLk, Copying
    <3>. QED BY <3>1, <3>2, <3>3, Zenon
  <2>. QED BY <2>3, Zenon
<1>10. PlockInv'
  <2>1. \A k \in Procs : sw'[k] # "none" <=> sw[k] # "none"
    BY <1>1, <1>4, LockType, Zenon DEF TypeInv
  <2>2. \A k \in Procs : Copying(k) => child'[k] = child[k]
    BY <1>1, LockType, Zenon DEF TypeInv, Copying
  <2>. QED BY <1>1, <1>9, <2>1, <2>2, PlockKeeps, Zenon
<1>11. WaitLockInv' /\ LkInv'
  BY <1>1, <1>9, HoldsKeeps, Zenon
<1>12. PointInv'
  <2>1. /\ state'[n] = "RUNNABLE" /\ \A k \in Procs \ {n} : state'[k] = state[k]
        /\ child'[i] = None /\ \A k \in Procs \ {i} : child'[k] = child[k]
        /\ sw'[n] = "new" /\ \A k \in Procs \ {n} : sw'[k] = sw[k]
    BY <1>1, <1>3, LockType, Zenon DEF TypeInv
  <2>2. ASSUME NEW k \in Procs
        PROVE  /\ state'[k] \in Live /\ sw'[k] # "none" => pc'[k] \in Safe
               /\ state'[k] = "SLEEPING" => pc'[k] \in {"wait_again", "cond_again"}
    <3>1. CASE k \in {i, n}
      BY <1>2, <1>3, <1>5, <2>1, <3>1, Zenon DEF Safe
    <3>2. CASE k \notin {i, n}
      <4>1. state'[k] = state[k] /\ sw'[k] = sw[k] /\ pc'[k] = pc[k]
        BY <1>5, <2>1, <3>2, Zenon
      <4>2. /\ state[k] \in Live /\ sw[k] # "none" => pc[k] \in Safe
            /\ state[k] = "SLEEPING" => pc[k] \in {"wait_again", "cond_again"}
        BY PointAt, Zenon
      <4>. QED BY ONLY <4>1, <4>2, Zenon
    <3>. QED BY <3>1, <3>2, Zenon
  <2>3. ASSUME NEW k \in Procs
        PROVE  /\ child'[k] # None <=> pc'[k] \in Forking
               /\ child'[k] # None =>
                    state'[child'[k]] = "USED" /\ state'[k] \in {"RUNNING", "RUNNABLE"}
    <3>1. CASE k \in {i, n}
      BY <1>3, <1>4, <1>5, <2>1, <3>1, Zenon DEF Forking
    <3>2. CASE k \notin {i, n}
      <4>1. child'[k] = child[k] /\ pc'[k] = pc[k] /\ state'[k] = state[k] /\ child[k] # n
        BY <1>3, <1>5, <2>1, <3>2, Zenon
      <4>2. /\ child[k] # None <=> pc[k] \in Forking
            /\ child[k] # None => child[k] \in Procs /\ state[child[k]] = "USED"
            /\ child[k] # None => state[k] \in {"RUNNING", "RUNNABLE"}
        BY PointAt, Zenon
      <4>3. child[k] # None => state'[child[k]] = state[child[k]]
        BY <2>1, <4>1, <4>2, Zenon
      <4>. QED BY ONLY <4>1, <4>2, <4>3, Zenon
    <3>. QED BY <3>1, <3>2, Zenon
  <2>4. ASSUME NEW k \in Procs, NEW j \in Procs, child'[k] # None, child'[k] = child'[j]
        PROVE  k = j
    <3>1. child'[k] = child[k] /\ child'[j] = child[j]
      BY <2>1, <2>4, Zenon
    <3>. QED BY <2>4, <3>1, OneParent, Zenon
  <2>. QED BY <2>2, <2>3, <2>4, Zenon DEF PointInv
<1>. QED BY <1>6, <1>7, <1>8, <1>10, <1>11, <1>12, Zenon DEF LockInv

\* wait() frees a zombie whose lock it gets: no CPU is on its stack any more.
LEMMA WaitZombieLock ==
  ASSUME LockInv, NEW c \in CPUs, NEW i \in Procs, wait_zombie(c, i) PROVE LockInv'
<1>1. /\ On(c, i) /\ pc[i] = "wait_scan" /\ wait_lock' = None
      /\ pc' = [pc EXCEPT ![i] = "user"]
      /\ UNCHANGED <<nextpid, plock, lk, cond, cpu, mode, sw, child, wk>>
  BY Zenon DEF wait_zombie, At, Goto, cpuVars
<1>2. PICK k \in Procs : state[k] = "ZOMBIE" /\ plock[k] = None
                         /\ (freeproc(k) \/ UNCHANGED <<state, pid, parent, chan, killed>>)
  BY Zenon DEF wait_zombie, Zombies, Children
<1>3. /\ sw[i] = "none" /\ state[i] = "RUNNING" /\ child[i] = None
      /\ \A j \in Procs : child[j] # k
  <2>1. sw[i] = "none" /\ state[i] = "RUNNING"
    BY <1>1, OnFacts, Zenon
  <2>2. child[i] = None
    BY <1>1, PointAt, Zenon DEF Forking
  <2>3. \A j \in Procs : child[j] # k
    BY <1>2, PointAt, Consts, Zenon
  <2>. QED BY <2>1, <2>2, <2>3, Zenon
<1>4. /\ state' \in [Procs -> {"UNUSED", "USED", "SLEEPING", "RUNNABLE", "RUNNING", "ZOMBIE"}]
      /\ \A j \in Procs : state'[j] = state[j] \/ (j = k /\ state'[j] = "UNUSED")
  BY <1>2, LockType, Zenon DEF TypeInv, freeproc
<1>5. TypeInv'
  <2>1. chan' \in [Procs -> Procs \cup {None, Cond}] /\ parent' \in [Procs -> Procs \cup {None}]
    BY <1>2, LockType DEF TypeInv, freeproc
  <2>2. killed' \in [Procs -> BOOLEAN]
    BY <1>2, LockType, Zenon DEF TypeInv, freeproc
  <2>. QED BY <1>1, <1>4, <2>1, <2>2, LockType, Zenon DEF TypeInv, Points
<1>6. PidInv'
  BY <1>1, <1>2, LockPid, ProcAssumption DEF PidInv, freeproc
<1>7. ScanInv'
  BY <1>1, LockType, LockScan, Zenon DEF TypeInv, ScanInv
<1>8. RunInv'
  <2>1. \A d \in CPUs : cpu[d] # k
    BY <1>2, OnStack, Consts, Zenon
  <2>2. sw[k] # "none"
    BY <1>2, LockRun, Zenon DEF RunInv
  <2>. QED BY <1>1, <1>2, <1>4, <2>1, <2>2, RunKeeps, Zenon
<1>9. PlockInv'
  <2>1. \A j \in Procs : (Copying(j))' <=> Copying(j)
    BY <1>1, LockType, Zenon DEF TypeInv, Copying
  <2>. QED BY <1>1, <2>1, PlockKeeps, Zenon
<1>10. Moves(i) /\ TakesWait(c, i) /\ TakesLk(c, i)
  BY <1>1, <1>3, LockType, Zenon DEF TypeInv, Moves, TakesWait, TakesLk, HoldsWait, HoldsLk
<1>11. WaitLockInv' /\ LkInv'
  BY <1>1, <1>10, WaitMoves, LkMoves, Zenon
<1>12. PointInv'
  BY <1>1, <1>2, <1>3, <1>4, LockType, LockPoint DEF TypeInv, PointInv, Live, Forking
<1>. QED BY <1>5, <1>6, <1>7, <1>8, <1>9, <1>11, <1>12, Zenon DEF LockInv

\* fork() sets the parent under wait_lock.
LEMMA ForkParentLock ==
  ASSUME LockInv, NEW c \in CPUs, NEW i \in Procs, fork_parent(c, i) PROVE LockInv'
<1>1. /\ On(c, i) /\ pc[i] = "fork_parent" /\ pc' = [pc EXCEPT ![i] = "fork_run"]
      /\ parent' = [parent EXCEPT ![child[i]] = i]
      /\ UNCHANGED <<state, chan, killed, pid, nextpid, plock, wait_lock, lk, cond, cpu, mode, sw,
                     child, wk>>
  BY Zenon DEF fork_parent, At, Goto, cpuVars, lockVars
<1>2. TypeInv'
  BY <1>1, LockType, Zenon DEF TypeInv, Points
<1>3. PidInv' /\ ScanInv'
  BY <1>1, LockType, LockPid, LockScan, Zenon DEF TypeInv, PidInv, ScanInv
<1>4. Calm /\ Moves(i) /\ TakesWait(c, i) /\ TakesLk(c, i)
  BY <1>1, LockType, Zenon
     DEF TypeInv, Calm, Forking, On, Moves, TakesWait, TakesLk, HoldsWait, HoldsLk
<1>. QED BY <1>1, <1>2, <1>3, <1>4, CalmLock, Zenon

\* exit() takes wait_lock and starts to wake the parents.
LEMMA ExitLock ==
  ASSUME LockInv, NEW c \in CPUs, NEW i \in Procs, exit(c, i) PROVE LockInv'
<1>1. /\ On(c, i) /\ pc[i] = "user" /\ pc' = [pc EXCEPT ![i] = "wakeup"]
      /\ wait_lock = None /\ wait_lock' = c
      /\ UNCHANGED <<state, chan, killed, pid, nextpid, plock, lk, cond, cpu, mode, sw, child>>
  BY Zenon DEF exit, StartWakeup, At, Goto, cpuVars
<1>2. parent' \in [Procs -> Procs \cup {None}]
  BY LockType, Consts, Zenon DEF TypeInv, exit
<1>3. PICK chs \in {<<parent[i]>>, <<initproc, parent[i]>>} :
        wk' = [wk EXCEPT ![i] = [chs |-> chs, k |-> 1, ret |-> "exit_zombie"]]
  BY Zenon DEF exit, StartWakeup
<1>4. [chs |-> chs, k |-> 1, ret |-> "exit_zombie"] \in Scans /\ chs # <<>>
  <2>1. parent[i] \in Nat /\ initproc \in Nat /\ 1 \in Procs
    BY LockType, Consts DEF TypeInv, Procs, None, initproc
  <2>2. <<parent[i]>> \in Seq(Nat) /\ <<initproc, parent[i]>> \in Seq(Nat)
    BY <2>1
  <2>3. <<parent[i]>> # <<>> /\ <<initproc, parent[i]>> # <<>>
    BY Zenon
  <2>. QED BY <2>1, <2>2, <2>3, Zenon DEF Scans
<1>5. TypeInv'
  BY <1>1, <1>2, LockType, Zenon DEF TypeInv, Points
<1>6. PidInv' /\ ScanInv'
  BY <1>1, <1>3, <1>4, LockType, LockPid, LockScan, Zenon DEF TypeInv, PidInv, ScanInv
<1>7. Calm
  BY <1>1, LockType, Zenon DEF TypeInv, Calm, Forking, On
<1>8. Moves(i) /\ TakesWait(c, i) /\ TakesLk(c, i)
  BY <1>1, <1>3, LockType, LockScan, Zenon
     DEF TypeInv, ScanInv, On, Moves, TakesWait, TakesLk, HoldsWait, HoldsLk
<1>. QED BY <1>1, <1>5, <1>6, <1>7, <1>8, CalmLock, Zenon

\* A process moves on outside of fork() and wakeup(), and takes or releases
\* wait_lock or lk: the table stays as it is.
LEMMA StepLock ==
  ASSUME LockInv, NEW c \in CPUs, NEW i \in Procs, NEW p \in Points, On(c, i),
         pc[i] \notin Forking, p \notin Forking, p # "wakeup", pc' = [pc EXCEPT ![i] = p],
         UNCHANGED <<state, chan, killed, pid, parent, nextpid, plock, cpu, mode, sw, child, wk>>,
         wait_lock' \in {None, c, wait_lock}, lk' \in {None, c, lk}, cond' \in BOOLEAN,
         TakesWait(c, i), TakesLk(c, i)
  PROVE  LockInv'
<1>1. pc' \in [Procs -> Points] /\ pc'[i] = p /\ \A k \in Procs \ {i} : pc'[k] = pc[k]
  BY LockType, Zenon DEF TypeInv
<1>2. TypeInv'
  BY <1>1, LockType, Zenon DEF TypeInv
<1>3. PidInv' /\ ScanInv'
  BY <1>1, LockPid, LockScan, Zenon DEF PidInv, ScanInv
<1>4. Calm /\ Moves(i)
  BY <1>1, Zenon DEF Calm, Forking, On, Moves
<1>. QED BY <1>2, <1>3, <1>4, CalmLock, Zenon

\* wait() takes wait_lock.
LEMMA WaitLock ==
  ASSUME LockInv, NEW c \in CPUs, NEW i \in Procs, wait(c, i) PROVE LockInv'
<1>1. /\ On(c, i) /\ pc[i] = "user" /\ wait_lock = None /\ wait_lock' = c
      /\ pc' = [pc EXCEPT ![i] = "wait_scan"]
      /\ UNCHANGED <<state, chan, killed, pid, parent, nextpid, plock, cpu, mode, sw, child, wk>>
      /\ UNCHANGED <<lk, cond>>
  BY Zenon DEF wait, At, Goto, cpuVars, tableVars
<1>2. TakesWait(c, i) /\ TakesLk(c, i)
  BY <1>1, LockType, Zenon DEF TypeInv, On, TakesWait, TakesLk, HoldsWait, HoldsLk
<1>3. cond' \in BOOLEAN
  BY <1>1, LockType, Zenon DEF TypeInv
<1>. QED BY <1>1, <1>2, <1>3, StepLock, Zenon DEF Points, Forking

\* wait() without a zombie keeps wait_lock for sleep(), or releases it and
\* returns.
LEMMA WaitNoneLock ==
  ASSUME LockInv, NEW c \in CPUs, NEW i \in Procs, wait_none(c, i) PROVE LockInv'
<1>1. /\ On(c, i) /\ pc[i] = "wait_scan"
      /\ UNCHANGED <<state, chan, killed, pid, parent, nextpid, plock, cpu, mode, sw, child, wk>>
      /\ UNCHANGED <<lk, cond>>
  BY Zenon DEF wait_none, At, cpuVars, tableVars
<1>2. PICK p \in {"user", "wait_sleep"} :
        /\ pc' = [pc EXCEPT ![i] = p]
        /\ wait_lock' = IF p = "user" THEN None ELSE wait_lock
  BY Zenon DEF wait_none, Goto
<1>3. TakesWait(c, i) /\ TakesLk(c, i)
  BY <1>1, <1>2, LockType, Zenon DEF TypeInv, On, TakesWait, TakesLk, HoldsWait, HoldsLk
<1>4. cond' \in BOOLEAN
  BY <1>1, LockType, Zenon DEF TypeInv
<1>. QED BY <1>1, <1>2, <1>3, <1>4, StepLock, Zenon DEF Points, Forking

\* A process that is to wait for cond takes lk.
LEMMA CondWaitLock ==
  ASSUME LockInv, NEW c \in CPUs, NEW i \in Procs, cond_wait(c, i) PROVE LockInv'
<1>1. /\ On(c, i) /\ pc[i] = "user" /\ lk = None /\ lk' = c
      /\ pc' = [pc EXCEPT ![i] = "cond_test"]
      /\ UNCHANGED <<state, chan, killed, pid, parent, nextpid, plock, cpu, mode, sw, child, wk>>
      /\ UNCHANGED <<wait_lock, cond>>
  BY Zenon DEF cond_wait, At, Goto, cpuVars, tableVars
<1>2. TakesWait(c, i) /\ TakesLk(c, i)
  BY <1>1, LockType, Zenon DEF TypeInv, On, TakesWait, TakesLk, HoldsWait, HoldsLk
<1>3. cond' \in BOOLEAN
  BY <1>1, LockType, Zenon DEF TypeInv
<1>. QED BY <1>1, <1>2, <1>3, StepLock, Zenon DEF Points, Forking

\* After sleep() the caller has its lock again.
LEMMA ReacquireLock ==
  ASSUME LockInv, NEW c \in CPUs, NEW i \in Procs, reacquire(c, i) PROVE LockInv'
<1>1. /\ On(c, i) /\ cond' = cond
      /\ UNCHANGED <<state, chan, killed, pid, parent, nextpid, plock, cpu, mode, sw, child, wk>>
  BY Zenon DEF reacquire, At, cpuVars, tableVars
<1>2. cond' \in BOOLEAN
  BY <1>1, LockType, Zenon DEF TypeInv
<1>3. CASE /\ pc[i] = "cond_again" /\ pc' = [pc EXCEPT ![i] = "cond_test"]
           /\ lk = None /\ lk' = c /\ wait_lock' = wait_lock
  <2>1. TakesWait(c, i) /\ TakesLk(c, i)
    BY <1>1, <1>3, LockType, Zenon DEF TypeInv, On, TakesWait, TakesLk, HoldsWait, HoldsLk
  <2>. QED BY <1>1, <1>2, <1>3, <2>1, StepLock, Zenon DEF Points, Forking
<1>4. CASE /\ pc[i] = "wait_again" /\ pc' = [pc EXCEPT ![i] = "wait_scan"]
           /\ wait_lock = None /\ wait_lock' = c /\ lk' = lk
  <2>1. TakesWait(c, i) /\ TakesLk(c, i)
    BY <1>1, <1>4, LockType, Zenon DEF TypeInv, On, TakesWait, TakesLk, HoldsWait, HoldsLk
  <2>. QED BY <1>1, <1>2, <1>4, <2>1, StepLock, Zenon DEF Points, Forking
<1>. QED BY <1>3, <1>4, Zenon DEF reacquire, At, Goto

\* The loop around sleep() keeps lk, or releases it and leaves.
LEMMA CondTestLock ==
  ASSUME LockInv, NEW c \in CPUs, NEW i \in Procs, cond_test(c, i) PROVE LockInv'
<1>1. /\ On(c, i) /\ pc[i] = "cond_test" /\ wait_lock' = wait_lock
      /\ UNCHANGED <<state, chan, killed, pid, parent, nextpid, plock, cpu, mode, sw, child, wk>>
  BY Zenon DEF cond_test, At, cpuVars, tableVars
<1>2. PICK p \in {"user", "cond_sleep"} :
        pc' = [pc EXCEPT ![i] = p] /\ lk' = IF p = "user" THEN None ELSE lk
  BY Zenon DEF cond_test, Goto
<1>3. TakesWait(c, i) /\ TakesLk(c, i)
  BY <1>1, <1>2, LockType, Zenon DEF TypeInv, On, TakesWait, TakesLk, HoldsWait, HoldsLk
<1>4. cond' \in BOOLEAN
  BY LockType, Zenon DEF cond_test, TypeInv
<1>. QED BY <1>1, <1>2, <1>3, <1>4, StepLock, Zenon DEF Points, Forking

\* lk is released after the scan.
LEMMA CondDoneLock ==
  ASSUME LockInv, NEW c \in CPUs, NEW i \in Procs, cond_done(c, i) PROVE LockInv'
<1>1. /\ On(c, i) /\ pc[i] = "cond_done" /\ lk' = None /\ pc' = [pc EXCEPT ![i] = "user"]
      /\ UNCHANGED <<state, chan, killed, pid, parent, nextpid, plock, cpu, mode, sw, child, wk>>
      /\ UNCHANGED <<wait_lock, cond>>
  BY Zenon DEF cond_done, At, Goto, cpuVars, tableVars
<1>2. TakesWait(c, i) /\ TakesLk(c, i)
  BY <1>1, LockType, Zenon DEF TypeInv, On, TakesWait, TakesLk, HoldsWait, HoldsLk
<1>3. cond' \in BOOLEAN
  BY <1>1, LockType, Zenon DEF TypeInv
<1>. QED BY <1>1, <1>2, <1>3, StepLock, Zenon DEF Points, Forking

\* kill() changes no lock and wakes a sleeper under its lock.
LEMMA KillLock ==
  ASSUME LockInv, NEW c \in CPUs, NEW i \in Procs, kill(c, i) PROVE LockInv'
<1>1. /\ On(c, i)
      /\ UNCHANGED <<chan, pid, parent, nextpid, plock, wait_lock, lk, cond, cpu, mode, pc, sw,
                     child, wk>>
  BY Zenon DEF kill, At, cpuVars, lockVars, threadVars
<1>2. PICK k \in Procs :
        /\ killed' = [killed EXCEPT ![k] = TRUE]
        /\ state' = [state EXCEPT ![k] = IF @ = "SLEEPING" THEN "RUNNABLE" ELSE @]
  BY Zenon DEF kill
<1>3. TypeInv'
  <2>1. killed' \in [Procs -> BOOLEAN]
    BY <1>2, LockType, Zenon DEF TypeInv
  <2>2. state' \in [Procs -> {"UNUSED", "USED", "SLEEPING", "RUNNABLE", "RUNNING", "ZOMBIE"}]
    BY <1>2, LockType, Zenon DEF TypeInv
  <2>. QED BY <1>1, <2>1, <2>2, LockType, Zenon DEF TypeInv
<1>4. PidInv' /\ ScanInv'
  BY <1>1, LockPid, LockScan, Zenon DEF PidInv, ScanInv
<1>5. Calm
  BY <1>1, <1>2, LockType, Zenon DEF TypeInv, Calm
<1>6. Moves(i) /\ TakesWait(c, i) /\ TakesLk(c, i)
  BY <1>1, Zenon DEF Moves, TakesWait, TakesLk, HoldsWait, HoldsLk
<1>. QED BY <1>1, <1>3, <1>4, <1>5, <1>6, CalmLock, Zenon

\* The code that sets cond takes lk and starts to wake.
LEMMA CondSetLock ==
  ASSUME LockInv, NEW c \in CPUs, NEW i \in Procs, cond_set(c, i) PROVE LockInv'
<1>1. /\ On(c, i) /\ pc[i] = "user" /\ pc' = [pc EXCEPT ![i] = "wakeup"]
      /\ lk = None /\ lk' = c
      /\ UNCHANGED <<state, chan, killed, pid, parent, nextpid, plock, wait_lock, cpu, mode, sw,
                     child>>
  BY Zenon DEF cond_set, StartWakeup, At, Goto, cpuVars, tableVars
<1>2. wk' = [wk EXCEPT ![i] = [chs |-> <<Cond>>, k |-> 1, ret |-> "cond_done"]]
  BY Zenon DEF cond_set, StartWakeup
<1>3. [chs |-> <<Cond>>, k |-> 1, ret |-> "cond_done"] \in Scans /\ <<Cond>> # <<>>
  <2>1. Cond \in Nat /\ 1 \in Procs
    BY Consts, ProcAssumption DEF Cond, initproc
  <2>2. <<Cond>> \in Seq(Nat) /\ <<Cond>> # <<>>
    BY <2>1
  <2>. QED BY <2>1, <2>2, Zenon DEF Scans
<1>4. TypeInv'
  <2>1. cond' \in BOOLEAN
    BY Zenon DEF cond_set
  <2>. QED BY <1>1, <2>1, LockType, Zenon DEF TypeInv, Points
<1>5. PidInv' /\ ScanInv'
  BY <1>1, <1>2, <1>3, LockType, LockPid, LockScan, Zenon DEF TypeInv, PidInv, ScanInv
<1>6. Calm
  BY <1>1, LockType, Zenon DEF TypeInv, Calm, Forking, On
<1>7. Moves(i) /\ TakesWait(c, i) /\ TakesLk(c, i)
  BY <1>1, <1>2, LockType, LockScan, Zenon
     DEF TypeInv, ScanInv, On, Moves, TakesWait, TakesLk, HoldsWait, HoldsLk
<1>. QED BY <1>1, <1>4, <1>5, <1>6, <1>7, CalmLock, Zenon

\* An interrupt handler wakes sleepers on an idle CPU.
LEMMA IntrWakeupLock ==
  ASSUME LockInv, NEW c \in CPUs, intr_wakeup(c) PROVE LockInv'
<1>1. UNCHANGED <<chan, killed, pid, parent, nextpid, plock, wait_lock, lk, cpu, mode, pc, sw,
                  child, wk>>
  BY Zenon DEF intr_wakeup, cpuVars, lockVars, threadVars
<1>2. state' = [k \in Procs |->
        IF state[k] = "SLEEPING" /\ chan[k] = Cond THEN "RUNNABLE" ELSE state[k]]
  BY Zenon DEF intr_wakeup
<1>3. TypeInv'
  <2>1. cond' \in BOOLEAN
    BY Zenon DEF intr_wakeup
  <2>2. state' \in [Procs -> {"UNUSED", "USED", "SLEEPING", "RUNNABLE", "RUNNING", "ZOMBIE"}]
    BY <1>2, LockType, Zenon DEF TypeInv
  <2>. QED BY <1>1, <2>1, <2>2, LockType, Zenon DEF TypeInv
<1>4. PidInv' /\ ScanInv'
  BY <1>1, LockPid, LockScan, Zenon DEF PidInv, ScanInv
<1>5. RunInv' /\ PlockInv' /\ PointInv'
  BY <1>1, <1>2, CalmKeeps, Zenon DEF Calm
<1>6. WaitLockInv' /\ LkInv'
  BY <1>1, LockWait, LockLk, Zenon DEF WaitLockInv, LkInv, HoldsWait, HoldsLk
<1>. QED BY <1>3, <1>4, <1>5, <1>6, Zenon DEF LockInv

\* The rest of a list of more than one channel is not empty.
LEMMA LongTail ==
  ASSUME NEW s \in Seq(Nat), Len(s) > 1
  PROVE  Tail(s) \in Seq(Nat) /\ Tail(s) # <<>>
<1>1. s # <<>> /\ Len(<<>>) = 0
  OBVIOUS
<1>2. Len(Tail(s)) = Len(s) - 1
  BY <1>1
<1>3. Tail(s) \in Seq(Nat)
  BY <1>1
<1>4. Len(Tail(s)) # Len(<<>>)
  BY <1>1, <1>2, SMTT(20)
<1>. QED BY <1>3, <1>4, Zenon

\* There is a slot after one that is not the last.
LEMMA NextSlot ==
  ASSUME NEW k \in Procs, k < NPROC PROVE k + 1 \in Procs
  BY ProcAssumption DEF Procs

\* The three ways on from a slot: the next slot, the next channel, or the end.
LEMMA WakeupStep ==
  ASSUME NEW c \in CPUs, NEW i \in Procs, wakeup(c, i), wk \in [Procs -> Scans]
  PROVE  \/ /\ wk[i].k < NPROC /\ pc' = pc
            /\ wk' = [wk EXCEPT ![i] = [chs |-> wk[i].chs, k |-> wk[i].k + 1, ret |-> wk[i].ret]]
         \/ /\ ~(wk[i].k < NPROC) /\ Len(wk[i].chs) > 1 /\ pc' = pc
            /\ wk' = [wk EXCEPT ![i] = [chs |-> Tail(wk[i].chs), k |-> 1, ret |-> wk[i].ret]]
         \/ /\ ~(wk[i].k < NPROC) /\ ~(Len(wk[i].chs) > 1)
            /\ wk' = [wk EXCEPT ![i] = NoScan] /\ pc' = [pc EXCEPT ![i] = wk[i].ret]
<1>1. CASE wk[i].k < NPROC
  <2>1. wk' = [wk EXCEPT ![i] = [wk[i] EXCEPT !.k = wk[i].k + 1]] /\ pc' = pc
    BY <1>1, Zenon DEF wakeup
  <2>2. wk'[i] = [chs |-> wk[i].chs, k |-> wk[i].k + 1, ret |-> wk[i].ret]
    BY <2>1 DEF Scans
  <2>3. wk' = [wk EXCEPT ![i] = wk'[i]]
    BY <2>1, Zenon
  <2>. QED BY <1>1, <2>1, <2>2, <2>3, Zenon
<1>2. CASE ~(wk[i].k < NPROC) /\ Len(wk[i].chs) > 1
  BY <1>2, Zenon DEF wakeup
<1>3. CASE ~(wk[i].k < NPROC) /\ ~(Len(wk[i].chs) > 1)
  BY <1>3, Zenon DEF wakeup, Goto
<1>. QED BY <1>1, <1>2, <1>3, Zenon

\* One slot of wakeup(): the scan stays in the table, or ends where it was
\* called.
LEMMA WakeupLock ==
  ASSUME LockInv, NEW c \in CPUs, NEW i \in Procs, wakeup(c, i) PROVE LockInv'
<1>1. On(c, i) /\ sw[i] = "none" /\ pc[i] = "wakeup" /\ state[i] = "RUNNING"
  BY OnFacts, Zenon DEF wakeup, At
<1>2. /\ wk \in [Procs -> Scans] /\ wk[i] \in Scans /\ wk[i].chs # <<>>
      /\ wk[i].ret \in {"exit_zombie", "cond_done"}
  BY <1>1, LockScan, Zenon DEF ScanInv, Scans
<1>3. UNCHANGED <<chan, killed, pid, parent, nextpid, plock, wait_lock, lk, cond, cpu, mode, sw,
                  child>>
  BY Zenon DEF wakeup, lockVars, cpuVars
<1>4. /\ state' \in [Procs -> {"UNUSED", "USED", "SLEEPING", "RUNNABLE", "RUNNING", "ZOMBIE"}]
      /\ \A k \in Procs : state'[k] = state[k] \/ (state[k] = "SLEEPING" /\ state'[k] = "RUNNABLE")
  BY LockType, Zenon DEF wakeup, WakeSlot, TypeInv
<1>5. /\ wk' \in [Procs -> Scans] /\ pc' \in [Procs -> Points]
      /\ \A k \in Procs \ {i} : wk'[k] = wk[k] /\ pc'[k] = pc[k]
      /\ \/ pc'[i] = "wakeup" /\ wk'[i].ret = wk[i].ret /\ wk'[i].chs # <<>>
         \/ pc'[i] = wk[i].ret
  <2>0. pc \in [Procs -> Points] /\ 1 \in Procs
    BY LockType, Consts, Zenon DEF TypeInv, initproc
  <2>1. CASE wk[i].k < NPROC /\ pc' = pc
             /\ wk' = [wk EXCEPT ![i] = [chs |-> wk[i].chs, k |-> wk[i].k + 1, ret |-> wk[i].ret]]
    <3>1. wk[i].k + 1 \in Procs
      BY <1>2, <2>1, NextSlot, Zenon DEF Scans
    <3>2. [chs |-> wk[i].chs, k |-> wk[i].k + 1, ret |-> wk[i].ret] \in Scans
      BY <1>2, <3>1, Zenon DEF Scans
    <3>. QED BY <1>1, <1>2, <2>0, <2>1, <3>2, Zenon
  <2>2. CASE Len(wk[i].chs) > 1 /\ pc' = pc
             /\ wk' = [wk EXCEPT ![i] = [chs |-> Tail(wk[i].chs), k |-> 1, ret |-> wk[i].ret]]
    <3>1. Tail(wk[i].chs) \in Seq(Nat) /\ Tail(wk[i].chs) # <<>>
      BY <1>2, <2>2, LongTail, Zenon DEF Scans
    <3>2. [chs |-> Tail(wk[i].chs), k |-> 1, ret |-> wk[i].ret] \in Scans
      BY <1>2, <2>0, <3>1, Zenon DEF Scans
    <3>. QED BY <1>1, <1>2, <2>0, <2>2, <3>1, <3>2, Zenon
  <2>3. CASE wk' = [wk EXCEPT ![i] = NoScan] /\ pc' = [pc EXCEPT ![i] = wk[i].ret]
    BY <1>1, <1>2, <2>0, <2>3, NoScanType, Zenon DEF Points
  <2>. QED BY <2>0, <2>1, <2>2, <2>3, <1>2, WakeupStep, Zenon
<1>6. TypeInv'
  BY <1>3, <1>4, <1>5, LockType, Zenon DEF TypeInv
<1>7. PidInv' /\ ScanInv'
  BY <1>2, <1>3, <1>5, LockPid, LockScan, Zenon DEF PidInv, ScanInv
<1>8. Calm /\ Moves(i)
  BY <1>1, <1>2, <1>3, <1>4, <1>5, Zenon DEF Calm, Moves, Forking
<1>9. TakesWait(c, i) /\ TakesLk(c, i)
  BY <1>1, <1>2, <1>3, <1>5, Zenon DEF TakesWait, TakesLk, HoldsWait, HoldsLk
<1>. QED BY <1>1, <1>6, <1>7, <1>8, <1>9, CalmLock, Zenon

-----------------------------------------------------------------------------
(* The theorems *)

\* In every reachable state every lock has the holder that LockInv names: a
\* process lock is with the CPU that runs scheduler() or sched() for it, or with
\* the CPU of the fork() that makes it; wait_lock and lk with a process that is
\* inside of the code that takes them.
THEOREM Invariance == Spec => []LockInv
<1>1. LockInv /\ [Next]_vars => LockInv'
  <2> SUFFICES ASSUME LockInv, [Next]_vars PROVE LockInv'
    BY Zenon
  <2>1. CASE UNCHANGED vars
    <3>1. UNCHANGED <<state, chan, killed, pid, parent, nextpid, plock, wait_lock, lk, cond, cpu,
                      mode, pc, sw, child, wk>>
      BY <2>1, Zenon DEF vars, tableVars, lockVars, cpuVars, threadVars
    <3>2. TypeInv' /\ PidInv' /\ ScanInv'
      BY <3>1, LockType, LockPid, LockScan, Zenon DEF TypeInv, PidInv, ScanInv
    <3>3. RunInv' /\ PlockInv' /\ PointInv'
      BY <3>1, CalmKeeps, Zenon DEF Calm
    <3>4. WaitLockInv' /\ LkInv'
      BY <3>1, LockWait, LockLk, Zenon DEF WaitLockInv, LkInv, HoldsWait, HoldsLk
    <3>. QED BY <3>2, <3>3, <3>4, Zenon DEF LockInv
  <2>2. CASE Next
    <3>1. PICK c \in CPUs :
            \/ scheduler_back(c) \/ intr_wakeup(c)
            \/ \E i \in Procs : scheduler(c, i) \/ yield(c, i) \/ Kernel(c, i) \/ Syscall(c, i)
      BY <2>2, Zenon DEF Next
    <3>2. CASE scheduler_back(c) \/ intr_wakeup(c)
      BY <3>2, SchedulerBackLock, IntrWakeupLock, Zenon
    <3>3. ASSUME NEW i \in Procs, scheduler(c, i) \/ yield(c, i) PROVE LockInv'
      BY <3>3, SchedulerLock, YieldLock, Zenon
    <3>4. ASSUME NEW i \in Procs, Kernel(c, i) PROVE LockInv'
      BY <3>4, ResumeLock, SleepLock, WakeupLock, ForkFailLock, ForkCopiedLock, ForkParentLock,
         ForkRunLock, ExitZombieLock, WaitZombieLock, WaitNoneLock, ReacquireLock, CondTestLock,
         CondDoneLock, Zenon DEF Kernel
    <3>5. ASSUME NEW i \in Procs, Syscall(c, i) PROVE LockInv'
      BY <3>5, ForkLock, ExitLock, WaitLock, KillLock, CondWaitLock, CondSetLock, Zenon DEF Syscall
    <3>. QED BY <3>1, <3>2, <3>3, <3>4, <3>5, Zenon
  <2>. QED BY <2>1, <2>2, Zenon
<1>. QED BY InitLock, <1>1, PTL DEF Spec

\* sched() is called with p->lock and no other lock, and hands it to scheduler(),
\* which holds no lock while it looks for a process.
THEOREM SchedLocksThm == Spec => []SchedLocks
<1>1. LockInv => SchedLocks
  <2> SUFFICES ASSUME LockInv PROVE SchedLocks
    BY Zenon
  <2>1. TypeOK
    BY TypesAgree, LockType, LockPid, Zenon
  <2>2. ASSUME NEW c \in CPUs, mode[c] = "back"
        PROVE  held(c) = {cpu[c]} /\ state[cpu[c]] # "RUNNING"
    <3>1. /\ cpu[c] \in Procs /\ sw[cpu[c]] # "none" /\ state[cpu[c]] # "RUNNING"
          /\ \A d \in CPUs : cpu[d] = cpu[c] => d = c
      BY <2>2, LockType, LockRun, Consts DEF TypeInv, RunInv
    <3>2. wait_lock # c /\ lk # c
      BY <3>1, LockWait, LockLk, Consts, Zenon DEF WaitLockInv, LkInv, HoldsWait, HoldsLk
    <3>3. \A j \in Procs : plock[j] = c <=> j = cpu[c]
      <4>1. ~Copying(cpu[c]) /\ c # None
        BY <3>1, Consts, Zenon DEF Copying
      <4>2. plock[cpu[c]] = c
        BY <3>1, LockPlock, Consts, Zenon DEF PlockInv
      <4>3. ASSUME NEW j \in Procs, plock[j] = c PROVE j = cpu[c]
        BY <4>1, <4>3, LockPlock, Zenon DEF PlockInv
      <4>. QED BY <4>2, <4>3, Zenon
    <3>. QED BY <3>1, <3>2, <3>3, HeldOne, Zenon
  <2>3. ASSUME NEW c \in CPUs, mode[c] = "sched" PROVE held(c) = {}
    <3>1. cpu[c] = None
      BY <2>3, LockRun, Zenon DEF RunInv
    <3>2. wait_lock # c /\ lk # c /\ \A j \in Procs : plock[j] # c
      <4>1. c # None
        BY Consts, Zenon
      <4>2. wait_lock # c
        BY <3>1, <4>1, LockWait, Zenon DEF WaitLockInv
      <4>3. lk # c
        BY <3>1, <4>1, LockLk, Zenon DEF LkInv
      <4>4. \A j \in Procs : plock[j] # c
        BY <3>1, <4>1, LockPlock, Zenon DEF PlockInv
      <4>. QED BY <4>2, <4>3, <4>4, Zenon
    <3>. QED BY <3>2, HeldNone, Zenon
  <2>. QED BY <2>1, <2>2, <2>3, Zenon DEF SchedLocks
<1>. QED BY Invariance, <1>1, PTL

\* No two CPUs are on the kernel stack of one process, and the slot of a process
\* on whose stack a CPU is, is neither free nor open to anybody else.
THEOREM StackSafeThm == Spec => []StackSafe
<1>1. LockInv => StackSafe
  <2> SUFFICES ASSUME LockInv PROVE StackSafe
    BY Zenon
  <2>1. \A c, d \in CPUs : cpu[c] # None /\ cpu[c] = cpu[d] => c = d
    BY LockRun, Zenon DEF RunInv
  <2>. QED BY <2>1, OnStack, Zenon DEF StackSafe
<1>. QED BY Invariance, <1>1, PTL

\* Process j is in the scan of wakeup() of exit(), or of the code that sets cond.
Waking(j, ret) == sw[j] = "none" /\ pc[j] = "wakeup" /\ wk[j].ret = ret
Exiting(j) == Waking(j, "exit_zombie") \/ (sw[j] = "none" /\ pc[j] = "exit_zombie")
Asleep(i, ch) == state[i] = "SLEEPING" /\ chan[i] = ch

\* The scan of exiting process j still comes to parent i.
Pending(j, i) ==
  \/ wk[j].chs = <<i>> /\ wk[j].k <= i
  \/ \E p \in Procs \cup {None} : wk[j].chs = <<i, p>> /\ wk[j].k <= i
  \/ wk[j].chs = <<initproc, i>>

\* Parents are alive, and a process in exit() has no children any more.
ParentInv ==
  /\ \A k \in Procs : parent[k] # None => parent[k] # k /\ state[parent[k]] \in Live
  /\ \A k \in Procs : state[k] \notin {"UNUSED", "USED"} /\ k # initproc => parent[k] # None
  /\ \A i \in Procs : pc[i] = "fork_run" => parent[child[i]] # None
  /\ state[initproc] \in Live /\ parent[initproc] = None
  /\ \A i \in Procs : Exiting(i) => i # initproc /\ \A k \in Procs : parent[k] # i

\* Nobody sleeps on a true condition but a process the scan still comes to.
CondInv ==
  /\ \A j \in Procs : Waking(j, "cond_done") => wk[j].chs = <<Cond>>
  /\ \A i \in Procs : sw[i] = "none" /\ pc[i] = "cond_sleep" => ~cond
  /\ cond => \A i \in Procs : Asleep(i, Cond) =>
       \E j \in Procs : Waking(j, "cond_done") /\ wk[j].k <= i

\* No parent sleeps with a zombie to collect, or with a child that is about to
\* be one, but one the scan of exit() still comes to.
ScanChans ==
  \A j \in Procs : Waking(j, "exit_zombie") =>
    \/ wk[j].chs = <<parent[j]>>
    \/ wk[j].chs = <<initproc, parent[j]>>
SleepNoZombie ==
  \A i, k \in Procs :
    sw[i] = "none" /\ pc[i] = "wait_sleep" /\ parent[k] = i => state[k] # "ZOMBIE"
ZombiePending ==
  \A i, k \in Procs : Asleep(i, i) /\ parent[k] = i /\ state[k] = "ZOMBIE" =>
    \E j \in Procs : Waking(j, "exit_zombie") /\ Pending(j, i)
ExitPending ==
  \A j \in Procs : Exiting(j) /\ parent[j] # None /\ Asleep(parent[j], parent[j]) =>
    Waking(j, "exit_zombie") /\ Pending(j, parent[j])

WaitInv == ScanChans /\ SleepNoZombie /\ ZombiePending /\ ExitPending

WakeInv == ParentInv /\ CondInv /\ WaitInv

\* A step that touches neither cond nor its sleepers and scans.
QuietCond ==
  /\ \A j \in Procs : (Waking(j, "cond_done"))' <=> Waking(j, "cond_done")
  /\ \A j \in Procs : Waking(j, "cond_done") => wk'[j] = wk[j]
  /\ \A i \in Procs : sw'[i] = "none" /\ pc'[i] = "cond_sleep" =>
       sw[i] = "none" /\ pc[i] = "cond_sleep"
  /\ \A i \in Procs : (Asleep(i, Cond))' => Asleep(i, Cond)
  /\ cond' => cond

\* A step that touches neither exiting processes and their scans nor zombies and
\* their parents.
QuietExit ==
  /\ \A j \in Procs : (Waking(j, "exit_zombie"))' <=> Waking(j, "exit_zombie")
  /\ \A j \in Procs : Waking(j, "exit_zombie") => wk'[j] = wk[j]
  /\ \A j \in Procs : (Exiting(j))' => Exiting(j)
  /\ \A i \in Procs : (Asleep(i, i))' => Asleep(i, i)
  /\ \A k \in Procs : state'[k] = "ZOMBIE" => state[k] = "ZOMBIE"
  /\ \A k \in Procs : parent'[k] = parent[k] \/ (~(Exiting(k))' /\ state'[k] # "ZOMBIE")
QuietWait ==
  /\ QuietExit
  /\ \A i \in Procs : sw'[i] = "none" /\ pc'[i] = "wait_sleep" =>
       sw[i] = "none" /\ pc[i] = "wait_sleep"

\* A step that ends no process, gives nobody a parent and starts no exit().
QuietParent ==
  /\ parent' = parent
  /\ \A k \in Procs : state'[k] \in Live <=> state[k] \in Live
  /\ \A k \in Procs : state'[k] \notin {"UNUSED", "USED"} => state[k] \notin {"UNUSED", "USED"}
  /\ \A i \in Procs : pc'[i] = "fork_run" => pc[i] = "fork_run" /\ child'[i] = child[i]
  /\ \A j \in Procs : (Exiting(j))' => Exiting(j)

\* A step of process i outside of sleep(), wakeup() and exit().
Quiet(i) ==
  /\ parent' = parent /\ wk' = wk /\ cond' = cond
  /\ \A k \in Procs : \/ state'[k] = state[k]
                      \/ state[k] \in Live /\ state'[k] \in {"RUNNABLE", "RUNNING"}
                      \/ state[k] = "UNUSED" /\ state'[k] = "USED"
  /\ \A k \in Procs : state'[k] = "SLEEPING" => chan'[k] = chan[k]
  /\ \A k \in Procs \ {i} : pc'[k] = pc[k] /\ sw'[k] = sw[k] /\ child'[k] = child[k]
  /\ sw[i] = "none" => pc[i] \notin {"wakeup", "exit_zombie"}
  /\ sw'[i] = "none" => pc'[i] \notin {"wakeup", "exit_zombie", "wait_sleep", "cond_sleep"}
  /\ pc'[i] = "fork_run" => pc[i] = "fork_run" /\ child'[i] = child[i]

-----------------------------------------------------------------------------
(* Facts about the invariants *)

\* The parts of the invariant.
LEMMA WakeParent == WakeInv => ParentInv
  BY Zenon DEF WakeInv

\* Its part about the condition and its sleepers.
LEMMA WakeCond == WakeInv => CondInv
  BY Zenon DEF WakeInv

\* Its part about wait() and exit().
LEMMA WakeWait == WakeInv => WaitInv
  BY Zenon DEF WakeInv

\* Its part about the channels the scan of exit() has.
LEMMA WakeScans == WakeInv => ScanChans
  BY Zenon DEF WakeInv, WaitInv

\* Its part about a process about to sleep in wait().
LEMMA WakeSleep == WakeInv => SleepNoZombie
  BY Zenon DEF WakeInv, WaitInv

\* Its part about zombies with a sleeping parent.
LEMMA WakeZombie == WakeInv => ZombiePending
  BY Zenon DEF WakeInv, WaitInv

\* Its part about processes in exit() with a sleeping parent.
LEMMA WakeExit == WakeInv => ExitPending
  BY Zenon DEF WakeInv, WaitInv

\* At most one process is where wait_lock is held.
LEMMA WaitHolder ==
  ASSUME LockInv, NEW i \in Procs, HoldsWait(i)
  PROVE  wait_lock # None /\ \A j \in Procs : HoldsWait(j) => j = i
<1>1. \A j \in Procs : HoldsWait(j) => \E d \in CPUs : cpu[d] = j
  BY LockRun, Zenon DEF RunInv, HoldsWait
<1>. QED BY <1>1, LockWait, Consts, Zenon DEF WaitLockInv

\* At most one process is where lk is held.
LEMMA LkHolder ==
  ASSUME LockInv, NEW i \in Procs, HoldsLk(i)
  PROVE  lk # None /\ \A j \in Procs : HoldsLk(j) => j = i
<1>1. \A j \in Procs : HoldsLk(j) => \E d \in CPUs : cpu[d] = j
  BY LockRun, Zenon DEF RunInv, HoldsLk
<1>. QED BY <1>1, LockLk, Consts, Zenon DEF LkInv

\* A process in exit() holds wait_lock, one that wakes the sleepers of cond holds
\* lk.
LEMMA ExitHolds ==
  /\ \A j \in Procs : Exiting(j) => HoldsWait(j)
  /\ \A j \in Procs : Waking(j, "cond_done") => HoldsLk(j)
  BY Zenon DEF Exiting, Waking, HoldsWait, HoldsLk

\* Init: nobody sleeps, and init is the only process.
LEMMA InitWake == Init => WakeInv
<1> SUFFICES ASSUME Init PROVE WakeInv
  BY Zenon
<1>1. \A k \in Procs : sw[k] # "none" /\ pc[k] = "user" /\ state[k] \in {"UNUSED", "RUNNABLE"}
                       /\ parent[k] = None /\ (state[k] = "RUNNABLE" <=> k = initproc)
  BY Consts, Zenon DEF Init
<1>2. \A k \in Procs : ~Exiting(k) /\ ~Waking(k, "exit_zombie") /\ ~Waking(k, "cond_done")
  BY <1>1, Zenon DEF Exiting, Waking
<1>3. ParentInv
  BY <1>1, <1>2, Consts, Zenon DEF ParentInv, Live
<1>4. CondInv
  BY <1>1, <1>2, Zenon DEF CondInv, Asleep
<1>5. WaitInv
  BY <1>1, <1>2, Zenon DEF WaitInv, ScanChans, SleepNoZombie, ZombiePending, ExitPending
<1>. QED BY <1>3, <1>4, <1>5, Zenon DEF WakeInv

\* A step that is quiet about cond keeps CondInv.
LEMMA QuietCondKeeps == ASSUME WakeInv, QuietCond PROVE CondInv'
<1>1. \A j \in Procs : (Waking(j, "cond_done"))' => wk'[j].chs = <<Cond>>
  BY WakeCond, Zenon DEF CondInv, QuietCond
<1>2. \A i \in Procs : sw'[i] = "none" /\ pc'[i] = "cond_sleep" => ~cond'
  BY WakeCond, Zenon DEF CondInv, QuietCond
<1>3. ASSUME cond', NEW i \in Procs, (Asleep(i, Cond))'
      PROVE  \E j \in Procs : (Waking(j, "cond_done"))' /\ wk'[j].k <= i
  <2>1. PICK j \in Procs : Waking(j, "cond_done") /\ wk[j].k <= i
    BY <1>3, WakeCond, Zenon DEF CondInv, QuietCond
  <2>. QED BY <2>1, Zenon DEF QuietCond
<1>. QED BY <1>1, <1>2, <1>3, Zenon DEF CondInv

\* A step that is quiet about exits keeps what the scans promise.
LEMMA QuietExitKeeps ==
  ASSUME LockInv, WakeInv, QuietExit PROVE ScanChans' /\ ZombiePending' /\ ExitPending'
<1>1. \A j \in Procs : (Exiting(j))' => Exiting(j) /\ parent'[j] = parent[j]
  BY Zenon DEF QuietExit
<1>2. ASSUME NEW j \in Procs, NEW i \in Procs, Waking(j, "exit_zombie"), Pending(j, i)
      PROVE  (Waking(j, "exit_zombie"))' /\ (Pending(j, i))'
  <2>1. (Waking(j, "exit_zombie"))' /\ wk'[j] = wk[j]
    BY <1>2, Zenon DEF QuietExit
  <2>. QED BY <1>2, <2>1, Zenon DEF Pending
<1>3. ScanChans'
  <2> SUFFICES ASSUME NEW j \in Procs, (Waking(j, "exit_zombie"))'
               PROVE  wk'[j].chs = <<parent'[j]>> \/ wk'[j].chs = <<initproc, parent'[j]>>
    BY Zenon DEF ScanChans
  <2>1. (Exiting(j))'
    BY Zenon DEF Exiting
  <2>2. Waking(j, "exit_zombie") /\ wk'[j] = wk[j] /\ parent'[j] = parent[j]
    BY <1>1, <2>1, Zenon DEF QuietExit
  <2>. QED BY <2>2, WakeScans, Zenon DEF ScanChans
<1>4. ZombiePending'
  <2> SUFFICES ASSUME NEW i \in Procs, NEW k \in Procs,
                      (Asleep(i, i))', parent'[k] = i, state'[k] = "ZOMBIE"
               PROVE  \E j \in Procs : (Waking(j, "exit_zombie"))' /\ (Pending(j, i))'
    BY Zenon DEF ZombiePending
  <2>1. Asleep(i, i) /\ parent[k] = i /\ state[k] = "ZOMBIE"
    BY Zenon DEF QuietExit
  <2>2. PICK j \in Procs : Waking(j, "exit_zombie") /\ Pending(j, i)
    BY <2>1, WakeZombie, Zenon DEF ZombiePending
  <2>. QED BY <1>2, <2>2, Zenon
<1>5. ExitPending'
  <2> SUFFICES ASSUME NEW j \in Procs, (Exiting(j))', parent'[j] # None,
                      (Asleep(parent[j], parent[j]))'
               PROVE  (Waking(j, "exit_zombie"))' /\ (Pending(j, parent[j]))'
    BY Zenon DEF ExitPending
  <2> DEFINE p == parent[j]
  <2>1. Exiting(j) /\ parent'[j] = p /\ p # None
    BY <1>1, Zenon
  <2>2. p \in Procs
    BY <2>1, LockType, Zenon DEF TypeInv
  <2>3. Asleep(p, p)
    <3>1. state'[p] = "SLEEPING" /\ chan'[p] = p
      BY <2>1, Zenon DEF Asleep
    <3> HIDE DEF p
    <3>. QED BY <2>2, <3>1, Zenon DEF QuietExit, Asleep
  <2>4. Waking(j, "exit_zombie") /\ Pending(j, p)
    BY <2>1, <2>3, WakeExit, Zenon DEF ExitPending
  <2>5. (Waking(j, "exit_zombie"))' /\ wk'[j] = wk[j]
    BY <2>4, Zenon DEF QuietExit
  <2>. QED BY <2>1, <2>4, <2>5, Zenon DEF Pending
<1>. QED BY <1>3, <1>4, <1>5, Zenon

\* A step that is quiet about exits, and in which nobody goes to sleep in wait(),
\* keeps WaitInv.
LEMMA QuietWaitKeeps ==
  ASSUME LockInv, WakeInv, QuietWait PROVE WaitInv'
<1>1. SleepNoZombie'
  <2> SUFFICES ASSUME NEW i \in Procs, NEW k \in Procs, sw'[i] = "none", pc'[i] = "wait_sleep",
                      parent'[k] = i
               PROVE  state'[k] # "ZOMBIE"
    BY Zenon DEF SleepNoZombie
  <2>1. sw[i] = "none" /\ pc[i] = "wait_sleep"
    BY Zenon DEF QuietWait
  <2>2. state'[k] = "ZOMBIE" => parent[k] = i /\ state[k] = "ZOMBIE"
    BY Zenon DEF QuietWait, QuietExit
  <2>. QED BY <2>1, <2>2, WakeSleep, Zenon DEF SleepNoZombie
<1>. QED BY <1>1, QuietExitKeeps, Zenon DEF WaitInv, QuietWait

\* A step that is quiet about parents keeps ParentInv.
LEMMA QuietParentKeeps ==
  ASSUME LockInv, WakeInv, QuietParent PROVE ParentInv'
<1>1. ASSUME NEW k \in Procs, parent'[k] # None PROVE parent'[k] # k /\ state'[parent'[k]] \in Live
  <2>1. parent'[k] = parent[k] /\ parent[k] \in Procs
    BY <1>1, LockType DEF TypeInv, QuietParent
  <2>. QED BY <1>1, <2>1, WakeParent, Zenon DEF ParentInv, QuietParent
<1>2. \A k \in Procs : state'[k] \notin {"UNUSED", "USED"} /\ k # initproc => parent'[k] # None
  BY WakeParent, Zenon DEF ParentInv, QuietParent
<1>3. \A i \in Procs : pc'[i] = "fork_run" => parent'[child'[i]] # None
  BY WakeParent, Zenon DEF ParentInv, QuietParent
<1>4. state'[initproc] \in Live /\ parent'[initproc] = None
  BY WakeParent, Consts, Zenon DEF ParentInv, QuietParent
<1>5. \A i \in Procs : (Exiting(i))' => i # initproc /\ \A k \in Procs : parent'[k] # i
  BY WakeParent, Zenon DEF ParentInv, QuietParent
<1>. QED BY <1>1, <1>2, <1>3, <1>4, <1>5, Zenon DEF ParentInv

\* A quiet step keeps everything.
LEMMA QuietKeeps ==
  ASSUME LockInv, WakeInv, NEW i \in Procs, Quiet(i) PROVE WakeInv'
<1>1. \A k \in Procs : /\ (Waking(k, "exit_zombie"))' <=> Waking(k, "exit_zombie")
                       /\ (Waking(k, "cond_done"))' <=> Waking(k, "cond_done")
                       /\ (Exiting(k))' <=> Exiting(k)
  <2> SUFFICES ASSUME NEW k \in Procs
               PROVE  /\ (Waking(k, "exit_zombie"))' <=> Waking(k, "exit_zombie")
                      /\ (Waking(k, "cond_done"))' <=> Waking(k, "cond_done")
                      /\ (Exiting(k))' <=> Exiting(k)
    BY Zenon
  <2>1. CASE k = i
    BY <2>1, Zenon DEF Quiet, Waking, Exiting
  <2>2. CASE k # i
    <3>1. pc'[k] = pc[k] /\ sw'[k] = sw[k] /\ wk' = wk
      BY <2>2, Zenon DEF Quiet
    <3>. QED BY <3>1, Zenon DEF Waking, Exiting
  <2>. QED BY <2>1, <2>2, Zenon
<1>2. \A k \in Procs : (Asleep(k, k))' => Asleep(k, k)
  BY Zenon DEF Quiet, Asleep
<1>3. \A k \in Procs : (Asleep(k, Cond))' => Asleep(k, Cond)
  BY Zenon DEF Quiet, Asleep
<1>4. \A k \in Procs : sw'[k] = "none" /\ pc'[k] \in {"wait_sleep", "cond_sleep"} =>
                         sw[k] = "none" /\ pc[k] = pc'[k]
  BY Zenon DEF Quiet
<1>5. parent' = parent /\ wk' = wk /\ cond' = cond
  BY Zenon DEF Quiet
<1>6. CondInv'
  BY <1>1, <1>3, <1>4, <1>5, QuietCondKeeps, Zenon DEF QuietCond
<1>7. WaitInv'
  <2>1. \A k \in Procs : state'[k] = "ZOMBIE" => state[k] = "ZOMBIE"
    BY Zenon DEF Quiet
  <2>. QED BY <1>1, <1>2, <1>4, <1>5, <2>1, QuietWaitKeeps, Zenon DEF QuietWait, QuietExit
<1>8. ParentInv'
  <2>1. \A k \in Procs : /\ state'[k] \in Live <=> state[k] \in Live
                         /\ state'[k] \notin {"UNUSED", "USED"} =>
                              state[k] \notin {"UNUSED", "USED"}
    BY Zenon DEF Quiet, Live
  <2>2. \A k \in Procs : pc'[k] = "fork_run" => pc[k] = "fork_run" /\ child'[k] = child[k]
    BY Zenon DEF Quiet
  <2>. QED BY <1>1, <1>5, <2>1, <2>2, QuietParentKeeps, Zenon DEF QuietParent
<1>. QED BY <1>6, <1>7, <1>8, Zenon DEF WakeInv

-----------------------------------------------------------------------------
(* Steps outside of sleep(), wakeup() and exit() *)

\* scheduler() changes no scan, sleeper or parent.
LEMMA SchedulerWake ==
  ASSUME LockInv, WakeInv, NEW c \in CPUs, NEW i \in Procs, scheduler(c, i) PROVE WakeInv'
<1>1. /\ state[i] = "RUNNABLE" /\ state' = [state EXCEPT ![i] = "RUNNING"]
      /\ UNCHANGED <<chan, parent, cond, pc, sw, child, wk>>
  BY Zenon DEF scheduler, threadVars
<1>2. sw[i] # "none"
  BY <1>1, LockRun, Zenon DEF RunInv
<1>3. state'[i] = "RUNNING" /\ \A k \in Procs \ {i} : state'[k] = state[k]
  BY <1>1, LockType, Zenon DEF TypeInv
<1>4. Quiet(i)
  BY <1>1, <1>2, <1>3, Zenon DEF Quiet, Live
<1>. QED BY <1>4, QuietKeeps, Zenon

\* Nor does the way back to it.
LEMMA SchedulerBackWake ==
  ASSUME LockInv, WakeInv, NEW c \in CPUs, scheduler_back(c) PROVE WakeInv'
<1>1. mode[c] = "back" /\ UNCHANGED <<state, chan, parent, cond, pc, sw, child, wk>>
  BY Zenon DEF scheduler_back, tableVars, threadVars
<1>2. PICK i \in Procs : sw[i] # "none"
  <2>1. cpu[c] \in Procs
    BY <1>1, LockType, LockRun DEF TypeInv, RunInv
  <2>. QED BY <1>1, <2>1, LockRun, Zenon DEF RunInv
<1>3. Quiet(i)
  BY <1>1, <1>2, Zenon DEF Quiet
<1>. QED BY <1>3, QuietKeeps, Zenon

\* A process that runs again is at a safe point and does not sleep.
LEMMA ResumeWake ==
  ASSUME LockInv, WakeInv, NEW c \in CPUs, NEW i \in Procs, resume(c, i) PROVE WakeInv'
<1>1. /\ cpu[c] = i /\ mode[c] = "run" /\ sw[i] # "none" /\ sw' = [sw EXCEPT ![i] = "none"]
      /\ UNCHANGED <<state, parent, cond, pc, child, wk>>
  BY Zenon DEF resume
<1>2. state[i] = "RUNNING"
  BY <1>1, LockRun, Zenon DEF RunInv
<1>3. pc[i] \in Safe
  BY <1>1, <1>2, PointAt, Zenon DEF Live
<1>4. \A k \in Procs \ {i} : chan'[k] = chan[k] /\ sw'[k] = sw[k]
  BY LockType, Zenon DEF TypeInv, resume
<1>5. Quiet(i)
  BY <1>1, <1>2, <1>3, <1>4, Zenon DEF Quiet, Safe
<1>. QED BY <1>5, QuietKeeps, Zenon

\* Only process i moves, outside of sleep(), wakeup() and exit(); the table stays.
LEMMA MoveWake ==
  ASSUME LockInv, WakeInv, NEW c \in CPUs, NEW i \in Procs, On(c, i),
         pc[i] \notin {"wakeup", "exit_zombie"}, NEW p \in Points, pc' = [pc EXCEPT ![i] = p],
         p \notin {"wakeup", "exit_zombie", "wait_sleep", "cond_sleep", "fork_run"},
         UNCHANGED <<state, chan, parent, cond, sw, child, wk>>
  PROVE  WakeInv'
<1>1. pc'[i] = p /\ \A k \in Procs \ {i} : pc'[k] = pc[k]
  BY LockType, Zenon DEF TypeInv
<1>2. Quiet(i)
  BY <1>1, Zenon DEF Quiet
<1>. QED BY <1>2, QuietKeeps, Zenon

\* The new slot has no parent yet.
LEMMA ForkWake ==
  ASSUME LockInv, WakeInv, NEW c \in CPUs, NEW i \in Procs, fork(c, i) PROVE WakeInv'
<1>1. /\ pc[i] = "user" /\ pc' = [pc EXCEPT ![i] = "fork_copy"]
      /\ UNCHANGED <<chan, parent, cond, sw, wk>>
  BY Zenon DEF fork, At, Goto
<1>2. PICK n \in Procs : /\ state[n] = "UNUSED" /\ state' = [state EXCEPT ![n] = "USED"]
                         /\ child' = [child EXCEPT ![i] = n]
  BY Zenon DEF fork
<1>3. /\ state'[n] = "USED" /\ \A k \in Procs \ {n} : state'[k] = state[k]
      /\ pc'[i] = "fork_copy" /\ \A k \in Procs \ {i} : pc'[k] = pc[k] /\ child'[k] = child[k]
  BY <1>1, <1>2, LockType, Zenon DEF TypeInv
<1>4. \A k \in Procs : \/ state'[k] = state[k]
                       \/ state[k] = "UNUSED" /\ state'[k] = "USED"
  BY <1>2, <1>3, Zenon
<1>5. Quiet(i)
  BY <1>1, <1>3, <1>4, Zenon DEF Quiet
<1>. QED BY <1>5, QuietKeeps, Zenon

\* Releasing the child's lock changes no parent.
LEMMA ForkCopiedWake ==
  ASSUME LockInv, WakeInv, NEW c \in CPUs, NEW i \in Procs, fork_copied(c, i) PROVE WakeInv'
<1>1. /\ On(c, i) /\ pc[i] = "fork_copy" /\ pc' = [pc EXCEPT ![i] = "fork_parent"]
      /\ UNCHANGED <<state, chan, parent, cond, sw, child, wk>>
  BY Zenon DEF fork_copied, At, Goto, tableVars
<1>. QED BY <1>1, MoveWake, Zenon DEF Points

\* wait() begins with wait_lock.
LEMMA WaitWake ==
  ASSUME LockInv, WakeInv, NEW c \in CPUs, NEW i \in Procs, wait(c, i) PROVE WakeInv'
<1>1. /\ On(c, i) /\ pc[i] = "user" /\ pc' = [pc EXCEPT ![i] = "wait_scan"]
      /\ UNCHANGED <<state, chan, parent, cond, sw, child, wk>>
  BY Zenon DEF wait, At, Goto, tableVars
<1>. QED BY <1>1, MoveWake, Zenon DEF Points

\* Taking lk changes no scan.
LEMMA CondWaitWake ==
  ASSUME LockInv, WakeInv, NEW c \in CPUs, NEW i \in Procs, cond_wait(c, i) PROVE WakeInv'
<1>1. /\ On(c, i) /\ pc[i] = "user" /\ pc' = [pc EXCEPT ![i] = "cond_test"]
      /\ UNCHANGED <<state, chan, parent, cond, sw, child, wk>>
  BY Zenon DEF cond_wait, At, Goto, tableVars
<1>. QED BY <1>1, MoveWake, Zenon DEF Points

\* Taking the lock back after sleep() changes no scan.
LEMMA ReacquireWake ==
  ASSUME LockInv, WakeInv, NEW c \in CPUs, NEW i \in Procs, reacquire(c, i) PROVE WakeInv'
<1>1. On(c, i) /\ UNCHANGED <<state, chan, parent, cond, sw, child, wk>>
  BY Zenon DEF reacquire, At, tableVars
<1>2. CASE pc[i] = "cond_again" /\ pc' = [pc EXCEPT ![i] = "cond_test"]
  BY <1>1, <1>2, MoveWake, Zenon DEF Points
<1>3. CASE pc[i] = "wait_again" /\ pc' = [pc EXCEPT ![i] = "wait_scan"]
  BY <1>1, <1>3, MoveWake, Zenon DEF Points
<1>. QED BY <1>2, <1>3, Zenon DEF reacquire, At, Goto

\* The scan is over when lk is released.
LEMMA CondDoneWake ==
  ASSUME LockInv, WakeInv, NEW c \in CPUs, NEW i \in Procs, cond_done(c, i) PROVE WakeInv'
<1>1. /\ On(c, i) /\ pc[i] = "cond_done" /\ pc' = [pc EXCEPT ![i] = "user"]
      /\ UNCHANGED <<state, chan, parent, cond, sw, child, wk>>
  BY Zenon DEF cond_done, At, Goto, tableVars
<1>. QED BY <1>1, MoveWake, Zenon DEF Points

\* kill() only makes sleepers runnable.
LEMMA KillWake ==
  ASSUME LockInv, WakeInv, NEW c \in CPUs, NEW i \in Procs, kill(c, i) PROVE WakeInv'
<1>1. pc[i] = "user" /\ UNCHANGED <<chan, parent, cond, pc, sw, child, wk>>
  BY Zenon DEF kill, At, threadVars
<1>2. \A k \in Procs : state'[k] = state[k] \/ (state[k] = "SLEEPING" /\ state'[k] = "RUNNABLE")
  <2>1. PICK k \in Procs : state' = [state EXCEPT ![k] = IF @ = "SLEEPING" THEN "RUNNABLE" ELSE @]
    BY Zenon DEF kill
  <2>. QED BY <2>1, LockType, Zenon DEF TypeInv
<1>3. Quiet(i)
  BY <1>1, <1>2, Zenon DEF Quiet, Live
<1>. QED BY <1>3, QuietKeeps, Zenon

\* A process that yields is in no scan and in no exit().
LEMMA YieldWake ==
  ASSUME LockInv, WakeInv, NEW c \in CPUs, NEW i \in Procs, yield(c, i) PROVE WakeInv'
<1>1. /\ On(c, i) /\ state' = [state EXCEPT ![i] = "RUNNABLE"] /\ sw' = [sw EXCEPT ![i] = "yield"]
      /\ UNCHANGED <<chan, parent, cond, pc, child, wk>>
  BY Zenon DEF yield, Sched
<1>2. pc[i] \in Safe /\ state[i] = "RUNNING"
  BY <1>1, YieldSafe, OnFacts, Zenon
<1>3. /\ state'[i] = "RUNNABLE" /\ \A k \in Procs \ {i} : state'[k] = state[k]
      /\ sw'[i] = "yield" /\ \A k \in Procs \ {i} : sw'[k] = sw[k]
  BY <1>1, LockType, Zenon DEF TypeInv
<1>4. Quiet(i)
  BY <1>1, <1>2, <1>3, Zenon DEF Quiet, Live, Safe
<1>. QED BY <1>4, QuietKeeps, Zenon

-----------------------------------------------------------------------------
(* Steps that free a slot, or give it a parent *)

\* Processes outside of S do not move, and those of S are not in a scan.
LEMMA SameScans ==
  ASSUME NEW S, wk' = wk, \A k \in Procs \ S : pc'[k] = pc[k] /\ sw'[k] = sw[k],
         \A k \in S : sw[k] = "none" => pc[k] \notin {"wakeup", "exit_zombie"},
         \A k \in S : sw'[k] = "none" => pc'[k] \notin {"wakeup", "exit_zombie"}
  PROVE  \A k \in Procs : /\ (Waking(k, "exit_zombie"))' <=> Waking(k, "exit_zombie")
                          /\ (Waking(k, "cond_done"))' <=> Waking(k, "cond_done")
                          /\ (Exiting(k))' <=> Exiting(k)
<1> SUFFICES ASSUME NEW k \in Procs
             PROVE  /\ (Waking(k, "exit_zombie"))' <=> Waking(k, "exit_zombie")
                    /\ (Waking(k, "cond_done"))' <=> Waking(k, "cond_done")
                    /\ (Exiting(k))' <=> Exiting(k)
  BY Zenon
<1>1. CASE k \in S
  BY <1>1, Zenon DEF Waking, Exiting
<1>2. CASE k \notin S
  <2>1. pc'[k] = pc[k] /\ sw'[k] = sw[k]
    BY <1>2, Zenon
  <2>. QED BY <2>1, Zenon DEF Waking, Exiting
<1>. QED BY <1>1, <1>2, Zenon

\* A slot that is freed was nobody's parent; the other slots keep theirs.
LEMMA FreeKeeps ==
  ASSUME LockInv, WakeInv, NEW i \in Procs, NEW n \in Procs, wk' = wk, cond' = cond, sw' = sw,
         state[n] \notin Live, state'[n] = "UNUSED", parent'[n] = None,
         \A k \in Procs \ {n} :
           state'[k] = state[k] /\ parent'[k] = parent[k] /\ chan'[k] = chan[k],
         \A k \in Procs \ {i} : pc'[k] = pc[k] /\ child'[k] = child[k] /\ child[k] # n,
         pc[i] \notin {"wakeup", "exit_zombie"}, pc'[i] = "user"
  PROVE  WakeInv'
<1>1. \A k \in Procs : /\ (Waking(k, "exit_zombie"))' <=> Waking(k, "exit_zombie")
                       /\ (Waking(k, "cond_done"))' <=> Waking(k, "cond_done")
                       /\ (Exiting(k))' <=> Exiting(k)
  <2> DEFINE S == {i}
  <2>1. /\ \A k \in Procs \ S : pc'[k] = pc[k] /\ sw'[k] = sw[k]
        /\ \A k \in S : sw[k] = "none" => pc[k] \notin {"wakeup", "exit_zombie"}
        /\ \A k \in S : sw'[k] = "none" => pc'[k] \notin {"wakeup", "exit_zombie"}
    BY Zenon
  <2> HIDE DEF S
  <2>. QED BY <2>1, SameScans, Zenon
<1>2. sw[n] # "none"
  BY LockRun, Zenon DEF RunInv, Live
<1>3. ~Exiting(n)
  BY <1>2, Zenon DEF Exiting, Waking
<1>4. \A k \in Procs : (Asleep(k, k))' => Asleep(k, k)
  BY Zenon DEF Asleep
<1>5. \A k \in Procs : (Asleep(k, Cond))' => Asleep(k, Cond)
  BY Zenon DEF Asleep
<1>6. \A k \in Procs : /\ state'[k] = "ZOMBIE" => state[k] = "ZOMBIE"
                       /\ parent'[k] = parent[k] \/ (~(Exiting(k))' /\ state'[k] # "ZOMBIE")
  BY <1>1, <1>3, Zenon
<1>7. \A k \in Procs : sw'[k] = "none" /\ pc'[k] \in {"wait_sleep", "cond_sleep"} =>
                         sw[k] = "none" /\ pc[k] = pc'[k]
  BY Zenon
<1>8. CondInv'
  BY <1>1, <1>5, <1>7, QuietCondKeeps, Zenon DEF QuietCond
<1>9. WaitInv'
  BY <1>1, <1>4, <1>6, <1>7, QuietWaitKeeps, Zenon DEF QuietWait, QuietExit
<1>10. ParentInv'
  <2>1. ASSUME NEW k \in Procs, parent'[k] # None
        PROVE  parent'[k] # k /\ state'[parent'[k]] \in Live
    <3>1. parent'[k] = parent[k] /\ parent[k] # None
      BY <2>1, Zenon
    <3>2. parent[k] # k /\ state[parent[k]] \in Live /\ parent[k] \in Procs
      BY <3>1, WakeParent, LockType DEF ParentInv, TypeInv
    <3>. QED BY <3>1, <3>2
  <2>2. \A k \in Procs : state'[k] \notin {"UNUSED", "USED"} /\ k # initproc => parent'[k] # None
    <3>. SUFFICES ASSUME NEW k \in Procs, state'[k] \notin {"UNUSED", "USED"}, k # initproc
         PROVE  parent'[k] # None
      BY Zenon
    <3>1. k # n
      BY Zenon
    <3>2. state'[k] = state[k] /\ parent'[k] = parent[k]
      BY <3>1, Zenon
    <3>. QED BY <3>2, WakeParent, Zenon DEF ParentInv
  <2>3. ASSUME NEW k \in Procs, pc'[k] = "fork_run" PROVE parent'[child'[k]] # None
    <3>1. pc[k] = "fork_run" /\ child'[k] = child[k] /\ child[k] # n
      BY <2>3, Zenon
    <3>2. child[k] \in Procs
      BY <3>1, PointAt, Zenon DEF Forking
    <3>3. parent[child[k]] # None
      BY <3>1, WakeParent, Zenon DEF ParentInv
    <3>. QED BY <3>1, <3>2, <3>3, Zenon
  <2>4. state'[initproc] \in Live /\ parent'[initproc] = None
    BY WakeParent, Consts, Zenon DEF ParentInv
  <2>5. ASSUME NEW j \in Procs, (Exiting(j))'
        PROVE  j # initproc /\ \A k \in Procs : parent'[k] # j
    <3>1. Exiting(j)
      BY <1>1, <2>5, Zenon
    <3>2. j # initproc /\ \A k \in Procs : parent[k] # j
      BY <3>1, WakeParent, Zenon DEF ParentInv
    <3>3. ASSUME NEW k \in Procs PROVE parent'[k] # j
      <4>1. CASE k = n
        BY <4>1, Consts, Zenon
      <4>2. CASE k # n
        BY <3>2, <4>2, Zenon
      <4>. QED BY <4>1, <4>2, Zenon
    <3>. QED BY <3>2, <3>3, Zenon
  <2>. QED BY <2>1, <2>2, <2>3, <2>4, <2>5, Zenon DEF ParentInv
<1>. QED BY <1>8, <1>9, <1>10, Zenon DEF WakeInv

\* The slot that a failing fork() gives back.
LEMMA ForkFailWake ==
  ASSUME LockInv, WakeInv, NEW c \in CPUs, NEW i \in Procs, fork_fail(c, i) PROVE WakeInv'
<1> DEFINE n == child[i]
<1>1. /\ On(c, i) /\ pc[i] = "fork_copy" /\ pc' = [pc EXCEPT ![i] = "user"] /\ freeproc(n)
      /\ child' = [child EXCEPT ![i] = None] /\ UNCHANGED <<cond, sw, wk>>
  BY Zenon DEF fork_fail, At, Goto
<1>2. n \in Procs /\ n # None /\ state[n] = "USED"
  BY <1>1, PointAt, Consts, Zenon DEF Forking
<1>3. \A k \in Procs \ {i} : child[k] # n
  BY <1>2, OneParent, Zenon
<1> HIDE DEF n
<1>4. /\ state'[n] = "UNUSED" /\ parent'[n] = None
      /\ \A k \in Procs \ {n} : state'[k] = state[k] /\ parent'[k] = parent[k] /\ chan'[k] = chan[k]
  BY <1>1, <1>2, LockType, Zenon DEF TypeInv, freeproc
<1>5. pc'[i] = "user" /\ \A k \in Procs \ {i} : pc'[k] = pc[k] /\ child'[k] = child[k]
  BY <1>1, LockType, Zenon DEF TypeInv
<1>. QED BY <1>1, <1>2, <1>3, <1>4, <1>5, FreeKeeps, Zenon DEF Live

\* The zombie that wait() frees, or leaves when copyout() fails.
LEMMA WaitZombieWake ==
  ASSUME LockInv, WakeInv, NEW c \in CPUs, NEW i \in Procs, wait_zombie(c, i) PROVE WakeInv'
<1>1. /\ On(c, i) /\ pc[i] = "wait_scan" /\ pc' = [pc EXCEPT ![i] = "user"]
      /\ UNCHANGED <<cond, sw, child, wk>>
  BY Zenon DEF wait_zombie, At, Goto
<1>2. PICK n \in Procs : state[n] = "ZOMBIE"
                         /\ (freeproc(n) \/ UNCHANGED <<state, pid, parent, chan, killed>>)
  BY Zenon DEF wait_zombie, Zombies, Children
<1>3. CASE freeproc(n)
  <2>1. \A k \in Procs : child[k] # n
    BY <1>2, PointAt, Consts, Zenon
  <2>2. /\ state'[n] = "UNUSED" /\ parent'[n] = None
        /\ \A k \in Procs \ {n} :
             state'[k] = state[k] /\ parent'[k] = parent[k] /\ chan'[k] = chan[k]
    BY <1>3, LockType, Zenon DEF TypeInv, freeproc
  <2>3. pc'[i] = "user" /\ \A k \in Procs \ {i} : pc'[k] = pc[k]
    BY <1>1, LockType, Zenon DEF TypeInv
  <2>. QED BY <1>1, <1>2, <2>1, <2>2, <2>3, FreeKeeps, Zenon DEF Live
<1>4. CASE UNCHANGED <<state, pid, parent, chan, killed>>
  BY <1>1, <1>4, MoveWake, Zenon DEF Points
<1>. QED BY <1>2, <1>3, <1>4, Zenon

\* The child, neither zombie nor init, gets a live parent.
LEMMA ForkParentWake ==
  ASSUME LockInv, WakeInv, NEW c \in CPUs, NEW i \in Procs, fork_parent(c, i) PROVE WakeInv'
<1> DEFINE n == child[i]
<1>1. /\ On(c, i) /\ pc[i] = "fork_parent" /\ pc' = [pc EXCEPT ![i] = "fork_run"]
      /\ parent' = [parent EXCEPT ![n] = i] /\ UNCHANGED <<state, chan, cond, sw, child, wk>>
  BY Zenon DEF fork_parent, At, Goto
<1>2. n \in Procs /\ state[n] = "USED" /\ state[i] = "RUNNING"
  BY <1>1, PointAt, OnFacts, Consts, Zenon DEF Forking
<1>3. n # i /\ sw[n] # "none"
  BY <1>2, OffStack, Zenon
<1>4. child'[i] = n
  BY <1>1, Zenon
<1> HIDE DEF n
<1>5. /\ parent'[n] = i /\ \A k \in Procs \ {n} : parent'[k] = parent[k]
      /\ pc'[i] = "fork_run" /\ \A k \in Procs \ {i} : pc'[k] = pc[k]
  BY <1>1, <1>2, LockType, Zenon DEF TypeInv
<1>6. \A k \in Procs : /\ (Waking(k, "exit_zombie"))' <=> Waking(k, "exit_zombie")
                       /\ (Waking(k, "cond_done"))' <=> Waking(k, "cond_done")
                       /\ (Exiting(k))' <=> Exiting(k)
  <2> DEFINE S == {i}
  <2>1. /\ \A k \in Procs \ S : pc'[k] = pc[k] /\ sw'[k] = sw[k]
        /\ \A k \in S : sw[k] = "none" => pc[k] \notin {"wakeup", "exit_zombie"}
        /\ \A k \in S : sw'[k] = "none" => pc'[k] \notin {"wakeup", "exit_zombie"}
        /\ wk' = wk
    BY <1>1, <1>5, Zenon
  <2> HIDE DEF S
  <2>. QED BY <2>1, SameScans, Zenon
<1>7. ~Exiting(n) /\ ~Exiting(i)
  BY <1>1, <1>3, Zenon DEF Exiting, Waking
<1>8. \A k \in Procs : sw'[k] = "none" /\ pc'[k] \in {"wait_sleep", "cond_sleep"} =>
                         sw[k] = "none" /\ pc[k] = pc'[k]
  BY <1>1, <1>5, Zenon
<1>9. CondInv'
  BY <1>1, <1>6, <1>8, QuietCondKeeps, Zenon DEF QuietCond, Asleep
<1>10. WaitInv'
  <2>1. \A k \in Procs : parent'[k] = parent[k] \/ (~(Exiting(k))' /\ state'[k] # "ZOMBIE")
    BY <1>1, <1>2, <1>5, <1>6, <1>7, Zenon
  <2>2. \A k \in Procs : (Asleep(k, k))' => Asleep(k, k)
    BY <1>1, Zenon DEF Asleep
  <2>. QED BY <1>1, <1>6, <1>8, <2>1, <2>2, QuietWaitKeeps, Zenon DEF QuietWait, QuietExit
<1>11. ParentInv'
  <2>0. state' = state /\ child' = child
    BY <1>1, Zenon
  <2>1. ASSUME NEW k \in Procs, parent'[k] # None
        PROVE  parent'[k] # k /\ state'[parent'[k]] \in Live
    BY <1>2, <1>3, <1>5, <2>0, <2>1, WakeParent, ZenonT(40) DEF ParentInv, Live
  <2>2. \A k \in Procs : state'[k] \notin {"UNUSED", "USED"} /\ k # initproc => parent'[k] # None
    BY <1>2, <1>5, <2>0, WakeParent, Zenon DEF ParentInv
  <2>3. ASSUME NEW k \in Procs, pc'[k] = "fork_run" PROVE parent'[child'[k]] # None
    <3>1. CASE child[k] = n
      BY <1>5, <2>0, <3>1, Consts, Zenon
    <3>2. CASE child[k] # n
      <4>1. k # i /\ pc[k] = "fork_run"
        BY <1>4, <1>5, <2>0, <2>3, <3>2, Zenon
      <4>2. child[k] \in Procs /\ parent[child[k]] # None
        BY <4>1, PointAt, WakeParent, Zenon DEF Forking, ParentInv
      <4>. QED BY <1>5, <2>0, <3>2, <4>2, Zenon
    <3>. QED BY <3>1, <3>2, Zenon
  <2>4. state'[initproc] \in Live /\ parent'[initproc] = None
    BY <1>2, <1>5, <2>0, WakeParent, Consts, Zenon DEF ParentInv, Live
  <2>5. ASSUME NEW j \in Procs, (Exiting(j))'
        PROVE  j # initproc /\ \A k \in Procs : parent'[k] # j
    BY <1>5, <1>6, <1>7, <2>5, WakeParent, ZenonT(40) DEF ParentInv
  <2>. QED BY <2>1, <2>2, <2>3, <2>4, <2>5, Zenon DEF ParentInv
<1>. QED BY <1>9, <1>10, <1>11, Zenon DEF WakeInv

\* The child that may run now has its parent.
LEMMA ForkRunWake ==
  ASSUME LockInv, WakeInv, NEW c \in CPUs, NEW i \in Procs, fork_run(c, i) PROVE WakeInv'
<1> DEFINE n == child[i]
<1>1. /\ On(c, i) /\ pc[i] = "fork_run" /\ state' = [state EXCEPT ![n] = "RUNNABLE"]
      /\ sw' = [sw EXCEPT ![n] = "new"] /\ pc' = [pc EXCEPT ![n] = "user", ![i] = "user"]
      /\ child' = [child EXCEPT ![i] = None] /\ UNCHANGED <<chan, parent, cond, wk>>
  BY Zenon DEF fork_run, At
<1>2. n \in Procs /\ state[n] = "USED" /\ parent[n] # None
  BY <1>1, PointAt, Consts, WakeParent, Zenon DEF Forking, ParentInv
<1>3. sw[n] # "none"
  BY <1>2, OffStack, Zenon
<1> HIDE DEF n
<1>4. /\ state'[n] = "RUNNABLE" /\ \A k \in Procs \ {n} : state'[k] = state[k]
      /\ sw'[n] = "new" /\ \A k \in Procs \ {n} : sw'[k] = sw[k]
      /\ \A k \in Procs \ {i} : child'[k] = child[k]
  BY <1>1, <1>2, LockType, Zenon DEF TypeInv
<1>5. pc'[n] = "user" /\ pc'[i] = "user" /\ \A k \in Procs \ {n, i} : pc'[k] = pc[k]
  BY <1>1, <1>2, LockType, Zenon DEF TypeInv
<1>6. \A k \in Procs : /\ (Waking(k, "exit_zombie"))' <=> Waking(k, "exit_zombie")
                       /\ (Waking(k, "cond_done"))' <=> Waking(k, "cond_done")
                       /\ (Exiting(k))' <=> Exiting(k)
  <2> DEFINE S == {n, i}
  <2>1. /\ \A k \in Procs \ S : pc'[k] = pc[k] /\ sw'[k] = sw[k]
        /\ \A k \in S : sw[k] = "none" => pc[k] \notin {"wakeup", "exit_zombie"}
        /\ \A k \in S : sw'[k] = "none" => pc'[k] \notin {"wakeup", "exit_zombie"}
        /\ wk' = wk
    BY <1>1, <1>3, <1>4, <1>5, Zenon
  <2> HIDE DEF S
  <2>. QED BY <2>1, SameScans, Zenon
<1>7. \A k \in Procs : sw'[k] = "none" /\ pc'[k] \in {"wait_sleep", "cond_sleep"} =>
                         sw[k] = "none" /\ pc[k] = pc'[k]
  BY <1>4, <1>5, Zenon
<1>8. CondInv'
  <2>1. \A k \in Procs : (Asleep(k, Cond))' => Asleep(k, Cond)
    BY <1>1, <1>4, Zenon DEF Asleep
  <2>. QED BY <1>1, <1>6, <1>7, <2>1, QuietCondKeeps, Zenon DEF QuietCond
<1>9. WaitInv'
  <2>1. \A k \in Procs : (Asleep(k, k))' => Asleep(k, k)
    BY <1>1, <1>4, Zenon DEF Asleep
  <2>2. \A k \in Procs : state'[k] = "ZOMBIE" => state[k] = "ZOMBIE"
    BY <1>4, Zenon
  <2>. QED BY <1>1, <1>6, <1>7, <2>1, <2>2, QuietWaitKeeps, Zenon DEF QuietWait, QuietExit
<1>10. ParentInv'
  <2>0. parent' = parent
    BY <1>1, Zenon
  <2>1. ASSUME NEW k \in Procs, parent[k] # None
        PROVE  parent[k] # k /\ state'[parent[k]] \in Live
    <3>1. parent[k] # k /\ state[parent[k]] \in Live /\ parent[k] \in Procs
      BY <2>1, WakeParent, LockType, Zenon DEF ParentInv, TypeInv
    <3>. QED BY <1>4, <3>1, Zenon DEF Live
  <2>2. \A k \in Procs : state'[k] \notin {"UNUSED", "USED"} /\ k # initproc => parent[k] # None
    BY <1>2, <1>4, WakeParent, Zenon DEF ParentInv
  <2>3. ASSUME NEW k \in Procs, pc'[k] = "fork_run" PROVE parent[child'[k]] # None
    BY <1>4, <1>5, <2>3, WakeParent, Zenon DEF ParentInv
  <2>4. state'[initproc] \in Live /\ parent[initproc] = None
    BY <1>4, WakeParent, Consts, Zenon DEF ParentInv, Live
  <2>5. ASSUME NEW j \in Procs, (Exiting(j))'
        PROVE  j # initproc /\ \A k \in Procs : parent[k] # j
    BY <1>6, <2>5, WakeParent, Zenon DEF ParentInv
  <2>. QED BY <2>0, <2>1, <2>2, <2>3, <2>4, <2>5, Zenon DEF ParentInv
<1>. QED BY <1>8, <1>9, <1>10, Zenon DEF WakeInv

-----------------------------------------------------------------------------
(* The condition, and the way to sleep *)

\* A process goes on to sleep only when cond is false.
LEMMA CondTestWake ==
  ASSUME LockInv, WakeInv, NEW c \in CPUs, NEW i \in Procs, cond_test(c, i) PROVE WakeInv'
<1>1. /\ On(c, i) /\ pc[i] = "cond_test"
      /\ UNCHANGED <<state, chan, parent, sw, child, wk>>
  BY Zenon DEF cond_test, At, tableVars
<1>2. \/ pc' = [pc EXCEPT ![i] = "user"] /\ cond' = FALSE
      \/ pc' = [pc EXCEPT ![i] = "cond_sleep"] /\ cond' = cond /\ ~cond
  BY Zenon DEF cond_test, Goto
<1>3. /\ pc'[i] \in {"user", "cond_sleep"} /\ \A j \in Procs \ {i} : pc'[j] = pc[j]
      /\ ~cond'
  BY <1>2, LockType DEF TypeInv
<1>4. \A k \in Procs : /\ (Waking(k, "exit_zombie"))' <=> Waking(k, "exit_zombie")
                       /\ (Waking(k, "cond_done"))' <=> Waking(k, "cond_done")
                       /\ (Exiting(k))' <=> Exiting(k)
  <2> DEFINE S == {i}
  <2>1. /\ \A k \in Procs \ S : pc'[k] = pc[k] /\ sw'[k] = sw[k]
        /\ \A k \in S : sw[k] = "none" => pc[k] \notin {"wakeup", "exit_zombie"}
        /\ \A k \in S : sw'[k] = "none" => pc'[k] \notin {"wakeup", "exit_zombie"}
        /\ wk' = wk
    BY <1>1, <1>3, Zenon
  <2> HIDE DEF S
  <2>. QED BY <2>1, SameScans, Zenon
<1>5. ParentInv'
  <2>1. \A k \in Procs : pc'[k] = "fork_run" => pc[k] = "fork_run"
    BY <1>3, Zenon
  <2>. QED BY <1>1, <1>4, <2>1, QuietParentKeeps, Zenon DEF QuietParent
<1>6. CondInv'
  BY <1>1, <1>3, <1>4, WakeCond, Zenon DEF CondInv
<1>7. QuietWait
  <2>1. \A k \in Procs : (Asleep(k, k))' => Asleep(k, k)
    BY <1>1, Zenon DEF Asleep
  <2>2. \A k \in Procs : pc'[k] = "wait_sleep" => pc[k] = "wait_sleep"
    BY <1>3, Zenon
  <2>. QED BY <1>1, <1>4, <2>1, <2>2, Zenon DEF QuietWait, QuietExit
<1>. QED BY <1>5, <1>6, <1>7, QuietWaitKeeps, Zenon DEF WakeInv

\* cond becomes true with all of the scan still to come.
LEMMA CondSetWake ==
  ASSUME LockInv, WakeInv, NEW c \in CPUs, NEW i \in Procs, cond_set(c, i) PROVE WakeInv'
<1>1. /\ On(c, i) /\ pc[i] = "user" /\ lk = None /\ pc' = [pc EXCEPT ![i] = "wakeup"]
      /\ wk' = [wk EXCEPT ![i] = [chs |-> <<Cond>>, k |-> 1, ret |-> "cond_done"]]
      /\ UNCHANGED <<state, chan, parent, sw, child>>
  BY Zenon DEF cond_set, StartWakeup, Goto, At, tableVars
<1>2. pc'[i] = "wakeup" /\ sw[i] = "none" /\ \A k \in Procs \ {i} : pc'[k] = pc[k]
  BY <1>1, OnFacts, LockType DEF TypeInv
<1>3. /\ wk'[i] = [chs |-> <<Cond>>, k |-> 1, ret |-> "cond_done"]
      /\ \A j \in Procs \ {i} : wk'[j] = wk[j]
  BY <1>1, LockScan, Zenon DEF ScanInv
<1>4. wk'[i].chs = <<Cond>> /\ wk'[i].k = 1 /\ wk'[i].ret = "cond_done"
  BY <1>3
<1>5. \A k \in Procs : /\ (Waking(k, "exit_zombie"))' <=> Waking(k, "exit_zombie")
                       /\ (Exiting(k))' <=> Exiting(k)
  <2> SUFFICES ASSUME NEW k \in Procs
               PROVE  /\ (Waking(k, "exit_zombie"))' <=> Waking(k, "exit_zombie")
                      /\ (Exiting(k))' <=> Exiting(k)
    BY Zenon
  <2>1. CASE k = i
    BY <1>1, <1>2, <1>4, <2>1, Zenon DEF Waking, Exiting
  <2>2. CASE k # i
    <3>1. pc'[k] = pc[k] /\ wk'[k] = wk[k] /\ sw' = sw
      BY <1>1, <1>2, <1>3, <2>2, Zenon
    <3>. QED BY <3>1, Zenon DEF Waking, Exiting
  <2>. QED BY <2>1, <2>2, Zenon
<1>6. ParentInv'
  <2>1. \A k \in Procs : pc'[k] = "fork_run" => pc[k] = "fork_run"
    BY <1>2, Zenon
  <2>. QED BY <1>1, <1>5, <2>1, QuietParentKeeps, Zenon DEF QuietParent
<1>7. CondInv'
  <2>1. \A j \in Procs : ~HoldsLk(j)
    BY <1>1, LkHolder, Zenon
  <2>2. \A j \in Procs : wk'[i].k <= j
    BY <1>4 DEF Procs
  <2>3. (Waking(i, "cond_done"))'
    BY <1>1, <1>2, <1>4, Zenon DEF Waking
  <2>4. ASSUME NEW j \in Procs, j # i
        PROVE  ~(Waking(j, "cond_done"))' /\ ~(sw'[j] = "none" /\ pc'[j] = "cond_sleep")
    <3>1. pc'[j] = pc[j] /\ wk'[j] = wk[j] /\ sw' = sw
      BY <1>1, <1>2, <1>3, <2>4, Zenon
    <3>. QED BY <2>1, <3>1, Zenon DEF HoldsLk, Waking
  <2>. QED BY <1>2, <1>4, <2>2, <2>3, <2>4, Zenon DEF CondInv
<1>8. QuietWait
  <2>1. \A k \in Procs : (Asleep(k, k))' => Asleep(k, k)
    BY <1>1, Zenon DEF Asleep
  <2>2. \A k \in Procs : pc'[k] = "wait_sleep" => pc[k] = "wait_sleep"
    BY <1>2, Zenon
  <2>3. \A k \in Procs : Waking(k, "exit_zombie") => wk'[k] = wk[k]
    BY <1>1, <1>3, Zenon DEF Waking
  <2>. QED BY <1>1, <1>5, <2>1, <2>2, <2>3, Zenon DEF QuietWait, QuietExit
<1>. QED BY <1>6, <1>7, <1>8, QuietWaitKeeps, Zenon DEF WakeInv

\* The handler that sets cond leaves nobody asleep on it.
LEMMA IntrWakeupWake ==
  ASSUME LockInv, WakeInv, NEW c \in CPUs, intr_wakeup(c) PROVE WakeInv'
<1>1. lk = None /\ UNCHANGED <<chan, parent, pc, sw, child, wk>>
  BY Zenon DEF intr_wakeup, threadVars
<1>2. /\ \A j \in Procs : state'[j] = state[j] \/ (state[j] = "SLEEPING" /\ state'[j] = "RUNNABLE")
      /\ \A j \in Procs : state'[j] = "SLEEPING" => chan[j] # Cond
  BY Zenon DEF intr_wakeup
<1>3. \A k \in Procs : /\ (Waking(k, "exit_zombie"))' <=> Waking(k, "exit_zombie")
                       /\ (Waking(k, "cond_done"))' <=> Waking(k, "cond_done")
                       /\ (Exiting(k))' <=> Exiting(k)
  BY <1>1, Zenon DEF Waking, Exiting
<1>4. ParentInv'
  BY <1>1, <1>2, <1>3, QuietParentKeeps, Zenon DEF QuietParent, Live
<1>5. CondInv'
  <2>1. \A j \in Procs : ~HoldsLk(j)
    BY <1>1, LkHolder, Zenon
  <2>2. \A j \in Procs : ~(Waking(j, "cond_done"))' /\ ~(sw[j] = "none" /\ pc[j] = "cond_sleep")
    BY <1>3, <2>1, Zenon DEF HoldsLk, Waking
  <2>. QED BY <1>1, <1>2, <2>2, Zenon DEF CondInv, Asleep
<1>6. QuietWait
  <2>1. \A k \in Procs : (Asleep(k, k))' => Asleep(k, k)
    BY <1>1, <1>2, Zenon DEF Asleep
  <2>. QED BY <1>1, <1>2, <1>3, <2>1, Zenon DEF QuietWait, QuietExit
<1>. QED BY <1>4, <1>5, <1>6, QuietWaitKeeps, Zenon DEF WakeInv

\* wait() goes on to sleep only without a zombie.
LEMMA WaitNoneWake ==
  ASSUME LockInv, WakeInv, NEW c \in CPUs, NEW i \in Procs, wait_none(c, i) PROVE WakeInv'
<1>1. /\ On(c, i) /\ pc[i] = "wait_scan" /\ UNCHANGED <<state, chan, parent, cond, sw, child, wk>>
      /\ \A k \in Procs : parent[k] = i => state[k] # "ZOMBIE"
  BY Zenon DEF wait_none, At, tableVars, Zombies, Children
<1>2. pc' = [pc EXCEPT ![i] = "user"] \/ pc' = [pc EXCEPT ![i] = "wait_sleep"]
  BY Zenon DEF wait_none, Goto
<1>3. pc'[i] \in {"user", "wait_sleep"} /\ \A j \in Procs \ {i} : pc'[j] = pc[j]
  BY <1>2, LockType DEF TypeInv
<1>4. \A k \in Procs : /\ (Waking(k, "exit_zombie"))' <=> Waking(k, "exit_zombie")
                       /\ (Waking(k, "cond_done"))' <=> Waking(k, "cond_done")
                       /\ (Exiting(k))' <=> Exiting(k)
  <2> DEFINE S == {i}
  <2>1. /\ \A k \in Procs \ S : pc'[k] = pc[k] /\ sw'[k] = sw[k]
        /\ \A k \in S : sw[k] = "none" => pc[k] \notin {"wakeup", "exit_zombie"}
        /\ \A k \in S : sw'[k] = "none" => pc'[k] \notin {"wakeup", "exit_zombie"}
        /\ wk' = wk
    BY <1>1, <1>3, Zenon
  <2> HIDE DEF S
  <2>. QED BY <2>1, SameScans, Zenon
<1>5. ParentInv'
  <2>1. \A k \in Procs : pc'[k] = "fork_run" => pc[k] = "fork_run"
    BY <1>3, Zenon
  <2>. QED BY <1>1, <1>4, <2>1, QuietParentKeeps, Zenon DEF QuietParent
<1>6. CondInv'
  <2>1. \A k \in Procs : pc'[k] = "cond_sleep" => pc[k] = "cond_sleep"
    BY <1>3, Zenon
  <2>. QED BY <1>1, <1>4, <2>1, QuietCondKeeps, Zenon DEF QuietCond, Asleep
<1>7. QuietExit
  BY <1>1, <1>4, Zenon DEF QuietExit, Asleep
<1>8. SleepNoZombie'
  <2>1. \A k, j \in Procs : pc[k] = "wait_sleep" /\ sw[k] = "none" /\ parent[j] = k =>
                              state[j] # "ZOMBIE"
    BY WakeSleep, Zenon DEF SleepNoZombie
  <2>. QED BY <1>1, <1>3, <2>1, Zenon DEF SleepNoZombie
<1>. QED BY <1>5, <1>6, <1>7, <1>8, QuietExitKeeps, Zenon DEF WaitInv, WakeInv

\* A process that falls asleep has seen its condition false under the lock, and
\* nobody is exiting or setting it.
LEMMA SleepWake ==
  ASSUME LockInv, WakeInv, NEW c \in CPUs, NEW i \in Procs, sleep(c, i) PROVE WakeInv'
<1>1. /\ On(c, i) /\ state' = [state EXCEPT ![i] = "SLEEPING"] /\ sw' = [sw EXCEPT ![i] = "sleep"]
      /\ UNCHANGED <<parent, cond, child, wk>>
  BY Zenon DEF sleep, At, Sched
<1>2. \/ /\ pc[i] = "wait_sleep" /\ pc' = [pc EXCEPT ![i] = "wait_again"]
         /\ chan' = [chan EXCEPT ![i] = i]
      \/ /\ pc[i] = "cond_sleep" /\ pc' = [pc EXCEPT ![i] = "cond_again"]
         /\ chan' = [chan EXCEPT ![i] = Cond]
  BY Zenon DEF sleep, At, Goto
<1>3. state[i] = "RUNNING" /\ sw[i] = "none" /\ pc[i] \notin {"wakeup", "exit_zombie"}
  BY <1>1, <1>2, OnFacts, Zenon
<1>4. /\ state'[i] = "SLEEPING" /\ \A k \in Procs \ {i} : state'[k] = state[k]
      /\ sw'[i] = "sleep" /\ \A k \in Procs \ {i} : sw'[k] = sw[k]
      /\ pc'[i] \in {"wait_again", "cond_again"} /\ \A k \in Procs \ {i} : pc'[k] = pc[k]
      /\ \A k \in Procs \ {i} : chan'[k] = chan[k]
      /\ pc[i] = "wait_sleep" => chan'[i] = i
      /\ pc[i] = "cond_sleep" => chan'[i] = Cond
  BY <1>1, <1>2, LockType, Zenon DEF TypeInv
<1>5. \A k \in Procs : /\ (Waking(k, "exit_zombie"))' <=> Waking(k, "exit_zombie")
                       /\ (Waking(k, "cond_done"))' <=> Waking(k, "cond_done")
                       /\ (Exiting(k))' <=> Exiting(k)
  <2> DEFINE S == {i}
  <2>1. /\ \A k \in Procs \ S : pc'[k] = pc[k] /\ sw'[k] = sw[k]
        /\ \A k \in S : sw[k] = "none" => pc[k] \notin {"wakeup", "exit_zombie"}
        /\ \A k \in S : sw'[k] = "none" => pc'[k] \notin {"wakeup", "exit_zombie"}
        /\ wk' = wk
    BY <1>1, <1>3, <1>4, Zenon
  <2> HIDE DEF S
  <2>. QED BY <2>1, SameScans, Zenon
<1>6. ParentInv'
  <2>1. \A k \in Procs : pc'[k] = "fork_run" => pc[k] = "fork_run"
    BY <1>4, Zenon
  <2>2. \A k \in Procs : /\ state'[k] \in Live <=> state[k] \in Live
                         /\ state'[k] \notin {"UNUSED", "USED"} =>
                              state[k] \notin {"UNUSED", "USED"}
    BY <1>3, <1>4, Zenon DEF Live
  <2>. QED BY <1>1, <1>5, <2>1, <2>2, QuietParentKeeps, Zenon DEF QuietParent
<1>7. \A k \in Procs : sw'[k] = "none" /\ pc'[k] \in {"wait_sleep", "cond_sleep"} =>
                         sw[k] = "none" /\ pc[k] = pc'[k]
  BY <1>4, Zenon
<1>8. \A k \in Procs : state'[k] = "ZOMBIE" => state[k] = "ZOMBIE"
  BY <1>4, Zenon
<1>9. CASE pc[i] = "wait_sleep"
  <2>1. CondInv'
    <3>1. \A k \in Procs : (Asleep(k, Cond))' => Asleep(k, Cond)
      BY <1>4, <1>9, Consts, Zenon DEF Asleep
    <3>. QED BY <1>1, <1>5, <1>7, <3>1, QuietCondKeeps, Zenon DEF QuietCond
  <2>2. \A j \in Procs : ~Exiting(j) /\ ~Waking(j, "exit_zombie")
    <3>1. HoldsWait(i) /\ ~Exiting(i)
      BY <1>3, <1>9, Zenon DEF HoldsWait, Exiting, Waking
    <3>2. \A j \in Procs : ~Exiting(j)
      BY <3>1, ExitHolds, WaitHolder, Zenon
    <3>. QED BY <3>2, Zenon DEF Exiting
  <2>3. ScanChans' /\ ExitPending'
    BY <1>5, <2>2, Zenon DEF ScanChans, ExitPending
  <2>4. SleepNoZombie'
    BY <1>1, <1>7, <1>8, WakeSleep DEF SleepNoZombie
  <2>5. ZombiePending'
    <3>1. \A k \in Procs : parent[k] = i => state[k] # "ZOMBIE"
      BY <1>3, <1>9, WakeSleep, Zenon DEF SleepNoZombie
    <3>2. \A p, k \in Procs : ~(Asleep(p, p) /\ parent[k] = p /\ state[k] = "ZOMBIE")
      BY <2>2, WakeZombie, Zenon DEF ZombiePending
    <3>3. \A p \in Procs \ {i} : (Asleep(p, p))' => Asleep(p, p)
      BY <1>4, Zenon DEF Asleep
    <3> SUFFICES ASSUME NEW p \in Procs, NEW k \in Procs,
                        (Asleep(p, p))', parent'[k] = p, state'[k] = "ZOMBIE"
                 PROVE  FALSE
      BY Zenon DEF ZombiePending
    <3>4. parent[k] = p /\ state[k] = "ZOMBIE"
      BY <1>1, <1>8, Zenon
    <3>. QED BY <3>1, <3>2, <3>3, <3>4, Zenon
  <2>. QED BY <1>6, <2>1, <2>3, <2>4, <2>5, Zenon DEF WaitInv, WakeInv
<1>10. CASE pc[i] = "cond_sleep"
  <2>1. WaitInv'
    <3>1. \A k \in Procs : (Asleep(k, k))' => Asleep(k, k)
      BY <1>4, <1>10, Consts, Zenon DEF Asleep
    <3>. QED BY <1>1, <1>5, <1>7, <1>8, <3>1, QuietWaitKeeps, Zenon DEF QuietWait, QuietExit
  <2>2. CondInv'
    <3>1. ~cond
      BY <1>3, <1>10, WakeCond, Zenon DEF CondInv
    <3>. QED BY <1>1, <1>5, <3>1, WakeCond, Zenon DEF CondInv
  <2>. QED BY <1>6, <2>1, <2>2, Zenon DEF WakeInv
<1>. QED BY <1>2, <1>9, <1>10, Zenon

-----------------------------------------------------------------------------
(* exit() and wakeup() *)

\* When a process becomes a zombie its parent is awake: the scan is over.
LEMMA ExitZombieWake ==
  ASSUME LockInv, WakeInv, NEW c \in CPUs, NEW i \in Procs, exit_zombie(c, i) PROVE WakeInv'
<1>1. /\ On(c, i) /\ pc[i] = "exit_zombie" /\ state' = [state EXCEPT ![i] = "ZOMBIE"]
      /\ sw' = [sw EXCEPT ![i] = "exit"]
      /\ UNCHANGED <<chan, parent, cond, pc, child, wk>>
  BY Zenon DEF exit_zombie, Sched, At
<1>2. state[i] = "RUNNING" /\ sw[i] = "none"
  BY <1>1, OnFacts, Zenon
<1>3. HoldsWait(i) /\ Exiting(i) /\ ~Waking(i, "exit_zombie") /\ ~Waking(i, "cond_done")
  BY <1>1, <1>2, Zenon DEF HoldsWait, Exiting, Waking
<1>4. \A j \in Procs : HoldsWait(j) => j = i
  BY <1>3, WaitHolder, Zenon
<1>5. /\ state'[i] = "ZOMBIE" /\ \A k \in Procs \ {i} : state'[k] = state[k]
      /\ sw'[i] = "exit" /\ \A k \in Procs \ {i} : sw'[k] = sw[k]
  BY <1>1, LockType, Zenon DEF TypeInv
<1>6. ASSUME NEW j \in Procs
      PROVE  /\ ~Waking(j, "exit_zombie") /\ ~(Exiting(j))' /\ ~(Waking(j, "exit_zombie"))'
             /\ ~(sw'[j] = "none" /\ pc'[j] = "wait_sleep")
             /\ (Waking(j, "cond_done"))' <=> Waking(j, "cond_done")
  <2>1. CASE j = i
    BY <1>3, <1>5, <2>1, Zenon DEF Exiting, Waking
  <2>2. CASE j # i
    <3>1. sw'[j] = sw[j] /\ pc' = pc /\ wk' = wk
      BY <1>1, <1>5, <2>2, Zenon
    <3>2. ~HoldsWait(j)
      BY <1>4, <2>2, Zenon
    <3>. QED BY <3>1, <3>2, Zenon DEF HoldsWait, Exiting, Waking
  <2>. QED BY <2>1, <2>2, Zenon
<1>7. ParentInv'
  <2>0. parent' = parent /\ pc' = pc /\ child' = child
    BY <1>1, Zenon
  <2>1. i # initproc /\ \A k \in Procs : parent[k] # i
    BY <1>3, WakeParent, Zenon DEF ParentInv
  <2>2. ASSUME NEW k \in Procs, parent[k] # None
        PROVE  parent[k] # k /\ state'[parent[k]] \in Live
    <3>1. parent[k] # k /\ state[parent[k]] \in Live /\ parent[k] \in Procs
      BY <2>2, WakeParent, LockType, Zenon DEF ParentInv, TypeInv
    <3>. QED BY <1>5, <2>1, <3>1, Zenon
  <2>3. \A k \in Procs : state'[k] \notin {"UNUSED", "USED"} /\ k # initproc => parent[k] # None
    BY <1>2, <1>5, WakeParent, Zenon DEF ParentInv
  <2>4. state'[initproc] \in Live /\ parent[initproc] = None
    BY <1>5, <2>1, WakeParent, Consts, Zenon DEF ParentInv
  <2>5. \A k \in Procs : pc[k] = "fork_run" => parent[child[k]] # None
    BY WakeParent, Zenon DEF ParentInv
  <2>. QED BY <1>6, <2>0, <2>2, <2>3, <2>4, <2>5, Zenon DEF ParentInv
<1>8. CondInv'
  <2>1. \A k \in Procs : (Asleep(k, Cond))' => Asleep(k, Cond)
    BY <1>1, <1>5, Zenon DEF Asleep
  <2>2. \A k \in Procs : sw'[k] = "none" /\ pc'[k] = "cond_sleep" =>
                           sw[k] = "none" /\ pc[k] = "cond_sleep"
    BY <1>1, <1>5, Zenon
  <2>. QED BY <1>1, <1>6, <2>1, <2>2, QuietCondKeeps, Zenon DEF QuietCond
<1>9. ScanChans' /\ ExitPending' /\ SleepNoZombie'
  BY <1>6, Zenon DEF ScanChans, ExitPending, SleepNoZombie
<1>10. ZombiePending'
  <2> SUFFICES ASSUME NEW p \in Procs, NEW k \in Procs,
                      (Asleep(p, p))', parent'[k] = p, state'[k] = "ZOMBIE"
               PROVE  FALSE
    BY Zenon DEF ZombiePending
  <2>1. Asleep(p, p) /\ parent[k] = p
    BY <1>1, <1>5 DEF Asleep
  <2>2. CASE k = i
    BY <1>3, <2>1, <2>2, Consts, WakeExit, Zenon DEF ExitPending
  <2>3. CASE k # i
    BY <1>5, <1>6, <2>1, <2>3, WakeZombie, Zenon DEF ZombiePending
  <2>. QED BY <2>2, <2>3, Zenon
<1>. QED BY <1>7, <1>8, <1>9, <1>10, Zenon DEF WaitInv, WakeInv

\* exit() gives its children to init before it scans, and the scan comes to init
\* and to the parent.
LEMMA ExitWake ==
  ASSUME LockInv, WakeInv, NEW c \in CPUs, NEW i \in Procs, exit(c, i) PROVE WakeInv'
<1>1. /\ On(c, i) /\ pc[i] = "user" /\ i # initproc /\ wait_lock = None
      /\ parent' = [k \in Procs |-> IF parent[k] = i THEN initproc ELSE parent[k]]
      /\ pc' = [pc EXCEPT ![i] = "wakeup"]
      /\ UNCHANGED <<state, chan, cond, sw, child>>
  BY Zenon DEF exit, StartWakeup, Goto, At
<1>2. PICK chs \in {<<parent[i]>>, <<initproc, parent[i]>>} :
        /\ wk' = [wk EXCEPT ![i] = [chs |-> chs, k |-> 1, ret |-> "exit_zombie"]]
        /\ (\E k \in Procs : parent[k] = i) => chs = <<initproc, parent[i]>>
  BY Zenon DEF exit, StartWakeup, Children
<1>3. /\ wk'[i] = [chs |-> chs, k |-> 1, ret |-> "exit_zombie"]
      /\ \A j \in Procs \ {i} : wk'[j] = wk[j]
  BY <1>2, LockScan, Zenon DEF ScanInv
<1>4. wk'[i].k = 1 /\ wk'[i].ret = "exit_zombie" /\ wk'[i].chs = chs
  <2>1. PICK r : r = [chs |-> chs, k |-> 1, ret |-> "exit_zombie"]
    BY Zenon
  <2>2. r.k = 1 /\ r.ret = "exit_zombie" /\ r.chs = chs
    BY ONLY <2>1, SMTT(30)
  <2>. QED BY <1>3, <2>1, <2>2, Zenon
<1>5. state[i] = "RUNNING" /\ sw[i] = "none"
  BY <1>1, OnFacts, Zenon
<1>6. pc'[i] = "wakeup" /\ \A k \in Procs \ {i} : pc'[k] = pc[k]
  BY <1>1, LockType, Zenon DEF TypeInv
<1>7. parent[i] \in Procs /\ parent[i] # i
  BY <1>1, <1>5, WakeParent, LockType, Zenon DEF TypeInv, ParentInv
<1>8. \A k \in Procs : /\ parent[k] = i => parent'[k] = initproc
                       /\ parent[k] # i => parent'[k] = parent[k]
  BY <1>1, Zenon
<1>9. \A j \in Procs : ~HoldsWait(j)
  BY <1>1, WaitHolder, Zenon
<1>10. (Waking(i, "exit_zombie"))' /\ ~Waking(i, "cond_done") /\ ~(Waking(i, "cond_done"))'
  BY <1>1, <1>4, <1>5, <1>6, Zenon DEF Waking
<1>11. ASSUME NEW j \in Procs
       PROVE  /\ ~Exiting(j) /\ ~Waking(j, "exit_zombie")
              /\ (Exiting(j))' => j = i
              /\ (Waking(j, "exit_zombie"))' => j = i
              /\ ~(sw'[j] = "none" /\ pc'[j] = "wait_sleep")
              /\ (Waking(j, "cond_done"))' <=> Waking(j, "cond_done")
              /\ Waking(j, "cond_done") => wk'[j] = wk[j]
  <2>1. ~Exiting(j) /\ ~Waking(j, "exit_zombie") /\ ~(sw[j] = "none" /\ pc[j] = "wait_sleep")
    BY <1>9, Zenon DEF HoldsWait, Exiting, Waking
  <2>2. CASE j = i
    BY <1>6, <1>10, <2>1, <2>2, Zenon
  <2>3. CASE j # i
    <3>1. sw' = sw /\ pc'[j] = pc[j] /\ wk'[j] = wk[j]
      BY <1>1, <1>3, <1>6, <2>3, Zenon
    <3>. QED BY <2>1, <3>1, Zenon DEF Exiting, Waking
  <2>. QED BY <2>2, <2>3, Zenon
<1>12. ParentInv'
  <2>0. state' = state /\ child' = child
    BY <1>1, Zenon
  <2>1. ASSUME NEW k \in Procs, parent'[k] # None
        PROVE  parent'[k] # k /\ state[parent'[k]] \in Live
    <3>1. CASE parent[k] = i
      <4>1. parent[initproc] = None /\ state[initproc] \in Live
        BY WakeParent, Zenon DEF ParentInv
      <4>2. k # initproc
        BY <3>1, <4>1, Consts, Zenon
      <4>. QED BY <1>8, <3>1, <4>1, <4>2, Zenon
    <3>2. CASE parent[k] # i
      BY <1>8, <2>1, <3>2, WakeParent, Zenon DEF ParentInv
    <3>. QED BY <3>1, <3>2, Zenon
  <2>2. \A k \in Procs : state[k] \notin {"UNUSED", "USED"} /\ k # initproc => parent'[k] # None
    BY <1>8, WakeParent, Consts, Zenon DEF ParentInv
  <2>3. ASSUME NEW k \in Procs, pc'[k] = "fork_run" PROVE parent'[child[k]] # None
    <3>1. pc[k] = "fork_run"
      BY <1>6, <2>3, Zenon
    <3>2. child[k] \in Procs /\ parent[child[k]] # None
      BY <3>1, PointAt, WakeParent, Zenon DEF Forking, ParentInv
    <3>. QED BY <1>8, <3>2, Consts, Zenon
  <2>4. state[initproc] \in Live /\ parent'[initproc] = None
    BY <1>8, WakeParent, Consts DEF ParentInv
  <2>5. \A k \in Procs : parent'[k] # i
    BY <1>1, <1>8, Zenon
  <2>. QED BY <1>1, <1>11, <2>0, <2>1, <2>2, <2>3, <2>4, <2>5, Zenon DEF ParentInv
<1>13. CondInv'
  <2>1. \A k \in Procs : (Asleep(k, Cond))' => Asleep(k, Cond)
    BY <1>1, Zenon DEF Asleep
  <2>2. \A k \in Procs : sw'[k] = "none" /\ pc'[k] = "cond_sleep" =>
                           sw[k] = "none" /\ pc[k] = "cond_sleep"
    BY <1>1, <1>6, Zenon
  <2>. QED BY <1>1, <1>11, <2>1, <2>2, QuietCondKeeps, Zenon DEF QuietCond
<1>14. ScanChans' /\ SleepNoZombie'
  <2>1. parent'[i] = parent[i]
    BY <1>7, <1>8, Zenon
  <2>2. ScanChans'
    BY <1>2, <1>4, <1>11, <2>1, Zenon DEF ScanChans
  <2>. QED BY <1>11, <2>2, Zenon DEF SleepNoZombie
<1>15. \A p \in Procs : wk'[i].k <= p
  BY <1>4 DEF Procs
<1>16. ExitPending'
  <2>1. parent'[i] = parent[i]
    BY <1>7, <1>8, Zenon
  <2>2. (Pending(i, parent[i]))'
    BY <1>2, <1>4, <1>7, <1>15, <2>1, Zenon DEF Pending
  <2>. QED BY <1>10, <1>11, <2>2, Zenon DEF ExitPending
<1>17. ZombiePending'
  <2> SUFFICES ASSUME NEW p \in Procs, NEW k \in Procs,
                      (Asleep(p, p))', parent'[k] = p, state'[k] = "ZOMBIE"
               PROVE  (Pending(i, p))'
    BY <1>10, Zenon DEF ZombiePending
  <2>1. Asleep(p, p) /\ state[k] = "ZOMBIE"
    BY <1>1, Zenon DEF Asleep
  <2>2. parent[k] # p
    BY <1>11, <2>1, WakeZombie, Zenon DEF ZombiePending
  <2>3. parent[k] = i /\ p = initproc
    BY <1>8, <2>2, Zenon
  <2>4. wk'[i].chs = <<p, parent[i]>>
    BY <1>2, <1>4, <2>3, Zenon
  <2>. QED BY <1>7, <1>15, <2>4, Zenon DEF Pending
<1>. QED BY <1>12, <1>13, <1>14, <1>16, <1>17, Zenon DEF WaitInv, WakeInv

\* A list of one channel is not a list of two.
LEMMA ChannelLists ==
  ASSUME NEW p, NEW q
  PROVE  ~(Len(<<p>>) > 1) /\ Head(<<p>>) = p
         /\ Len(<<p, q>>) > 1 /\ Tail(<<p, q>>) = <<q>> /\ Head(<<p, q>>) = p
  OBVIOUS

\* What is left to scan of a slot list: a slot that is not yet scanned, and is not
\* the one the scan is at, is after it.
LEMMA SlotsLeft ==
  ASSUME NEW k \in Procs, NEW x \in Procs, k <= x, k # x PROVE k < NPROC /\ k + 1 <= x
  BY ProcAssumption DEF Procs

\* A step of wakeup() that is at slot k and channel ch: whoever is asleep on ch
\* after it was so before, and is in another slot.
LEMMA SlotScanned ==
  ASSUME LockInv, NEW c \in CPUs, NEW i \in Procs, wakeup(c, i),
         NEW x \in Procs, NEW ch, (Asleep(x, ch))'
  PROVE  Asleep(x, ch) /\ (Head(wk[i].chs) = ch => x # wk[i].k)
<1>1. On(c, i) /\ chan' = chan /\ WakeSlot(i, wk[i].k, Head(wk[i].chs))
  BY Zenon DEF wakeup, At
<1>2. state[i] = "RUNNING" /\ wk[i].k \in Procs
  BY <1>1, OnFacts, LockScan, Zenon DEF ScanInv, Scans
<1>3. state' = [state EXCEPT ![wk[i].k] =
        IF wk[i].k # i /\ @ = "SLEEPING" /\ chan[wk[i].k] = Head(wk[i].chs) THEN "RUNNABLE" ELSE @]
  BY <1>1, Zenon DEF WakeSlot
<1>4. /\ \A k \in Procs : state'[k] = "SLEEPING" => state[k] = "SLEEPING"
      /\ state'[wk[i].k] = "SLEEPING" => chan[wk[i].k] # Head(wk[i].chs) \/ wk[i].k = i
  BY <1>2, <1>3, LockType, Zenon DEF TypeInv
<1>. QED BY <1>1, <1>2, <1>4, Zenon DEF Asleep

\* The scan goes on to the channels and slots that are left.
LEMMA ScanAdvances ==
  ASSUME LockInv, NEW c \in CPUs, NEW i \in Procs, wakeup(c, i),
         NEW x \in Procs, NEW ch, (Asleep(x, ch))', Head(wk[i].chs) = ch, wk[i].k <= x
  PROVE  pc'[i] = "wakeup" /\ wk'[i].chs = wk[i].chs /\ wk'[i].ret = wk[i].ret /\ wk'[i].k <= x
<1>1. pc[i] = "wakeup" /\ wk \in [Procs -> Scans] /\ wk[i].k \in Procs
  BY LockScan, Zenon DEF wakeup, At, ScanInv, Scans
<1>2. wk[i].k < NPROC /\ wk[i].k + 1 <= x
  BY <1>1, SlotScanned, SlotsLeft, Zenon
<1>3. /\ pc' = pc
      /\ wk' = [wk EXCEPT ![i] = [chs |-> wk[i].chs, k |-> wk[i].k + 1, ret |-> wk[i].ret]]
  BY <1>1, <1>2, WakeupStep, Zenon
<1>4. wk'[i] = [chs |-> wk[i].chs, k |-> wk[i].k + 1, ret |-> wk[i].ret]
  BY <1>1, <1>3, Zenon
<1>. QED BY <1>1, <1>2, <1>3, <1>4, Zenon

\* A scan of one channel stays with it until its end.
LEMMA OneChannel ==
  ASSUME LockInv, NEW c \in CPUs, NEW i \in Procs, wakeup(c, i), NEW p, wk[i].chs = <<p>>,
         pc'[i] = "wakeup"
  PROVE  wk'[i].chs = <<p>>
<1>1. pc[i] = "wakeup" /\ wk \in [Procs -> Scans] /\ wk[i].ret # "wakeup"
  BY LockScan, Zenon DEF wakeup, At, ScanInv, Scans
<1>2. ~(Len(wk[i].chs) > 1)
  BY ChannelLists, Zenon
<1>3. pc' # [pc EXCEPT ![i] = wk[i].ret]
  BY <1>1, LockType DEF TypeInv
<1>4. wk' = [wk EXCEPT ![i] = [chs |-> wk[i].chs, k |-> wk[i].k + 1, ret |-> wk[i].ret]]
  BY <1>1, <1>2, <1>3, WakeupStep, Zenon
<1>. QED BY <1>1, <1>4, Zenon

\* After the last slot of its first channel exit() goes on to its parent.
LEMMA SecondChannel ==
  ASSUME LockInv, NEW c \in CPUs, NEW i \in Procs, wakeup(c, i), NEW p, NEW q,
         wk[i].chs = <<p, q>>
  PROVE  /\ pc'[i] = "wakeup"
         /\ wk'[i].chs = <<p, q>> \/ (wk'[i].chs = <<q>> /\ wk'[i].k = 1)
<1>1. pc[i] = "wakeup" /\ wk \in [Procs -> Scans]
  BY LockScan, Zenon DEF wakeup, At, ScanInv
<1>2. Len(wk[i].chs) > 1 /\ Tail(wk[i].chs) = <<q>>
  BY ONLY ChannelLists, wk[i].chs = <<p, q>>
<1>3. CASE wk[i].k < NPROC
  <2>1. pc' = pc
        /\ wk' = [wk EXCEPT ![i] = [chs |-> wk[i].chs, k |-> wk[i].k + 1, ret |-> wk[i].ret]]
    BY <1>1, <1>3, WakeupStep, Zenon
  <2>. QED BY <1>1, <2>1, Zenon
<1>4. CASE ~(wk[i].k < NPROC)
  <2>1. pc' = pc /\ wk' = [wk EXCEPT ![i] = [chs |-> Tail(wk[i].chs), k |-> 1, ret |-> wk[i].ret]]
    BY <1>1, <1>2, <1>4, WakeupStep, Zenon
  <2>. QED BY <1>1, <1>2, <2>1, Zenon
<1>. QED BY <1>3, <1>4, Zenon

\* What a step of wakeup() leaves alone.
LEMMA WakeupFrame ==
  ASSUME LockInv, NEW c \in CPUs, NEW i \in Procs, wakeup(c, i)
  PROVE  /\ sw[i] = "none" /\ pc[i] = "wakeup" /\ state[i] = "RUNNING"
         /\ wk[i].ret \in {"exit_zombie", "cond_done"}
         /\ UNCHANGED <<chan, parent, cond, sw, child>>
         /\ \A k \in Procs :
              state'[k] = state[k] \/ (state[k] = "SLEEPING" /\ state'[k] = "RUNNABLE")
         /\ \A k \in Procs \ {i} : wk'[k] = wk[k] /\ pc'[k] = pc[k]
         /\ \/ pc'[i] = "wakeup" /\ wk'[i].ret = wk[i].ret
            \/ pc'[i] = wk[i].ret
<1>1. On(c, i) /\ pc[i] = "wakeup" /\ UNCHANGED <<chan, parent, cond, sw, child>>
  BY Zenon DEF wakeup, At
<1>2. sw[i] = "none" /\ state[i] = "RUNNING"
  BY <1>1, OnFacts, Zenon
<1>3. wk \in [Procs -> Scans] /\ wk[i].ret \in {"exit_zombie", "cond_done"}
  BY <1>1, LockScan, Zenon DEF ScanInv, Scans
<1>4. \A k \in Procs : state'[k] = state[k] \/ (state[k] = "SLEEPING" /\ state'[k] = "RUNNABLE")
  BY LockType, Zenon DEF wakeup, WakeSlot, TypeInv
<1>5. /\ \A k \in Procs \ {i} : wk'[k] = wk[k] /\ pc'[k] = pc[k]
      /\ \/ pc'[i] = "wakeup" /\ wk'[i].ret = wk[i].ret
         \/ pc'[i] = wk[i].ret
  <2>1. pc \in [Procs -> Points]
    BY LockType, Zenon DEF TypeInv
  <2>. QED BY <1>1, <1>3, <2>1, WakeupStep
<1>. QED BY <1>1, <1>2, <1>3, <1>4, <1>5, Zenon

\* A step of the scan for cond.
LEMMA WakeCondStep ==
  ASSUME LockInv, WakeInv, NEW c \in CPUs, NEW i \in Procs, wakeup(c, i), wk[i].ret = "cond_done"
  PROVE  CondInv' /\ QuietWait
<1>1. /\ sw[i] = "none" /\ pc[i] = "wakeup" /\ UNCHANGED <<chan, parent, cond, sw, child>>
      /\ \A k \in Procs \ {i} : wk'[k] = wk[k] /\ pc'[k] = pc[k]
      /\ \/ pc'[i] = "wakeup" /\ wk'[i].ret = "cond_done"
         \/ pc'[i] = "cond_done"
  BY WakeupFrame, Zenon
<1>2. \A k \in Procs : state'[k] = state[k] \/ (state[k] = "SLEEPING" /\ state'[k] = "RUNNABLE")
  BY WakeupFrame, Zenon
<1>3. ASSUME NEW k \in Procs, k # i
      PROVE  /\ (Waking(k, "exit_zombie"))' <=> Waking(k, "exit_zombie")
             /\ (Waking(k, "cond_done"))' <=> Waking(k, "cond_done")
             /\ (Exiting(k))' <=> Exiting(k)
  <2>1. sw' = sw /\ pc'[k] = pc[k] /\ wk'[k] = wk[k]
    BY <1>1, <1>3, Zenon
  <2>. QED BY <2>1, Zenon DEF Waking, Exiting
<1>4. ~Exiting(i) /\ ~(Exiting(i))'
  BY <1>1, Zenon DEF Exiting, Waking
<1>5. QuietWait
  <2>1. \A k \in Procs : /\ (Waking(k, "exit_zombie"))' <=> Waking(k, "exit_zombie")
                         /\ (Exiting(k))' => Exiting(k)
                         /\ Waking(k, "exit_zombie") => wk'[k] = wk[k]
    BY <1>1, <1>3, <1>4, Zenon DEF Exiting
  <2>2. \A k \in Procs : (Asleep(k, k))' => Asleep(k, k)
    BY <1>1, <1>2, Zenon DEF Asleep
  <2>3. \A k \in Procs : pc'[k] = "wait_sleep" => pc[k] = "wait_sleep"
    BY <1>1, Zenon
  <2>. QED BY <1>1, <1>2, <2>1, <2>2, <2>3, Zenon DEF QuietWait, QuietExit
<1>6. wk[i].chs = <<Cond>> /\ Waking(i, "cond_done") /\ HoldsLk(i)
  BY <1>1, WakeCond, Zenon DEF CondInv, Waking, HoldsLk
<1>7. \A j \in Procs \ {i} : ~Waking(j, "cond_done") /\ ~(Waking(j, "cond_done"))'
  BY <1>3, <1>6, ExitHolds, LkHolder, Zenon
<1>8. CondInv'
  <2>1. ASSUME NEW x \in Procs, cond', (Asleep(x, Cond))'
        PROVE  (Waking(i, "cond_done"))' /\ wk'[i].k <= x
    <3>1. Asleep(x, Cond) /\ cond /\ Head(wk[i].chs) = Cond
      BY <1>1, <1>6, <2>1, SlotScanned, ChannelLists, Zenon
    <3>2. wk[i].k <= x
      BY <1>7, <3>1, WakeCond, Zenon DEF CondInv
    <3>3. pc'[i] = "wakeup" /\ wk'[i].ret = "cond_done" /\ wk'[i].k <= x
      BY <2>1, <3>1, <3>2, ScanAdvances, Zenon
    <3>. QED BY <1>1, <3>3, Zenon DEF Waking
  <2>2. \A j \in Procs : (Waking(j, "cond_done"))' => wk'[j].chs = <<Cond>>
    <3>1. (Waking(i, "cond_done"))' => wk'[i].chs = <<Cond>>
      BY <1>6, OneChannel, Zenon DEF Waking
    <3>. QED BY <1>7, <3>1, Zenon
  <2>3. \A j \in Procs : sw'[j] = "none" /\ pc'[j] = "cond_sleep" => ~cond'
    BY <1>1, WakeCond, Zenon DEF CondInv
  <2>. QED BY <2>1, <2>2, <2>3, Zenon DEF CondInv
<1>. QED BY <1>5, <1>8, Zenon

\* A step of the scan of exit().
LEMMA WakeExitStep ==
  ASSUME LockInv, WakeInv, NEW c \in CPUs, NEW i \in Procs, wakeup(c, i), wk[i].ret = "exit_zombie"
  PROVE  WaitInv' /\ QuietCond
<1>1. /\ sw[i] = "none" /\ pc[i] = "wakeup" /\ UNCHANGED <<chan, parent, cond, sw, child>>
      /\ \A k \in Procs \ {i} : wk'[k] = wk[k] /\ pc'[k] = pc[k]
      /\ \/ pc'[i] = "wakeup" /\ wk'[i].ret = "exit_zombie"
         \/ pc'[i] = "exit_zombie"
  BY WakeupFrame, Zenon
<1>2. \A k \in Procs : state'[k] = state[k] \/ (state[k] = "SLEEPING" /\ state'[k] = "RUNNABLE")
  BY WakeupFrame, Zenon
<1>3. ASSUME NEW k \in Procs, k # i
      PROVE  /\ (Waking(k, "cond_done"))' <=> Waking(k, "cond_done")
             /\ (Exiting(k))' <=> Exiting(k)
  <2>1. sw' = sw /\ pc'[k] = pc[k] /\ wk'[k] = wk[k]
    BY <1>1, <1>3, Zenon
  <2>. QED BY <2>1, Zenon DEF Waking, Exiting
<1>4. QuietCond
  <2>1. ~Waking(i, "cond_done") /\ ~(Waking(i, "cond_done"))'
    BY <1>1, Zenon DEF Waking
  <2>2. \A k \in Procs : (Asleep(k, Cond))' => Asleep(k, Cond)
    BY <1>1, <1>2, Zenon DEF Asleep
  <2>3. \A k \in Procs : pc'[k] = "cond_sleep" => pc[k] = "cond_sleep"
    BY <1>1, Zenon
  <2>. QED BY <1>1, <1>3, <2>1, <2>2, <2>3, Zenon DEF QuietCond
<1>5. Waking(i, "exit_zombie") /\ Exiting(i) /\ HoldsWait(i)
  BY <1>1, Zenon DEF Exiting, Waking, HoldsWait
<1>6. \A j \in Procs \ {i} : ~Exiting(j) /\ ~(Exiting(j))'
  BY <1>3, <1>5, ExitHolds, WaitHolder, Zenon
<1>7. wk[i].chs = <<parent[i]>> \/ wk[i].chs = <<initproc, parent[i]>>
  BY <1>5, WakeScans, Zenon DEF ScanChans
<1>8. ScanChans'
  <2>1. pc'[i] = "wakeup" => wk'[i].chs = <<parent[i]>> \/ wk'[i].chs = <<initproc, parent[i]>>
    <3>1. CASE wk[i].chs = <<parent[i]>>
      BY <3>1, OneChannel, Zenon
    <3>2. CASE wk[i].chs = <<initproc, parent[i]>>
      <4>1. PICK x, y : x = initproc /\ y = parent[i] /\ wk[i].chs = <<x, y>>
        BY <3>2, Zenon
      <4>2. wakeup(c, i)
        BY <1>1, Zenon
      <4>3. wk'[i].chs = <<x, y>> \/ wk'[i].chs = <<y>>
        BY ONLY LockInv, c \in CPUs, i \in Procs, <4>1, <4>2, SecondChannel
      <4>. QED BY <4>1, <4>3, Zenon
    <3>. QED BY <1>7, <3>1, <3>2, Zenon
  <2>2. \A j \in Procs \ {i} : ~(Waking(j, "exit_zombie"))'
    BY <1>6, Zenon DEF Exiting
  <2>3. (Waking(i, "exit_zombie"))' =>
          wk'[i].chs = <<parent'[i]>> \/ wk'[i].chs = <<initproc, parent'[i]>>
    BY <1>1, <2>1, Zenon DEF Waking
  <2>. QED BY <2>2, <2>3, Zenon DEF ScanChans
<1>9. SleepNoZombie'
  <2>1. \A k \in Procs : /\ state'[k] = "ZOMBIE" => state[k] = "ZOMBIE"
                         /\ pc'[k] = "wait_sleep" => pc[k] = "wait_sleep"
    BY <1>1, <1>2, Zenon
  <2>. QED BY <1>1, <2>1, WakeSleep, Zenon DEF SleepNoZombie
<1>10. ASSUME NEW x \in Procs, (Asleep(x, x))', Pending(i, x)
       PROVE  (Waking(i, "exit_zombie"))' /\ (Pending(i, x))'
  <2>1. pc'[i] = "wakeup" => (Waking(i, "exit_zombie"))'
    BY <1>1, Zenon DEF Waking
  <2>2. CASE wk[i].chs = <<x>> /\ wk[i].k <= x
    <3>1. Head(wk[i].chs) = x
      BY <2>2, ChannelLists, Zenon
    <3>2. pc'[i] = "wakeup" /\ wk'[i].chs = <<x>> /\ wk'[i].k <= x
      BY <1>10, <2>2, <3>1, ScanAdvances, Zenon
    <3>. QED BY <2>1, <3>2, Zenon DEF Pending
  <2>3. ASSUME NEW p \in Procs \cup {None}, wk[i].chs = <<x, p>>, wk[i].k <= x
        PROVE  (Waking(i, "exit_zombie"))' /\ (Pending(i, x))'
    <3>1. Head(wk[i].chs) = x
      BY <2>3, ChannelLists, Zenon
    <3>2. pc'[i] = "wakeup" /\ wk'[i].chs = <<x, p>> /\ wk'[i].k <= x
      BY <1>10, <2>3, <3>1, ScanAdvances, Zenon
    <3>. QED BY <2>1, <3>2, Zenon DEF Pending
  <2>4. CASE wk[i].chs = <<initproc, x>>
    <3>1. 1 <= x
      BY DEF Procs
    <3>2. pc'[i] = "wakeup"
          /\ (wk'[i].chs = <<initproc, x>> \/ (wk'[i].chs = <<x>> /\ wk'[i].k = 1))
      BY <2>4, SecondChannel
    <3>. QED BY <2>1, <3>1, <3>2, Zenon DEF Pending
  <2>. QED BY <1>10, <2>2, <2>3, <2>4, Zenon DEF Pending
<1>11. \A k \in Procs : /\ (Asleep(k, k))' => Asleep(k, k)
                        /\ state'[k] = "ZOMBIE" => state[k] = "ZOMBIE"
  BY <1>1, <1>2, Zenon DEF Asleep
<1>12. ZombiePending'
  <2> SUFFICES ASSUME NEW p \in Procs, NEW k \in Procs,
                      (Asleep(p, p))', parent'[k] = p, state'[k] = "ZOMBIE"
               PROVE  (Waking(i, "exit_zombie"))' /\ (Pending(i, p))'
    BY Zenon DEF ZombiePending
  <2>1. PICK j \in Procs : Waking(j, "exit_zombie") /\ Pending(j, p)
    BY <1>1, <1>11, WakeZombie, Zenon DEF ZombiePending
  <2>2. j = i
    BY <1>6, <2>1, Zenon DEF Exiting
  <2>. QED BY <1>10, <2>1, <2>2, Zenon
<1>13. ExitPending'
  <2> SUFFICES ASSUME parent'[i] # None, (Asleep(parent[i], parent[i]))'
               PROVE  (Waking(i, "exit_zombie"))' /\ (Pending(i, parent[i]))'
    BY <1>6, Zenon DEF ExitPending
  <2>1. PICK x \in Procs : x = parent[i] /\ parent'[i] = x
    BY <1>1, LockType, Zenon DEF TypeInv
  <2>2. (Asleep(x, x))'
    BY <2>1, Zenon DEF Asleep
  <2>3. Asleep(x, x)
    BY <1>11, <2>2, Zenon
  <2>4. Pending(i, x)
    BY <1>5, <2>1, <2>3, Consts, WakeExit, Zenon DEF ExitPending
  <2>5. (Waking(i, "exit_zombie"))' /\ (Pending(i, x))'
    BY <1>10, <2>2, <2>4, Zenon
  <2>. QED BY <2>1, <2>5, Zenon DEF Pending
<1>. QED BY <1>4, <1>8, <1>9, <1>12, <1>13, Zenon DEF WaitInv

\* A slot the scan leaves behind does not sleep on its channel.
LEMMA WakeupWake ==
  ASSUME LockInv, WakeInv, NEW c \in CPUs, NEW i \in Procs, wakeup(c, i) PROVE WakeInv'
<1>1. /\ sw[i] = "none" /\ pc[i] = "wakeup" /\ wk[i].ret \in {"exit_zombie", "cond_done"}
      /\ UNCHANGED <<parent, sw, child>>
      /\ \A k \in Procs \ {i} : wk'[k] = wk[k] /\ pc'[k] = pc[k]
      /\ \/ pc'[i] = "wakeup" /\ wk'[i].ret = wk[i].ret
         \/ pc'[i] = wk[i].ret
  BY WakeupFrame, Zenon
<1>2. \A k \in Procs : state'[k] = state[k] \/ (state[k] = "SLEEPING" /\ state'[k] = "RUNNABLE")
  BY WakeupFrame, Zenon
<1>3. ParentInv'
  <2>1. ASSUME NEW j \in Procs, (Exiting(j))' PROVE Exiting(j)
    <3>1. CASE j = i
      BY <1>1, <2>1, <3>1, Zenon DEF Exiting, Waking
    <3>2. CASE j # i
      <4>1. sw' = sw /\ pc'[j] = pc[j] /\ wk'[j] = wk[j]
        BY <1>1, <3>2, Zenon
      <4>. QED BY <2>1, <4>1, Zenon DEF Exiting, Waking
    <3>. QED BY <3>1, <3>2, Zenon
  <2>2. \A k \in Procs : pc'[k] = "fork_run" => pc[k] = "fork_run"
    BY <1>1, Zenon
  <2>3. \A k \in Procs : /\ state'[k] \in Live <=> state[k] \in Live
                         /\ state'[k] \notin {"UNUSED", "USED"} =>
                              state[k] \notin {"UNUSED", "USED"}
    BY <1>2, Zenon DEF Live
  <2>. QED BY <1>1, <2>1, <2>2, <2>3, QuietParentKeeps, Zenon DEF QuietParent
<1>4. CASE wk[i].ret = "cond_done"
  BY <1>3, <1>4, WakeCondStep, QuietWaitKeeps, Zenon DEF WakeInv
<1>5. CASE wk[i].ret = "exit_zombie"
  BY <1>3, <1>5, WakeExitStep, QuietCondKeeps, Zenon DEF WakeInv
<1>. QED BY <1>1, <1>4, <1>5, Zenon

-----------------------------------------------------------------------------
(* The theorems *)

\* In every reachable state a sleeper whose condition is true, and a sleeping
\* parent of a zombie or of a process about to be one, is ahead of a scan of
\* wakeup() whose process holds the lock of the condition.
THEOREM WakeInvariance == Spec => [](LockInv /\ WakeInv)
<1>1. LockInv /\ WakeInv /\ [Next]_vars => WakeInv'
  <2> SUFFICES ASSUME LockInv, WakeInv, [Next]_vars PROVE WakeInv'
    BY Zenon
  <2>1. CASE UNCHANGED vars
    <3>1. UNCHANGED <<state, chan, parent, cond, pc, sw, child, wk>>
      BY <2>1, Zenon DEF vars, tableVars, threadVars
    <3>2. \A k \in Procs : /\ (Waking(k, "exit_zombie"))' <=> Waking(k, "exit_zombie")
                           /\ (Waking(k, "cond_done"))' <=> Waking(k, "cond_done")
                           /\ (Exiting(k))' <=> Exiting(k)
      BY <3>1, Zenon DEF Waking, Exiting
    <3>3. QuietParent /\ QuietCond /\ QuietWait
      BY <3>1, <3>2, Zenon DEF QuietParent, QuietCond, QuietWait, QuietExit, Asleep
    <3>. QED BY <3>3, QuietParentKeeps, QuietCondKeeps, QuietWaitKeeps, Zenon DEF WakeInv
  <2>2. CASE Next
    <3>1. PICK c \in CPUs :
            \/ scheduler_back(c) \/ intr_wakeup(c)
            \/ \E i \in Procs : scheduler(c, i) \/ yield(c, i) \/ Kernel(c, i) \/ Syscall(c, i)
      BY <2>2, Zenon DEF Next
    <3>2. CASE scheduler_back(c) \/ intr_wakeup(c)
      BY <3>2, SchedulerBackWake, IntrWakeupWake, Zenon
    <3>3. ASSUME NEW i \in Procs, scheduler(c, i) \/ yield(c, i) PROVE WakeInv'
      BY <3>3, SchedulerWake, YieldWake, Zenon
    <3>4. ASSUME NEW i \in Procs, Kernel(c, i) PROVE WakeInv'
      BY <3>4, ResumeWake, SleepWake, WakeupWake, ForkFailWake, ForkCopiedWake, ForkParentWake,
         ForkRunWake, ExitZombieWake, WaitZombieWake, WaitNoneWake, ReacquireWake, CondTestWake,
         CondDoneWake DEF Kernel
    <3>5. ASSUME NEW i \in Procs, Syscall(c, i) PROVE WakeInv'
      BY <3>5, ForkWake, ExitWake, WaitWake, KillWake, CondWaitWake, CondSetWake, Zenon DEF Syscall
    <3>. QED BY <3>1, <3>2, <3>3, <3>4, <3>5, Zenon
  <2>. QED BY <2>1, <2>2, Zenon
<1>. QED BY InitWake, Invariance, <1>1, PTL DEF Spec

\* sleep() misses no wakeup(): with lk free nobody sleeps on a true condition, and
\* with wait_lock free no parent sleeps in wait() while it has a zombie.
THEOREM NoLostWakeupThm == Spec => []NoLostWakeup
<1>1. LockInv /\ WakeInv => NoLostWakeup
  <2> SUFFICES ASSUME LockInv, WakeInv PROVE NoLostWakeup
    BY Zenon
  <2>1. ASSUME lk = None, cond, NEW i \in Procs PROVE ~(state[i] = "SLEEPING" /\ chan[i] = Cond)
    <3>1. \A j \in Procs : ~HoldsLk(j)
      BY <2>1, LkHolder, Zenon
    <3>. QED BY <2>1, <3>1, ExitHolds, WakeCond, Zenon DEF CondInv, Asleep
  <2>2. ASSUME wait_lock = None, NEW i \in Procs, state[i] = "SLEEPING" /\ chan[i] = i
        PROVE  Zombies(i) = {}
    <3>1. \A j \in Procs : ~HoldsWait(j)
      BY <2>2, WaitHolder, Zenon
    <3>2. \A j \in Procs : ~Waking(j, "exit_zombie")
      BY <3>1, ExitHolds, Zenon DEF Exiting
    <3>3. \A k \in Procs : ~(parent[k] = i /\ state[k] = "ZOMBIE")
      BY <2>2, <3>2, WakeZombie, Zenon DEF ZombiePending, Asleep
    <3>. QED BY <3>3, Zenon DEF Zombies, Children
  <2>. QED BY <2>1, <2>2, Zenon DEF NoLostWakeup
<1>. QED BY WakeInvariance, <1>1, PTL

\* exit() leaves no orphan: every process but init has a parent, which is alive.
THEOREM ParentAliveThm == Spec => []ParentAlive
<1>1. LockInv /\ WakeInv => ParentAlive
  <2> SUFFICES ASSUME LockInv, WakeInv PROVE ParentAlive
    BY Zenon
  <2>1. ASSUME NEW k \in Procs, parent[k] # None PROVE state[parent[k]] \notin {"UNUSED", "ZOMBIE"}
    BY <2>1, WakeParent, Zenon DEF ParentInv, Live
  <2>2. ASSUME NEW k \in Procs, state[k] \notin {"UNUSED", "USED"}, k # initproc
        PROVE  parent[k] # None
    BY <2>2, WakeParent, Zenon DEF ParentInv
  <2>. QED BY <2>1, <2>2, Zenon DEF ParentAlive
<1>. QED BY WakeInvariance, <1>1, PTL
===============================================================================
