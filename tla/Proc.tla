--------------------------------- MODULE Proc ---------------------------------
(***************************************************************************)
(* Processes and CPUs of kernel/proc.c: scheduling, sleep and wakeup,      *)
(* fork, exit, wait and kill, at the granularity of the spin locks         *)
(* p->lock, wait_lock and the lock lk of some other kernel condition.      *)
(*                                                                         *)
(* A lock records the CPU that holds it.  A step may do several things     *)
(* while it holds the locks that protect them; it ends where another CPU,  *)
(* or a timer interrupt when the CPU holds no lock, can get in between.    *)
(***************************************************************************)
EXTENDS Integers, Sequences

CONSTANTS
  NPROC,     \* slots of the process table
  NCPU,      \* CPUs (harts)
  MaxPid,    \* bound on the pids handed out
  KillArgs   \* arguments given to kill()

ASSUME ProcAssumption ==
  /\ NPROC \in Nat \ {0} /\ NCPU \in Nat \ {0} /\ MaxPid \in Nat \ {0}
  /\ KillArgs \subseteq Nat

VARIABLES
  state, chan, killed, pid, parent,  \* the fields of struct proc
  nextpid,                           \* the next pid of allocpid()
  plock, wait_lock, lk,              \* the CPU holding each lock, or None
  cond,                              \* a condition protected by lk
  cpu,                               \* cpu[c]: c->proc, or None
  mode,                              \* "sched": scheduler loop; "run": cpu[c];
                                     \* "back": back in scheduler() from swtch
  pc,                                \* the kernel code each process is in
  sw,                                \* why a process called sched(), or "new"
  child,                             \* np of fork()
  wk                                 \* the scan of wakeup(): channels, slot, return

tableVars == <<state, chan, killed, pid, parent, nextpid>>
lockVars == <<plock, wait_lock, lk>>
cpuVars == <<cpu, mode>>
threadVars == <<pc, sw, child, wk>>
vars == <<tableVars, lockVars, cond, cpuVars, threadVars>>

None == 0
Procs == 1 .. NPROC
CPUs == 1 .. NCPU
initproc == 1
Cond == NPROC + 1    \* the channel of cond; a process is the channel of wait()
NoScan == [chs |-> <<>>, k |-> 1, ret |-> "user"]

\* Process i executes on CPU c (having released p->lock after swtch).
On(c, i) == cpu[c] = i /\ mode[c] = "run" /\ sw[i] = "none"
At(c, i, l) == On(c, i) /\ pc[i] = l
Goto(i, l) == pc' = [pc EXCEPT ![i] = l]

\* killed(p) reads the flag under p->lock.
CanReadKilled(i) == plock[i] = None

\* The locks that CPU c holds, which noff counts: p->lock of process k is k,
\* wait_lock is None and lk is Cond.
held(c) ==
  {k \in Procs : plock[k] = c} \cup {l \in {None} : wait_lock = c} \cup {l \in {Cond} : lk = c}

Init ==
  /\ state = [i \in Procs |-> IF i = initproc THEN "RUNNABLE" ELSE "UNUSED"]
  /\ chan = [i \in Procs |-> None]
  /\ killed = [i \in Procs |-> FALSE]
  /\ pid = [i \in Procs |-> IF i = initproc THEN 1 ELSE 0]
  /\ parent = [i \in Procs |-> None]
  /\ nextpid = 2
  /\ plock = [i \in Procs |-> None] /\ wait_lock = None /\ lk = None
  /\ cond = FALSE
  /\ cpu = [c \in CPUs |-> None]
  /\ mode = [c \in CPUs |-> "sched"]
  /\ pc = [i \in Procs |-> "user"]
  /\ sw = [i \in Procs |-> "new"]
  /\ child = [i \in Procs |-> None]
  /\ wk = [i \in Procs |-> NoScan]

-----------------------------------------------------------------------------
(* Switching *)

\* The scheduler of CPU c finds i RUNNABLE and switches to it, holding p->lock.
scheduler(c, i) ==
  /\ mode[c] = "sched" /\ plock[i] = None /\ state[i] = "RUNNABLE"
  /\ state' = [state EXCEPT ![i] = "RUNNING"]
  /\ plock' = [plock EXCEPT ![i] = c]
  /\ cpu' = [cpu EXCEPT ![c] = i]
  /\ mode' = [mode EXCEPT ![c] = "run"]
  /\ UNCHANGED <<chan, killed, pid, parent, nextpid, wait_lock, lk, cond, threadVars>>

\* swtch back from the process: scheduler() releases the lock it was handed.
scheduler_back(c) ==
  /\ mode[c] = "back"
  /\ plock' = [plock EXCEPT ![cpu[c]] = None]
  /\ cpu' = [cpu EXCEPT ![c] = None]
  /\ mode' = [mode EXCEPT ![c] = "sched"]
  /\ UNCHANGED <<tableVars, wait_lock, lk, cond, threadVars>>

\* i continues after swtch, in yield(), sleep() or forkret(): release p->lock.
resume(c, i) ==
  /\ cpu[c] = i /\ mode[c] = "run" /\ sw[i] # "none"
  /\ plock' = [plock EXCEPT ![i] = None]
  /\ chan' = [chan EXCEPT ![i] = IF sw[i] = "sleep" THEN None ELSE @]
  /\ sw' = [sw EXCEPT ![i] = "none"]
  /\ UNCHANGED <<state, killed, pid, parent, nextpid, wait_lock, lk, cond, cpuVars, pc, child, wk>>

\* sched() on CPU c, by process i in state s: p->lock stays held across swtch.
Sched(c, i, s, why) ==
  /\ plock[i] = None
  /\ plock' = [plock EXCEPT ![i] = c]
  /\ state' = [state EXCEPT ![i] = s]
  /\ sw' = [sw EXCEPT ![i] = why]
  /\ mode' = [mode EXCEPT ![c] = "back"]

\* Mutation: interrupts stay on while spin locks are held.
yield_locked(c, i) ==
  /\ On(c, i)
  /\ Sched(c, i, "RUNNABLE", "yield")
  /\ UNCHANGED <<chan, killed, pid, parent, nextpid, wait_lock, lk, cond, cpu, pc, child, wk>>

\* A timer interrupt in user or kernel code; spin locks keep interrupts off.
yield(c, i) ==
  /\ On(c, i) /\ held(c) = {}
  /\ Sched(c, i, "RUNNABLE", "yield")
  /\ UNCHANGED <<chan, killed, pid, parent, nextpid, wait_lock, lk, cond, cpu, pc, child, wk>>

\* sleep(Cond, lk) or sleep(p, wait_lock), called from the named point.
sleep(c, i) ==
  \/ /\ At(c, i, "wait_sleep")
     /\ chan' = [chan EXCEPT ![i] = i]
     /\ wait_lock' = None
     /\ Goto(i, "wait_again")
     /\ Sched(c, i, "SLEEPING", "sleep")
     /\ UNCHANGED <<killed, pid, parent, nextpid, lk, cond, cpu, child, wk>>
  \/ /\ At(c, i, "cond_sleep")
     /\ chan' = [chan EXCEPT ![i] = Cond]
     /\ lk' = None
     /\ Goto(i, "cond_again")
     /\ Sched(c, i, "SLEEPING", "sleep")
     /\ UNCHANGED <<killed, pid, parent, nextpid, wait_lock, cond, cpu, child, wk>>

\* Mutation: the last slot of the table is not visited.
WakeSlotShort(i, k, ch) ==
  /\ k = i \/ plock[k] = None
  /\ state' = [state EXCEPT ![k] =
       IF k # i /\ k # NPROC /\ @ = "SLEEPING" /\ chan[k] = ch THEN "RUNNABLE" ELSE @]

\* One iteration of wakeup(): look at slot k under its lock.
WakeSlot(i, k, ch) ==
  /\ k = i \/ plock[k] = None
  /\ state' = [state EXCEPT ![k] =
       IF k # i /\ @ = "SLEEPING" /\ chan[k] = ch THEN "RUNNABLE" ELSE @]

wakeup(c, i) ==
  LET s == wk[i] IN
  /\ At(c, i, "wakeup")
  /\ WakeSlot(i, s.k, Head(s.chs))
  /\ IF s.k < NPROC
     THEN wk' = [wk EXCEPT ![i].k = @ + 1] /\ UNCHANGED pc
     ELSE IF Len(s.chs) > 1
     THEN wk' = [wk EXCEPT ![i] = [chs |-> Tail(s.chs), k |-> 1, ret |-> s.ret]] /\ UNCHANGED pc
     ELSE wk' = [wk EXCEPT ![i] = NoScan] /\ Goto(i, s.ret)
  /\ UNCHANGED <<chan, killed, pid, parent, nextpid, lockVars, cond, cpuVars, sw, child>>

StartWakeup(i, chs, ret) ==
  /\ wk' = [wk EXCEPT ![i] = [chs |-> chs, k |-> 1, ret |-> ret]]
  /\ Goto(i, "wakeup")

-----------------------------------------------------------------------------
(* fork *)

\* allocproc() finds a slot and returns with its lock held; fork() may also
\* fail here for lack of a slot or of memory, leaving no trace.
fork(c, i) ==
  /\ At(c, i, "user") /\ ~killed[i] /\ nextpid <= MaxPid
  /\ \E n \in Procs :
       /\ state[n] = "UNUSED" /\ plock[n] = None
       /\ plock' = [plock EXCEPT ![n] = c]
       /\ state' = [state EXCEPT ![n] = "USED"]
       /\ pid' = [pid EXCEPT ![n] = nextpid]
       /\ child' = [child EXCEPT ![i] = n]
  /\ nextpid' = nextpid + 1
  /\ Goto(i, "fork_copy")
  /\ UNCHANGED <<chan, killed, parent, wait_lock, lk, cond, cpuVars, sw, wk>>

\* freeproc(k), with its lock released (kill's flag and the channel included).
freeproc(k) ==
  /\ state' = [state EXCEPT ![k] = "UNUSED"]
  /\ pid' = [pid EXCEPT ![k] = 0]
  /\ parent' = [parent EXCEPT ![k] = None]
  /\ chan' = [chan EXCEPT ![k] = None]
  /\ killed' = [killed EXCEPT ![k] = FALSE]

\* uvmcopy() fails: the slot is given back.
fork_fail(c, i) ==
  /\ At(c, i, "fork_copy")
  /\ freeproc(child[i])
  /\ plock' = [plock EXCEPT ![child[i]] = None]
  /\ child' = [child EXCEPT ![i] = None]
  /\ Goto(i, "user")
  /\ UNCHANGED <<nextpid, wait_lock, lk, cond, cpuVars, sw, wk>>

\* The copy is complete; np->lock is released with np still USED.
fork_copied(c, i) ==
  /\ At(c, i, "fork_copy")
  /\ plock' = [plock EXCEPT ![child[i]] = None]
  /\ Goto(i, "fork_parent")
  /\ UNCHANGED <<tableVars, wait_lock, lk, cond, cpuVars, sw, child, wk>>

fork_parent(c, i) ==
  /\ At(c, i, "fork_parent") /\ wait_lock = None
  /\ parent' = [parent EXCEPT ![child[i]] = i]
  /\ Goto(i, "fork_run")
  /\ UNCHANGED <<state, chan, killed, pid, nextpid, lockVars, cond, cpuVars, sw, child, wk>>

fork_run(c, i) ==
  LET n == child[i] IN
  /\ At(c, i, "fork_run") /\ plock[n] = None
  /\ state' = [state EXCEPT ![n] = "RUNNABLE"]
  /\ sw' = [sw EXCEPT ![n] = "new"]
  /\ pc' = [pc EXCEPT ![n] = "user", ![i] = "user"]
  /\ child' = [child EXCEPT ![i] = None]
  /\ UNCHANGED <<chan, killed, pid, parent, nextpid, lockVars, cond, cpuVars, wk>>

-----------------------------------------------------------------------------
(* exit, wait, kill *)

Children(i) == {k \in Procs : parent[k] = i}
Zombies(i) == {k \in Children(i) : state[k] = "ZOMBIE"}

\* Mutation: the children keep their dead parent.
exit_noreparent(c, i) ==
  /\ At(c, i, "user") /\ i # initproc /\ wait_lock = None
  /\ wait_lock' = c
  /\ StartWakeup(i, <<parent[i]>>, "exit_zombie")
  /\ UNCHANGED <<tableVars, plock, lk, cond, cpuVars, sw, child>>

\* exit(), by choice or because usertrap() saw killed(p): take wait_lock, give
\* the children to init (reparent), then wake init, if it got any, and the parent.
exit(c, i) ==
  /\ At(c, i, "user") /\ i # initproc /\ wait_lock = None
  /\ wait_lock' = c
  /\ parent' = [k \in Procs |-> IF parent[k] = i THEN initproc ELSE parent[k]]
  /\ StartWakeup(i, IF Children(i) = {} THEN <<parent[i]>> ELSE <<initproc, parent[i]>>,
                 "exit_zombie")
  /\ UNCHANGED <<state, chan, killed, pid, nextpid, plock, lk, cond, cpuVars, sw, child>>

\* The end of exit(): ZOMBIE under p->lock, release wait_lock, sched().
exit_zombie(c, i) ==
  /\ At(c, i, "exit_zombie")
  /\ Sched(c, i, "ZOMBIE", "exit")
  /\ wait_lock' = None
  /\ UNCHANGED <<chan, killed, pid, parent, nextpid, lk, cond, cpu, pc, child, wk>>

wait(c, i) ==
  /\ At(c, i, "user") /\ ~killed[i] /\ wait_lock = None
  /\ wait_lock' = c
  /\ Goto(i, "wait_scan")
  /\ UNCHANGED <<tableVars, plock, lk, cond, cpuVars, sw, child, wk>>

\* Mutation: the child may still be in exit() or swtch().
wait_zombie_early(c, i) ==
  /\ At(c, i, "wait_scan")
  /\ \E k \in Zombies(i) :
       \/ freeproc(k)
       \/ i # initproc /\ UNCHANGED <<state, pid, parent, chan, killed>>
  /\ wait_lock' = None
  /\ Goto(i, "user")
  /\ UNCHANGED <<nextpid, plock, lk, cond, cpuVars, sw, child, wk>>

\* The scan meets a zombie and, once it can lock it, frees its slot.  For a bad
\* user address copyout() fails and the zombie stays (init passes none).
wait_zombie(c, i) ==
  /\ At(c, i, "wait_scan")
  /\ \E k \in Zombies(i) :
       /\ plock[k] = None
       /\ \/ freeproc(k)
          \/ i # initproc /\ UNCHANGED <<state, pid, parent, chan, killed>>
  /\ wait_lock' = None
  /\ Goto(i, "user")
  /\ UNCHANGED <<nextpid, plock, lk, cond, cpuVars, sw, child, wk>>

\* No zombie: return -1 without children or when killed, else go and sleep.
wait_none(c, i) ==
  /\ At(c, i, "wait_scan") /\ Zombies(i) = {}
  /\ Children(i) # {} => CanReadKilled(i)
  /\ IF Children(i) = {} \/ killed[i]
     THEN wait_lock' = None /\ Goto(i, "user")
     ELSE wait_lock' = wait_lock /\ Goto(i, "wait_sleep")
  /\ UNCHANGED <<tableVars, plock, lk, cond, cpuVars, sw, child, wk>>

\* kill(n): mark the process with that pid and wake it if it sleeps.
kill(c, i) ==
  /\ At(c, i, "user") /\ ~killed[i]
  /\ \E n \in KillArgs, k \in Procs :
       /\ pid[k] = n /\ plock[k] = None
       /\ killed' = [killed EXCEPT ![k] = TRUE]
       /\ state' = [state EXCEPT ![k] = IF @ = "SLEEPING" THEN "RUNNABLE" ELSE @]
  /\ UNCHANGED <<chan, pid, parent, nextpid, lockVars, cond, cpuVars, threadVars>>

-----------------------------------------------------------------------------
(* A kernel condition: a loop around sleep(), as in piperead, consoleread or *)
(* sys_sleep, and the code that sets it and calls wakeup().                  *)

\* init only forks and waits.
cond_wait(c, i) ==
  /\ At(c, i, "user") /\ ~killed[i] /\ i # initproc
  /\ lk = None /\ lk' = c
  /\ Goto(i, "cond_test")
  /\ UNCHANGED <<tableVars, plock, wait_lock, cond, cpuVars, sw, child, wk>>

\* The end of sleep(): take back the lock it was given.
reacquire(c, i) ==
  \/ /\ At(c, i, "cond_again")
     /\ lk = None /\ lk' = c
     /\ Goto(i, "cond_test")
     /\ UNCHANGED <<tableVars, plock, wait_lock, cond, cpuVars, sw, child, wk>>
  \/ /\ At(c, i, "wait_again")
     /\ wait_lock = None /\ wait_lock' = c
     /\ Goto(i, "wait_scan")
     /\ UNCHANGED <<tableVars, plock, lk, cond, cpuVars, sw, child, wk>>

cond_test(c, i) ==
  /\ At(c, i, "cond_test")
  /\ ~cond => CanReadKilled(i)
  /\ IF cond \/ killed[i]
     THEN lk' = None /\ cond' = FALSE /\ Goto(i, "user")
     ELSE UNCHANGED <<lk, cond>> /\ Goto(i, "cond_sleep")
  /\ UNCHANGED <<tableVars, plock, wait_lock, cpuVars, sw, child, wk>>

\* Another process makes the condition true and wakes the sleepers ...
cond_set(c, i) ==
  /\ At(c, i, "user") /\ ~killed[i] /\ lk = None
  /\ lk' = c /\ cond' = TRUE
  /\ StartWakeup(i, <<Cond>>, "cond_done")
  /\ UNCHANGED <<tableVars, plock, wait_lock, cpuVars, sw, child>>

cond_done(c, i) ==
  /\ At(c, i, "cond_done")
  /\ lk' = None
  /\ Goto(i, "user")
  /\ UNCHANGED <<tableVars, plock, wait_lock, cond, cpuVars, sw, child, wk>>

\* ... or an interrupt handler does, on a CPU that has no process to run.
intr_wakeup(c) ==
  /\ mode[c] = "sched" /\ lk = None
  /\ \A k \in Procs : plock[k] = None
  /\ cond' = TRUE
  /\ state' = [k \in Procs |->
       IF state[k] = "SLEEPING" /\ chan[k] = Cond THEN "RUNNABLE" ELSE state[k]]
  /\ UNCHANGED <<chan, killed, pid, parent, nextpid, lockVars, cpuVars, threadVars>>

Kernel(c, i) ==
  \/ resume(c, i) \/ sleep(c, i) \/ wakeup(c, i)
  \/ fork_fail(c, i) \/ fork_copied(c, i) \/ fork_parent(c, i) \/ fork_run(c, i)
  \/ exit_zombie(c, i) \/ wait_zombie(c, i) \/ wait_none(c, i)
  \/ reacquire(c, i) \/ cond_test(c, i) \/ cond_done(c, i)

Syscall(c, i) == fork(c, i) \/ exit(c, i) \/ wait(c, i) \/ kill(c, i)
                 \/ cond_wait(c, i) \/ cond_set(c, i)

Next ==
  \E c \in CPUs :
    \/ scheduler_back(c) \/ intr_wakeup(c)
    \/ \E i \in Procs : scheduler(c, i) \/ yield(c, i) \/ Kernel(c, i) \/ Syscall(c, i)

Spec == Init /\ [][Next]_vars

-----------------------------------------------------------------------------
(* Properties *)

\* Every variable has its type.
TypeOK ==
  /\ state \in [Procs -> {"UNUSED", "USED", "SLEEPING", "RUNNABLE", "RUNNING", "ZOMBIE"}]
  /\ chan \in [Procs -> 0 .. NPROC + 1]
  /\ killed \in [Procs -> BOOLEAN]
  /\ pid \in [Procs -> 0 .. MaxPid] /\ nextpid \in 2 .. MaxPid + 1
  /\ parent \in [Procs -> 0 .. NPROC] /\ child \in [Procs -> 0 .. NPROC]
  /\ plock \in [Procs -> 0 .. NCPU] /\ {wait_lock, lk} \subseteq 0 .. NCPU
  /\ cond \in BOOLEAN
  /\ cpu \in [CPUs -> 0 .. NPROC]
  /\ mode \in [CPUs -> {"sched", "run", "back"}]
  /\ pc \in [Procs -> {"user", "fork_copy", "fork_parent", "fork_run", "exit_zombie", "wakeup",
                       "wait_scan", "wait_sleep", "wait_again", "cond_test", "cond_sleep",
                       "cond_again", "cond_done"}]
  /\ sw \in [Procs -> {"none", "new", "yield", "sleep", "exit"}]

\* sched() holds p->lock and no other lock (its "sched locks" and "sched running"
\* panics never happen), and scheduler() gets back the lock it handed out.
SchedLocks ==
  TypeOK /\ \A c \in CPUs :
    /\ mode[c] = "back" => held(c) = {cpu[c]} /\ state[cpu[c]] # "RUNNING"
    /\ mode[c] = "sched" => held(c) = {}

\* A process executes on one CPU only, and as long as a CPU is on its kernel
\* stack the process is RUNNING or its lock keeps everybody else away: a slot
\* is never freed, reused or scheduled under a CPU that is still leaving it.
StackSafe ==
  \A c \in CPUs : cpu[c] # None =>
    /\ state[cpu[c]] \notin {"UNUSED", "USED"}
    /\ state[cpu[c]] = "RUNNING" \/ plock[cpu[c]] = c
    /\ \A d \in CPUs \ {c} : cpu[d] # cpu[c]

\* sleep() misses no wakeup(): when nobody is between changing the condition and
\* finishing the scan (lk, wait_lock free), no process sleeps on a true
\* condition, and no parent sleeps in wait() with a zombie to collect.
NoLostWakeup ==
  /\ lk = None /\ cond => \A i \in Procs : ~(state[i] = "SLEEPING" /\ chan[i] = Cond)
  /\ wait_lock = None => \A i \in Procs : state[i] = "SLEEPING" /\ chan[i] = i => Zombies(i) = {}

\* Outside reparent() every child has a live parent that can still wait for it,
\* and every process but init that can run or is a zombie has a parent.
ParentAlive ==
  wait_lock = None => \A k \in Procs :
    /\ parent[k] # None => state[parent[k]] \notin {"UNUSED", "ZOMBIE"}
    /\ state[k] \notin {"UNUSED", "USED"} /\ k # initproc => parent[k] # None
=============================================================================
