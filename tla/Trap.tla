--------------------------------- MODULE Trap ---------------------------------
(***************************************************************************)
(* Traps, spin locks and context switches: kernel/trap.c, trampoline.S,    *)
(* kernelvec.S, swtch.S, kernel/spinlock.c, and sched() and scheduler() of *)
(* kernel/proc.c, down to the control registers of the CPUs.               *)
(*                                                                         *)
(* A context is a process or the scheduler of a CPU.  It has the list of   *)
(* the operations that it has still to do, and a second list on top of it  *)
(* while it handles an interrupt.  A process without any is in user code,  *)
(* from where it comes by a timer interrupt or by calling sys_sleep().     *)
(***************************************************************************)
EXTENDS Integers, Sequences, FiniteSets

CONSTANTS
  CPUs,
  Boot,          \* the CPU whose cpuid() is 0
  ProcTable,     \* proc[], a sequence
  Machines       \* bound: the pairs of CPUs and NPROC to look at

Procs == {ProcTable[k] : k \in 1 .. Len(ProcTable)}

ASSUME TrapAssumption ==
  /\ Boot \in CPUs /\ CPUs \cap Procs = {} /\ Cardinality(Procs) = Len(ProcTable)
  /\ \A m \in Machines : m[1] \subseteq CPUs /\ m[2] \in 1 .. Len(ProcTable)

Contexts == CPUs \cup Procs
Tick == "tickslock"
Locks == Procs \cup {Tick}       \* a process stands for its p->lock
None == "none"
Nowhere == <<None, 2>>
User == "user"
Kernel == "kernel"

VARIABLES
  machine,            \* the CPUs, and the number of processes
  locked, owner,      \* struct spinlock: lk->locked and lk->cpu
  noff, intena,       \* struct cpu
  state,              \* p->state
  slot,               \* the slot of proc[] that a CPU's scheduler() is at
  cur,                \* the context that executes on a CPU: its sp and ra
  todo, trap,         \* the operations of a context, and of its trap handler
  intr, spie, spp,    \* SIE, SPIE and SPP of a CPU's sstatus
  ssip,               \* SSIP of a CPU's sip: a timer interrupt is pending
  sepc, stvec, tp, satp,   \* more registers of a CPU
  gpr,                \* whose values the other registers hold
  old, saved,         \* push_off()'s old, and sched()'s intena
  frame,              \* what kernelvec and kerneltrap() save on the stack
  trapframe,          \* p->trapframe
  upos,               \* where the user code of a process is
  due,                \* the sleeping processes for which the timer went off
  panicked            \* "no", "panic", or "astray" after a wrong return

lockVars == <<locked, owner>>
cpuVars == <<noff, intena>>
progVars == <<todo, trap>>
csrVars == <<intr, spie, spp, sepc, stvec>>
regVars == <<tp, satp, gpr>>
restVars == <<slot, ssip, due, upos>>
saveVars == <<old, saved, frame, trapframe>>
vars == <<machine, lockVars, cpuVars, state, cur, progVars, csrVars, regVars, saveVars, restVars,
          panicked>>

-----------------------------------------------------------------------------
(* Programs *)

Acquire(l) == <<<<"intr_get", l>>, <<"push_off", l>>, <<"swap", l>>, <<"own", l>>>>
Release(l) == <<<<"disown", l>>, <<"open", l>>>>
Switch(s) == <<<<"sched", s>>, <<"resumed", s>>>>

\* wakeup(&ticks) in context x.
Wakeup(x) ==
  LET W[k \in 0 .. machine[2]] ==
        IF k = 0 THEN <<>>
        ELSE LET q == ProcTable[k]
             IN W[k - 1] \o IF q = x THEN <<>>
                            ELSE Acquire(q) \o <<<<"wake", q>>>> \o Release(q)
  IN W[machine[2]]

\* Mutation: acknowledges the interrupt at the end.
Devintr_late(x, id) ==
  (IF id = Boot THEN Acquire(Tick) \o Wakeup(x) \o Release(Tick) ELSE <<>>)
  \o <<<<"ack", x>>>>

\* devintr() for the timer: only cpuid() 0 counts the ticks.
Devintr(x, id) ==
  <<<<"ack", x>>>>
  \o IF id = Boot THEN Acquire(Tick) \o Wakeup(x) \o Release(Tick) ELSE <<>>

Yield(p) == Acquire(p) \o Switch("RUNNABLE") \o Release(p)

\* kerneltrap(); the scheduler has no process to yield.
Kerneltrap(x, id) ==
  Devintr(x, id) \o (IF x \in Procs THEN Yield(x) ELSE <<>>) \o <<<<"kret", x>>>>

\* usertrapret(), and why the process was in the kernel.
Usertrapret(why) == <<<<"intr_off", why>>, <<"usertrapret", why>>, <<"userret", why>>>>

\* sys_sleep() for one tick: sleep(&ticks, &tickslock).
Sleep(p) ==
  Acquire(Tick) \o Acquire(p) \o Release(Tick) \o Switch("SLEEPING")
  \o Release(p) \o Acquire(Tick) \o Release(Tick)

\* Mutation: turns interrupts on before sepc is saved.
Syscall_late(p) == <<<<"intr_on", p>>, <<"epc4", p>>>> \o Sleep(p) \o Usertrapret("syscall")

\* usertrap() for a system call, and for the timer.
Syscall(p) == <<<<"epc4", p>>, <<"intr_on", p>>>> \o Sleep(p) \o Usertrapret("syscall")
Usertimer(p, id) == <<<<"epc", p>>>> \o Devintr(p, id) \o Yield(p) \o Usertrapret("timer")

Forkret(p) == Release(p) \o Usertrapret("fork")

\* A turn of scheduler()'s loop.
Turn(p) == Acquire(p) \o <<<<"swtch", p>>>> \o Release(p)

-----------------------------------------------------------------------------

Init ==
  /\ machine \in Machines
  /\ locked = [l \in Locks |-> FALSE] /\ owner = [l \in Locks |-> None]
  /\ noff = [c \in CPUs |-> 0] /\ intena = [c \in CPUs |-> FALSE]
  /\ state = [p \in Procs |-> "RUNNABLE"]
  /\ cur = [c \in CPUs |-> c] /\ slot = [c \in CPUs |-> 0]
  /\ todo = [x \in Contexts |-> IF x \in Procs THEN Forkret(x) ELSE <<>>]
  /\ trap = [x \in Contexts |-> <<>>]
  /\ intr = [c \in CPUs |-> FALSE] /\ spie = [c \in CPUs |-> FALSE]
  /\ spp = [c \in CPUs |-> User]
  /\ sepc = [c \in CPUs |-> Nowhere] /\ stvec = [c \in CPUs |-> "kernelvec"]
  /\ tp = [c \in CPUs |-> c] /\ satp = [c \in CPUs |-> Kernel]
  /\ gpr = [c \in CPUs |-> <<c, "base">>]
  /\ old = [x \in Contexts |-> [base |-> FALSE, trap |-> FALSE]] /\ saved = [p \in Procs |-> FALSE]
  /\ frame = [x \in Contexts |-> None]
  /\ trapframe = [p \in Procs |-> [epc |-> <<p, 0>>, regs |-> <<p, User>>, hartid |-> None]]
  /\ upos = [p \in Procs |-> 0]
  /\ ssip = [c \in CPUs |-> FALSE] /\ due = {}
  /\ panicked = "no"

\* The level at which context x runs, and its operations there.
Level(x) == IF trap[x] # <<>> THEN "trap" ELSE "base"
Ops(x) == IF trap[x] # <<>> THEN trap[x] ELSE todo[x]
Advance(x) ==
  IF trap[x] # <<>> THEN trap' = [trap EXCEPT ![x] = Tail(@)] /\ UNCHANGED todo
  ELSE todo' = [todo EXCEPT ![x] = Tail(@)] /\ UNCHANGED trap

\* CPU c is at operation op.
At(c, op) == panicked = "no" /\ Ops(cur[c]) # <<>> /\ Head(Ops(cur[c]))[1] = op
Arg(c) == Head(Ops(cur[c]))[2]
Panic(b) == panicked' = IF b THEN "panic" ELSE panicked
Return(b) == panicked' = IF b THEN panicked ELSE "astray"

InUser(c) == cur[c] \in Procs /\ Ops(cur[c]) = <<>>

\* mycpu() goes by tp.
mycpu(c) == tp[c]
holding(c, l) == locked[l] /\ owner[l] = mycpu(c)

-----------------------------------------------------------------------------
(* kernel/spinlock.c *)

\* push_off(): old = intr_get().  An interrupt may come before intr_off(), and move
\* the process to another CPU.
push_off_get(c) ==
  /\ At(c, "intr_get")
  /\ old' = [old EXCEPT ![cur[c]][Level(cur[c])] = intr[c]]
  /\ Advance(cur[c])
  /\ UNCHANGED <<lockVars, cpuVars, state, cur, csrVars, regVars, saved, frame, trapframe,
                 restVars, panicked>>

\* The rest of push_off(), and the check that the lock is not held.
push_off(c) ==
  LET m == mycpu(c) IN
  /\ At(c, "push_off")
  /\ intr' = [intr EXCEPT ![c] = FALSE]
  /\ intena' = [intena EXCEPT ![m] = IF noff[m] = 0 THEN old[cur[c]][Level(cur[c])] ELSE @]
  /\ noff' = [noff EXCEPT ![m] = @ + 1]
  /\ old' = [old EXCEPT ![cur[c]][Level(cur[c])] = FALSE]
  /\ Panic(holding(c, Arg(c))) /\ Advance(cur[c])
  /\ UNCHANGED <<lockVars, state, cur, spie, spp, sepc, stvec, regVars, saved, frame,
                 trapframe, restVars>>

\* The atomic swap that finds the lock free.
acquire(c) ==
  /\ At(c, "swap") /\ ~locked[Arg(c)]
  /\ locked' = [locked EXCEPT ![Arg(c)] = TRUE]
  /\ Advance(cur[c])
  /\ UNCHANGED <<owner, cpuVars, state, cur, csrVars, regVars, saveVars, restVars, panicked>>

\* lk->cpu = mycpu()
acquire_cpu(c) ==
  /\ At(c, "own")
  /\ owner' = [owner EXCEPT ![Arg(c)] = mycpu(c)]
  /\ Advance(cur[c])
  /\ UNCHANGED <<locked, cpuVars, state, cur, csrVars, regVars, saveVars, restVars, panicked>>

\* release(): lk->cpu = 0 comes before the lock is open to others.
release_cpu(c) ==
  /\ At(c, "disown")
  /\ owner' = [owner EXCEPT ![Arg(c)] = None]
  /\ Panic(~holding(c, Arg(c))) /\ Advance(cur[c])
  /\ UNCHANGED <<locked, cpuVars, state, cur, csrVars, regVars, saveVars, restVars>>

\* Mutation: interrupts go on at the first pop_off().
pop_off_first(c) ==
  LET m == mycpu(c) IN
  /\ Panic(intr[c] \/ noff[m] < 1)
  /\ noff' = [noff EXCEPT ![m] = @ - 1]
  /\ intr' = [intr EXCEPT ![c] = intena[m]]
  /\ UNCHANGED intena

pop_off(c) ==
  LET m == mycpu(c) IN
  /\ Panic(intr[c] \/ noff[m] < 1)
  /\ noff' = [noff EXCEPT ![m] = @ - 1]
  /\ intr' = [intr EXCEPT ![c] = noff[m] = 1 /\ intena[m]]
  /\ UNCHANGED intena

\* Opening the lock, and pop_off().
release(c) ==
  /\ At(c, "open")
  /\ locked' = [locked EXCEPT ![Arg(c)] = FALSE]
  /\ pop_off(c) /\ Advance(cur[c])
  /\ UNCHANGED <<owner, state, cur, spie, spp, sepc, stvec, regVars, saveVars, restVars>>

-----------------------------------------------------------------------------
(* kernel/proc.c, swtch.S *)

\* The scheduler looks at the next slot.  It turns interrupts on at the top of its
\* loop, not between the slots.
scheduler(c) ==
  LET k == (slot[c] % machine[2]) + 1 IN
  /\ panicked = "no" /\ cur[c] = c /\ Ops(c) = <<>>
  /\ slot' = [slot EXCEPT ![c] = k]
  /\ todo' = [todo EXCEPT ![c] = Turn(ProcTable[k])]
  /\ intr' = [intr EXCEPT ![c] = @ \/ k = 1]
  /\ UNCHANGED <<lockVars, cpuVars, state, cur, trap, spie, spp, sepc, stvec, regVars,
                 saveVars, upos, panicked, ssip, due>>

\* swtch() leaves tp alone, and brings back the other registers of context x.
Swtch(c, x) ==
  /\ cur' = [cur EXCEPT ![c] = x]
  /\ gpr' = [gpr EXCEPT ![c] = <<x, Level(x)>>]
  /\ UNCHANGED <<tp, satp>>

\* scheduler() switches to a RUNNABLE process and passes over another.
scheduler_swtch(c) ==
  /\ At(c, "swtch")
  /\ IF state[Arg(c)] = "RUNNABLE"
     THEN /\ state' = [state EXCEPT ![Arg(c)] = "RUNNING"]
          /\ Swtch(c, Arg(c))
     ELSE UNCHANGED <<state, cur, regVars>>
  /\ Advance(c)
  /\ UNCHANGED <<lockVars, cpuVars, csrVars, saveVars, restVars, panicked>>

\* sched(): its checks, and the switch to this CPU's scheduler.
sched(c) ==
  LET p == cur[c] IN
  /\ At(c, "sched")
  /\ state' = [state EXCEPT ![p] = Arg(c)]
  /\ Panic(~holding(c, p) \/ noff[mycpu(c)] # 1 \/ intr[c])
  /\ saved' = [saved EXCEPT ![p] = intena[mycpu(c)]]
  /\ Swtch(c, mycpu(c)) /\ Advance(p)
  /\ UNCHANGED <<lockVars, cpuVars, csrVars, old, frame, trapframe, restVars>>

\* Mutation: intena stays as the other process left it.
sched_resumed_skip(c) ==
  /\ At(c, "resumed")
  /\ saved' = [saved EXCEPT ![cur[c]] = FALSE] /\ Advance(cur[c])
  /\ UNCHANGED <<lockVars, cpuVars, state, cur, csrVars, regVars, old, frame, trapframe,
                 restVars, panicked>>

\* sched() goes on, perhaps on another CPU.
sched_resumed(c) ==
  /\ At(c, "resumed")
  /\ intena' = [intena EXCEPT ![mycpu(c)] = saved[cur[c]]]
  /\ saved' = [saved EXCEPT ![cur[c]] = FALSE] /\ Advance(cur[c])
  /\ UNCHANGED <<lockVars, noff, state, cur, csrVars, regVars, old, frame, trapframe,
                 restVars, panicked>>

\* wakeup(&ticks), under the lock of a slot.
wakeup(c) ==
  /\ At(c, "wake")
  /\ state' = [state EXCEPT ![Arg(c)] = IF @ = "SLEEPING" THEN "RUNNABLE" ELSE @]
  /\ due' = due \ {Arg(c)}
  /\ Advance(cur[c])
  /\ UNCHANGED <<lockVars, cpuVars, cur, csrVars, regVars, saveVars, upos, panicked, ssip,
                 slot>>

-----------------------------------------------------------------------------
(* kernel/trap.c, kernelvec.S, trampoline.S *)

\* A machine-mode timer interrupt, which nothing in the kernel can turn off:
\* timervec preserves all registers and raises a supervisor software interrupt.
timervec(c) ==
  /\ panicked = "no"
  /\ ssip' = [ssip EXCEPT ![c] = TRUE]
  /\ due' = due \cup {p \in Procs : c = Boot /\ state[p] = "SLEEPING"}
  /\ UNCHANGED <<lockVars, cpuVars, state, cur, progVars, csrVars, regVars, saveVars, upos,
                 panicked, slot>>

\* platform_timer_ack()
timer_ack(c) ==
  /\ At(c, "ack")
  /\ ssip' = [ssip EXCEPT ![c] = FALSE]
  /\ Advance(cur[c])
  /\ UNCHANGED <<lockVars, cpuVars, state, cur, csrVars, regVars, saveVars, upos, due,
                 panicked, slot>>

\* The hardware enters the kernel: interrupts go off, and sstatus and sepc tell
\* from where.
Enter(c, mode, place) ==
  /\ intr' = [intr EXCEPT ![c] = FALSE]
  /\ spie' = [spie EXCEPT ![c] = mode = User \/ intr[c]]
  /\ spp' = [spp EXCEPT ![c] = mode]
  /\ sepc' = [sepc EXCEPT ![c] = place]

\* sret: back to where sepc points (and forget it there).
Sret(c, on) ==
  /\ intr' = [intr EXCEPT ![c] = on]
  /\ spie' = [spie EXCEPT ![c] = TRUE] /\ spp' = [spp EXCEPT ![c] = User]
  /\ sepc' = [sepc EXCEPT ![c] = Nowhere]

InKernel(x) == <<x, 2>>

\* A timer interrupt in the kernel: kernelvec pushes the registers, kerneltrap()
\* keeps sepc and sstatus.  In uservec, usertrap() would find SPP set and panic.
interrupt(c) ==
  LET x == cur[c] IN
  /\ panicked = "no" /\ ~InUser(c) /\ intr[c] /\ ssip[c] /\ trap[x] = <<>>
  /\ Enter(c, Kernel, InKernel(x))
  /\ Panic(stvec[c] # "kernelvec")
  /\ frame' = [frame EXCEPT ![x] = [sepc |-> InKernel(x), spp |-> Kernel, spie |-> intr[c],
                                    gpr |-> gpr[c]]]
  /\ gpr' = [gpr EXCEPT ![c] = <<x, "trap">>]
  /\ trap' = [trap EXCEPT ![x] = Kerneltrap(x, tp[c])]
  /\ UNCHANGED <<lockVars, cpuVars, state, cur, todo, stvec, tp, satp, old, saved,
                 trapframe, restVars>>

\* The end of kerneltrap() and kernelvec, which leave tp alone.
kret(c) ==
  LET x == cur[c]
      f == frame[x]
  IN
  /\ At(c, "kret")
  /\ Return(f.sepc = InKernel(x) /\ f.spp = Kernel)
  /\ Sret(c, f.spie)
  /\ gpr' = [gpr EXCEPT ![c] = f.gpr]
  /\ frame' = [frame EXCEPT ![x] = None]
  /\ Advance(x)
  /\ UNCHANGED <<lockVars, cpuVars, state, cur, stvec, tp, satp, old, saved, trapframe,
                 restVars>>

\* A trap from user code: uservec saves the registers in the trap frame and takes
\* tp and the page table from it; usertrap() redirects traps to kernelvec.
uservec(c, ops) ==
  LET p == cur[c] IN
  /\ panicked = "no" /\ InUser(c)
  /\ Enter(c, User, <<p, upos[p]>>)
  /\ Panic(stvec[c] # "uservec")
  /\ trapframe' = [trapframe EXCEPT ![p].regs = gpr[c]]
  /\ gpr' = [gpr EXCEPT ![c] = <<p, "base">>]
  /\ tp' = [tp EXCEPT ![c] = trapframe[p].hartid]
  /\ satp' = [satp EXCEPT ![c] = Kernel]
  /\ stvec' = [stvec EXCEPT ![c] = "kernelvec"]
  /\ todo' = [todo EXCEPT ![p] = ops]
  /\ UNCHANGED <<lockVars, cpuVars, state, cur, trap, old, saved, frame, ssip, due, slot>>

ecall(c) ==
  LET p == cur[c] IN
  uservec(c, Syscall(p)) /\ upos' = [upos EXCEPT ![p] = 1 - @]
timer(c) ==
  /\ ssip[c]
  /\ uservec(c, Usertimer(cur[c], trapframe[cur[c]].hartid))
  /\ UNCHANGED upos

\* p->trapframe->epc, past the ecall instruction after a system call.
usertrap_epc(c) ==
  LET p == cur[c]
      step == IF At(c, "epc4") THEN 1 ELSE 0
  IN
  /\ At(c, "epc") \/ At(c, "epc4")
  /\ trapframe' = [trapframe EXCEPT ![p].epc = <<sepc[c][1], (sepc[c][2] + step) % 2>>]
  /\ sepc' = [sepc EXCEPT ![c] = Nowhere]
  /\ Advance(p)
  /\ UNCHANGED <<lockVars, cpuVars, state, cur, intr, spie, spp, stvec, regVars, old, saved,
                 frame, restVars, panicked>>

intr_set(c) ==
  /\ At(c, "intr_on") \/ At(c, "intr_off")
  /\ intr' = [intr EXCEPT ![c] = At(c, "intr_on")]
  /\ Advance(cur[c])
  /\ UNCHANGED <<lockVars, cpuVars, state, cur, spie, spp, sepc, stvec, regVars, saveVars,
                 restVars, panicked>>

\* usertrapret(): traps go to uservec again, the trap frame gets what uservec will
\* need, and sstatus and sepc what sret will need.
usertrapret(c) ==
  LET p == cur[c] IN
  /\ At(c, "usertrapret")
  /\ stvec' = [stvec EXCEPT ![c] = "uservec"]
  /\ trapframe' = [trapframe EXCEPT ![p].hartid = tp[c]]
  /\ spp' = [spp EXCEPT ![c] = User] /\ spie' = [spie EXCEPT ![c] = TRUE]
  /\ sepc' = [sepc EXCEPT ![c] = trapframe[p].epc]
  /\ Advance(p)
  /\ UNCHANGED <<lockVars, cpuVars, state, cur, intr, regVars, old, saved, frame, restVars,
                 panicked>>

\* userret: the user's page table and registers, then sret.
userret(c) ==
  LET p == cur[c] IN
  /\ At(c, "userret")
  /\ Return(sepc[c] = <<p, upos[p]>> /\ spp[c] = User)
  /\ Sret(c, spie[c])
  /\ satp' = [satp EXCEPT ![c] = p]
  /\ gpr' = [gpr EXCEPT ![c] = trapframe[p].regs]
  /\ tp' = [tp EXCEPT ![c] = User]
  /\ Advance(p)
  /\ UNCHANGED <<lockVars, cpuVars, state, cur, stvec, saveVars, restVars>>

Next ==
  /\ UNCHANGED machine
  /\ \E c \in machine[1] :
       \/ push_off_get(c) \/ push_off(c) \/ acquire(c) \/ acquire_cpu(c)
       \/ release_cpu(c) \/ release(c)
       \/ scheduler(c) \/ scheduler_swtch(c) \/ sched(c) \/ sched_resumed(c) \/ wakeup(c)
       \/ timervec(c) \/ timer_ack(c) \/ interrupt(c) \/ kret(c)
       \/ ecall(c) \/ timer(c) \/ usertrap_epc(c) \/ intr_set(c) \/ usertrapret(c) \/ userret(c)

Spec == Init /\ [][Next]_vars

-----------------------------------------------------------------------------
(* Properties *)

\* Every variable has its type, and no process runs on two CPUs.
TypeOK ==
  /\ locked \in [Locks -> BOOLEAN] /\ owner \in [Locks -> CPUs \cup {None}]
  /\ noff \in [CPUs -> 0 .. 3] /\ intena \in [CPUs -> BOOLEAN] /\ intr \in [CPUs -> BOOLEAN]
  /\ state \in [Procs -> {"RUNNABLE", "RUNNING", "SLEEPING"}]
  /\ cur \in [CPUs -> Contexts]
  /\ \A c, d \in CPUs : cur[c] = cur[d] => c = d
  /\ stvec \in [CPUs -> {"kernelvec", "uservec"}] /\ spp \in [CPUs -> {User, Kernel}]
  /\ tp \in [CPUs -> CPUs \cup {User}] /\ satp \in [CPUs -> Procs \cup {Kernel}]
  /\ panicked \in {"no", "panic", "astray"}

\* Locks that CPU c is halfway into or out of, or that it waits for.
Half(c, l) == (At(c, "own") \/ At(c, "open") \/ At(c, "swap")) /\ Arg(c) = l

\* noff is the number of locks a CPU has or is taking, although they are taken
\* by one context and given back by another, and interrupts are off while it is
\* not 0: no handler runs on top of a critical section, and the panics of acquire,
\* release, pop_off, sched, usertrap and kerneltrap are not reached.
NoffExact ==
  /\ TypeOK /\ panicked # "panic"
  /\ panicked = "no" => \A c \in CPUs :
       /\ noff[c] = Cardinality({l \in Locks : (locked[l] /\ owner[l] = c) \/ Half(c, l)})
       /\ noff[c] > 0 => ~intr[c]

\* The reason why the process x is in the kernel.
Why(x) == todo[x][Len(todo[x])][2]

\* A process is given back the interrupt state it had, across switches between
\* CPUs: on in user code and in a system call, off in a handler, after a timer
\* interrupt and on the way to and from user code.
IntrRestored ==
  \A c \in CPUs : LET x == cur[c] IN
    (panicked = "no" /\ x \in Procs /\ noff[c] = 0) =>
      CASE InUser(c) -> intr[c]
        [] trap[x] # <<>> -> ~intr[c]
        [] At(c, "usertrapret") \/ At(c, "userret") \/ At(c, "epc4") \/ At(c, "intr_on") -> ~intr[c]
        [] OTHER -> (Why(x) = "syscall" => intr[c]) /\ (Why(x) = "timer" => ~intr[c])

\* Whatever runs has its own registers and page table, the kernel runs with the
\* number of its CPU in tp, and every trap returns to the instruction where it
\* left, although the handler may switch to another process, which takes traps of
\* its own, and come back on another CPU.
TrapsReturn ==
  /\ panicked # "astray"
  /\ panicked = "no" => \A c \in CPUs :
       IF InUser(c)
       THEN gpr[c] = <<cur[c], User>> /\ satp[c] = cur[c] /\ tp[c] = User
       ELSE /\ gpr[c] = <<cur[c], Level(cur[c])>>
            /\ satp[c] = Kernel /\ tp[c] = c

\* The timer wakes whoever slept when it went off: until then its interrupt is
\* pending, or its handler has not yet come to the sleeper.  No tick is
\* acknowledged for which nobody will be woken.
TickWakes ==
  panicked = "no" => \A p \in due :
    /\ state[p] = "SLEEPING"
    /\ ssip[Boot] \/ \E k \in DOMAIN Ops(cur[Boot]) : Ops(cur[Boot])[k] = <<"wake", p>>
===============================================================================
