# A TLA+ model of multiplat-xv6-32bit

The repository is a Unix-like teaching kernel for 32-bit RISC-V (Sv32), with two
platforms below it: QEMU `virt` (virtio disk, 16550 UART, PLIC) and NEMU (a
register-programmed disk and a polled keyboard). This directory models the parts of
it that are hard to test: what happens between two steps of two processes, between
an interrupt and the code it interrupts, between two block writes when the power
goes, and on the failure paths of calls that have done half of their work.

- [Survey of the system](#survey-of-the-system)
- [Modules and how they correspond to the code](#modules-and-how-they-correspond-to-the-code)
- [Runs, bounds and fairness](#runs-bounds-and-fairness)
- [What is proved](#what-is-proved)
- [What is only model-checked](#what-is-only-model-checked)
- [Deviations met](#deviations-met)
- [What is not modelled](#what-is-not-modelled)

To check one component on its instance: `tlc -config MCLog.cfg MCLog`. To check the
proofs: `tlapm M.tla` for each of `LogProofs`, `PipeProofs`, `ProcProofs`,
`BcacheProofs`, `DiskProofs`, `InodeProofs`, `VmProofs` and `TerminalProofs`.
`PROJECT.json` lists the runs, the source lines behind every definition, a mutation of
the code that breaks each property, the theorems and the hazards.

## Survey of the system

| Part | Source | State | Operations | What is hard |
|---|---|---|---|---|
| Processes, scheduler | `proc.c`, `trap.c`, `sysproc.c` | process table, per-CPU `proc`, locks | scheduler, sched, yield, sleep, wakeup, fork, exit, wait, kill | lost wakeups; freeing a stack that is in use; orphans |
| Traps, spin locks, interrupts | `trap.c`, `spinlock.c`, `*.S` | control registers, `locked`, `cpu`, `noff`, `intena` | uservec, kernelvec, usertrap, kerneltrap, swtch, acquire, release, push_off, pop_off | traps in the middle of traps; migration between reading and using `mycpu()` |
| Page allocator, address spaces | `kalloc.c`, `vm.c`, `exec.c` | free list, page tables, `sz` | kalloc, kfree, uvm*, fork, exec, sbrk | running out of pages in the middle |
| User copies | `vm.c`, `syscall.c` | none | copyin, copyout, copyinstr, fetchaddr | page-boundary and wrap-around arithmetic |
| Disk driver (QEMU) | `platform/qemu/platform.c` | descriptors, rings, `info` | rw, interrupt | out-of-order completion, coalesced interrupts, wrap |
| Buffer cache, sleep locks | `bio.c`, `sleeplock.c` | buffers, LRU list | bget, bread, bwrite, brelse, bpin, bunpin | recycling a buffer somebody waits for |
| Log | `log.c` | header in memory and on disk, log blocks | begin_op, log_write, end_op, commit, recovery | crash between any two writes |
| Inodes | `fs.c`, `sysfile.c` | inode table, on-disk inodes | iget, ilock, iput, ialloc, iupdate | unlink while open; reuse of a number |
| File contents | `fs.c`, `file.c` | bitmap, block addresses, data | balloc, bfree, bmap, readi, writei, itrunc | full disk, bad address, restart |
| Directories, paths | `fs.c`, `sysfile.c` | entries, `nlink`, cwd | namex, dirlookup, dirlink, link, unlink, mkdir, chdir | removed directories that are still in use |
| File table | `file.c`, `sysfile.c` | `ftable`, `ofile` | filealloc, filedup, fileclose, open, pipe, dup | undoing half of open() and pipe() |
| Pipes | `pipe.c` | ring, two counters, two flags | write, read, close | two-way sleeping, wrap, close against sleepers |
| Console | `console.c` | ring, `r`, `w`, `e` | consoleintr, consoleread, consolewrite | editing against reading, wrap |
| UART (QEMU), keyboard and disk (NEMU) | `platform/*/platform.c` | transmit ring; modifiers; registers | putc, interrupt, poll | interrupt chain; unlocked registers |
| User side | `user/*.c` | | malloc, shell, init, commands | circular free list; pipelines |
| Image | `mkfs/mkfs.c` | | builds the first disk | must agree with `fs.c` |

**How they interact.** A system call runs in its process's kernel thread. File calls
go through the file table to pipes, to the console or to inodes; inodes go to the log
(`begin_op`/`end_op`) and through it to the buffer cache, which goes to the disk
driver; all of them wait with `sleep()`/`wakeup()` of the process layer. `kill()`
interrupts the waits that test `killed()`. Interrupt handlers run the disk and console
bottom halves and call `wakeup()`.

**What the build fixes.** `NCPU` 1, `NPROC`, `NFILE`, `NOFILE`, `NINODE` 8, `BSIZE`
512, `NDIRECT` 12, `NINDIRECT` 128, `MAXOPBLOCKS` = `LOGSIZE` = `NBUF` = 16. Since
`LOGSIZE` equals `MAXOPBLOCKS`, `begin_op()` admits one operation at a time; modules
say where they rely on it. `Proc` allows several CPUs, as the code does.

## Modules and how they correspond to the code

Each component is a module; `MC*` modules and `.cfg` files give the constants small
values. Definitions have the names of the C functions wherever there is one. An action
is what one thread does between two points at which another can get in: under a spin
lock the whole critical section is one step, and a `sleep()` or `release()` ends it.
`Trap` looks at the spin locks themselves and has a step per access.
Operators whose comment begins with *Mutation* are plausible bugs of the definition
they precede; no specification uses them.

- **`Log`** (`log.c`, with the parts of `bio.c` it needs). State: home blocks, log
  blocks and header on the disk; cached buffers, pins, `log.lh`, `outstanding`,
  `committing`; per process where it is; the phase and loop index of commit or
  recovery. One step writes one block. `Crash` is enabled everywhere and loses all but
  the disk. `Fetch` and `Evict` stand for the rest of the kernel reading blocks.
  **`AtomicDisk`** is the promise: the disk changes only by taking over all of what
  the running system reads, while no operation is in progress. `CrashAtomic` is
  `AtomicDisk`'s specification under the mapping `cur <- Current`,
  `durable <- Durable` (home blocks overlaid with what the on-disk header names),
  `active <- Active`.
- **`Proc`** (`proc.c`, `trap.c`). State: the fields of `struct proc`, the holder of
  each lock, what each CPU runs, and the point each thread is at. `p->lock` is passed
  across `swtch` as in the code: `Sched` takes it, `scheduler_back` releases it. A
  generic condition `cond` under a lock `lk` stands for every loop around `sleep()`
  other than `wait()`'s. `wakeup()` visits one slot per step.
- **`Trap`** (`trap.c`, `spinlock.c`, `trampoline.S`, `kernelvec.S`, `swtch.S`,
  `scheduler()` and `sched()`). State: the control registers, `noff` and `intena` of
  each CPU, the spin locks, what each process has saved in its trapframe, its context
  and on its stack. A context (a process or a CPU's scheduler) has a list of the
  operations still to do; an interrupt puts another list on top of it.
- **`Disk`** (`platform/qemu/platform.c`). State: descriptors, `ops`, `info`, both
  rings with their wrapping indices, the interrupt line; per process its request and
  buffer. `dev_fetch` and `dev_complete` are the device (external): it takes requests
  in order and completes them in any order.
- **`Bcache`** (`bio.c`, `sleeplock.c`). State: buffers, the doubly linked list link
  by link, sleep locks, the disk, and `cur`, the contents each block should have. A
  process holds up to two buffers: `bmap()` and `itrunc()` keep an indirect block while
  they read a bitmap or a data block, `write_log()` and `install_trans()` hold a log
  block and a home block. The two *uses* `<<p, 1>>` and `<<p, 2>>` of a process have a
  place each, of which one moves at a time, and `Level` is the order in which the code
  nests them: log blocks, indirect blocks, all others. Both walks of `bget()` follow the
  links until they are back at the head. `panic()` is a step that never ends.
- **`Pipe`** (`pipe.c`) implements **`Channel`**, a bounded queue with two ends.
  `piperead` and `pipewrite` move as many bytes as one hold of `pi->lock` allows, and
  stop early at a bad user address.
- **`Inode`** (`fs.c`, `sysfile.c`). One directory of names; the inode table has fewer
  entries than there are inodes. Two operations may be in the log at a time, more than
  this build's log admits, so that the table's own locking is what is tested.
- **`FileData`** (`fs.c`, `file.c`). Blocks hold bytes or block numbers. Buffers and
  disk are apart; `tx` is the set of blocks the running operation has logged, and
  `Commit` copies exactly those, which is what `AtomicDisk` promises. The variable
  `file` is the ghost: what each file should contain. **`Mkfs`** (`mkfs/mkfs.c`) is the
  way to its first state: mkfs's own allocator and `iappend()` build the image, and the
  kernel boots from it.
- **`Files`** (`file.c`, `sysfile.c`, `pipe.c`). The file table, descriptors, and the
  reference counts of the inodes and pipe ends behind them. `fileclose()` has the two
  steps of the code: the slot is free before the backing object is released.
- **`Tree`** (`fs.c`, `sysfile.c`). Directories with `..`, link counts, current
  directories and open files. A call is one step, as only one operation is in the log
  at a time. Paths are sequences of names; `.` and `..` are resolved by
  `dirlookup`.
- **`Vm`** (`vm.c`, `kalloc.c`, `proc.c`, `exec.c`). Pages are counted, not named.
  Loops of `uvmalloc()` and `uvmcopy()` take a step per page; every `kalloc()` may be
  the one that fails. **`UserCopy`** has the copying loops as recursive functions and
  the reference they are compared with.
- **`Console`** (`console.c`) implements **`Tty`**: an edited line in front of a queue
  of characters that readers take in order. **`Uart`** (`platform/qemu/platform.c`) is
  the transmit ring, the 16550 and its interrupt; **`Keyboard`**
  (`platform/nemu/platform.c`) the polled keyboard and its modifiers: two shift keys and
  two control keys, each pair behind one flag. The ghosts `held` and `lapsed` say which
  of these keys are down, and which of them were outlived by the lifting of their twin.
  **`Terminal`** composes them: the console above either driver, echo included.

## Runs, bounds and fairness

| Run | Shows | Bounds |
|---|---|---|
| `log` | `LogInv`: pins, header, index and copies agree at every stage. `CommitAlone`: no operation overlaps a commit. `CrashAtomic`: implements `AtomicDisk`. `SleeperWoken`: nobody stays asleep in `begin_op()`. | 2 processes, 2 blocks, 2 contents, `LOGSIZE` 4 of which the header takes one, operations of 2 |
| `proc` | `SchedLocks`: the panics of `sched()` are unreachable. `StackSafe`: no slot is freed or scheduled under a CPU. `NoLostWakeup`: neither by `wait()` nor on a condition. `ParentAlive`: everybody has a parent to wait for it. | 3 slots, 2 CPUs, pids up to 4 |
| `trap` | `NoffExact`: `noff` counts the locks, with interrupts off. `IntrRestored`: everybody gets its interrupt state back. `TrapsReturn`: with its registers, where it left, also on another CPU. `TickWakes`: no tick is lost to a sleeper. | 1 CPU with 2 processes and 2 CPUs with 1 process, `sys_sleep()` and timer interrupts |
| `disk` | `DescOwned`: no descriptor is lost or shared. `Transferred`: a request that ended has moved its data. `OnItsWay`: every completion is still to be handled by somebody, and nobody sleeps for descriptors that are free. `DmaInWindow`: data changes only inside of its request. | 3 requests of 3 descriptors each compete for 8; indices wrap at 8 |
| `bcache` | `RefCounts`: counts are exact, the list is one ring, and `bget()` panics only when every buffer is in use or pinned. `Coherent`: what a holder reads is the last thing written, whatever was recycled. `NoLostWakeup`. | 2 processes with up to 2 buffers each, 4 blocks on 3 levels, 2 buffers, 1 pinned |
| `pipe` | `Fifo`: implements `Channel`. `FreedUnused`: the page outlives its users. `NoLostWakeup`. `WriteEnds`: a write ends while readers read. | 1 writer, 2 readers, 2 bytes, counters wrap at 4 |
| `inode` | `RefExact`, `LinksExact`: counts equal what refers, so that an open file keeps its inode and `iput()` never sleeps with the table lock. `CacheCurrent`: a valid table entry equals the disk. | 2 processes, 2 names, 3 inodes, 2 table entries, 2 operations |
| `file_data` | `ReadsBack`: reads return what was written. `BlocksExact`: bitmap and inodes agree, in memory and on disk. `CacheClean`: a changed buffer is logged, up to bytes of a failed write. From every image that mkfs builds. | the root directory and 1 file, 4 blocks of 2 bytes, 1 direct and 1 indirect, images of up to 4 bytes |
| `files` | `RefExact`, `BackingExact`: counts of files, inodes and pipe ends are exact at every step, so a file in use stays open. | 2 processes, 3 files, 2 descriptors, 1 pipe |
| `tree` | `TreeShape`: what the root reaches is a tree with right `..`, and `nlink` never undercounts. `OneEntry`: a call changes at most one reachable name. | 4 inodes, 2 names, paths of 2 elements, 3 links |
| `vm` | `PagesExact`: no page leaks or is freed twice, no panic. `MapExact`: a process has the pages below its size. `CopyRight`: every copy in every address space reached is right. | 3 processes, 16 pages of 2 bytes, 4 per process, 2 per table, addresses wrap at 18 |
| `terminal` | `Implements`: the console implements `Tty`. `InOrder`: output leaves complete and in order. `Woken`: no reader or writer sleeps for what is there, and the 16550 does not stall. `TextRight`: modifiers apply to the keys that were pressed while they were in force. | both platforms, 2 readers or 2 writers, input ring of 3 wrapping at 6, output ring of 2 wrapping at 4, 2 scan codes waiting |

**Why these bounds are enough to be interesting.** Each is the smallest at which the
contended case happens: fewer descriptors than three requests need, fewer buffers than
blocks, fewer table entries than inodes, fewer pages than the processes ask for, a disk
that fills up, a write larger than the pipe, a third process (parent, child, init) for
reparenting, and counters whose modulus is a small multiple of the buffer size, as
2^32 is a multiple of 512 and 128. `MaxPid`, `MaxLink`, `MaxPath`, `MaxLen`, `MaxVpn`,
`MaxPins`, `MaxOps`, `MaxContents`, `MaxQueue` and `MaxTyped` bound what the code does
not; they occur in guards. `KillArgs`, `Counts`, `Sizes`, `SerialKeys`, `Users` and
`Machines` are the inputs that are tried. The theorems below hold for every value of
those that belong to the components they are about.

**Symmetry** is used for interchangeable processes, names, blocks or contents, only in
runs without liveness properties.

**Deadlock** is checked except in `pipe` (a pipe that is closed and freed ends),
`disk` and `tree` (a panic stops the machine, which the code does on purpose). In
`bcache` a panic is a step of its own, so the check shows there that processes which
hold one buffer and wait for another never wait in a circle; without the order of
`Level` they do. In `trap` it shows nothing, since a machine-mode timer interrupt is
always possible.

**Fairness.** Only two runs need it. `log`: weak fairness of the steps of commit and
recovery, of `end_op()` and of leaving the commit, because a runnable kernel thread is
scheduled (round robin in `scheduler()`) and operations do not wait for the log once
they are in it. Starting operations and crashing are never forced. `pipe`: weak
fairness of what a process does inside of a call; strong fairness of readers that go on
reading or close, which is an assumption about the programs, not the kernel: without a
reader a writer waits for ever, by design.

## What is proved

The theorems hold for all values of the constants that satisfy the assumption named in
the component's module. None of the properties is inductive; each component has an
invariant that is, and one lemma per action shows that the action keeps the conjuncts
it can disturb.

### The log (`LogProofs`)

From `LogAssumption` (finitely many processes; sizes are natural numbers, and an
operation's reservation fits the log):

- `Invariance`: `Spec => []LogInv`; `TypeCorrect`: `Spec => []TypeOK`, in particular a
  block is pinned at most once and the log never outgrows its space on the disk;
- `WakeupSafe`: a process asleep in `begin_op()` has an operation or a commit left to
  wake it;
- `CommitIsAlone`: `Spec => []CommitAlone`;
- `Refinement`: `Spec => CrashAtomic`, that is, `log.c` implements `AtomicDisk`:
  no crash, also in the middle of commit or of recovery, exposes part of a transaction.

`LogInv` says what each phase relies on. `PhaseInv`: which header is on disk and which
loop index is possible in each phase of commit and recovery. `CountInv`: `outstanding`
is the number of active operations, and the log in memory is empty when there is none.
`PinInv`: exactly the blocks still to be installed are pinned, so the cache cannot drop
them. `DataInv`: the pair of copies the phase relies on is equal (cache and log block
before the header is written; log block and home block for what is installed). For the
refinement, `Durable` changes only in `write_head`, which is `AtomicDisk`'s `Commit`:
before it the header is empty, after it the overlay is what the cache holds; installing
a block replaces a home block by the log block that hid it, so the overlay stays the
same, and clearing the header drops an overlay that equals the home blocks. That is why
recovery may itself crash.

### Processes (`ProcProofs`)

From `ProcAssumption` (at least one slot, one CPU and one pid):

- `SchedLocksThm`: `Spec => []SchedLocks`; `StackSafeThm`: `Spec => []StackSafe`;
- `NoLostWakeupThm`: `Spec => []NoLostWakeup`; `ParentAliveThm`: `Spec => []ParentAlive`.

The locks of `Proc` are taken by one thread and given back by another, on the other side
of `swtch`. The first invariant therefore says of each lock, from where every
CPU and every process is, which CPU must hold it, and of each process on which CPU it
can be. Most actions are one of three kinds (nothing about locks changes, one process
moves within its CPU, one CPU takes or gives back one lock), and each kind has one
lemma. A second invariant adds what a scan of `wakeup()` in progress guarantees: a process
asleep on a true condition, or a parent asleep beside a zombie, has a slot that the scan
has still to come to, and the scanning process holds the condition's lock until it is
done. It also has the invariant on parents that reparenting needs: who has begun to
exit has no children left.

### The buffer cache (`BcacheProofs`)

From `BcacheAssumption` (finitely many processes, at least one buffer):

- `CoherentThm`: `Spec => []Coherent`; `NoLostWakeupThm`: `Spec => []NoLostWakeup`;
- `RefCountsThm`: `Spec => []RefCounts`, for every number of buffers and of blocks that
  the log pins, few buffers included.

The invariant says that the links form one ring through all buffers, given as a function
from positions to buffers; where the newest contents of a block are; and that a
reference count is the number of uses of the buffer plus its pin. The walks of `bget()`
end at the head or at the first buffer that fits, found by taking the least position.
Each of them meets every buffer (`MetAll`), which is why a block is never cached twice,
and why a panic means that no buffer was free (`PanicInv`). That there always is a free
one is not claimed: see [Deviations met](#deviations-met).

### The disk driver (`DiskProofs`)

From `DiskAssumption` (the index width is a multiple of the ring size, as 2^16 is of 8),
for any set of processes:

- `DescOwnedThm`: `Spec => []DescOwned`; `TransferredThm`: `Spec => []Transferred`;
- `OnItsWayThm`: `Spec => []OnItsWay`; `DmaInWindowThm`: `Spec => DmaInWindow`, an
  action property.

`DiskInv` says how the three descriptors of each request are formatted and linked, that
each descriptor is free or in one of these chains, and that the head of a request in
flight is in exactly one of four places: the available ring, the device, the used ring,
or among the finished ones. The part of a ring between its two indices is a queue
without repetitions, whose length is the difference of the indices modulo their width.
It can never fill up, since the other two descriptors of a request are never in a
ring; so an index that wraps cannot be taken for an empty ring. The lemmas on the
actions take two facts about numbers of descriptors as hypotheses (`RoomLeft`,
`FreeCounted`), which the last part proves by counting finite sets.

### Pipes (`PipeProofs`)

From `PipeAssumption` (the counters' modulus is a larger multiple of the buffer size):

- `Refinement`: `Spec => Fifo`, that is, `pipe.c` implements `Channel`;
- `NoLostWakeupThm`: `Spec => []NoLostWakeup`; `FreedUnusedThm`: `Spec => []FreedUnused`.

The invariant bounds the difference of the counters by the buffer size and ties the two
open flags to who holds an end and who is inside of a call. The rest is arithmetic:
positions modulo the counters' width, taken modulo the buffer size, follow each other in
the buffer, and two of them in the window are different bytes.

### Inodes (`InodeProofs`)

From `InodeAssumption` (finitely many processes and names, at least one inode and one
entry of the inode table), with restarts between calls:

- `RefExactThm`: `Spec => []RefExact`; `LinksExactThm`: `Spec => []LinksExact`;
- `CacheCurrentThm`: `Spec => []CacheCurrent`.

`Inv` has one part that holds always (`LinksOK`, on the directory and the disk, and
`OpenOK`), and one, `Running`, that holds until `iget()` panics for want of an entry.
`Running` says which process holds the lock of an entry (`LockOK`), what `ref` counts
(`RefOK`), that two live entries are for different inodes (`Unique`), that a valid entry
agrees with the disk even while it is locked (`CacheOK`), and what each process may rely
on where it is (`UseOK`, `CreateOK`, `UnlinkOK`). The difficult conjunct is `CreateOK`.
`ialloc()` may pick an inode that another process has just freed in `iput()` and of
which that process still holds the table entry; so "nobody else has the inode of a file
that is being created" is false, and the invariant names the one exception: a process
that has only the end of its `iput()` left. `LinksExact` needs the names that stand for
an inode and the calls that have counted a link ahead of its name (`Pending`); both are
sets, and a step changes them by at most one element. These facts about finite sets
(`Counting`) are hypotheses of the lemmas and proved in the last part.

### Pages and address spaces (`VmProofs`)

From `VmAssumption` (finitely many slots; memory holds at least the first process, and
an address space at least a stack and its guard page; the width of addresses is more
than twice the largest address space):

- `PagesExactThm`: `Spec => []PagesExact`; `MapExactThm`: `Spec => []MapExact`;
- `CopyRightThm`: `Spec => []CopyRight`.

`MapExact` says what is mapped between calls; in the middle of one, more or less is, so
it is not inductive. `Inv` says for each point of each loop which pages are mapped: below
the loop's page for `sbrk()` (`OwnOK`, `GrowOK`), those copied so far for the child of
`fork()` (`ForksOK`), and for the image of `exec()` those below its loop's page, together
with the size that the label `bad:` will free, which is the one before the segment in
progress (`LoadOK`). A child belongs to one parent, and a process that is being copied
to is in no call itself. Each of the functions of `vm.c` has a lemma: called with the
pages it expects it does not panic, and what it takes from or adds to an address space
is what it takes from or adds to the free list. A step then changes one process (`One`),
or the parent and child of a fork (`Two`), and keeps the sum of the pages (`Level`).
That the sum changes by what one process changes is again a fact about finite sets,
proved in the last part.

`CopyRight` needs of the states only that a process has no page outside of its address
space; the rest is about the loops of `UserCopy`, for every set of pages, page size,
width of addresses, address and length (`AllCopiesRight`). A turn in a page that is
mapped stays in it, and its arithmetic does not wrap, because user pages end below the
middle of the addresses (`PageTurnIs`); the first page that is not mapped ends the loop,
so what the sum would be there does not matter. The bytes of a turn and of the turns after
it are one run of bytes (`Joins`), and the `'\0'` that ends a string is at the same place
counted from either (`EndsShift`). That the loops, which are recursive functions, exist
(`LoopExists`) and that what they return is right (`LoopRight`) go by induction on the
bytes that are left. The induction used (`Induction`, on the numbers in a set) is a
hypothesis until the last part, where it follows from the library's theorem that `<` is
well-founded on the natural numbers. The invariant quantifies over lengths up to
`MaxLen`, which the theorem leaves arbitrary.

### The terminal (`TerminalProofs`)

From `ConsoleAssumption` and `TerminalAssumption` (the index widths are larger multiples
of the ring sizes, as 2^32 is of 128 and 32; the classes of keys are disjoint), for any
sets of readers, writers and keys:

- `ImplementsThm`: `TerminalSpec => Implements`, that is, `console.c` above either
  driver implements `Tty`;
- `WokenThm`: `TerminalSpec => []Woken`; `InOrderThm`: `TerminalSpec => []InOrder`;
- `TextRightThm`: `TerminalSpec => []TextRight`.

The proofs begin with rings in general: what is between two wrapping indices is a
sequence; writing behind its end appends, advancing its beginning takes the first
element, moving its end back drops the last, whether or not an index or a place wraps.
`RingInv` then says that the three indices follow each other around the ring, at most
its size apart, and that the line being edited holds no newline. The last part is what
makes `^U`, which searches backwards for a newline, erase the whole line and nothing
else. `ReadInv` says that who sleeps has nothing to read and was not killed.
`UartInv` adds to the properties of `Uart` that its ring is within its bounds and that
what is pending is the device's character in front of the ring's: an echo, which goes
past the ring, waits until the device is empty and so never comes between the two.

`TextRight` says what the handler *will* give for the scan codes that still wait, as a
function (`Outcome`) defined by recursion on the queue. The last part shows by
induction on the length of the queue that this function exists and is the list of
outcomes of the handler's steps; that a scan code put in at the end leaves the
outcomes before it as they are; and that handling the first one leaves the outcome of
the whole the same. With this `TextRight` is inductive. A flag of the handler is on
exactly while its modifier is in force (`InForce`): one of the two keys is down, and
neither was lifted since the last press of the two (`ForceOn`, `ForceOff`).

## What is only model-checked

`Trap`, `FileData` and `Mkfs`, `Files` and `Tree` are checked on the instances above;
nothing is proved of them. For `Tree` a proof meets an obstacle: what has a path from the
root is defined by recursion on the length of the path, so every step that moves a name
needs an induction. For the others nothing is known to stand in the way; their
properties rest on the bounded checks alone. Of the proved components these remain with
TLC: `SleeperWoken` of `Log` and `WriteEnds` of `Pipe`, since liveness under fairness and
`ENABLED` are out of the prover's reach.

## Deviations met

Disagreements between the code and what a comment, an assertion or a document of the
repository says were met while modelling, and limits that a reader may not expect. The
models follow the code; the properties hold up to these cases, and `PROJECT.json` has the details under the hazard of the line.

- `fs.c:522`: `bio.c:10` asks that a changed buffer be written. When the source of a
  `write()` crosses from a mapped into an unmapped page, `copyin()` has put the first
  bytes into the buffer before it fails, and `writei()` releases the buffer without
  logging it. `CacheClean` and `ReadsBack` leave out those bytes, of which no caller was
  told that they were written.
- `platform/qemu/platform.c:272`: the status byte is tested after the descriptors were
  freed and the lock released, so another request may have overwritten it; the result is
  a spurious panic (`check` in `Disk`).
- `log.c:219`: an operation may reserve 16 blocks (`MAXOPBLOCKS`) but the log holds 15.
  Today's operations write fewer.
- `bio.c:89`: `bget()` panics when no buffer is free, and the build has no more than
  `NBUF` = 16 of them. The log may pin up to 15 blocks, and each of 8 processes hold up to
  two buffers, reads outside of any log operation (`fileread()`) included; so there can
  be a shortage. `RefCounts` shows that the panic means just that.
- `platform/nemu/platform.c:188`: the two shift keys set one flag, and so do the two
  control keys. With both shift keys down, lifting one of them ends shift although the
  other is still held, until a shift key is pressed again. No document promises more.
  `TextRight` calls a modifier in force until one of its keys is lifted, which is what
  the driver gives, and not as long as one of them is down.
- `proc.c:592`: `kill(0)` matches a free slot, and marks the next process to use it.
- `fs.c:672`: `..` of a removed directory that is still somebody's current directory
  may name a free inode, on which `ilock()` panics (`Tree` models the panic).
- `sysfile.c:256`: files can be created in a removed directory, and then keep a link
  count without a name; `TreeShape` claims only that counts are not too small.
- `mkfs.c:166`: a root directory whose entries fill a block exactly gets a size beyond
  its last block; `MkfsAssumption` leaves that case out.
- `platform/nemu/platform.c:287`: the registers of the NEMU disk are stored without a
  lock while a timer interrupt may switch processes. The NEMU disk is not modelled.

## What is not modelled

- Boot, the kernel page table, PLIC and timer set-up: straight-line code or device
  details. Models assume its result: an interrupt may come whenever interrupts are on.
- In `Trap`: device interrupts, which take the same way as the timer's and are in
  `Terminal` and `Disk`; exceptions and the exit of a killed process, which are in
  `Proc`; reading and writing `sip` is one access.
- The NEMU disk: five register stores, see above.
- `exec()`'s argument stack, the checks of the ELF header and `loadseg()`; `Vm` has its
  address spaces and error paths.
- Formatting and string functions; the splitting of path strings (`skipelem()`);
  `stati()` and `fstat()`, which only read; `procdump()`, which reads the process table
  without locks and prints it past the ring of the UART, as the echo is (`Echoes` counts
  no characters for `^P`).
- In `FileData`: `readi()` is the bytes it returns, and not its loop over blocks; the
  wrap of `off + n` (`fs.c:477`) and a failing `either_copyout()` (`fs.c:488`), which
  return without a change of state, are left out. The panic of `bfree()` (`fs.c:100`) is
  not a step: `BlocksExact` says that the blocks it is called for are in the bitmap.
- In `Pipe`: a `kill()` that sets `killed` while its target is inside of a critical
  section. With `NCPU` 1 there is none, as interrupts are off in the section; with more
  CPUs `pipewrite()` could see it in the middle of its loop.
- `kernel/virtio_disk.c`, `kernel/uart.c`, `kernel/ramdisk.c`: not compiled.
  `kernel/sdcard.c`: compiled, never called.
- User programs: `malloc()`, the shell, `init` and the commands are clients of the
  system calls; `init` is the reaper in `Proc`.
- Memory ordering below the level of locks (`__sync_synchronize()`): steps are
  sequentially consistent.
- An interrupt's `wakeup()` on an idle CPU is one step in `Proc` (`intr_wakeup`); the
  slot-by-slot scan is modelled for wakeups by processes.
