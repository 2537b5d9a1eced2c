--------------------------------- MODULE Pipe ---------------------------------
(***************************************************************************)
(* One pipe of kernel/pipe.c, shared by readers and writers that inherited *)
(* its ends through fork().  A step is a critical section under pi->lock:  *)
(* from taking the lock, or being woken in sleep(), to sleeping again or   *)
(* returning.  kill() and close() come between sections.                   *)
(***************************************************************************)
EXTENDS Integers, Sequences, FiniteSets

CONSTANTS
  Readers, Writers,  \* processes that hold the read / the write end
  PIPESIZE,
  UintMod,           \* width of the counters (2^32): a multiple of PIPESIZE
  Counts             \* byte counts given to read() and write()

Procs == Readers \cup Writers

ASSUME PipeAssumption ==
  /\ Readers \cap Writers = {} /\ Readers # {} /\ Writers # {}
  /\ PIPESIZE \in Nat \ {0}
  /\ UintMod \in Nat \ {0} /\ UintMod % PIPESIZE = 0 /\ UintMod > PIPESIZE
  /\ Counts \subseteq Nat

VARIABLES
  data, nread, nwrite, readopen, writeopen,  \* struct pipe
  freed,      \* kfree(pi) was called
  holders,    \* processes whose descriptor for the pipe is still open
  killed,
  pc,         \* "idle", "run" (in the call, runnable) or "sleep"
  n, i,       \* count and progress of the current call
  eof         \* some read() reported end of file

pipeVars == <<data, nread, nwrite, readopen, writeopen>>
vars == <<pipeVars, freed, holders, killed, pc, n, i, eof>>

Byte(p, k) == <<p, k % 2>>
Bytes == {Byte(p, k) : p \in Writers, k \in 0 .. 1}
NoByte == <<>>
Used == (nwrite - nread) % UintMod

\* Mutation: one byte too many fits.
SpaceOff == PIPESIZE - Used + 1

\* Room left: the pipe is full when nwrite == nread + PIPESIZE.
Space == PIPESIZE - Used
Smaller(x, y) == IF x < y THEN x ELSE y

Init ==
  /\ data = [j \in 0 .. PIPESIZE - 1 |-> NoByte]
  /\ nread = 0 /\ nwrite = 0 /\ readopen = TRUE /\ writeopen = TRUE
  /\ freed = FALSE /\ holders = Procs
  /\ killed = [p \in Procs |-> FALSE]
  /\ pc = [p \in Procs |-> "idle"]
  /\ n = [p \in Procs |-> 0] /\ i = [p \in Procs |-> 0]
  /\ eof = FALSE

\* Mutation: the wakeup is forgotten.
NoWake(f, set) == f

\* wakeup(&pi->nread) wakes the sleeping readers, wakeup(&pi->nwrite) the writers.
Wake(f, set) == [p \in Procs |-> IF p \in set /\ f[p] = "sleep" THEN "run" ELSE f[p]]

call(p) ==
  /\ pc[p] = "idle" /\ p \in holders /\ ~killed[p]
  /\ \E m \in Counts : n' = [n EXCEPT ![p] = m]
  /\ i' = [i EXCEPT ![p] = 0]
  /\ pc' = [pc EXCEPT ![p] = "run"]
  /\ UNCHANGED <<pipeVars, freed, holders, killed, eof>>

Return(p, f) ==
  /\ pc' = [f EXCEPT ![p] = "idle"]
  /\ n' = [n EXCEPT ![p] = 0] /\ i' = [i EXCEPT ![p] = 0]

-----------------------------------------------------------------------------
(* pipewrite *)

\* The read end is closed, or the writer was killed, with bytes left to write.
write_fail(p) ==
  /\ p \in Writers /\ pc[p] = "run" /\ i[p] < n[p]
  /\ ~readopen \/ killed[p]
  /\ Return(p, pc)
  /\ UNCHANGED <<pipeVars, freed, holders, killed, eof>>

\* Store k bytes at nwrite, modulo the buffer and the counter's width.
Store(p, k) ==
  /\ data' = [j \in 0 .. PIPESIZE - 1 |->
       LET d == (j - nwrite) % PIPESIZE IN IF d < k THEN Byte(p, i[p] + d) ELSE data[j]]
  /\ nwrite' = (nwrite + k) % UintMod

\* Copy until done or full.  A bad user address ends the loop early; on a full
\* buffer the readers are woken before the writer sleeps.
pipewrite(p) ==
  /\ p \in Writers /\ pc[p] = "run"
  /\ i[p] < n[p] => readopen /\ ~killed[p]
  /\ \E k \in 0 .. Smaller(n[p] - i[p], Space) :
       /\ Store(p, k)
       /\ IF i[p] + k < n[p] /\ Used + k = PIPESIZE
          THEN /\ i' = [i EXCEPT ![p] = @ + k] /\ UNCHANGED n
               /\ pc' = [Wake(pc, Readers) EXCEPT ![p] = "sleep"]
          ELSE Return(p, Wake(pc, Readers))
  /\ UNCHANGED <<nread, readopen, writeopen, freed, holders, killed, eof>>

-----------------------------------------------------------------------------
(* piperead *)

\* Nothing to read yet: return -1 when killed, else sleep.
read_empty(p) ==
  /\ p \in Readers /\ pc[p] = "run"
  /\ nread = nwrite /\ writeopen
  /\ IF killed[p] THEN Return(p, pc) ELSE pc' = [pc EXCEPT ![p] = "sleep"] /\ UNCHANGED <<n, i>>
  /\ UNCHANGED <<pipeVars, freed, holders, killed, eof>>

\* Take what there is, up to n bytes, and wake the writers; with a bad user
\* address fewer (the byte whose copyout() fails is gone).
piperead(p) ==
  /\ p \in Readers /\ pc[p] = "run"
  /\ nread # nwrite \/ ~writeopen
  /\ \E k \in 0 .. Smaller(n[p], Used) :
       /\ k = 0 => n[p] = 0 \/ Used = 0
       /\ nread' = (nread + k) % UintMod
       /\ data' = [j \in 0 .. PIPESIZE - 1 |->
            IF (j - nread) % PIPESIZE < k THEN NoByte ELSE data[j]]  \* dead bytes
  /\ eof' = (eof \/ (n[p] > 0 /\ Used = 0))
  /\ Return(p, Wake(pc, Writers))
  /\ UNCHANGED <<nwrite, readopen, writeopen, freed, holders, killed>>

-----------------------------------------------------------------------------
(* Closing and killing *)

\* Mutation: the pipe is freed with its first end.
pipeclose_first(p) ==
  /\ p \in holders /\ pc[p] = "idle"
  /\ holders' = holders \ {p}
  /\ readopen' = (holders' \cap Readers # {})
  /\ writeopen' = (holders' \cap Writers # {})
  /\ pc' = IF readopen' # readopen THEN Wake(pc, Writers)
           ELSE IF writeopen' # writeopen THEN Wake(pc, Readers) ELSE pc
  /\ freed' = (~readopen' \/ ~writeopen')
  /\ UNCHANGED <<data, nread, nwrite, killed, n, i, eof>>

\* Mutation: closing the last read end leaves the writers asleep.
pipeclose_silent(p) ==
  /\ p \in holders /\ pc[p] = "idle"
  /\ holders' = holders \ {p}
  /\ readopen' = (holders' \cap Readers # {})
  /\ writeopen' = (holders' \cap Writers # {})
  /\ pc' = IF writeopen' # writeopen THEN Wake(pc, Readers) ELSE pc
  /\ freed' = (~readopen' /\ ~writeopen')
  /\ UNCHANGED <<data, nread, nwrite, killed, n, i, eof>>

\* close() or exit(): the last descriptor of an end calls pipeclose(), and the
\* last end frees the pipe.
pipeclose(p) ==
  /\ p \in holders /\ pc[p] = "idle"
  /\ holders' = holders \ {p}
  /\ readopen' = (holders' \cap Readers # {})
  /\ writeopen' = (holders' \cap Writers # {})
  /\ pc' = IF readopen' # readopen THEN Wake(pc, Writers)
           ELSE IF writeopen' # writeopen THEN Wake(pc, Readers) ELSE pc
  /\ freed' = (~readopen' /\ ~writeopen')
  /\ UNCHANGED <<data, nread, nwrite, killed, n, i, eof>>

kill(p) ==
  /\ p \in holders /\ ~killed[p]
  /\ killed' = [killed EXCEPT ![p] = TRUE]
  /\ pc' = Wake(pc, {p})
  /\ UNCHANGED <<pipeVars, freed, holders, n, i, eof>>

Section(p) == write_fail(p) \/ pipewrite(p) \/ read_empty(p) \/ piperead(p)

Next == \E p \in Procs : call(p) \/ Section(p) \/ pipeclose(p) \/ kill(p)

Spec == Init /\ [][Next]_vars

-----------------------------------------------------------------------------
(* Properties *)

\* Every variable has its type.
TypeOK ==
  /\ data \in [0 .. PIPESIZE - 1 -> Bytes \cup {NoByte}]
  /\ nread \in 0 .. UintMod - 1 /\ nwrite \in 0 .. UintMod - 1
  /\ readopen \in BOOLEAN /\ writeopen \in BOOLEAN /\ freed \in BOOLEAN /\ eof \in BOOLEAN
  /\ holders \subseteq Procs /\ killed \in [Procs -> BOOLEAN]
  /\ pc \in [Procs -> {"idle", "run", "sleep"}]
  /\ n \in [Procs -> Counts \cup {0}] /\ i \in [Procs -> Nat]
  /\ \A p \in Procs : i[p] <= n[p]

\* The bytes between nread and nwrite.
Contents == [j \in 1 .. Used |-> data[(nread + j - 1) % PIPESIZE]]

Ch == INSTANCE Channel WITH
        Capacity <- PIPESIZE, queue <- Contents, ropen <- readopen, wopen <- writeopen

\* The pipe implements the bounded queue: order, no loss and no duplication
\* across the wrap-around of the buffer and of the 32-bit counters, no write
\* after the read end closed, end of file only after the last byte.
Fifo == Ch!Spec

\* Nobody sleeps without a reason: a sleeping writer has a full buffer and a
\* reader that can empty it, a sleeping reader an empty one and a writer; neither
\* has been killed.
NoLostWakeup ==
  \A p \in Procs : pc[p] = "sleep" =>
    /\ ~killed[p]
    /\ p \in Writers => Used = PIPESIZE /\ readopen
    /\ p \in Readers => Used = 0 /\ writeopen

\* The pipe's page is freed only when no process is inside a call on it.
FreedUnused == TypeOK /\ (freed => \A p \in Procs : pc[p] = "idle" /\ p \notin holders)

-----------------------------------------------------------------------------
(* Fairness: a process in a call is scheduled and takes pi->lock; readers    *)
(* keep reading, with a positive count, until they close.                    *)
ReadOn(p) == call(p) /\ n'[p] > 0

FairSpec ==
  /\ Spec
  /\ \A p \in Procs : WF_vars(Section(p))
  /\ \A p \in Readers : SF_vars(ReadOn(p) \/ (pipeclose(p) /\ killed[p]))

\* A write() ends, however much larger than the buffer it is, as long as some
\* reader reads or all of them close.
WriteEnds == \A p \in Writers : pc[p] # "idle" ~> pc[p] = "idle"
=============================================================================
