-------------------------------- MODULE Files --------------------------------
(***************************************************************************)
(* The file table of kernel/file.c and the descriptors that refer to it:   *)
(* open, pipe, dup, close, read, fork and exit, with every way in which    *)
(* they can fail.  A step is a critical section under ftable.lock, or work *)
(* on data of the process alone.                                           *)
(***************************************************************************)
EXTENDS Integers, Sequences, FiniteSets, FiniteSetsExt

CONSTANTS
  Procs, Init0,   \* process slots, and the one of the first process
  NFILE, NOFILE,  \* size of the file table; descriptors of a process
  NPIPE,          \* bound: pages that kalloc() has for pipes
  Inodes, Root    \* inodes, and the one every process has as its cwd

ASSUME FilesAssumption ==
  /\ Init0 \in Procs /\ Root \in Inodes
  /\ {NFILE, NOFILE, NPIPE} \subseteq Nat \ {0}

Slots == 1 .. NFILE
Fds == 0 .. NOFILE - 1
Pipes == 1 .. NPIPE

(* What a struct file stands for: nothing, an inode, or an end of a pipe. *)
FD_NONE == <<"none">>
FD_INODE(i) == <<"inode", i>>
FD_PIPE(k, writable) == <<"pipe", k, writable>>

VARIABLES
  ref, type,    \* ftable.file
  ofile,        \* p->ofile: slot of the file table, or 0
  iref,         \* references to inodes (ip->ref)
  pipe,         \* open ends of every pipe; {} when its page is free
  pc,           \* where a process is; "none" for a free slot
  rf, wf, ip,   \* its local variables
  cq, ff,       \* files it must still fileclose(), and that call's copy
  panicked

procVars == <<pc, rf, wf, ip>>
vars == <<ref, type, ofile, iref, pipe, procVars, cq, ff, panicked>>

Init ==
  /\ ref = [f \in Slots |-> 0] /\ type = [f \in Slots |-> FD_NONE]
  /\ ofile = [p \in Procs |-> [d \in Fds |-> 0]]
  /\ iref = [i \in Inodes |-> IF i = Root THEN 1 ELSE 0]
  /\ pipe = [k \in Pipes |-> {}]
  /\ pc = [p \in Procs |-> IF p = Init0 THEN "user" ELSE "none"]
  /\ rf = [p \in Procs |-> 0] /\ wf = [p \in Procs |-> 0] /\ ip = [p \in Procs |-> 0]
  /\ cq = [p \in Procs |-> <<>>] /\ ff = [p \in Procs |-> FD_NONE]
  /\ panicked = FALSE

Goto(p, l) == pc' = [pc EXCEPT ![p] = l]
\* p is at l and has nothing left to close.
At(p, l) == ~panicked /\ pc[p] = l /\ cq[p] = <<>> /\ ff[p] = FD_NONE

Unused == {f \in Slots : ref[f] = 0}
First(s) == CHOOSE x \in s : \A y \in s : x <= y
FreeFds(p) == {d \in Fds : ofile[p][d] = 0}

\* filealloc() takes the first unused slot, or returns 0.
filealloc(var, p) ==
  IF Unused = {} THEN UNCHANGED ref /\ var' = [var EXCEPT ![p] = 0]
  ELSE ref' = [ref EXCEPT ![First(Unused)] = 1] /\ var' = [var EXCEPT ![p] = First(Unused)]

iput(i) == iref' = [iref EXCEPT ![i] = @ - 1]

-----------------------------------------------------------------------------
(* fileclose() *)

\* Mutation: the first close frees the slot.
fileclose_early(p) ==
  LET f == Head(cq[p]) IN
  /\ ~panicked /\ ff[p] = FD_NONE /\ cq[p] # <<>>
  /\ cq' = [cq EXCEPT ![p] = Tail(@)]
  /\ ref' = [ref EXCEPT ![f] = 0]
  /\ ff' = [ff EXCEPT ![p] = type[f]]
  /\ type' = [type EXCEPT ![f] = FD_NONE]
  /\ UNCHANGED <<ofile, iref, pipe, procVars, panicked>>

\* Under the lock: drop a reference; the last one copies and frees the slot.
fileclose(p) ==
  LET f == Head(cq[p]) IN
  /\ ~panicked /\ ff[p] = FD_NONE /\ cq[p] # <<>>
  /\ cq' = [cq EXCEPT ![p] = Tail(@)]
  /\ IF ref[f] < 1 THEN panicked' = TRUE /\ UNCHANGED <<ref, type, ff>>
     ELSE /\ ref' = [ref EXCEPT ![f] = @ - 1]
          /\ IF ref[f] = 1
             THEN /\ ff' = [ff EXCEPT ![p] = type[f]]
                  /\ type' = [type EXCEPT ![f] = FD_NONE]
             ELSE UNCHANGED <<type, ff>>
          /\ UNCHANGED panicked
  /\ UNCHANGED <<ofile, iref, pipe, procVars>>

\* After it: pipeclose() or iput() on the copy.
fileclose_last(p) ==
  /\ ~panicked /\ ff[p] # FD_NONE
  /\ ff' = [ff EXCEPT ![p] = FD_NONE]
  /\ IF ff[p][1] = "pipe"
     THEN pipe' = [pipe EXCEPT ![ff[p][2]] = @ \ {ff[p][3]}] /\ UNCHANGED iref
     ELSE iput(ff[p][2]) /\ UNCHANGED pipe
  /\ UNCHANGED <<ref, type, ofile, procVars, cq, panicked>>

-----------------------------------------------------------------------------
(* open() *)

\* namei() or create() returns an inode with a reference.
sys_open(p) ==
  /\ At(p, "user")
  /\ \E i \in Inodes : iref' = [iref EXCEPT ![i] = @ + 1] /\ ip' = [ip EXCEPT ![p] = i]
  /\ Goto(p, "open_file")
  /\ UNCHANGED <<ref, type, ofile, pipe, rf, wf, cq, ff, panicked>>

open_file(p) ==
  /\ At(p, "open_file")
  /\ filealloc(rf, p)
  /\ Goto(p, IF Unused = {} THEN "open_bad" ELSE "open_fd")
  /\ UNCHANGED <<type, ofile, iref, pipe, wf, ip, cq, ff, panicked>>

\* Mutation: without a descriptor open() forgets iunlockput().
open_fd_put(p) ==
  /\ At(p, "open_fd")
  /\ IF FreeFds(p) = {}
     THEN /\ cq' = [cq EXCEPT ![p] = <<rf[p]>>] /\ Goto(p, "user")
          /\ UNCHANGED <<type, ofile>>
     ELSE /\ ofile' = [ofile EXCEPT ![p][First(FreeFds(p))] = rf[p]]
          /\ type' = [type EXCEPT ![rf[p]] = FD_INODE(ip[p])]
          /\ Goto(p, "user") /\ UNCHANGED cq
  /\ rf' = [rf EXCEPT ![p] = 0] /\ ip' = [ip EXCEPT ![p] = 0]
  /\ UNCHANGED <<ref, iref, pipe, wf, ff, panicked>>

\* fdalloc(), and the fields of the file; without a descriptor the new file is
\* closed while its type is still FD_NONE.
open_fd(p) ==
  /\ At(p, "open_fd")
  /\ IF FreeFds(p) = {}
     THEN /\ cq' = [cq EXCEPT ![p] = <<rf[p]>>] /\ Goto(p, "open_bad")
          /\ UNCHANGED <<type, ofile, ip>>
     ELSE /\ ofile' = [ofile EXCEPT ![p][First(FreeFds(p))] = rf[p]]
          /\ type' = [type EXCEPT ![rf[p]] = FD_INODE(ip[p])]
          /\ ip' = [ip EXCEPT ![p] = 0]
          /\ Goto(p, "user") /\ UNCHANGED cq
  /\ rf' = [rf EXCEPT ![p] = 0]
  /\ UNCHANGED <<ref, iref, pipe, wf, ff, panicked>>

\* iunlockput(), end_op(), and return -1.
open_bad(p) ==
  /\ At(p, "open_bad")
  /\ iput(ip[p]) /\ ip' = [ip EXCEPT ![p] = 0] /\ Goto(p, "user")
  /\ UNCHANGED <<ref, type, ofile, pipe, rf, wf, cq, ff, panicked>>

-----------------------------------------------------------------------------
(* pipe() *)

sys_pipe(p) ==
  /\ At(p, "user")
  /\ filealloc(rf, p)
  /\ Goto(p, IF Unused = {} THEN "user" ELSE "pipe_file")
  /\ UNCHANGED <<type, ofile, iref, pipe, wf, ip, cq, ff, panicked>>

\* Give up: close both files (the ones that there are) and return -1.
PipeBad(p, files) ==
  /\ cq' = [cq EXCEPT ![p] = files]
  /\ rf' = [rf EXCEPT ![p] = 0] /\ wf' = [wf EXCEPT ![p] = 0]
  /\ Goto(p, "user")

pipe_file(p) ==
  /\ At(p, "pipe_file")
  /\ IF Unused = {} THEN PipeBad(p, <<rf[p]>>) /\ UNCHANGED ref
     ELSE filealloc(wf, p) /\ Goto(p, "pipe_page") /\ UNCHANGED <<rf, cq>>
  /\ UNCHANGED <<type, ofile, iref, pipe, ip, ff, panicked>>

\* kalloc(), and the fields of both files.
pipe_page(p) ==
  LET none == {k \in Pipes : pipe[k] = {}} IN
  /\ At(p, "pipe_page")
  /\ IF none = {} THEN PipeBad(p, <<rf[p], wf[p]>>) /\ UNCHANGED <<type, pipe>>
     ELSE LET k == First(none) IN
          /\ pipe' = [pipe EXCEPT ![k] = BOOLEAN]
          /\ type' = [type EXCEPT ![rf[p]] = FD_PIPE(k, FALSE), ![wf[p]] = FD_PIPE(k, TRUE)]
          /\ Goto(p, "pipe_fds") /\ UNCHANGED <<rf, wf, cq>>
  /\ UNCHANGED <<ref, ofile, iref, ip, ff, panicked>>

\* Two descriptors, and copyout() of them to a good or a bad address.
pipe_fds(p) ==
  /\ At(p, "pipe_fds")
  /\ \/ LET d0 == First(FreeFds(p))
            d1 == First(FreeFds(p) \ {d0})
        IN /\ Cardinality(FreeFds(p)) >= 2
           /\ ofile' = [ofile EXCEPT ![p][d0] = rf[p], ![p][d1] = wf[p]]
           /\ rf' = [rf EXCEPT ![p] = 0] /\ wf' = [wf EXCEPT ![p] = 0]
           /\ Goto(p, "user") /\ UNCHANGED cq
     \/ PipeBad(p, <<rf[p], wf[p]>>) /\ UNCHANGED ofile
  /\ UNCHANGED <<ref, type, iref, pipe, ip, ff, panicked>>

-----------------------------------------------------------------------------
(* dup(), close(), read() *)

\* filedup() of the file in rf.
filedup(p) ==
  IF ref[rf[p]] < 1 THEN panicked' = TRUE /\ UNCHANGED ref
  ELSE ref' = [ref EXCEPT ![rf[p]] = @ + 1] /\ UNCHANGED panicked

\* fdalloc() comes before filedup().
sys_dup(p) ==
  /\ At(p, "user") /\ FreeFds(p) # {}
  /\ \E d \in Fds \ FreeFds(p) :
       /\ rf' = [rf EXCEPT ![p] = ofile[p][d]]
       /\ ofile' = [ofile EXCEPT ![p][First(FreeFds(p))] = ofile[p][d]]
  /\ Goto(p, "dup")
  /\ UNCHANGED <<ref, type, iref, pipe, wf, ip, cq, ff, panicked>>

dup_ref(p) ==
  /\ At(p, "dup")
  /\ filedup(p) /\ rf' = [rf EXCEPT ![p] = 0] /\ Goto(p, "user")
  /\ UNCHANGED <<type, ofile, iref, pipe, wf, ip, cq, ff>>

\* The descriptor is cleared first, then fileclose().
sys_close(p) ==
  /\ At(p, "user")
  /\ \E d \in Fds \ FreeFds(p) :
       /\ ofile' = [ofile EXCEPT ![p][d] = 0]
       /\ cq' = [cq EXCEPT ![p] = <<ofile[p][d]>>]
  /\ UNCHANGED <<ref, type, iref, pipe, procVars, ff, panicked>>

\* fileread() and filewrite() use the file without a reference of their own.
sys_read(p) ==
  /\ At(p, "user")
  /\ \E d \in Fds \ FreeFds(p) : rf' = [rf EXCEPT ![p] = ofile[p][d]]
  /\ Goto(p, "read")
  /\ UNCHANGED <<ref, type, ofile, iref, pipe, wf, ip, cq, ff, panicked>>

\* They panic on a file of no type.
read_done(p) ==
  /\ At(p, "read")
  /\ panicked' = (type[rf[p]] = FD_NONE)
  /\ rf' = [rf EXCEPT ![p] = 0] /\ Goto(p, "user")
  /\ UNCHANGED <<ref, type, ofile, iref, pipe, wf, ip, cq, ff>>

-----------------------------------------------------------------------------
(* fork() and exit(): one descriptor per step *)

\* allocproc() gives the slot q (kept in ip); the descriptors are copied from 0 on.
fork(p, q) ==
  /\ At(p, "user") /\ pc[q] = "none"
  /\ pc' = [pc EXCEPT ![p] = "fork", ![q] = "embryo"]
  /\ ip' = [ip EXCEPT ![p] = q]
  /\ UNCHANGED <<ref, type, ofile, iref, pipe, rf, wf, cq, ff, panicked>>

\* Descriptors of p that its child does not have yet.
Uncopied(p) == {d \in Fds \ FreeFds(p) : ofile[ip[p]][d] = 0}

fork_fd(p) ==
  LET d == First(Uncopied(p))
      f == ofile[p][d]
  IN /\ At(p, "fork") /\ Uncopied(p) # {}
     /\ IF ref[f] < 1 THEN panicked' = TRUE /\ UNCHANGED ref
        ELSE ref' = [ref EXCEPT ![f] = @ + 1] /\ UNCHANGED panicked
     /\ ofile' = [ofile EXCEPT ![ip[p]][d] = f]
     /\ UNCHANGED <<type, iref, pipe, procVars, cq, ff>>

\* idup(p->cwd), and the child is RUNNABLE.
fork_done(p) ==
  /\ At(p, "fork") /\ Uncopied(p) = {}
  /\ iref' = [iref EXCEPT ![Root] = @ + 1]
  /\ pc' = [pc EXCEPT ![p] = "user", ![ip[p]] = "user"]
  /\ ip' = [ip EXCEPT ![p] = 0]
  /\ UNCHANGED <<ref, type, ofile, pipe, rf, wf, cq, ff, panicked>>

\* exit() calls fileclose() first and clears the descriptor (in ip) afterwards.
exit(p) ==
  /\ At(p, "user") /\ p # Init0
  /\ Goto(p, "exit")
  /\ UNCHANGED <<ref, type, ofile, iref, pipe, rf, wf, ip, cq, ff, panicked>>

exit_fd(p) ==
  LET d == First(Fds \ FreeFds(p)) IN
  /\ At(p, "exit") /\ FreeFds(p) # Fds
  /\ cq' = [cq EXCEPT ![p] = <<ofile[p][d]>>]
  /\ Goto(p, "exit_clear")
  /\ UNCHANGED <<ref, type, ofile, iref, pipe, rf, wf, ip, ff, panicked>>

exit_clear(p) ==
  /\ At(p, "exit_clear")
  /\ ofile' = [ofile EXCEPT ![p][First(Fds \ FreeFds(p))] = 0]
  /\ Goto(p, "exit")
  /\ UNCHANGED <<ref, type, iref, pipe, rf, wf, ip, cq, ff, panicked>>

\* iput(p->cwd); the parent's wait() frees the slot.
exit_done(p) ==
  /\ At(p, "exit") /\ FreeFds(p) = Fds
  /\ iput(Root) /\ Goto(p, "none")
  /\ UNCHANGED <<ref, type, ofile, pipe, rf, wf, ip, cq, ff, panicked>>

Next ==
  \E p \in Procs :
    \/ fileclose(p) \/ fileclose_last(p)
    \/ sys_open(p) \/ open_file(p) \/ open_fd(p) \/ open_bad(p)
    \/ sys_pipe(p) \/ pipe_file(p) \/ pipe_page(p) \/ pipe_fds(p)
    \/ sys_dup(p) \/ dup_ref(p) \/ sys_close(p) \/ sys_read(p) \/ read_done(p)
    \/ \E q \in Procs : fork(p, q)
    \/ fork_fd(p) \/ fork_done(p)
    \/ exit(p) \/ exit_fd(p) \/ exit_clear(p) \/ exit_done(p)

Spec == Init /\ [][Next]_vars

-----------------------------------------------------------------------------
(* Properties *)

Types == {FD_NONE} \cup {FD_INODE(i) : i \in Inodes}
         \cup {FD_PIPE(k, w) : k \in Pipes, w \in BOOLEAN}

\* Every variable has its type.
TypeOK ==
  /\ ref \in [Slots -> Nat] /\ type \in [Slots -> Types]
  /\ ofile \in [Procs -> [Fds -> 0 .. NFILE]]
  /\ iref \in [Inodes -> Nat] /\ pipe \in [Pipes -> SUBSET BOOLEAN]
  /\ ff \in [Procs -> Types] /\ panicked \in BOOLEAN

\* References to file f that process p accounts for: its descriptors, the files
\* of a call in progress and the ones it is about to close; a descriptor that
\* dup() has not counted yet or that exit() has closed already does not count.
RefsOf(p, f) ==
  Cardinality({d \in Fds : ofile[p][d] = f})
  + (IF pc[p] \in {"open_fd", "pipe_file", "pipe_page", "pipe_fds"} /\ f \in {rf[p], wf[p]}
     THEN 1 ELSE 0)
  + (IF pc[p] # "exit_clear" /\ \E k \in 1 .. Len(cq[p]) : cq[p][k] = f THEN 1 ELSE 0)
  - (IF pc[p] = "dup" /\ rf[p] = f THEN 1 ELSE 0)
  - (IF pc[p] = "exit_clear" /\ cq[p] = <<>> /\ ofile[p][First(Fds \ FreeFds(p))] = f
     THEN 1 ELSE 0)

\* The count of every file is the number of its references, so that it is
\* released by exactly the last close, also after calls that failed half-way, and
\* filedup(), fileclose() and fileread() never meet the files that they panic on.
RefExact ==
  TypeOK /\ ~panicked
  /\ \A f \in Slots : ref[f] = MapThenSumSet(LAMBDA p : RefsOf(p, f), Procs)

\* Files, cwds, and an open() or a last close in progress, that stand for inode i.
InodeUsers(i) ==
  Cardinality({f \in Slots : type[f] = FD_INODE(i)})
  + Cardinality({p \in Procs : ff[p] = FD_INODE(i)})
  + Cardinality({p \in Procs : pc[p] \in {"open_file", "open_fd", "open_bad"} /\ ip[p] = i})
  + (IF i = Root THEN Cardinality({p \in Procs : pc[p] \notin {"none", "embryo"}}) ELSE 0)

PipeUsers(k, w) ==
  Cardinality({f \in Slots : type[f] = FD_PIPE(k, w)})
  + Cardinality({p \in Procs : ff[p] = FD_PIPE(k, w)})

\* A file that a process reads or writes stays what it was, with an open pipe or a
\* referenced inode behind it, although the call holds no reference.
UsePinned ==
  \A p \in Procs : pc[p] = "read" =>
    LET t == type[rf[p]] IN
    /\ ref[rf[p]] > 0 /\ t # FD_NONE
    /\ t[1] = "pipe" => t[3] \in pipe[t[2]]
    /\ t[1] = "inode" => iref[t[2]] > 0

\* What is behind the files is counted exactly: an inode has a reference for each
\* of its users, and an end of a pipe is open as long as its one file stands for it
\* or the last close is on its way.  In particular the fileclose() of a file that
\* open() gives up, inside of a log operation, neither drops an inode nor begins a
\* second operation.  What a read or a write in progress uses is therefore there.
BackingExact ==
  UsePinned /\ (~panicked =>
    /\ \A i \in Inodes : iref[i] = InodeUsers(i)
    /\ \A k \in Pipes, w \in BOOLEAN : PipeUsers(k, w) = IF w \in pipe[k] THEN 1 ELSE 0
    /\ \A p \in Procs : pc[p] = "open_bad" => ff[p] = FD_NONE)
==============================================================================
