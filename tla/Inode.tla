-------------------------------- MODULE Inode --------------------------------
(***************************************************************************)
(* The in-memory inode table of kernel/fs.c (iget, ilock, iput, ialloc)    *)
(* under the system calls of kernel/sysfile.c that share inodes: open,     *)
(* close, create, unlink and link on the names of one directory.           *)
(*                                                                         *)
(* A step is a critical section under itable.lock or work under the sleep  *)
(* lock of an inode; dlock is the sleep lock of the directory's inode.     *)
(* begin_op() admits MaxOps operations at a time (LOGSIZE / MAXOPBLOCKS: 1 *)
(* in kernel/param.h); reads of open files run outside of operations.      *)
(***************************************************************************)
EXTENDS Integers, FiniteSets

CONSTANTS
  Procs, Names,
  NInum,    \* inodes on disk
  NINODE,   \* entries of the inode table
  MaxOps    \* operations that the log admits at a time

Nobody == "nobody"
NoName == "none"

ASSUME InodeAssumption ==
  /\ NInum \in Nat \ {0} /\ NINODE \in Nat \ {0}
  /\ IsFiniteSet(Procs) /\ Nobody \notin Procs
  /\ IsFiniteSet(Names)

VARIABLES
  dtype, dlink,     \* on disk: inode in use, and its link count
  dir,              \* the directory: name -> inum, or 0
  dlock,            \* holder of the directory's lock
  inum, ref, valid, ilocked, mtype, nlink,  \* the inode table
  pc, then,         \* where a process is, and where ilock() returns to
  ip, name,         \* its current inode table entry and name
  open,             \* entry of its open file, or 0
  panicked

diskVars == <<dtype, dlink>>
memVars == <<inum, ref, valid, ilocked, mtype, nlink>>
procVars == <<pc, then, ip, name>>
vars == <<diskVars, dir, dlock, memVars, procVars, open, panicked>>

Inums == 1 .. NInum
Slots == 1 .. NINODE

Init ==
  /\ dtype = [n \in Inums |-> FALSE] /\ dlink = [n \in Inums |-> 0]
  /\ dir = [x \in Names |-> 0] /\ dlock = Nobody
  /\ inum = [s \in Slots |-> 0] /\ ref = [s \in Slots |-> 0]
  /\ valid = [s \in Slots |-> FALSE] /\ ilocked = [s \in Slots |-> Nobody]
  /\ mtype = [s \in Slots |-> FALSE] /\ nlink = [s \in Slots |-> 0]
  /\ pc = [p \in Procs |-> "idle"] /\ then = [p \in Procs |-> "idle"]
  /\ ip = [p \in Procs |-> 0] /\ name = [p \in Procs |-> NoName]
  /\ open = [p \in Procs |-> 0]
  /\ panicked = "no"

Goto(p, l) == pc' = [pc EXCEPT ![p] = l] /\ UNCHANGED then
At(p, l) == panicked = "no" /\ pc[p] = l
Reading(p) == pc[p] = "read_done" \/ (pc[p] = "ilock" /\ then[p] = "read_done")
\* begin_op() returns.
begin_op(p) ==
  At(p, "idle") /\ Cardinality({q \in Procs : pc[q] # "idle" /\ ~Reading(q)}) < MaxOps
\* Call ilock() on the current inode and continue at l.
CallIlock(p, l) == pc' = [pc EXCEPT ![p] = "ilock"] /\ then' = [then EXCEPT ![p] = l]
\* The call is over; the directory's lock is released if it is still held.
Done(p) == /\ Goto(p, "idle")
           /\ ip' = [ip EXCEPT ![p] = 0] /\ name' = [name EXCEPT ![p] = NoName]
           /\ dlock' = IF dlock = p THEN Nobody ELSE dlock

-----------------------------------------------------------------------------
(* fs.c *)

Entry(n) == {s \in Slots : ref[s] > 0 /\ inum[s] = n}
Empty == {s \in Slots : ref[s] = 0}

\* Mutation: recycles an entry without looking for one in use.
iget_new(p, n) ==
  IF Empty # {}
  THEN \E s \in Empty :
         /\ \A t \in Empty : s <= t
         /\ inum' = [inum EXCEPT ![s] = n]
         /\ ref' = [ref EXCEPT ![s] = 1]
         /\ valid' = [valid EXCEPT ![s] = FALSE]
         /\ ip' = [ip EXCEPT ![p] = s]
         /\ UNCHANGED panicked
  ELSE panicked' = "iget" /\ UNCHANGED <<inum, ref, valid, ip>>

\* iget(n): share the entry of inode n, or recycle the first empty one.
iget(p, n) ==
  IF Entry(n) # {}
  THEN \E s \in Entry(n) :
         /\ ref' = [ref EXCEPT ![s] = @ + 1]
         /\ ip' = [ip EXCEPT ![p] = s]
         /\ UNCHANGED <<inum, valid, panicked>>
  ELSE IF Empty # {}
  THEN \E s \in Empty :
         /\ \A t \in Empty : s <= t
         /\ inum' = [inum EXCEPT ![s] = n]
         /\ ref' = [ref EXCEPT ![s] = 1]
         /\ valid' = [valid EXCEPT ![s] = FALSE]
         /\ ip' = [ip EXCEPT ![p] = s]
         /\ UNCHANGED panicked
  ELSE panicked' = "iget" /\ UNCHANGED <<inum, ref, valid, ip>>

ilock(p) ==
  LET s == ip[p] IN
  /\ At(p, "ilock") /\ ilocked[s] = Nobody
  /\ ilocked' = [ilocked EXCEPT ![s] = p]
  /\ IF valid[s] THEN UNCHANGED <<mtype, nlink, valid, panicked>>
     ELSE /\ mtype' = [mtype EXCEPT ![s] = dtype[inum[s]]]
          /\ nlink' = [nlink EXCEPT ![s] = dlink[inum[s]]]
          /\ valid' = [valid EXCEPT ![s] = TRUE]
          /\ panicked' = IF dtype[inum[s]] THEN panicked ELSE "ilock_type"
  /\ pc' = [pc EXCEPT ![p] = then[p]] /\ then' = [then EXCEPT ![p] = "idle"]
  /\ UNCHANGED <<diskVars, dir, dlock, inum, ref, ip, name, open>>

\* Set the link count of the locked inode s and write it back (iupdate).
SetLinks(s, k) ==
  /\ nlink' = [nlink EXCEPT ![s] = k]
  /\ dtype' = [dtype EXCEPT ![inum[s]] = mtype[s]]
  /\ dlink' = [dlink EXCEPT ![inum[s]] = k]

\* iput(): the last reference to an inode without links frees it.  The test is
\* made under itable.lock; the lock taken for the truncation must be free.
iput(p) ==
  LET s == ip[p] IN
  /\ At(p, "iput")
  /\ IF ref[s] = 1 /\ valid[s] /\ nlink[s] = 0
     THEN /\ ilocked[s] = Nobody /\ ilocked' = [ilocked EXCEPT ![s] = p]
          /\ Goto(p, "itrunc") /\ UNCHANGED <<ref, ip, name, dlock>>
     ELSE ref' = [ref EXCEPT ![s] = @ - 1] /\ Done(p) /\ UNCHANGED ilocked
  /\ UNCHANGED <<diskVars, dir, inum, valid, mtype, nlink, open, panicked>>

\* Mutation: leaves valid set.
iput_free_valid(p) ==
  LET s == ip[p] IN
  /\ At(p, "itrunc")
  /\ dtype' = [dtype EXCEPT ![inum[s]] = FALSE]
  /\ dlink' = [dlink EXCEPT ![inum[s]] = nlink[s]]
  /\ mtype' = [mtype EXCEPT ![s] = FALSE]
  /\ ilocked' = [ilocked EXCEPT ![s] = Nobody]
  /\ Goto(p, "iput_end")
  /\ UNCHANGED <<dir, dlock, inum, ref, valid, nlink, ip, name, open, panicked>>

\* itrunc, type = 0, iupdate, valid = 0, releasesleep.
iput_free(p) ==
  LET s == ip[p] IN
  /\ At(p, "itrunc")
  /\ dtype' = [dtype EXCEPT ![inum[s]] = FALSE]
  /\ dlink' = [dlink EXCEPT ![inum[s]] = nlink[s]]
  /\ mtype' = [mtype EXCEPT ![s] = FALSE]
  /\ valid' = [valid EXCEPT ![s] = FALSE]
  /\ ilocked' = [ilocked EXCEPT ![s] = Nobody]
  /\ Goto(p, "iput_end")
  /\ UNCHANGED <<dir, dlock, inum, ref, nlink, ip, name, open, panicked>>

iput_end(p) ==
  /\ At(p, "iput_end")
  /\ ref' = [ref EXCEPT ![ip[p]] = @ - 1]
  /\ Done(p)
  /\ UNCHANGED <<diskVars, dir, inum, valid, ilocked, mtype, nlink, open, panicked>>

-----------------------------------------------------------------------------
(* open and close *)

\* namei(), or create() of a name that exists: find the name under the
\* directory's lock, take a reference, unlock the directory, lock the inode.
sys_open(p) ==
  /\ begin_op(p) /\ dlock = Nobody
  /\ \E x \in Names : dir[x] # 0 /\ iget(p, dir[x])
  /\ CallIlock(p, "opened")
  /\ UNCHANGED <<diskVars, dir, dlock, ilocked, mtype, nlink, name, open>>

\* The inode is locked: keep it as the open file, or fail and drop it.
opened(p) ==
  LET s == ip[p] IN
  /\ At(p, "opened")
  /\ ilocked' = [ilocked EXCEPT ![s] = Nobody]
  /\ \/ open[p] = 0 /\ open' = [open EXCEPT ![p] = s] /\ Done(p)
     \/ Goto(p, "iput") /\ UNCHANGED <<open, ip, name, dlock>>
  /\ UNCHANGED <<diskVars, dir, inum, ref, valid, mtype, nlink, panicked>>

\* fileclose() of the last descriptor.
close(p) ==
  /\ begin_op(p) /\ open[p] # 0
  /\ ip' = [ip EXCEPT ![p] = open[p]]
  /\ open' = [open EXCEPT ![p] = 0]
  /\ Goto(p, "iput")
  /\ UNCHANGED <<diskVars, dir, dlock, memVars, name, panicked>>

\* fileread() and filestat() lock the inode of an open file, outside any
\* operation.
fileread(p) ==
  /\ At(p, "idle") /\ open[p] # 0
  /\ ip' = [ip EXCEPT ![p] = open[p]]
  /\ CallIlock(p, "read_done")
  /\ UNCHANGED <<diskVars, dir, dlock, memVars, name, open, panicked>>

read_done(p) ==
  /\ At(p, "read_done")
  /\ ilocked' = [ilocked EXCEPT ![ip[p]] = Nobody]
  /\ Done(p)
  /\ UNCHANGED <<diskVars, dir, inum, ref, valid, mtype, nlink, open, panicked>>

-----------------------------------------------------------------------------
(* create *)

\* The name is new: ialloc() marks the first free inode on disk.
create(p) ==
  /\ begin_op(p) /\ dlock = Nobody
  /\ \E x \in Names, n \in Inums :
       /\ dir[x] = 0 /\ ~dtype[n] /\ \A k \in 1 .. n - 1 : dtype[k]
       /\ dtype' = [dtype EXCEPT ![n] = TRUE] /\ dlink' = [dlink EXCEPT ![n] = 0]
       /\ iget(p, n)
       /\ name' = [name EXCEPT ![p] = x]
  /\ dlock' = p
  /\ CallIlock(p, "create_link")
  /\ UNCHANGED <<dir, ilocked, mtype, nlink, open>>

\* nlink = 1, dirlink(), unlock the directory and return the locked inode; if
\* dirlink() fails the inode loses its link and is dropped first.
create_link(p) ==
  LET s == ip[p] IN
  /\ At(p, "create_link")
  /\ \/ /\ SetLinks(s, 1)
        /\ dir' = [dir EXCEPT ![name[p]] = inum[s]]
        /\ dlock' = Nobody
        /\ Goto(p, "opened") /\ UNCHANGED ilocked
     \/ /\ SetLinks(s, 0) /\ UNCHANGED <<dir, dlock>>
        /\ ilocked' = [ilocked EXCEPT ![s] = Nobody]
        /\ Goto(p, "iput")
  /\ UNCHANGED <<inum, ref, valid, mtype, ip, name, open, panicked>>

-----------------------------------------------------------------------------
(* unlink *)

\* Look the name up and lock its inode, with the directory locked throughout.
sys_unlink(p) ==
  /\ begin_op(p) /\ dlock = Nobody
  /\ \E x \in Names : /\ dir[x] # 0 /\ iget(p, dir[x])
                      /\ name' = [name EXCEPT ![p] = x]
  /\ dlock' = p
  /\ CallIlock(p, "unlink_entry")
  /\ UNCHANGED <<diskVars, dir, ilocked, mtype, nlink, open>>

\* Clear the directory entry and release the directory.
unlink_entry(p) ==
  /\ At(p, "unlink_entry")
  /\ IF nlink[ip[p]] < 1
     THEN panicked' = "unlink_nlink" /\ UNCHANGED <<dir, dlock, pc, then>>
     ELSE /\ dir' = [dir EXCEPT ![name[p]] = 0]
          /\ dlock' = Nobody
          /\ Goto(p, "drop_link") /\ UNCHANGED panicked
  /\ UNCHANGED <<diskVars, memVars, ip, name, open>>

\* nlink--, iupdate(), iunlockput(): the end of unlink, and of a link that
\* failed.
drop_link(p) ==
  LET s == ip[p] IN
  /\ At(p, "drop_link")
  /\ SetLinks(s, nlink[s] - 1)
  /\ ilocked' = [ilocked EXCEPT ![s] = Nobody]
  /\ Goto(p, "iput")
  /\ UNCHANGED <<dir, dlock, inum, ref, valid, mtype, ip, name, open, panicked>>

-----------------------------------------------------------------------------
(* link *)

sys_link(p) ==
  /\ begin_op(p) /\ dlock = Nobody
  /\ \E x \in Names : dir[x] # 0 /\ iget(p, dir[x])
  /\ CallIlock(p, "add_link")
  /\ UNCHANGED <<diskVars, dir, dlock, ilocked, mtype, nlink, name, open>>

\* Mutation: does not count the link first.
add_link_late(p) ==
  LET s == ip[p] IN
  /\ At(p, "add_link")
  /\ ilocked' = [ilocked EXCEPT ![s] = Nobody]
  /\ Goto(p, "link_entry")
  /\ UNCHANGED <<diskVars, dir, dlock, inum, ref, valid, mtype, nlink, ip, name, open,
                 panicked>>

\* The link is counted before its entry exists, and the inode is unlocked
\* before the directory is locked.
add_link(p) ==
  LET s == ip[p] IN
  /\ At(p, "add_link")
  /\ SetLinks(s, nlink[s] + 1)
  /\ ilocked' = [ilocked EXCEPT ![s] = Nobody]
  /\ Goto(p, "link_entry")
  /\ UNCHANGED <<dir, dlock, inum, ref, valid, mtype, ip, name, open, panicked>>

\* dirlink() under the directory's lock.  It fails on a name that exists (whose
\* inode it looks up and drops again: there must be an entry for it) and when
\* the directory cannot grow; so does nameiparent() on a bad path.
link_entry(p) ==
  /\ At(p, "link_entry") /\ dlock = Nobody
  /\ \E y \in Names :
       \/ /\ dir[y] = 0
          /\ dir' = [dir EXCEPT ![y] = inum[ip[p]]]
          /\ Goto(p, "iput") /\ UNCHANGED panicked
       \/ /\ CallIlock(p, "drop_link") /\ UNCHANGED dir
          /\ panicked' = IF dir[y] # 0 /\ Entry(dir[y]) = {} /\ Empty = {}
                         THEN "iget" ELSE panicked
  /\ UNCHANGED <<diskVars, dlock, memVars, ip, name, open>>

-----------------------------------------------------------------------------

\* A restart.  The log commits when no operation is under way, so the disk is
\* as it was when every process was between two calls.
Crash ==
  /\ \A p \in Procs : At(p, "idle")
  /\ ref' = [s \in Slots |-> 0] /\ inum' = [s \in Slots |-> 0]
  /\ valid' = [s \in Slots |-> FALSE]
  /\ mtype' = [s \in Slots |-> FALSE] /\ nlink' = [s \in Slots |-> 0]
  /\ open' = [p \in Procs |-> 0]
  /\ UNCHANGED <<diskVars, dir, dlock, ilocked, procVars, panicked>>

\* panic() spins for ever.
Halted == panicked # "no" /\ UNCHANGED vars

Next ==
  \/ \E p \in Procs :
       \/ ilock(p) \/ iput(p) \/ iput_free(p) \/ iput_end(p)
       \/ sys_open(p) \/ opened(p) \/ close(p)
       \/ fileread(p) \/ read_done(p)
       \/ create(p) \/ create_link(p)
       \/ sys_unlink(p) \/ unlink_entry(p) \/ drop_link(p)
       \/ sys_link(p) \/ add_link(p) \/ link_entry(p)
  \/ Crash
  \/ Halted

Spec == Init /\ [][Next]_vars

-----------------------------------------------------------------------------
(* Properties *)

\* Every variable has its type.
TypeOK ==
  /\ dtype \in [Inums -> BOOLEAN] /\ dlink \in [Inums -> Nat]
  /\ dir \in [Names -> 0 .. NInum] /\ dlock \in Procs \cup {Nobody}
  /\ inum \in [Slots -> 0 .. NInum] /\ ref \in [Slots -> Nat]
  /\ valid \in [Slots -> BOOLEAN] /\ ilocked \in [Slots -> Procs \cup {Nobody}]
  /\ mtype \in [Slots -> BOOLEAN] /\ nlink \in [Slots -> Nat]
  /\ ip \in [Procs -> 0 .. NINODE] /\ name \in [Procs -> Names \cup {NoName}]
  /\ open \in [Procs -> 0 .. NINODE]

\* ref counts exactly the open files and the calls that hold the entry, and no
\* two live entries are for the same inode (iget, idup and iput), so that the lock
\* that iput() takes for its last reference is free ("so this acquiresleep() won't
\* block (or deadlock)", kernel/fs.c).
RefExact ==
  /\ \A p \in Procs : At(p, "iput") /\ ref[ip[p]] = 1 /\ valid[ip[p]] /\ nlink[ip[p]] = 0
       => ilocked[ip[p]] = Nobody
  /\ panicked = "no" =>
    \A s \in Slots :
      /\ ref[s] = Cardinality({p \in Procs : open[p] = s})
                 + Cardinality({p \in Procs : ip[p] = s /\ ~Reading(p)})
      /\ \A t \in Slots : ref[s] > 0 /\ ref[t] > 0 /\ inum[s] = inum[t] => s = t

\* A process between counting a link and writing its entry, or between clearing
\* an entry and uncounting it.
Pending(n) ==
  {p \in Procs : /\ ip[p] # 0 /\ inum[ip[p]] = n
                 /\ \/ pc[p] \in {"link_entry", "drop_link"}
                    \/ pc[p] = "ilock" /\ then[p] = "drop_link"}

\* The on-disk link count of an inode is the number of directory entries that
\* name it plus the links that calls in progress have counted (nlink is "Number of
\* links to inode in file system", kernel/fs.h).  So no entry names an inode that is
\* free, no file is open on one, and the checks of ilock() and unlink(), which panic,
\* never fail.
LinksExact ==
  /\ TypeOK /\ panicked \in {"no", "iget"}
  /\ \A p \in Procs : open[p] # 0 => dtype[inum[open[p]]]
  /\ \A n \in Inums :
    LET named == {x \in Names : dir[x] = n} IN
    /\ dtype[n] => dlink[n] = Cardinality(named) + Cardinality(Pending(n))
    /\ ~dtype[n] => named = {}

\* A valid entry that nobody has locked agrees with the disk: it never shows a
\* previous life of its inode (iput() clears valid before it releases the entry).
CacheCurrent ==
  panicked = "no" =>
    \A s \in Slots : ref[s] > 0 /\ valid[s] /\ ilocked[s] = Nobody =>
      mtype[s] = dtype[inum[s]] /\ nlink[s] = dlink[inum[s]]
==============================================================================
