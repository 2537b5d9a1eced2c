------------------------------ MODULE AtomicDisk ------------------------------
(***************************************************************************)
(* What the logging layer (kernel/log.c) promises to the file system.      *)
(*                                                                         *)
(* The file system sees one array of blocks, cur.  Between begin_op() and  *)
(* end_op() a process may update any of them.  A crash throws away cur and *)
(* leaves durable, and durable only ever changes by taking over the whole  *)
(* of cur at an instant at which no operation is in progress: the updates  *)
(* of an operation reach the disk all together or not at all.              *)
(***************************************************************************)
CONSTANTS Procs, Blocks, Vals

VARIABLES
  cur,      \* what the running system reads: [Blocks -> Vals]
  durable,  \* what a reboot would find:      [Blocks -> Vals]
  active    \* the processes between begin_op and end_op

vars == <<cur, durable, active>>

Init ==
  /\ cur \in [Blocks -> Vals]
  /\ durable = cur
  /\ active = {}

\* A new transaction is not opened on top of one that is not durable yet.
Begin(p) ==
  /\ p \notin active
  /\ active # {} \/ durable = cur
  /\ active' = active \cup {p}
  /\ UNCHANGED <<cur, durable>>

Write(p, b, v) ==
  /\ p \in active
  /\ cur' = [cur EXCEPT ![b] = v]
  /\ UNCHANGED <<durable, active>>

End(p) ==
  /\ p \in active
  /\ active' = active \ {p}
  /\ UNCHANGED <<cur, durable>>

Commit ==
  /\ active = {}
  /\ durable' = cur
  /\ UNCHANGED <<cur, active>>

Crash ==
  /\ cur' = durable
  /\ active' = {}
  /\ UNCHANGED durable

Next ==
  \/ \E p \in Procs : Begin(p) \/ End(p)
  \/ \E p \in Procs, b \in Blocks, v \in Vals : Write(p, b, v)
  \/ Commit
  \/ Crash

Spec == Init /\ [][Next]_vars
===============================================================================
