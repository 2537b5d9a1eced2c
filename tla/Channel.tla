------------------------------- MODULE Channel -------------------------------
(***************************************************************************)
(* What a pipe promises its users: a bounded byte queue with two ends.     *)
(* Bytes come out in the order they went in; nothing goes in once the read *)
(* end is closed, and end of file is reported only when the write end is   *)
(* closed and everything written has been read.                            *)
(***************************************************************************)
EXTENDS Naturals, Sequences

CONSTANTS Bytes, Capacity

VARIABLES
  queue,        \* bytes written and not yet read
  ropen, wopen, \* the ends that are still open
  eof           \* end of file has been reported

cvars == <<queue, ropen, wopen, eof>>

Init == queue = <<>> /\ ropen = TRUE /\ wopen = TRUE /\ eof = FALSE

Put(s) ==
  /\ ropen /\ wopen
  /\ Len(queue) + Len(s) <= Capacity
  /\ queue' = queue \o s
  /\ UNCHANGED <<ropen, wopen, eof>>

Get(k) ==
  /\ ropen
  /\ queue' = SubSeq(queue, k + 1, Len(queue))
  /\ UNCHANGED <<ropen, wopen, eof>>

Eof ==
  /\ queue = <<>> /\ ~wopen
  /\ eof' = TRUE
  /\ UNCHANGED <<queue, ropen, wopen>>

CloseRead == ropen' = FALSE /\ UNCHANGED <<queue, wopen, eof>>
CloseWrite == wopen' = FALSE /\ UNCHANGED <<queue, ropen, eof>>

Next ==
  \/ \E n \in 1 .. Capacity : \E s \in [1 .. n -> Bytes] : Put(s)
  \/ \E k \in 1 .. Capacity : Get(k)
  \/ Eof \/ CloseRead \/ CloseWrite

Spec == Init /\ [][Next]_cvars
=============================================================================
