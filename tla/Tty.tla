--------------------------------- MODULE Tty ---------------------------------
(***************************************************************************)
(* What the console promises the readers of its input: a line that can be  *)
(* edited until it is complete, and behind it the queue of complete input, *)
(* which leaves in the order in which it was typed.                        *)
(***************************************************************************)
EXTENDS Naturals, Sequences

CONSTANTS Chars, Ends, Capacity

VARIABLES queue, line

tvars == <<queue, line>>

Init == queue = <<>> /\ line = <<>>

\* A character that ends a line, or fills the buffer, completes the line.
Type(c) ==
  LET room == Capacity - Len(queue) - Len(line) IN
  /\ room > 0
  /\ IF c \in Ends \/ room = 1
     THEN queue' = queue \o Append(line, c) /\ line' = <<>>
     ELSE line' = Append(line, c) /\ UNCHANGED queue

Erase == line # <<>> /\ line' = SubSeq(line, 1, Len(line) - 1) /\ UNCHANGED queue
KillLine == line' = <<>> /\ UNCHANGED queue
Take == queue # <<>> /\ queue' = Tail(queue) /\ UNCHANGED line

Next == (\E c \in Chars : Type(c)) \/ Erase \/ KillLine \/ Take

Spec == Init /\ [][Next]_tvars
==============================================================================
