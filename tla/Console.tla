------------------------------- MODULE Console -------------------------------
(***************************************************************************)
(* Console input (kernel/console.c): the interrupt handler edits the line  *)
(* that is being typed and hands complete lines to the readers.            *)
(*                                                                         *)
(* cons.lock is held over the handler, and by a reader until it sleeps or  *)
(* returns; a reader takes one step per character.  Terminal joins the     *)
(* console to the platform's driver.                                       *)
(***************************************************************************)
EXTENDS Integers, Sequences, FiniteSets

CONSTANTS
  Readers,
  Letters,         \* characters without a meaning of their own
  INPUT_BUF_SIZE,
  UintMod,         \* width of the indices (2^32): a multiple of the size
  Counts           \* byte counts given to read()

NL == "\n"
EOT == "^D"
Chars == Letters \cup {NL, EOT}
Keys == Chars \cup {"\r", "NUL", "^U", "^H", "^P"}

ASSUME ConsoleAssumption ==
  /\ INPUT_BUF_SIZE \in Nat \ {0}
  /\ UintMod \in Nat /\ UintMod % INPUT_BUF_SIZE = 0 /\ UintMod > INPUT_BUF_SIZE
  /\ Counts \subseteq Nat

VARIABLES
  buf, r, w, e,   \* cons
  lock,           \* reader that holds cons.lock
  pc,             \* "idle", "run" (waiting for the lock), "loop", "sleep"
  target,         \* bytes asked for
  n,              \* bytes still to be delivered
  killed

consVars == <<buf, r, w, e>>
readVars == <<lock, pc, target, n, killed>>
vars == <<consVars, readVars>>

Nobody == "nobody"
NoChar == "none"
Minus(x, y) == (x - y) % UintMod
At(k) == buf[k % INPUT_BUF_SIZE]

Init ==
  /\ buf = [j \in 0 .. INPUT_BUF_SIZE - 1 |-> NoChar]
  /\ r = 0 /\ w = 0 /\ e = 0
  /\ lock = Nobody
  /\ pc = [p \in Readers |-> "idle"]
  /\ target = [p \in Readers |-> 0] /\ n = [p \in Readers |-> 0]
  /\ killed = [p \in Readers |-> FALSE]

-----------------------------------------------------------------------------
(* consoleintr() *)

\* Erase the characters from index k on (forgetting what is dead in buf).
EraseFrom(k) ==
  /\ e' = k
  /\ buf' = [j \in DOMAIN buf |->
               IF \E d \in 0 .. INPUT_BUF_SIZE - 1 :
                    d < Minus(e, k) /\ j = (k + d) % INPUT_BUF_SIZE
               THEN NoChar ELSE buf[j]]
  /\ UNCHANGED <<r, w>>

\* ^U: back to the last newline, at most to w.
Killed ==
  LET Back(d) == /\ d <= Minus(e, w)
                 /\ \A j \in 1 .. d : At(Minus(e, j)) # NL
  IN CHOOSE x \in 0 .. INPUT_BUF_SIZE :
       Back(x) /\ \A y \in 0 .. INPUT_BUF_SIZE : Back(y) => y <= x

Kill == EraseFrom(Minus(e, Killed))

\* Mutation: erases what was handed over.
BackspaceAny ==
  IF e # r THEN EraseFrom(Minus(e, 1)) ELSE UNCHANGED consVars

Backspace ==
  IF e # w THEN EraseFrom(Minus(e, 1)) ELSE UNCHANGED consVars

wakeup == pc' = [p \in Readers |-> IF pc[p] = "sleep" THEN "run" ELSE pc[p]]

Complete(c) == c \in {NL, EOT} \/ Minus((e + 1) % UintMod, r) = INPUT_BUF_SIZE

Store(c) ==
  /\ buf' = [buf EXCEPT ![e % INPUT_BUF_SIZE] = c]
  /\ e' = (e + 1) % UintMod
  /\ UNCHANGED r
  /\ IF Complete(c) THEN w' = e' /\ wakeup ELSE UNCHANGED <<w, pc>>

Room == Minus(e, r) < INPUT_BUF_SIZE

consoleintr(c) ==
  /\ lock = Nobody
  /\ CASE c = "^P" -> UNCHANGED <<consVars, pc>>      \* procdump()
       [] c = "^U" -> Kill /\ UNCHANGED pc
       [] c = "^H" -> Backspace /\ UNCHANGED pc
       [] OTHER -> IF c # "NUL" /\ Room
                   THEN Store(IF c = "\r" THEN NL ELSE c)
                   ELSE UNCHANGED <<consVars, pc>>
  /\ UNCHANGED <<lock, target, n, killed>>

\* The characters that consputc() sends in consoleintr(c): three for each character
\* that it erases, or the one that it stores.  (The listing that procdump() prints
\* for ^P is left out.)
Echoes(c) ==
  CASE c \in {"^P", "NUL"} -> 0
    [] c = "^U" -> 3 * Killed
    [] c = "^H" -> IF e # w THEN 3 ELSE 0
    [] OTHER -> IF Room THEN 1 ELSE 0

-----------------------------------------------------------------------------
(* consoleread() *)

call(p) ==
  /\ pc[p] = "idle" /\ ~killed[p]
  /\ \E k \in Counts : target' = [target EXCEPT ![p] = k] /\ n' = [n EXCEPT ![p] = k]
  /\ pc' = [pc EXCEPT ![p] = "run"]
  /\ UNCHANGED <<consVars, lock, killed>>

\* acquire(&cons.lock), or sleep() returning with it.
acquire(p) ==
  /\ pc[p] = "run" /\ lock = Nobody
  /\ lock' = p /\ pc' = [pc EXCEPT ![p] = "loop"]
  /\ UNCHANGED <<consVars, target, n, killed>>

\* release(&cons.lock) and return.
Return(p) ==
  /\ lock' = Nobody
  /\ pc' = [pc EXCEPT ![p] = "idle"]
  /\ target' = [target EXCEPT ![p] = 0] /\ n' = [n EXCEPT ![p] = 0]

read_done(p) ==
  /\ pc[p] = "loop" /\ n[p] = 0
  /\ Return(p) /\ UNCHANGED <<consVars, killed>>

InLoop(p) == pc[p] = "loop" /\ n[p] > 0

\* Nothing to read: give up if killed, else sleep.
read_wait(p) ==
  /\ InLoop(p) /\ r = w
  /\ IF killed[p] THEN Return(p)
     ELSE /\ lock' = Nobody /\ pc' = [pc EXCEPT ![p] = "sleep"]
          /\ UNCHANGED <<target, n>>
  /\ UNCHANGED <<consVars, killed>>

\* Take the next character out of the buffer (and forget it there).
Consume ==
  /\ buf' = [buf EXCEPT ![r % INPUT_BUF_SIZE] = NoChar]
  /\ r' = (r + 1) % UintMod
  /\ UNCHANGED <<w, e>>

\* End of file: ^D stays for the next read() unless this one returns 0 bytes.
read_eof(p) ==
  /\ InLoop(p) /\ r # w /\ At(r) = EOT
  /\ IF n[p] < target[p] THEN UNCHANGED consVars ELSE Consume
  /\ Return(p) /\ UNCHANGED killed

\* Deliver a character: a newline ends the read().
read_char(p) ==
  /\ InLoop(p) /\ r # w /\ At(r) # EOT
  /\ Consume
  /\ IF At(r) = NL THEN Return(p)
     ELSE n' = [n EXCEPT ![p] = @ - 1] /\ UNCHANGED <<lock, pc, target>>
  /\ UNCHANGED killed

\* The user's address is bad: the character is lost.
read_fault(p) ==
  /\ InLoop(p) /\ r # w /\ At(r) # EOT
  /\ Consume
  /\ Return(p) /\ UNCHANGED killed

consoleread(p) ==
  acquire(p) \/ read_done(p) \/ read_wait(p) \/ read_eof(p) \/ read_char(p) \/ read_fault(p)

-----------------------------------------------------------------------------

\* kill() marks a process and makes it runnable if it sleeps.
kill(p) ==
  /\ ~killed[p] /\ pc[p] # "idle"
  /\ killed' = [killed EXCEPT ![p] = TRUE]
  /\ pc' = [pc EXCEPT ![p] = IF @ = "sleep" THEN "run" ELSE @]
  /\ UNCHANGED <<consVars, lock, target, n>>

\* A killed process exits when its call is over; another takes its place.
exit(p) ==
  /\ killed[p] /\ pc[p] = "idle"
  /\ killed' = [killed EXCEPT ![p] = FALSE]
  /\ UNCHANGED <<consVars, lock, pc, target, n>>

-----------------------------------------------------------------------------
(* Properties *)

\* The indices are in range and in the order r, w, e, at most a buffer apart.
TypeOK ==
  /\ buf \in [0 .. INPUT_BUF_SIZE - 1 -> Chars \cup {NoChar}]
  /\ {r, w, e} \subseteq 0 .. UintMod - 1
  /\ Minus(w, r) <= Minus(e, r) /\ Minus(e, r) <= INPUT_BUF_SIZE
  /\ lock \in Readers \cup {Nobody}
  /\ pc \in [Readers -> {"idle", "run", "loop", "sleep"}]
  /\ target \in [Readers -> Counts \cup {0}]
  /\ \A p \in Readers : n[p] \in 0 .. target[p]

\* Nobody sleeps for input that is there, and nobody sleeps who was killed:
\* consoleintr() wakes every reader with each line, kill() its victim.
NoLostWakeup == TypeOK /\ \A p \in Readers : pc[p] = "sleep" => r = w /\ ~killed[p]

Part(from, to) == [j \in 1 .. Minus(to, from) |-> At(from + j - 1)]

Line == INSTANCE Tty WITH
          Ends <- {NL, EOT}, Capacity <- INPUT_BUF_SIZE,
          queue <- Part(r, w), line <- Part(w, e)

\* The buffer with its three wrapping indices is an edited line in front of a
\* queue of complete input: nothing is lost, reordered or edited after the fact.
Implements == Line!Spec
==============================================================================
