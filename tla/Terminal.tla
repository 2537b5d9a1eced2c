------------------------------- MODULE Terminal -------------------------------
(***************************************************************************)
(* The terminal: the console (Console) above the driver of the platform    *)
(* that the kernel is built for, which is the 16550 on qemu (Uart) and the *)
(* polled keyboard on NEMU (Keyboard).  On NEMU a character that is        *)
(* written or echoed has left when the store to the serial port is done.   *)
(*                                                                         *)
(* There is one CPU (NCPU is 1).  cons.lock and the uart lock keep its     *)
(* interrupts off, so that nothing else runs until they are released.      *)
(***************************************************************************)
EXTENDS Console, Uart, Keyboard

CONSTANTS
  SerialKeys,       \* bound: what arrives on the serial line
  Users,            \* bound: the sets of processes that use the terminal together
  MaxTyped          \* bound: characters typed on NEMU

VARIABLES
  platform,         \* PLATFORM
  users             \* the processes that use the terminal

ASSUME TerminalAssumption ==
  /\ TxSize \in Nat \ {0}
  /\ TxMod \in Nat /\ TxMod % TxSize = 0 /\ TxMod > TxSize
  /\ Bytes \cap {Nothing, Echo} = {}
  /\ SerialKeys \subseteq Keys
  /\ MaxQueue \in Nat
  /\ Alpha \cap Symbols = {} /\ Alpha \cap Named = {} /\ Symbols \cap Named = {}

termVars == <<platform, users, vars, uartVars, kbdVars>>

TerminalInit ==
  /\ \/ platform = "qemu" /\ users \in Users
     \/ platform = "nemu" /\ users = {}
  /\ Init /\ UartInit /\ KeyboardInit

-----------------------------------------------------------------------------
(* The CPU *)

\* Whether p may go on: no handler runs, and nobody else has interrupts off.
Runs(p) == cpu = "procs" /\ ~handling /\ lock \in {Nobody, p}

\* Whether an interrupt can be taken.
IntrOn == lock = Nobody

reader(p) ==
  /\ Runs(p)
  /\ call(p) \/ consoleread(p) \/ (lock = Nobody /\ kill(p)) \/ exit(p)

\* A character from the serial line or the keyboard.
qemu_getc(c) == uart_getc(Echoes(c)) /\ consoleintr(c)
nemu_getc(c) ==
  /\ nemu_uart_getc(c)
  /\ IF c = NoKey THEN UNCHANGED vars ELSE consoleintr(c)

-----------------------------------------------------------------------------

Typed == Minus(e, r) + Len(want)

QemuDevice == Transmit \/ Receive
QemuDriver == putc_sync \/ intr_start \/ start_empty \/ start_busy \/ start_send
QemuWriter(p) == Runs(p) /\ (write(p) \/ putc_sleep(p) \/ uart_putc(p))

QemuNext ==
  /\ platform = "qemu" /\ UNCHANGED <<platform, users, kbdVars>>
  /\ \/ \E c \in SerialKeys : qemu_getc(c)
     \/ /\ \/ QemuDevice \/ QemuDriver
           \/ IntrOn /\ uart_intr
           \/ \E p \in Writers \cap users : QemuWriter(p)
        /\ UNCHANGED vars
     \/ \E p \in Readers \cap users : reader(p) /\ UNCHANGED uartVars

\* (What a reader does with the buffer does not depend on the platform: on NEMU
\* the model has none, as a bound.)
NemuNext ==
  /\ platform = "nemu" /\ UNCHANGED <<platform, users, uartVars>>
  /\ \/ \E c \in Keys \cup {NoKey} : nemu_getc(c)
     \/ /\ \/ \E key \in KeyCodes : (Typed < MaxTyped /\ press(key)) \/ lift(key)
           \/ IntrOn /\ handle_irq
           \/ keyboard_intr_done
        /\ UNCHANGED vars

TerminalNext == QemuNext \/ NemuNext

TerminalSpec == TerminalInit /\ [][TerminalNext]_termVars

-----------------------------------------------------------------------------
(* Properties *)

\* Nobody sleeps for what is there: no reader for input, no writer for room in
\* the ring, although the handlers and the writers wake them from many places; and
\* while characters wait in the ring the 16550 is busy or about to interrupt,
\* whatever consoleintr() echoes in between.
Woken == NoLostWakeup /\ WriterWoken /\ NoStall
==============================================================================
