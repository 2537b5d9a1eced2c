--------------------------------- MODULE Uart ---------------------------------
(***************************************************************************)
(* The serial line of the qemu platform (platform/qemu/platform.c): the    *)
(* transmit ring between write() and the 16550, its interrupt, and the     *)
(* polled path that echoes input from the interrupt handler.  Terminal     *)
(* joins it to the console.                                                *)
(*                                                                         *)
(* There is one CPU (NCPU is 1), and code under the uart lock and in the   *)
(* handler has interrupts off: no process runs until it is done, but the   *)
(* device goes on between any two of its accesses.                         *)
(***************************************************************************)
EXTENDS Integers, Sequences, FiniteSets

CONSTANTS
  Writers,
  TxSize,     \* size of tx_buf (32)
  TxMod,      \* width of tx_w and tx_r (2^32): a multiple of TxSize
  Bytes       \* characters that are written

VARIABLES
  tx_buf, tx_w, tx_r,   \* qemu_uart
  thr,        \* device: the character being sent, or Nothing (LSR_TX_IDLE)
  thre,       \* device: transmitter-empty interrupt pending
  rx,         \* device: a received character is waiting (LSR_RX_READY)
  cpu,        \* what runs: "procs", "intr" (the handler) or "start" (uart_start)
  echo,       \* characters that consputc() has still to send
  wpc,        \* writer: "user", "run" (in putc, runnable) or "sleep"
  pending     \* what was written and has not left the device

ringVars == <<tx_buf, tx_w, tx_r>>
device == <<thr, thre, rx>>
uartVars == <<tx_buf, tx_w, tx_r, thr, thre, rx, cpu, echo, wpc, pending>>

Nothing == "nothing"
Echo == "echo"

UartInit ==
  /\ tx_buf = [j \in 0 .. TxSize - 1 |-> Nothing] /\ tx_w = 0 /\ tx_r = 0
  /\ thr = Nothing /\ thre = FALSE /\ rx = FALSE
  /\ cpu = "procs" /\ echo = 0
  /\ wpc = [p \in Writers |-> "user"]
  /\ pending = <<>>

-----------------------------------------------------------------------------
(* The 16550 as the driver uses it *)

\* The character leaves; an empty transmitter raises its interrupt.
Transmit ==
  /\ thr # Nothing
  /\ thr' = Nothing /\ thre' = TRUE
  /\ pending' = IF thr = Echo THEN pending ELSE Tail(pending)
  /\ UNCHANGED <<ringVars, rx, cpu, echo, wpc>>

Receive == ~rx /\ rx' = TRUE /\ UNCHANGED <<ringVars, thr, thre, cpu, echo, wpc, pending>>

-----------------------------------------------------------------------------
(* The driver *)

uart_wakeup == [p \in Writers |-> IF wpc[p] = "sleep" THEN "run" ELSE wpc[p]]

Full == tx_w = (tx_r + TxSize) % TxMod

\* write() of one more character (consolewrite's loop).
write(p) ==
  /\ cpu = "procs" /\ wpc[p] = "user"
  /\ wpc' = [wpc EXCEPT ![p] = "run"]
  /\ UNCHANGED <<ringVars, device, cpu, echo, pending>>

\* platform_uart_putc(): sleep while the ring is full ...
putc_sleep(p) ==
  /\ cpu = "procs" /\ wpc[p] = "run" /\ Full
  /\ wpc' = [wpc EXCEPT ![p] = "sleep"]
  /\ UNCHANGED <<ringVars, device, cpu, echo, pending>>

\* Mutation: leaves the start to the next interrupt.
uart_putc_lazy(p) ==
  /\ cpu = "procs" /\ wpc[p] = "run" /\ ~Full
  /\ \E c \in Bytes : /\ tx_buf' = [tx_buf EXCEPT ![tx_w % TxSize] = c]
                      /\ pending' = Append(pending, c)
  /\ tx_w' = (tx_w + 1) % TxMod
  /\ wpc' = [wpc EXCEPT ![p] = "user"]
  /\ UNCHANGED <<tx_r, device, cpu, echo>>

\* ... then put the character in and start the device.
uart_putc(p) ==
  /\ cpu = "procs" /\ wpc[p] = "run" /\ ~Full
  /\ \E c \in Bytes : /\ tx_buf' = [tx_buf EXCEPT ![tx_w % TxSize] = c]
                      /\ pending' = Append(pending, c)
  /\ tx_w' = (tx_w + 1) % TxMod
  /\ wpc' = [wpc EXCEPT ![p] = "user"]
  /\ cpu' = "start"
  /\ UNCHANGED <<tx_r, device, echo>>

\* platform_qemu_uart_start(): nothing to send.  Reading ISR drops the
\* transmitter's interrupt, unless it reports the receiver's.
start_empty ==
  /\ cpu = "start" /\ tx_w = tx_r
  /\ thre' = (thre /\ rx)
  /\ cpu' = "procs"
  /\ UNCHANGED <<ringVars, thr, rx, echo, wpc, pending>>

\* The device is busy and will interrupt.
start_busy ==
  /\ cpu = "start" /\ tx_w # tx_r /\ thr # Nothing
  /\ cpu' = "procs"
  /\ UNCHANGED <<ringVars, device, echo, wpc, pending>>

\* The device is idle: send the next character, wake the writers, look again.
start_send ==
  /\ cpu = "start" /\ tx_w # tx_r /\ thr = Nothing
  /\ thr' = tx_buf[tx_r % TxSize] /\ thre' = FALSE
  /\ tx_buf' = [tx_buf EXCEPT ![tx_r % TxSize] = Nothing]
  /\ tx_r' = (tx_r + 1) % TxMod
  /\ wpc' = uart_wakeup
  /\ UNCHANGED <<tx_w, rx, cpu, echo, pending>>

\* platform_handle_irq(): the interrupt is taken between two steps of the
\* processes.
uart_intr ==
  /\ cpu = "procs" /\ (thre \/ rx)
  /\ cpu' = "intr"
  /\ UNCHANGED <<ringVars, device, echo, wpc, pending>>

\* A turn of platform_qemu_uart_intr()'s loop: k is the number of characters
\* that consoleintr() echoes for what was received.
uart_getc(k) ==
  /\ cpu = "intr" /\ echo = 0 /\ rx
  /\ rx' = FALSE /\ echo' = k
  /\ UNCHANGED <<ringVars, thr, thre, cpu, wpc, pending>>

\* Mutation: does not wait for the device.
putc_sync_now ==
  /\ cpu = "intr" /\ echo > 0
  /\ thr' = Echo /\ thre' = FALSE /\ echo' = echo - 1
  /\ UNCHANGED <<ringVars, rx, cpu, wpc, pending>>

\* consputc(), platform_uart_putc_sync(): wait until the device is idle, then
\* write past the ring, one character at a time.
putc_sync ==
  /\ cpu = "intr" /\ echo > 0 /\ thr = Nothing
  /\ thr' = Echo /\ thre' = FALSE /\ echo' = echo - 1
  /\ UNCHANGED <<ringVars, rx, cpu, wpc, pending>>

\* No more input: feed the device.
intr_start ==
  /\ cpu = "intr" /\ echo = 0 /\ ~rx
  /\ cpu' = "start"
  /\ UNCHANGED <<ringVars, device, echo, wpc, pending>>

-----------------------------------------------------------------------------
(* Properties *)

\* Every variable has its type, and the ring never holds more than its size.
UartTypeOK ==
  /\ tx_buf \in [0 .. TxSize - 1 -> Bytes \cup {Nothing}]
  /\ tx_w \in 0 .. TxMod - 1 /\ tx_r \in 0 .. TxMod - 1
  /\ (tx_w - tx_r) % TxMod <= TxSize
  /\ thr \in Bytes \cup {Nothing, Echo} /\ thre \in BOOLEAN /\ rx \in BOOLEAN
  /\ cpu \in {"procs", "intr", "start"} /\ echo \in Nat
  /\ wpc \in [Writers -> {"user", "run", "sleep"}]

\* While characters wait in the ring the device is busy or about to interrupt:
\* the driver never drops the interrupt that would have fed it, neither by
\* reading ISR nor by echoing past the ring.
NoStall == UartTypeOK /\ (cpu = "procs" /\ tx_w # tx_r => thr # Nothing \/ thre)

\* A writer sleeps in platform_uart_putc() only while the ring is full.
WriterWoken == \A p \in Writers : wpc[p] = "sleep" => Full

\* What is in the device and in the ring is what was written and has not left,
\* in that order: nothing is lost, sent twice or overtaken, however the ring
\* wraps and whatever is echoed in between.
InOrder ==
  pending = (IF thr \in {Nothing, Echo} THEN <<>> ELSE <<thr>>)
            \o [j \in 1 .. (tx_w - tx_r) % TxMod |-> tx_buf[(tx_r + j - 1) % TxSize]]
==============================================================================
