------------------------------ MODULE Console ------------------------------
(***************************************************************************)
(* The console (kernel/console.c) and its UART (kernel/uart.c): processes  *)
(* that read() lines and write() characters, the interrupt handler that    *)
(* devintr() (kernel/trap.c) runs for the PLIC (kernel/plic.c), and the    *)
(* device, which receives and sends while they run.                        *)
(*                                                                         *)
(* What runs under cons.lock or uart_tx_lock is one step, except where     *)
(* consoleintr() echoes: uartputc_sync() spins for the transmitter under   *)
(* cons.lock and writes to it without uart_tx_lock.  The kernel's printf() *)
(* does so too, from any process, and is left out.  The indices wrap, as a *)
(* uint does at 2^32.  What the characters written are is left out, but    *)
(* for those in the input buffer, which edit it.                           *)
(***************************************************************************)
EXTENDS Naturals, Sequences, FiniteSets, FiniteSetsExt

CONSTANTS Readers, Writers,   \* processes that read(), write() the console
          INPUT_BUF,          \* characters in cons.buf
          UART_TX_BUF_SIZE,   \* characters in uart_tx_buf
          WRAP,               \* 2^32: where the indices of cons wrap
          TXWRAP,             \* 2^64: where uart_tx_r and uart_tx_w wrap
          ReadSizes, WriteSizes,  \* what read(), write() ask for
          MaxKilled,          \* most processes killed and not yet out of read()
          MaxRx               \* most characters waiting in the receiver

ASSUME ConsoleAssumption ==
  /\ {INPUT_BUF, UART_TX_BUF_SIZE, WRAP, TXWRAP} \subseteq Nat \ {0}
  /\ ReadSizes \cup WriteSizes \subseteq Nat \ {0}
  /\ {MaxRx, MaxKilled} \subseteq Nat
  /\ WRAP % INPUT_BUF = 0 /\ WRAP > INPUT_BUF
  /\ TXWRAP % UART_TX_BUF_SIZE = 0 /\ TXWRAP > UART_TX_BUF_SIZE
  /\ Readers \cap Writers = {}

Callers == Readers \cup Writers

\* Any character, the two that end a line, and the two that edit it.
Stored == {"char", "newline", "eof"}
Chars == Stored \cup {"kill", "backspace"}
NoChar == "none"

VARIABLES
  cons_r, cons_w, cons_e, cons_buf,  \* cons
  uart_tx_r, uart_tx_w,  \* the ring of characters to send
  thr,                   \* characters in the transmitter (0: LSR_TX_IDLE)
  rx,                    \* characters in the receiver
  irq,                   \* the PLIC has an interrupt of the UART to hand out
  handler,               \* where uartintr() is
  intr_c, echo,          \* consoleintr()'s c, and what it has to echo
  stage, wanted, short,  \* per process: where it is, how many characters it
                         \* still wants, and whether a read() has none so far
  killed

consVars == <<cons_r, cons_w, cons_e, cons_buf>>
txVars == <<uart_tx_r, uart_tx_w>>
intrVars == <<handler, intr_c, echo>>
callVars == <<stage, wanted, short>>
consoleVars == <<consVars, txVars, thr, rx, irq, intrVars, callVars, killed>>

\* a - b of two uint indices.
Minus(a, b) == (a + WRAP - b) % WRAP
\* The character at index i of the input.
InputAt(i) == cons_buf[i % INPUT_BUF]

ConsoleTypeOK ==
  /\ {cons_r, cons_w, cons_e} \subseteq 0..(WRAP - 1)
  /\ {uart_tx_r, uart_tx_w} \subseteq 0..(TXWRAP - 1)
  /\ cons_buf \in [0..(INPUT_BUF - 1) -> Stored \cup {NoChar}]
  /\ thr \in 0..2
  /\ rx \in Seq(Chars) /\ Len(rx) <= MaxRx
  /\ irq \in BOOLEAN
  /\ handler \in {"idle", "rx", "echo", "put", "store", "tx"}
  /\ intr_c \in Chars \cup {NoChar}
  /\ echo \in 0..INPUT_BUF
  /\ stage \in [Callers -> {"user", "read", "read_sleep", "write",
                           "write_sleep"}]
  /\ wanted \in [Callers -> Nat]
  /\ short \in [Callers -> BOOLEAN]
  /\ killed \subseteq Readers

\* consoleinit() and uartinit().
ConsoleInit ==
  /\ cons_r = 0 /\ cons_w = 0 /\ cons_e = 0
  /\ cons_buf = [i \in 0..(INPUT_BUF - 1) |-> NoChar]
  /\ uart_tx_r = 0 /\ uart_tx_w = 0
  /\ thr = 0 /\ rx = << >> /\ irq = FALSE
  /\ handler = "idle" /\ intr_c = NoChar /\ echo = 0
  /\ stage = [p \in Callers |-> "user"]
  /\ wanted = [p \in Callers |-> 0]
  /\ short = [p \in Callers |-> TRUE]
  /\ killed = {}

\* The handler holds cons.lock while it waits for the transmitter.
ConsLocked == handler \in {"echo", "put", "store"}

\* wakeup(): the processes asleep at label from run again at label to.
Woken(from, to) ==
  [p \in Callers |-> IF stage[p] = from THEN to ELSE stage[p]]

(***************************************************************************)
(* consoleread()                                                           *)
(***************************************************************************)

Read(p, k) ==
  /\ stage[p] = "user"
  /\ stage' = [stage EXCEPT ![p] = "read"]
  /\ wanted' = [wanted EXCEPT ![p] = k]
  /\ short' = [short EXCEPT ![p] = TRUE]
  /\ UNCHANGED <<consVars, txVars, thr, rx, irq, intrVars, killed>>

\* How many of the characters that p may have come before the end of a line.
Plain(p) ==
  LET most == Min({Minus(cons_w, cons_r), wanted[p]})
      ends == {i \in 0..(most - 1) : InputAt(cons_r + i) # "char"}
  IN  IF ends = {} THEN most ELSE Min(ends)

\* p takes k characters and returns; a killed process gets no further.
ReadReturns(p, k) ==
  /\ cons_r' = (cons_r + k) % WRAP
  /\ stage' = [stage EXCEPT ![p] = "user"]
  /\ wanted' = [wanted EXCEPT ![p] = 0]
  /\ short' = [short EXCEPT ![p] = TRUE]
  /\ killed' = killed \ {p}

\* The read() ends: it has all it wants, or a line, or an end-of-file, which
\* stays for the next read() if this one has characters; or copyout() fails,
\* and the character it could not store is gone.
ReadEnds(p) ==
  LET k == Plain(p) IN
  /\ stage[p] = "read" /\ ~ConsLocked
  /\ \/ k = wanted[p] /\ ReadReturns(p, k)
     \/ /\ k < wanted[p] /\ k < Minus(cons_w, cons_r)
        /\ \/ InputAt(cons_r + k) = "newline" /\ ReadReturns(p, k + 1)
           \/ /\ InputAt(cons_r + k) = "eof"
              /\ ReadReturns(p, IF k > 0 \/ ~short[p] THEN k ELSE 1)
     \/ \E j \in 1..k : ReadReturns(p, j)
  /\ UNCHANGED <<cons_w, cons_e, cons_buf, txVars, thr, rx, irq, intrVars>>

KillHits(p) == Cardinality(killed) < MaxKilled /\ killed' = killed \cup {p}

\* It takes all there is and waits for more, or returns -1 when p was killed.
\* hit: a kill() lands between the test of p->killed and sleep().
ReadWaits(p, hit) ==
  LET k == Plain(p) IN
  /\ stage[p] = "read" /\ ~ConsLocked
  /\ k < wanted[p] /\ k = Minus(cons_w, cons_r)
  /\ IF p \in killed
       THEN ~hit /\ ReadReturns(p, k)
       ELSE /\ cons_r' = cons_w
            /\ stage' = [stage EXCEPT ![p] = "read_sleep"]
            /\ wanted' = [wanted EXCEPT ![p] = @ - k]
            /\ short' = [short EXCEPT ![p] = @ /\ k = 0]
            /\ IF hit THEN KillHits(p) ELSE UNCHANGED killed
  /\ UNCHANGED <<cons_w, cons_e, cons_buf, txVars, thr, rx, irq, intrVars>>

\* kill() of a process in read().
Kill(p) ==
  /\ p \in Readers \ killed /\ stage[p] # "user"
  /\ KillHits(p)
  /\ stage' = [stage EXCEPT ![p] = "read"]
  /\ UNCHANGED <<consVars, txVars, thr, rx, irq, intrVars, wanted, short>>

(***************************************************************************)
(* consolewrite(), uartputc() and uartstart()                              *)
(***************************************************************************)

TxFull == uart_tx_w = (uart_tx_r + UART_TX_BUF_SIZE) % TXWRAP

Write(p, k) ==
  /\ stage[p] = "user"
  /\ stage' = [stage EXCEPT ![p] = "write"]
  /\ wanted' = [wanted EXCEPT ![p] = k]
  /\ UNCHANGED <<consVars, txVars, thr, rx, irq, intrVars, short, killed>>

\* uartstart(), with tx_w characters ever put into the ring: while the device is
\* idle it gets the next one.  The device may send the first k - 1 at once,
\* which makes it interrupt.  Processes waiting for room are woken.
UartStart(tx_w, after) ==
  LET waiting == (tx_w + TXWRAP - uart_tx_r) % TXWRAP IN
  \/ /\ waiting = 0 \/ thr > 0
     /\ stage' = after
     /\ UNCHANGED <<uart_tx_r, thr, irq>>
  \/ /\ thr = 0
     /\ \E k \in 1..waiting :
          /\ uart_tx_r' = (uart_tx_r + k) % TXWRAP
          /\ thr' = 1
          /\ irq' = (irq \/ k > 1)
     /\ stage' = [p \in Callers |->
                 IF after[p] = "write_sleep" THEN "write" ELSE after[p]]

\* uartputc() sleeps while the ring is full.
PutSleeps(p) ==
  /\ stage[p] = "write" /\ wanted[p] > 0 /\ TxFull
  /\ stage' = [stage EXCEPT ![p] = "write_sleep"]
  /\ UNCHANGED <<consVars, txVars, thr, rx, irq, intrVars, wanted, short,
                 killed>>

PutC(p) ==
  /\ stage[p] = "write" /\ wanted[p] > 0 /\ ~TxFull
  /\ uart_tx_w' = (uart_tx_w + 1) % TXWRAP
  /\ wanted' = [wanted EXCEPT ![p] = @ - 1]
  /\ UartStart(uart_tx_w', stage)
  /\ UNCHANGED <<consVars, rx, intrVars, short, killed>>

\* The loop of consolewrite() ends, early when copyin() fails.
WriteEnds(p) ==
  /\ stage[p] = "write"
  /\ stage' = [stage EXCEPT ![p] = "user"]
  /\ wanted' = [wanted EXCEPT ![p] = 0]
  /\ UNCHANGED <<consVars, txVars, thr, rx, irq, intrVars, short, killed>>

(***************************************************************************)
(* devintr(): uartintr() and consoleintr()                                 *)
(***************************************************************************)

\* plic_claim() hands the interrupt out, and not again before plic_complete().
Claim ==
  /\ handler = "idle" /\ irq
  /\ irq' = FALSE
  /\ handler' = "rx"
  /\ UNCHANGED <<consVars, txVars, thr, rx, intr_c, echo, callVars, killed>>

\* How many characters of the line being edited ^U takes back: those after the
\* last end of a line that consoleread() has not been given.
Killed ==
  LET edited == Minus(cons_e, cons_w)
      kept == {i \in 0..(edited - 1) : InputAt(cons_w + i) = "newline"}
  IN  IF kept = {} THEN edited ELSE edited - 1 - Max(kept)

\* uartgetc() and consoleintr() up to the first consputc(): a character is
\* taken back, stored if there is room for it, or ignored.
GetC ==
  LET ch == Head(rx) IN
  /\ handler = "rx" /\ rx # << >>
  /\ rx' = Tail(rx)
  /\ echo' = CASE ch = "kill" -> Killed
               [] ch = "backspace" -> IF cons_e # cons_w THEN 1 ELSE 0
               [] OTHER -> IF Minus(cons_e, cons_r) < INPUT_BUF THEN 1 ELSE 0
  /\ IF echo' = 0 THEN handler' = "rx" /\ intr_c' = NoChar
                  ELSE handler' = "echo" /\ intr_c' = ch
  /\ UNCHANGED <<consVars, txVars, thr, irq, callVars, killed>>

\* uartputc_sync() spins until the transmitter is idle, ...
EchoReady ==
  /\ handler = "echo" /\ thr = 0
  /\ handler' = "put"
  /\ UNCHANGED <<consVars, txVars, thr, rx, irq, intr_c, echo, callVars,
                 killed>>

\* ... and writes to it; consoleintr() takes a character back before the echo
\* of each one, and stores one after it.
EchoPut ==
  /\ handler = "put"
  /\ thr' = thr + 1
  /\ echo' = echo - 1
  /\ IF intr_c \in Stored
       THEN handler' = "store" /\ UNCHANGED <<cons_e, intr_c>>
       ELSE /\ cons_e' = Minus(cons_e, 1)
            /\ IF echo' = 0 THEN handler' = "rx" /\ intr_c' = NoChar
                            ELSE handler' = "echo" /\ UNCHANGED intr_c
  /\ UNCHANGED <<cons_r, cons_w, cons_buf, txVars, rx, irq, callVars, killed>>

\* Mutant: only the end of a line, not a full buffer, gives it to the readers.
Store_LineOnly ==
  LET e1 == (cons_e + 1) % WRAP IN
  /\ handler = "store"
  /\ cons_buf' = [cons_buf EXCEPT ![cons_e % INPUT_BUF] = intr_c]
  /\ cons_e' = e1
  /\ IF intr_c # "char"
       THEN cons_w' = e1 /\ stage' = Woken("read_sleep", "read")
       ELSE UNCHANGED <<cons_w, stage>>
  /\ handler' = "rx" /\ intr_c' = NoChar
  /\ UNCHANGED <<cons_r, txVars, thr, rx, irq, echo, wanted, short, killed>>

\* The character is stored; the end of a line, or a full buffer, gives the line
\* to consoleread().
Store ==
  LET e1 == (cons_e + 1) % WRAP IN
  /\ handler = "store"
  /\ cons_buf' = [cons_buf EXCEPT ![cons_e % INPUT_BUF] = intr_c]
  /\ cons_e' = e1
  /\ IF intr_c # "char" \/ e1 = (cons_r + INPUT_BUF) % WRAP
       THEN cons_w' = e1 /\ stage' = Woken("read_sleep", "read")
       ELSE UNCHANGED <<cons_w, stage>>
  /\ handler' = "rx" /\ intr_c' = NoChar
  /\ UNCHANGED <<cons_r, txVars, thr, rx, irq, echo, wanted, short, killed>>

\* Mutant: the handler takes the interrupt for one about input only.
NoInput_Done ==
  /\ handler = "rx" /\ rx = << >>
  /\ handler' = "idle"
  /\ UNCHANGED <<consVars, txVars, thr, rx, irq, intr_c, echo, callVars,
                 killed>>

\* No character is left in the receiver: on to the output ring.
NoInput ==
  /\ handler = "rx" /\ rx = << >>
  /\ handler' = "tx"
  /\ UNCHANGED <<consVars, txVars, thr, rx, irq, intr_c, echo, callVars,
                 killed>>

\* uartstart() and plic_complete().
SendMore ==
  /\ handler = "tx"
  /\ UartStart(uart_tx_w, stage)
  /\ handler' = "idle"
  /\ UNCHANGED <<consVars, uart_tx_w, rx, intr_c, echo, wanted, short, killed>>

(***************************************************************************)
(* The device: it interrupts when a character has arrived and when the     *)
(* transmitter becomes idle.                                               *)
(***************************************************************************)

DeviceReceives(ch) ==
  /\ Len(rx) < MaxRx
  /\ rx' = Append(rx, ch)
  /\ irq' = TRUE
  /\ UNCHANGED <<consVars, txVars, thr, intrVars, callVars, killed>>

DeviceSends ==
  /\ thr > 0
  /\ thr' = 0
  /\ irq' = TRUE
  /\ UNCHANGED <<consVars, txVars, rx, intrVars, callVars, killed>>

Handle == Claim \/ GetC \/ EchoReady \/ EchoPut \/ Store \/ NoInput \/ SendMore

ConsoleNext ==
  \/ \E p \in Readers, k \in ReadSizes : Read(p, k)
  \/ \E p \in Readers : ReadEnds(p) \/ Kill(p)
  \/ \E p \in Readers, hit \in BOOLEAN : ReadWaits(p, hit)
  \/ \E p \in Writers, k \in WriteSizes : Write(p, k)
  \/ \E p \in Writers : PutSleeps(p) \/ PutC(p) \/ WriteEnds(p)
  \/ Handle
  \/ DeviceSends
  \/ \E ch \in Chars : DeviceReceives(ch)

ConsoleSpec == ConsoleInit /\ [][ConsoleNext]_consoleVars

-----------------------------------------------------------------------------

\* The input buffer: what may be read, what is being edited and what is free
\* never overlap, through every wrap of the indices and after ^D is put back;
\* every finished line, and a full buffer, may be read; and no process sleeps in
\* consoleread() while there is something for it.
InputReadable ==
  /\ ConsoleTypeOK
  /\ Minus(cons_w, cons_r) + Minus(cons_e, cons_w) = Minus(cons_e, cons_r)
  /\ Minus(cons_e, cons_r) <= INPUT_BUF
  /\ Minus(cons_e, cons_r) = INPUT_BUF => Minus(cons_w, cons_r) > 0
  /\ \A i \in 0..(Minus(cons_e, cons_w) - 1) : InputAt(cons_w + i) = "char"
  /\ \A p \in Readers : stage[p] = "read_sleep" => cons_r = cons_w

\* Nobody sleeps in uartputc() while the ring has room, and what is in the ring
\* will be sent: the transmitter is busy, and will interrupt, or the interrupt
\* is there or being handled.  uartputc_sync(), which writes to the transmitter
\* without uart_tx_lock, adds at most one character to it.
OutputMoves ==
  /\ \A p \in Writers : stage[p] = "write_sleep" => TxFull
  /\ uart_tx_r # uart_tx_w => thr > 0 \/ irq \/ handler # "idle"
=============================================================================
