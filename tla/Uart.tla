-------------------------------- MODULE Uart --------------------------------
(***************************************************************************)
(* The i8251 USART on the machine's end of the keyboard line, with the      *)
(* bytes under way to it: core/src/keyboard.c.                              *)
(*                                                                          *)
(* A byte waits in the FIFO for its time on the wire and is offered when    *)
(* the receiver is free.  The transmitter is always ready; what the CPU     *)
(* sends goes to the keyboard in the same call (MS7004).  The error bits    *)
(* are never set and left out, and so is the mode byte, only kept.          *)
(***************************************************************************)
EXTENDS Integers, Sequences

CONSTANTS
  Capacity,     \* the FIFO's sixteen bytes
  ByteTicks     \* kbd_ticks a byte takes on the wire: eight

ASSUME UartAssumption == Capacity \in Nat \ {0} /\ ByteTicks \in Nat \ {0}

VARIABLES
  fifo,
  rx_ready, rx_data, rx_delay,
  async,        \* init_step = 1: the control register takes commands
  rxen,         \* bit 2 of the command
  rxrdy,        \* bit 1 of the status register
  irq

uartVars == <<fifo, rx_ready, rx_data, rx_delay, async, rxen, rxrdy, irq>>

ZERO == "0"
ONE == "1"   \* the bytes 000 and 001

(* A control write, as far as it acts: bits 1:0 (as a mode word's baud      *)
(* factor), 2 and 6.                                                        *)
Control == [baud : BOOLEAN, rxen : BOOLEAN, ireset : BOOLEAN]

UpdateStatus == rxrdy' = rx_ready' /\ irq' = (rx_ready' /\ rxen')

(* kbd_init, kbd_reset                                                      *)
UartInit ==
  /\ fifo = <<>>
  /\ rx_ready = FALSE /\ rx_data = ZERO /\ rx_delay = 0
  /\ async = FALSE /\ rxen = FALSE /\ rxrdy = FALSE /\ irq = FALSE

UartReset ==
  /\ fifo' = <<>>
  /\ rx_ready' = FALSE /\ rx_data' = ZERO /\ rx_delay' = 0
  /\ async' = FALSE /\ rxen' = FALSE /\ rxrdy' = FALSE /\ irq' = FALSE

Fits_OneMore(q, bs) ==                                                            \* mutant
  IF Len(q) + Len(bs) <= Capacity + 1 THEN Len(bs) ELSE Capacity + 1 - Len(q)

(* How many of bs fit behind q (fifo_push drops what does not).             *)
Fits(q, bs) == IF Len(q) + Len(bs) <= Capacity THEN Len(bs) ELSE Capacity - Len(q)

(* kbd_push_scancode, for each of bs                                        *)
Send(bs) ==
  /\ fifo' = fifo \o SubSeq(bs, 1, Fits(fifo, bs))
  /\ rx_delay' = IF bs # <<>> /\ fifo = <<>> /\ ~rx_ready /\ rx_delay = 0
                   THEN ByteTicks ELSE rx_delay
  /\ UNCHANGED <<rx_ready, rx_data, async, rxen, rxrdy, irq>>

Answer_KeepsStatus(bs) ==                                                         \* mutant
  /\ fifo' = SubSeq(bs, 1, Fits(<<>>, bs))
  /\ rx_ready' = FALSE
  /\ rx_delay' = IF rx_delay = 0 THEN ByteTicks ELSE rx_delay
  /\ UNCHANGED <<rx_data, async, rxen, rxrdy, irq>>

(* kbd_flush_fifo, then kbd_push_scancode for each of bs                    *)
Answer(bs) ==
  /\ fifo' = SubSeq(bs, 1, Fits(<<>>, bs))
  /\ rx_ready' = FALSE
  /\ rx_delay' = IF rx_delay = 0 THEN ByteTicks ELSE rx_delay
  /\ UNCHANGED <<rx_data, async, rxen>>
  /\ UpdateStatus

(* kbd_write, the data register, when the keyboard sends nothing back.      *)
NoAnswer ==
  /\ UNCHANGED <<fifo, rx_ready, rx_data, rx_delay, async, rxen>>
  /\ UpdateStatus

(* kbd_write, the control register: a mode word without a baud factor       *)
(* changes nothing; an internal reset drops the byte that has arrived but   *)
(* not those behind it.                                                     *)
WriteMode(c) ==
  /\ ~async
  /\ async' = c.baud
  /\ UNCHANGED <<fifo, rx_ready, rx_data, rx_delay, rxen, rxrdy, irq>>

WriteControl(c) ==
  /\ async /\ ~c.ireset
  /\ rxen' = c.rxen
  /\ UNCHANGED <<fifo, rx_ready, rx_data, rx_delay, async>>
  /\ UpdateStatus

InternalReset_Flushes(c) ==                                                       \* mutant
  /\ async /\ c.ireset
  /\ async' = FALSE /\ rxen' = FALSE /\ rx_ready' = FALSE /\ fifo' = <<>>
  /\ UNCHANGED <<rx_data, rx_delay>>
  /\ UpdateStatus

InternalReset(c) ==
  /\ async /\ c.ireset
  /\ async' = FALSE /\ rxen' = FALSE /\ rx_ready' = FALSE
  /\ UNCHANGED <<fifo, rx_data, rx_delay>>
  /\ UpdateStatus

Program(c) == WriteMode(c) \/ WriteControl(c) \/ InternalReset(c)

(* kbd_read, the data register: the byte read is rx_data.                   *)
ReadByte ==
  /\ rx_ready' = FALSE
  /\ UNCHANGED <<fifo, rx_data, rx_delay, async, rxen>>
  /\ UpdateStatus

Arrived_CountsOn == ~rx_ready /\ fifo # <<>> /\ rx_delay < 0                      \* mutant
Arrived == ~rx_ready /\ fifo # <<>> /\ rx_delay = 0

(* kbd_tick                                                                 *)
UartTick ==
  /\ \/ /\ Arrived
        /\ rx_data' = Head(fifo) /\ fifo' = Tail(fifo)
        /\ rx_ready' = TRUE /\ rx_delay' = ByteTicks
     \/ /\ ~Arrived
        /\ rx_delay' = IF ~rx_ready /\ fifo # <<>> /\ rx_delay > 0
                         THEN rx_delay - 1 ELSE rx_delay
        /\ UNCHANGED <<fifo, rx_ready, rx_data>>
  /\ UNCHANGED <<async, rxen>>
  /\ UpdateStatus

(* Sent and not read.                                                       *)
Wire == IF rx_ready THEN <<rx_data>> \o fifo ELSE fifo
=============================================================================
