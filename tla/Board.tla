--------------------------------- MODULE Board ---------------------------------
(***************************************************************************)
(* The system board as the processor's bus meets it (core/src/board.c):     *)
(* memory, the dispatcher, the timer, system registers A and C with the     *)
(* speaker, the hard disk and the RAM disk.  The keyboard's port and the    *)
(* floppy's are in Uart and Floppy: here their addresses are silent, as are *)
(* the MS 7007's and the cassette's.                                        *)
(*                                                                          *)
(* A machine s is a record; the board's part of it is mem, tmr, hd, rd,      *)
(* reg_a, reg_c, sound, and up, the interrupt lines that are raised.        *)
(***************************************************************************)
EXTENDS Alu, Timer, HardDisk, RamDisk

MON == 2                    \* a line is its CP code
TIMER == 11
LineVector(line) == IF line = MON THEN \o064 ELSE \o100

TimerRead == 64..70         \* offsets in the I/O page
TimerWritten == 80..86
REG_A == 128
REG_C == 132
PPI_CTRL == 134

(* update_sound: enabled by bit 6 of register C, timer channel 2 is heard.  *)
Heard(s) == [s EXCEPT !.sound = BitOf(s.reg_c, 6) /\ s.tmr[2].out]

(* apply_reg_c: bit 7 is the gate of channel 2.                             *)
RegC(s, x) == Heard([s EXCEPT !.reg_c = x, !.tmr = [@ EXCEPT ![2] = Gated(@, BitOf(x, 7))]])

(* apply_reg_a, of which the ROM's extent is what memory knows.             *)
RegA(s, x) == [s EXCEPT !.reg_a = x, !.mem = [@ EXCEPT !.rom_extended = BitOf(x, 7)]]

(* The PPI's control word: without bit 7 it sets or resets a bit of C.      *)
PpiControl(s, x) ==
  LET i == (x \div 2) % 8
      cleared == s.reg_c - (IF BitOf(s.reg_c, i) THEN 2^i ELSE 0)
  IN IF x >= 128 THEN s ELSE RegC(s, cleared + (IF x % 2 = 1 THEN 2^i ELSE 0))

(* A write of the dispatcher, and board_monitor_request: bit 8 going up     *)
(* raises the monitor's request, going down withdraws it.                   *)
Dispatch(s, x) ==
  LET was == DispBit(s.mem, 8)
      now == BitOf(x, 8)
  IN [s EXCEPT !.mem = [@ EXCEPT !.dispatcher = x],
               !.up = IF now /\ ~was THEN @ \cup {MON} ELSE IF was /\ ~now THEN @ \ {MON} ELSE @]

(* io_read_byte: the value and the machine after.  The read half of a       *)
(* read-modify-write does not reach the RAM disk's data port.               *)
IoReadByte(s, offset, datio) ==
  CASE offset <= 31 -> [val |-> s.mem.dispatcher % 256, s |-> s]
    [] offset \in TimerRead ->
         LET read == TimerReads(s.tmr, (offset - 64) \div 2)
         IN [val |-> read.val, s |-> [s EXCEPT !.tmr = read.tmr]]
    [] offset = REG_A -> [val |-> s.reg_a, s |-> s]
    [] offset = REG_C -> [val |-> s.reg_c, s |-> s]
    [] HdHandles(offset) -> [val |-> HdReadByte(s.hd, offset), s |-> s]
    [] datio /\ offset \in DataPort -> [val |-> 255, s |-> s]
    [] RamDiskHandles(offset) /\ ~(datio /\ offset \in DataPort) ->
         LET read == RamDiskRead(s.rd, offset)
         IN [val |-> read.val, s |-> [s EXCEPT !.rd = read.rd]]
    [] OTHER -> [val |-> 0, s |-> s]

(* io_read_word: two reads of bytes, but of the dispatcher and the disk.    *)
IoReadWord(s, offset, datio) ==
  LET low == IoReadByte(s, offset, datio)
      high == IoReadByte(low.s, offset + 1, datio)
  IN CASE offset <= 31 -> [val |-> s.mem.dispatcher, s |-> s]
       [] HdHandles(offset) -> [val |-> HdReadWord(s.hd, offset), s |-> s]
       [] OTHER -> [val |-> low.val + 256 * high.val, s |-> high.s]

(* io_write_byte: of the dispatcher the low byte.                           *)
IoWriteByte(s, offset, x) ==
  CASE offset <= 31 -> Dispatch(s, (s.mem.dispatcher - (s.mem.dispatcher % 256)) + x)
    [] offset \in TimerWritten -> [s EXCEPT !.tmr = TimerWrite(@, (offset - 80) \div 2, x)]
    [] offset = REG_A -> RegA(s, x)
    [] offset = REG_C -> RegC(s, x)
    [] offset = PPI_CTRL -> PpiControl(s, x)
    [] HdHandles(offset) ->
         LET did == HdWriteByte(s.hd, s.mem, offset, x) IN [s EXCEPT !.hd = did.hd, !.mem = did.m]
    [] RamDiskHandles(offset) -> [s EXCEPT !.rd = RamDiskWrite(@, offset, x)]
    [] OTHER -> s

(* io_write_word: a device of 8 bits gets the low byte.                     *)
IoWriteWord(s, offset, x) ==
  CASE offset <= 31 -> Dispatch(s, x)
    [] HdHandles(offset) ->
         LET did == HdWriteWord(s.hd, s.mem, offset, x) IN [s EXCEPT !.hd = did.hd, !.mem = did.m]
    [] OTHER -> IoWriteByte(s, offset, x % 256)

-----------------------------------------------------------------------------
(* board_read_word and its like; the low bit of a word's address is nought. *)

Even(a) == a - (a % 2)

BoardRead(s, a, byte, datio) ==
  LET tr == Translate(s.mem, IF byte THEN a ELSE Even(a))
  IN CASE tr.store = "io" /\ byte -> IoReadByte(s, tr.offset, datio)
       [] tr.store = "io" /\ ~byte -> IoReadWord(s, tr.offset, datio)
       [] OTHER -> [val |-> IF byte THEN ByteAt(s.mem, tr) ELSE WordAt(s.mem, tr), s |-> s]

BoardWrite(s, a, byte, x) ==
  LET tr == Translate(s.mem, IF byte THEN a ELSE Even(a))
  IN CASE tr.store = "io" /\ byte -> IoWriteByte(s, tr.offset, x)
       [] tr.store = "io" /\ ~byte -> IoWriteWord(s, tr.offset, x)
       [] OTHER -> [s EXCEPT !.mem = IF byte THEN PutByte(@, tr, x) ELSE PutWord(@, tr, x)]

(* A pulse of the timer's clock, and the end of a frame: bit 9 of the       *)
(* dispatcher lets it raise the timer's request (board_step_frame).         *)
BoardTick(s) == Heard([s EXCEPT !.tmr = TimerTick(@)])
BoardFrame(s) == IF DispBit(s.mem, 9) THEN [s EXCEPT !.up = @ \cup {TIMER}] ELSE s

=============================================================================
