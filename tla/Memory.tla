-------------------------------- MODULE Memory --------------------------------
(***************************************************************************)
(* The address space (core/src/memory.c): RAM in banks of which the memory  *)
(* dispatcher shows the primary or the extended one, the video RAM in a     *)
(* window, the ROM and the I/O page.  A memory m is its dispatcher, the     *)
(* ROM's extent and the bytes of the three stores, functions on what has    *)
(* been loaded or written; any other byte is zero.                          *)
(***************************************************************************)
EXTENDS Integers, FiniteSets, TLC

BankSize == 8192
BankCount == 8
VramSize == 16384
IoBase == \o177400

(* Bits of the dispatcher.                                                  *)
DispBit(m, i) == (m.dispatcher \div 2^i) % 2 = 1
VramEnabled(m) == DispBit(m, 7)

(* vram_window_start and _end: bits 11 and 10.                              *)
WindowStart(m) ==
  LET win == (m.dispatcher \div 1024) % 4
  IN IF win = 0 THEN 0 ELSE IF win = 1 THEN \o040000 ELSE \o100000
InWindow(m, a) == a \in WindowStart(m)..(WindowStart(m) + VramSize - 1)

(* mem_translate.                                                           *)
Translate(m, a) ==
  LET bank == a \div BankSize
      shown == IF DispBit(m, bank) THEN bank ELSE bank + BankCount
  IN CASE a >= IoBase -> [store |-> "io", offset |-> a - IoBase]
       [] a < IoBase /\ m.rom_extended /\ a >= \o140000 -> [store |-> "rom", offset |-> a - \o140000]
       [] a < IoBase /\ ~m.rom_extended /\ a >= \o160000 ->
            [store |-> "rom", offset |-> a - \o160000 + BankSize]
       [] a < (IF m.rom_extended THEN \o140000 ELSE \o160000) /\ VramEnabled(m) /\ InWindow(m, a) ->
            [store |-> "vram", offset |-> a - WindowStart(m)]
       [] OTHER -> [store |-> "ram", offset |-> (shown * BankSize) + (a % BankSize)]

ByteAt(m, tr) ==
  IF tr.store = "io" \/ tr.offset \notin DOMAIN m[tr.store] THEN 0 ELSE m[tr.store][tr.offset]
WordAt(m, tr) == ByteAt(m, tr) + 256 * ByteAt(m, [tr EXCEPT !.offset = @ + 1])

(* What is written to ROM or to the I/O page is ignored.                    *)
PutByte(m, tr, x) ==
  CASE tr.store \notin {"ram", "vram"} -> m
    [] tr.store \in {"ram", "vram"} /\ tr.offset \in DOMAIN m[tr.store] ->
         [m EXCEPT ![tr.store] = [@ EXCEPT ![tr.offset] = x]]
    [] OTHER -> [m EXCEPT ![tr.store] = (tr.offset :> x) @@ @]
PutWord(m, tr, x) ==
  PutByte(PutByte(m, tr, x % 256), [tr EXCEPT !.offset = @ + 1], x \div 256)

=============================================================================
