-------------------------------- MODULE RamDisk --------------------------------
(***************************************************************************)
(* The expansion RAM disk EX0: (core/src/ramdisk.c): a dynamic memory read  *)
(* and written a byte at a time through one port, at an address made of the *)
(* PPI's ports A and B and of a counter that every access advances and that *)
(* wraps within a page.  The ram of a disk rd is a function on the bytes    *)
(* written; the others hold the noise of power-on.                          *)
(***************************************************************************)
EXTENDS Integers, TLC

CONSTANT RAMDISK_PAGE_SIZE

ASSUME RamDiskAssumption == RAMDISK_PAGE_SIZE \in Nat \ {0}

PPI_READ == [a |-> 72, b |-> 74, c |-> 76, ctrl |-> 78]        \* offsets in the I/O page
PPI_WRITE == [a |-> 88, b |-> 90, c |-> 92, ctrl |-> 94]
DataPort == {104, 105, 120, 121}

RamDiskHandles(offset) ==
  offset \in (PPI_READ.a..PPI_READ.ctrl) \cup (PPI_WRITE.a..PPI_WRITE.ctrl) \cup DataPort

RamDiskReset(rd) == [rd EXCEPT !.a = 0, !.b = 0, !.c = 0, !.ctrl = 0, !.counter = 0]

(* compute_address: port B's three bits, port A and the counter.            *)
ComputeAddress(rd) == ((rd.b % 8) * 256 + rd.a) * RAMDISK_PAGE_SIZE + rd.counter

Noise == 170
Counted(rd) == [rd EXCEPT !.counter = (@ + 1) % RAMDISK_PAGE_SIZE]

(* ramdisk_read: the byte and the disk after.                               *)
RamDiskRead(rd, offset) ==
  LET at == ComputeAddress(rd)
  IN CASE offset = PPI_READ.a -> [val |-> rd.a, rd |-> rd]
       [] offset = PPI_READ.b -> [val |-> rd.b, rd |-> rd]
       [] offset = PPI_READ.c -> [val |-> rd.c, rd |-> rd]
       [] offset = PPI_READ.ctrl -> [val |-> rd.ctrl, rd |-> rd]
       [] offset \in DataPort ->
            [val |-> IF at \in DOMAIN rd.ram THEN rd.ram[at] ELSE Noise, rd |-> Counted(rd)]
       [] OTHER -> [val |-> 0, rd |-> rd]

(* ppi_set_control: a mode word clears the ports and the counter; the rest  *)
(* set or reset one bit of port C.                                          *)
SetControl(rd, x) ==
  LET bit == 2^((x \div 2) % 8)
      rest == rd.c - (IF (rd.c \div bit) % 2 = 1 THEN bit ELSE 0)
  IN IF x >= 128 THEN [RamDiskReset(rd) EXCEPT !.ctrl = x]
     ELSE [rd EXCEPT !.c = rest + (IF x % 2 = 1 THEN bit ELSE 0)]

(* ramdisk_write: bit 5 of port B resets the counter.                       *)
RamDiskWrite(rd, offset, x) ==
  CASE offset = PPI_WRITE.a -> [rd EXCEPT !.a = x]
    [] offset = PPI_WRITE.b ->
         [rd EXCEPT !.b = x, !.counter = IF (x \div 32) % 2 = 1 THEN 0 ELSE @]
    [] offset = PPI_WRITE.c -> [rd EXCEPT !.c = x]
    [] offset = PPI_WRITE.ctrl -> SetControl(rd, x)
    [] offset \in DataPort -> [Counted(rd) EXCEPT !.ram = (ComputeAddress(rd) :> x) @@ @]
    [] OTHER -> rd

=============================================================================
