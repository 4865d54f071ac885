------------------------------- MODULE HardDisk -------------------------------
(***************************************************************************)
(* The paravirtual hard disk HD: (core/src/hd.c).  A guest writes an        *)
(* argument to HDDAT and a command to HDCSR; a transfer is whole and at     *)
(* once, between memory and the volume: an image in memory whose changes    *)
(* are written through to its file, or a host back end of whole blocks.     *)
(*                                                                          *)
(* A controller hd has its registers, the kind of its medium, the image and *)
(* the file.  A volume is a function on its bytes.                          *)
(***************************************************************************)
EXTENDS Memory

CONSTANT HD_BLOCK_SIZE      \* bytes

ASSUME HardDiskAssumption == HD_BLOCK_SIZE \in Nat /\ HD_BLOCK_SIZE > 0 /\ HD_BLOCK_SIZE % 2 = 0

CSR == 208                  \* offsets in the I/O page
CSR_HI == 209
DATA == 210
READY == 128
ERROR == 32768

HdHandles(offset) == offset \in {CSR, CSR_HI, DATA, DATA + 1}

(* hd_reset.                                                                *)
HdReset(hd) ==
  [hd EXCEPT !.unit = 0, !.block = 0, !.buf = 0, !.hi = 0, !.wcount = 0, !.data = 0,
             !.status = READY]

(* The volume: an image when there is one, else the back end's own.         *)
Volume(hd) == IF hd.medium = "image" THEN hd.image ELSE hd.file
VolumeBlocks(hd) == IF hd.medium = "none" THEN 0 ELSE Cardinality(DOMAIN Volume(hd)) \div HD_BLOCK_SIZE
UnitBlocks(hd) == IF hd.unit = 0 THEN VolumeBlocks(hd) ELSE 0

Base(hd) == hd.block * HD_BLOCK_SIZE
Bytes(hd) == 2 * hd.wcount
WholeBlocks(hd) == (Bytes(hd) + HD_BLOCK_SIZE - 1) \div HD_BLOCK_SIZE

(* An image is asked for its bytes, a back end for whole blocks.            *)
Within(hd) ==
  CASE hd.medium = "none" -> FALSE
    [] hd.medium = "image" -> Base(hd) + Bytes(hd) <= Cardinality(DOMAIN hd.image)
    [] hd.medium = "backend" -> hd.block + WholeBlocks(hd) <= VolumeBlocks(hd)

(* The word of memory a transfer's w-th word goes through.                  *)
Through(hd, m, w) == Translate(m, (hd.buf + 2 * w) % 65536)

Read(hd, m) ==
  LET vol == Volume(hd)
      at(w) == Base(hd) + 2 * w
      upTo[w \in 0..hd.wcount] ==
        IF w = 0 THEN m
        ELSE PutWord(upTo[w - 1], Through(hd, m, w - 1), vol[at(w - 1)] + 256 * vol[at(w - 1) + 1])
  IN upTo[hd.wcount]

(* The volume after a write: the words sent, and for a back end the rest of *)
(* the last block as it was read before.                                    *)
Written_BlankTail(hd, m) ==                                                              \* mutant
  LET last == Base(hd) + HD_BLOCK_SIZE * WholeBlocks(hd) - 1
      sent(i) == LET word == WordAt(m, Through(hd, m, (i - Base(hd)) \div 2))
                 IN IF i % 2 = 0 THEN word % 256 ELSE word \div 256
  IN [i \in DOMAIN Volume(hd) |->
        IF i \in Base(hd)..(Base(hd) + Bytes(hd) - 1) THEN sent(i)
        ELSE IF i \in Base(hd)..last THEN 0 ELSE Volume(hd)[i]]
Written(hd, m) ==
  LET sent(i) == LET word == WordAt(m, Through(hd, m, (i - Base(hd)) \div 2))
                 IN IF i % 2 = 0 THEN word % 256 ELSE word \div 256
  IN [i \in DOMAIN Volume(hd) |->
        IF i \in Base(hd)..(Base(hd) + Bytes(hd) - 1) THEN sent(i) ELSE Volume(hd)[i]]

(* hd_transfer: the controller and the memory after it.                     *)
Transfer(hd, m, writing) ==
  LET written == Written(hd, m)
  IN CASE ~Within(hd) -> [hd |-> [hd EXCEPT !.status = READY + ERROR], m |-> m]
       [] Within(hd) /\ ~writing -> [hd |-> [hd EXCEPT !.status = READY], m |-> Read(hd, m)]
       [] Within(hd) /\ writing ->
            [hd |-> [hd EXCEPT !.status = READY, !.file = written,
                               !.image = IF hd.medium = "image" THEN written ELSE @], m |-> m]

(* hd_execute.  The selected unit does not enter a transfer.                *)
Execute(hd, m, cmd) ==
  LET done(h) == [hd |-> [h EXCEPT !.status = READY], m |-> m]
  IN CASE cmd = 1 -> done([hd EXCEPT !.unit = hd.data % 8])
       [] cmd = 2 -> done([hd EXCEPT !.block = hd.data])
       [] cmd = 3 -> done([hd EXCEPT !.buf = hd.data + 65536 * hd.hi, !.hi = 0])
       [] cmd = 4 -> done([hd EXCEPT !.wcount = hd.data])
       [] cmd \in {5, 6} -> Transfer(hd, m, cmd = 6)
       [] cmd = 7 -> done([hd EXCEPT !.data = UnitBlocks(hd)])
       [] OTHER -> [hd |-> [hd EXCEPT !.status = READY + ERROR], m |-> m]

(* hd_read_word, hd_read_byte.                                              *)
HdReadWord(hd, offset) == CASE offset = CSR -> hd.status [] offset = DATA -> hd.data [] OTHER -> 0
HdReadByte(hd, offset) ==
  CASE offset = CSR -> hd.status % 256
    [] offset = CSR_HI -> hd.status \div 256
    [] offset = DATA -> hd.data % 256
    [] offset = DATA + 1 -> hd.data \div 256

(* hd_write_word, hd_write_byte.                                            *)
HdWriteWord(hd, m, offset, x) ==
  CASE offset = CSR -> Execute(hd, m, x % 256)
    [] offset = DATA -> [hd |-> [hd EXCEPT !.data = x], m |-> m]
    [] OTHER -> [hd |-> hd, m |-> m]
HdWriteByte(hd, m, offset, x) ==
  CASE offset = CSR -> Execute(hd, m, x)
    [] offset = CSR_HI -> [hd |-> [hd EXCEPT !.hi = x], m |-> m]
    [] offset = DATA -> [hd |-> [hd EXCEPT !.data = (@ - (@ % 256)) + x], m |-> m]
    [] offset = DATA + 1 -> [hd |-> [hd EXCEPT !.data = (@ % 256) + 256 * x], m |-> m]

=============================================================================
