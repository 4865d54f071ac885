----------------------------- MODULE SparseVolume -----------------------------
(***************************************************************************)
(* A volume that holds only the blocks in use (disk/src/SparseVolume.cpp),  *)
(* and the diskette it stands for behind the floppy controller              *)
(* (lib/src/Emulator.cpp: mountDiskVolume, cFdcVolumeRead, cFdcVolumeWrite).*)
(* It is one object with one owner at a time: the controller while it is    *)
(* mounted, the program through Emulator::diskVolume between two steps of   *)
(* the machine.                                                             *)
(***************************************************************************)
EXTENDS Layout

CONSTANTS
  Content,     \* what a block holds, other than zeros
  Zero         \* a block of zeros

VARIABLES
  blocks,      \* blocks_: the volume's size
  held         \* held_: a function from the blocks held to what they hold

vars == <<blocks, held>>

Block == Content \cup {Zero}

-----------------------------------------------------------------------------
ReadBlock(lbn) == IF lbn \in DOMAIN held THEN held[lbn] ELSE Zero

(* fromImage: the blocks in use of an image, as a sequence of blocks; all   *)
(* of them in fromLinear, and where there is no directory.                  *)
FromImage(linear, used) ==
  [l \in {k \in used : k < Len(linear) /\ linear[k + 1] # Zero} |-> linear[l + 1]]

Init ==
  \/ \E n \in Int : blocks = (IF n < 0 THEN 0 ELSE n) /\ held = [l \in {} |-> Zero]
  \/ \E linear \in Seq(Block), used \in SUBSET Nat :
       blocks = Len(linear) /\ held = FromImage(linear, used)

Resize(n) ==
  /\ blocks' = (IF n < 0 THEN 0 ELSE n)
  /\ held' = [l \in {k \in DOMAIN held : k < blocks'} |-> held[l]]

ClearBlock(lbn) ==
  /\ held' = [l \in DOMAIN held \ {lbn} |-> held[l]]
  /\ UNCHANGED blocks

WriteBlock(lbn, b) ==
  /\ IF lbn < 0 \/ lbn >= blocks THEN UNCHANGED held
     ELSE IF b = Zero THEN held' = [l \in DOMAIN held \ {lbn} |-> held[l]]
     ELSE held' = [l \in DOMAIN held \cup {lbn} |-> IF l = lbn THEN b ELSE held[l]]
  /\ UNCHANGED blocks

(* The sectors of the diskette it is mounted as, which must be of the size. *)
ReadSector(track, sector) == ReadBlock(LbnFromPhys(track, sector))
WriteSector(track, sector, b) ==
  /\ blocks = kSsBlocks
  /\ WriteBlock(LbnFromPhys(track, sector), b)

(* The serial form: a size, and a sequence of numbered blocks.              *)
File == [size : Nat, entries : Seq([lbn : Nat, block : Block])]

(* serialize: the map is gone through in rising order.                      *)
Serialized(file) ==
  LET e == file.entries
  IN /\ file.size = blocks
     /\ \A i, j \in DOMAIN e : i < j => e[i].lbn < e[j].lbn
     /\ {e[i].lbn : i \in DOMAIN e} = DOMAIN held
     /\ \A i \in DOMAIN e : e[i].block = held[e[i].lbn]

(* parse: what it accepts, and the blocks it then holds.                    *)
Accepted(file) ==
  \A i \in DOMAIN file.entries :
    /\ file.entries[i].lbn < file.size
    /\ file.entries[i].lbn >= IF i = 1 THEN 0 ELSE file.entries[i - 1].lbn + 1
Parsed(file) ==
  LET e == file.entries
  IN [l \in {e[i].lbn : i \in DOMAIN e} |-> e[CHOOSE i \in DOMAIN e : e[i].lbn = l].block]

(* The volume kept and taken up again, by the same program or by another.   *)
Reload ==
  \E file \in File :
    /\ Serialized(file) /\ Accepted(file)
    /\ blocks' = file.size
    /\ held' = Parsed(file)

Next ==
  \/ \E n \in Int : Resize(n)
  \/ \E lbn \in Int : ClearBlock(lbn)
  \/ \E lbn \in Int, b \in Block : WriteBlock(lbn, b)
  \/ \E track \in Tracks, sector \in Sectors, b \in Block : WriteSector(track, sector, b)
  \/ Reload

Spec == Init /\ [][Next]_vars

-----------------------------------------------------------------------------
(* Properties.                                                              *)

(* Nothing is held past the volume's end, where a volume grown again would  *)
(* show it, and no block of zeros is held (resize, writeBlock).             *)
HeldWithin ==
  /\ blocks \in Nat
  /\ DOMAIN held \subseteq 0..(blocks - 1)
  /\ held \in [DOMAIN held -> Content \ {Zero}]

(* A volume is a store of blocks: the last block written is read, what was  *)
(* let go, cut off or never written is zeros, whatever the file it went     *)
(* through.                                                                 *)
Store == INSTANCE BlockStore WITH size <- blocks, content <- [l \in 0..(blocks - 1) |-> ReadBlock(l)]
ImplementsBlockStore == Store!Spec

(* As a diskette, a sector written is that sector, and no other changes.    *)
WritesAlone ==
  \A track, t \in Tracks, sector, x \in Sectors, b \in Block :
    WriteSector(track, sector, b) =>
      ReadSector(t, x)' = IF t = track /\ x = sector THEN b ELSE ReadSector(t, x)
SectorAlone == [][WritesAlone]_vars

(* What is kept is taken up as it was.                                      *)
RoundTrips == \A file \in File : Serialized(file) => Accepted(file) /\ Parsed(file) = held

=============================================================================
