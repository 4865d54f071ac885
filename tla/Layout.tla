-------------------------------- MODULE Layout --------------------------------
(***************************************************************************)
(* Where a logical block lies on a diskette (disk/include/ms0515/disk/      *)
(* Layout.hpp, disk/src/Layout.cpp), the controller's own arithmetic on an  *)
(* image (core/src/floppy.c), and where the composer puts a block of one    *)
(* medium on another (disk/src/Compose.cpp).  The DZ: handler's interleave  *)
(* and skew are written twice, forwards and backwards, and the rotation of  *)
(* DV: likewise.                                                            *)
(***************************************************************************)
EXTENDS Integers, Sequences

kBlock == 512
kSectorsPerTrack == 10
kTracks == 80
kTrackSize == 5120
kSsBlocks == 800
kDsBlocks == 1600
kDvRotate == 20

kInterleave == <<0, 2, 4, 6, 8, 1, 3, 5, 7, 9>>
kInverse == <<0, 5, 1, 6, 2, 7, 3, 8, 4, 9>>

Tracks == 0..(kTracks - 1)
Sectors == 1..kSectorsPerTrack       \* the controller's sector register

(* lbnToByte: the handler's track and sector of a block, and its byte in an *)
(* image of one side or two.                                                *)
TrackOf(lbn) == (((lbn % kSsBlocks) \div kSectorsPerTrack) + 1) % kTracks
SectorOf(lbn) ==
  (kInterleave[((lbn % kSsBlocks) % kSectorsPerTrack) + 1] + 2 * TrackOf(lbn) - 2) % kSectorsPerTrack

LbnToByte(lbn, side, ds) ==
  (IF ds THEN side * kTrackSize ELSE 0)
    + TrackOf(lbn) * (IF ds THEN 2 * kTrackSize ELSE kTrackSize)
    + SectorOf(lbn) * kBlock

(* lbnToByte of a DV: volume.                                               *)
DvToByte(lbn) == ((lbn + kDvRotate) % kDsBlocks) * kBlock

(* lbnFromPhys.                                                             *)
LbnFromPhys(track, sector) ==
  ((track + kTracks - 1) % kTracks) * kSectorsPerTrack
    + kInverse[(((sector - 1) - (2 * track - 2)) % kSectorsPerTrack) + 1]

(* fdc_attach's layout of an image for a unit on a side, and disk_offset.   *)
ImageOffset(side, ds) == IF ds /\ side = 1 THEN kTrackSize ELSE 0
TrackStride(ds) == IF ds THEN 2 * kTrackSize ELSE kTrackSize
DiskOffset(side, ds, track, sector) ==
  ImageOffset(side, ds) + track * TrackStride(ds) + (sector - 1) * kBlock

(* Compose.cpp's sectorOf: the place of a byte of a dump.                   *)
Place(byte, ds) ==
  LET rem == byte % TrackStride(ds)
  IN [track |-> byte \div TrackStride(ds),
      side |-> rem \div kTrackSize,
      sector |-> (rem % kTrackSize) \div kBlock]

(* spotOf: a block of a side of one medium, with one side or two, to the    *)
(* same sector of another, as its byte there and as the volume and block    *)
(* the file system there knows it by; one of the second side has no place   *)
(* on a medium without.                                                     *)
Refused(lbn, side, srcDs, ds) == Place(LbnToByte(lbn, side, srcDs), srcDs).side # 0 /\ ~ds
Spot(lbn, side, srcDs, ds, dv) ==
  LET ph == Place(LbnToByte(lbn, side, srcDs), srcDs)
      byte == ph.track * TrackStride(ds) + ph.side * kTrackSize + ph.sector * kBlock
  IN [byte |-> byte,
      volume |-> IF dv THEN 0 ELSE ph.side,
      lbn |-> IF dv THEN ((byte \div kBlock) - kDvRotate + kDsBlocks) % kDsBlocks
              ELSE LbnFromPhys(ph.track, ph.sector + 1)]

=============================================================================
