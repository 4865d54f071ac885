------------------------- MODULE SparseVolume_proofs -------------------------
(***************************************************************************)
(* The diskette's geometry, forwards and backwards, over every block and    *)
(* sector; and the sparse volume as the store of blocks it stands for.      *)
(***************************************************************************)
EXTENDS SparseVolume, TLAPS

(* The two interleave tables undo one another.                              *)
LEMMA Interleaved ==
  ASSUME NEW j \in 0..9
  PROVE  /\ kInterleave[j + 1] \in 0..9 /\ kInverse[j + 1] \in 0..9
         /\ kInverse[kInterleave[j + 1] + 1] = j
         /\ kInterleave[kInverse[j + 1] + 1] = j
<1>1. \/ j = 0 \/ j = 1 \/ j = 2 \/ j = 3 \/ j = 4 \/ j = 5 \/ j = 6 \/ j = 7 \/ j = 8 \/ j = 9
  OBVIOUS
<1> QED
  BY <1>1 DEF kInterleave, kInverse

(* A digit shifted round and back.                                          *)
LEMMA Shifted ==
  ASSUME NEW a \in 0..9, NEW b \in Int
  PROVE  /\ (a - b) % 10 \in 0..9
         /\ (((a - b) % 10) + b) % 10 = a
  OBVIOUS

(* A track and a digit of a block's number.                                 *)
LEMMA Digits ==
  ASSUME NEW q \in 0..79, NEW k \in 0..9
  PROVE  /\ q * 10 + k \in 0..799
         /\ (q * 10 + k) % 800 = q * 10 + k
         /\ (q * 10 + k) \div 10 = q
         /\ (q * 10 + k) % 10 = k
  OBVIOUS

LEMMA Turned ==
  ASSUME NEW t \in 0..79
  PROVE  /\ (t + 79) % 80 \in 0..79
         /\ (((t + 79) % 80) + 1) % 80 = t
  OBVIOUS

LEMMA Digital ==
  ASSUME NEW n \in 0..799
  PROVE  /\ n % 800 = n
         /\ n \div 10 \in 0..79 /\ n % 10 \in 0..9
         /\ (n \div 10) * 10 + (n % 10) = n
  OBVIOUS

LEMMA TurnedBack ==
  ASSUME NEW q \in 0..79
  PROVE  /\ (q + 1) % 80 \in 0..79
         /\ (((q + 1) % 80) + 79) % 80 = q
  OBVIOUS

(* lbnFromPhys gives the block whose sector the handler computes.           *)
LEMMA PhysOfLbn ==
  ASSUME NEW t \in Tracks, NEW s \in Sectors
  PROVE  /\ LbnFromPhys(t, s) \in 0..799
         /\ TrackOf(LbnFromPhys(t, s)) = t
         /\ SectorOf(LbnFromPhys(t, s)) + 1 = s
<1> DEFINE q == (t + 79) % 80
           d == ((s - 1) - (2 * t - 2)) % 10
           k == kInverse[d + 1]
<1>1. t \in 0..79 /\ s - 1 \in 0..9 /\ 2 * t - 2 \in Int
  BY DEF Tracks, Sectors, kTracks, kSectorsPerTrack
<1>2. q \in 0..79 /\ (q + 1) % 80 = t
  BY <1>1, Turned
<1>3. d \in 0..9 /\ (d + (2 * t - 2)) % 10 = s - 1
  BY <1>1, Shifted
<1>4. k \in 0..9 /\ kInterleave[k + 1] = d
  BY <1>3, Interleaved
<1>5. LbnFromPhys(t, s) = q * 10 + k
  BY <1>1 DEF LbnFromPhys, kTracks, kSectorsPerTrack
<1> HIDE DEF q, d, k
<1>6. /\ q * 10 + k \in 0..799
      /\ (q * 10 + k) % 800 = q * 10 + k
      /\ (q * 10 + k) \div 10 = q
      /\ (q * 10 + k) % 10 = k
  BY <1>2, <1>4, Digits
<1>7. TrackOf(q * 10 + k) = t
  BY <1>2, <1>6 DEF TrackOf, kSsBlocks, kSectorsPerTrack, kTracks
<1>8. SectorOf(q * 10 + k) = (d + 2 * t - 2) % 10
  BY <1>4, <1>6, <1>7 DEF SectorOf, kSsBlocks, kSectorsPerTrack
<1>9. d + 2 * t - 2 = d + (2 * t - 2)
  BY <1>1, <1>3
<1>10. SectorOf(q * 10 + k) = s - 1
  BY <1>3, <1>8, <1>9
<1> QED
  BY <1>1, <1>5, <1>6, <1>7, <1>10

(* And the other way about.                                                 *)
LEMMA LbnOfPhys ==
  ASSUME NEW n \in 0..799
  PROVE  /\ TrackOf(n) \in Tracks /\ SectorOf(n) \in 0..9
         /\ LbnFromPhys(TrackOf(n), SectorOf(n) + 1) = n
<1> DEFINE q == n \div 10
           k == n % 10
           i == kInterleave[k + 1]
           t == (q + 1) % 80
           s == (i + 2 * t - 2) % 10
<1>1. n % 800 = n /\ q \in 0..79 /\ k \in 0..9 /\ q * 10 + k = n
  BY Digital
<1>2. t \in 0..79 /\ (t + 79) % 80 = q
  BY <1>1, TurnedBack
<1>3. i \in 0..9 /\ kInverse[i + 1] = k
  BY <1>1, Interleaved
<1>4. TrackOf(n) = t
  BY <1>1 DEF TrackOf, kSsBlocks, kSectorsPerTrack, kTracks
<1>5. SectorOf(n) = s
  BY <1>1, <1>4 DEF SectorOf, kSsBlocks, kSectorsPerTrack
<1> HIDE DEF q, k, i, t
<1>6. s \in 0..9 /\ (s - (2 * t - 2)) % 10 = i
  BY <1>2, <1>3
<1>7. LbnFromPhys(t, s + 1) = q * 10 + kInverse[i + 1]
  <2>1. ((s + 1) - 1) - (2 * t - 2) = s - (2 * t - 2)
    BY <1>2, <1>6
  <2> HIDE DEF s
  <2>2. ((t + 80 - 1) % 80) = q
    BY <1>2
  <2> QED
    BY <1>6, <2>1, <2>2 DEF LbnFromPhys, kTracks, kSectorsPerTrack
<1> QED
  BY <1>1, <1>2, <1>3, <1>4, <1>5, <1>6, <1>7 DEF Tracks, kTracks

(* A sparse volume, or a folder, shows each sector the block that an image  *)
(* of the same disk has at that sector's place: lbnFromPhys against         *)
(* lbnToByte, and both against the controller's disk_offset.                *)
THEOREM ImageAgrees ==
  ASSUME NEW t \in Tracks, NEW s \in Sectors, NEW side \in {0, 1}, NEW ds \in BOOLEAN
  PROVE  LbnToByte(LbnFromPhys(t, s), side, ds) = DiskOffset(side, ds, t, s)
<1>1. SectorOf(LbnFromPhys(t, s)) = s - 1
  <2>1. SectorOf(LbnFromPhys(t, s)) \in 0..9
    BY PhysOfLbn, LbnOfPhys, ZenonT(60)
  <2> QED
    BY PhysOfLbn, <2>1 DEF Sectors, kSectorsPerTrack
<1>2. TrackOf(LbnFromPhys(t, s)) = t
  BY PhysOfLbn
<1>3. t \in Int /\ s \in Int
  BY DEF Tracks, Sectors
<1> QED
  BY <1>1, <1>2, <1>3 DEF LbnToByte, DiskOffset, ImageOffset, TrackStride, kTrackSize, kBlock

(* No two sectors of the diskette are one block.                            *)
LEMMA SectorsApart ==
  ASSUME NEW t \in Tracks, NEW s \in Sectors, NEW u \in Tracks, NEW x \in Sectors,
         LbnFromPhys(t, s) = LbnFromPhys(u, x)
  PROVE  t = u /\ s = x
  BY PhysOfLbn

(* A sector's byte in a dump of both sides, and in one of a single side.    *)
LEMMA TakenApart2 ==
  ASSUME NEW t \in 0..79, NEW h \in 0..1, NEW k \in 0..9, NEW b \in Int,
         b = h * 5120 + t * 10240 + k * 512
  PROVE  /\ b \div 10240 = t
         /\ (b % 10240) \div 5120 = h
         /\ ((b % 10240) % 5120) \div 512 = k
  OBVIOUS

LEMMA TakenApart1 ==
  ASSUME NEW t \in 0..79, NEW k \in 0..9, NEW b \in Int,
         b = t * 5120 + k * 512
  PROVE  /\ b \div 5120 = t
         /\ (b % 5120) \div 5120 = 0
         /\ ((b % 5120) % 5120) \div 512 = k
  OBVIOUS

(* sectorOf takes apart what lbnToByte put together.                        *)
LEMMA Placed ==
  ASSUME NEW n \in 0..799, NEW side \in {0, 1}, NEW src \in BOOLEAN, side = 1 => src
  PROVE  Place(LbnToByte(n, side, src), src)
           = [track |-> TrackOf(n), side |-> side, sector |-> SectorOf(n)]
<1> DEFINE t == TrackOf(n)
           k == SectorOf(n)
           from == LbnToByte(n, side, src)
<1>1. t \in 0..79 /\ k \in 0..9
  <2>1. t \in Tracks /\ k \in 0..9
    BY LbnOfPhys, Zenon
  <2> QED
    BY <2>1 DEF Tracks, kTracks
<1>2. CASE src
  <2>1. from = side * 5120 + t * 10240 + k * 512
    BY <1>1, <1>2, SMTT(60) DEF LbnToByte, kTrackSize, kBlock
  <2> HIDE DEF t, k, from
  <2>2. from \div 10240 = t /\ (from % 10240) \div 5120 = side /\ ((from % 10240) % 5120) \div 512 = k
    BY <1>1, <2>1, TakenApart2, SMTT(20)
  <2>3. Place(from, src) = [track |-> t, side |-> side, sector |-> k]
    BY <1>2, <2>2 DEF Place, TrackStride, kTrackSize, kBlock
  <2> QED
    BY <2>3 DEF t, k, from
<1>3. CASE ~src
  <2>1. from = t * 5120 + k * 512 /\ side = 0
    BY <1>1, <1>3, SMTT(60) DEF LbnToByte, kTrackSize, kBlock
  <2> HIDE DEF t, k, from
  <2>2. from \div 5120 = t /\ (from % 5120) \div 5120 = 0 /\ ((from % 5120) % 5120) \div 512 = k
    BY <1>1, <2>1, TakenApart1
  <2>3. Place(from, src) = [track |-> t, side |-> side, sector |-> k]
    BY <1>3, <2>1, <2>2 DEF Place, TrackStride, kTrackSize, kBlock
  <2> QED
    BY <2>3 DEF t, k, from
<1> QED
  BY <1>2, <1>3

(* A block the composer keeps in its place is in its place: its byte is that*)
(* of the same physical sector on the new medium, and the volume and block  *)
(* it is reserved under are the ones the file system there has at that byte,*)
(* through DZ:'s interleave or DV:'s rotation (Compose.cpp's spotOf).       *)
THEOREM SpotInPlace ==
  ASSUME NEW n \in 0..799, NEW side \in {0, 1}, NEW src \in BOOLEAN, NEW ds \in BOOLEAN,
         NEW dv \in BOOLEAN, side = 1 => src, dv => ds,
         ~Refused(n, side, src, ds)
  PROVE  LET spot == Spot(n, side, src, ds, dv)
         IN /\ spot.byte = DiskOffset(side, ds, TrackOf(n), SectorOf(n) + 1)
            /\ spot.byte = IF dv THEN DvToByte(spot.lbn) ELSE LbnToByte(spot.lbn, spot.volume, ds)
<1> DEFINE t == TrackOf(n)
           k == SectorOf(n)
           spot == Spot(n, side, src, ds, dv)
           byte == t * TrackStride(ds) + side * kTrackSize + k * kBlock
<1>1. t \in 0..79 /\ k \in 0..9 /\ LbnFromPhys(t, k + 1) = n
  <2>1. t \in Tracks /\ k \in 0..9 /\ LbnFromPhys(t, k + 1) = n
    BY LbnOfPhys, Zenon
  <2> QED
    BY <2>1 DEF Tracks, kTracks
<1>2. Place(LbnToByte(n, side, src), src) = [track |-> t, side |-> side, sector |-> k]
  BY Placed
<1>3. /\ spot.byte = byte
      /\ ~dv => spot.volume = side /\ spot.lbn = n
      /\ dv => spot.lbn = ((byte \div kBlock) - kDvRotate + kDsBlocks) % kDsBlocks
  <2> HIDE DEF t, k
  <2> QED
    BY <1>1, <1>2 DEF Spot
<1>4. side = 1 => ds
  <2> HIDE DEF t, k
  <2> QED
    BY <1>2 DEF Refused
<1> HIDE DEF spot
<1>5. byte = DiskOffset(side, ds, t, k + 1)
  <2> HIDE DEF t, k
  <2> QED
    BY <1>1, <1>4 DEF DiskOffset, ImageOffset, TrackStride, kTrackSize, kBlock
<1>6. ASSUME dv PROVE DvToByte(spot.lbn) = byte
  <2> DEFINE m == t * 20 + side * 10 + k
             turned == (m - 20 + 1600) % 1600
  <2> HIDE DEF t, k
  <2>1. byte = m * 512 /\ m \in 0..1599
    BY <1>1, <1>6 DEF TrackStride, kTrackSize, kBlock
  <2> HIDE DEF m, byte
  <2>2. byte \div 512 = m
    BY <2>1, SMTT(30)
  <2>3. turned \in 0..1599 /\ (turned + 20) % 1600 = m
    <3>1. CASE m < 20
      <4>1. turned = m + 1580
        BY <2>1, <3>1 DEF turned
      <4> QED
        BY <2>1, <3>1, <4>1
    <3>2. CASE m >= 20
      <4>1. turned = m - 20
        BY <2>1, <3>2 DEF turned
      <4> QED
        BY <2>1, <3>2, <4>1
    <3> QED
      BY <2>1, <3>1, <3>2
  <2>4. spot.lbn = turned
    BY <1>3, <1>6, <2>2 DEF kDvRotate, kDsBlocks, kBlock
  <2> HIDE DEF turned
  <2> QED
    BY <2>1, <2>3, <2>4 DEF DvToByte, kDvRotate, kDsBlocks, kBlock
<1>7. ~dv => LbnToByte(spot.lbn, spot.volume, ds) = byte
  <2>1. LbnToByte(n, side, ds) = byte
    BY <1>1, <1>4, SMTT(60) DEF LbnToByte, TrackStride, kTrackSize, kBlock
  <2> HIDE DEF byte
  <2> QED
    BY <1>3, <2>1
<1> HIDE DEF byte
<1> QED
  BY <1>3, <1>5, <1>6, <1>7 DEF spot, t, k

-----------------------------------------------------------------------------
(* A new volume, or one of an image, holds nothing past its end, no zeros.  *)
LEMMA InitHeld == Init => HeldWithin
<1> SUFFICES ASSUME Init PROVE HeldWithin
  OBVIOUS
<1>1. CASE \E n \in Int : blocks = (IF n < 0 THEN 0 ELSE n) /\ held = [l \in {} |-> Zero]
  BY <1>1 DEF HeldWithin
<1>2. CASE \E linear \in Seq(Block), used \in SUBSET Nat :
             blocks = Len(linear) /\ held = FromImage(linear, used)
  <2>1. PICK linear \in Seq(Block), used \in SUBSET Nat :
          blocks = Len(linear) /\ held = FromImage(linear, used)
    BY <1>2
  <2>2. blocks \in Nat
    BY <2>1
  <2> DEFINE D == {k \in used : k < Len(linear) /\ linear[k + 1] # Zero}
  <2>3. held = [l \in D |-> linear[l + 1]] /\ DOMAIN held = D
    BY <2>1 DEF FromImage
  <2>4. ASSUME NEW l \in D PROVE l \in 0..(blocks - 1) /\ linear[l + 1] \in Content \ {Zero}
    <3>1. l \in Nat /\ l < Len(linear) /\ linear[l + 1] # Zero
      BY <2>1
    <3>2. l + 1 \in 1..Len(linear)
      BY <2>1, <2>2, <3>1
    <3>3. linear[l + 1] \in Block
      BY <2>1, <3>2
    <3> QED
      BY <2>1, <2>2, <3>1, <3>3 DEF Block
  <2> HIDE DEF D
  <2> QED
    BY <2>2, <2>3, <2>4 DEF HeldWithin
<1> QED
  BY <1>1, <1>2 DEF Init

LEMMA Entry ==
  ASSUME NEW S, NEW e \in Seq(S), NEW i \in DOMAIN e
  PROVE  e[i] \in S
  OBVIOUS

(* The serial form of a volume is accepted and is the volume.               *)
LEMMA RoundTrip == HeldWithin => RoundTrips
<1> SUFFICES ASSUME HeldWithin, NEW file \in File, Serialized(file)
             PROVE  Accepted(file) /\ Parsed(file) = held
  BY DEF RoundTrips
<1> DEFINE e == file.entries
<1>1. e \in Seq([lbn : Nat, block : Block]) /\ file.size = blocks /\ blocks \in Nat
  BY DEF File, Serialized, HeldWithin
<1> HIDE DEF e
<1>2. \A i \in DOMAIN e : e[i].lbn \in Nat
  <2>1. \A i \in DOMAIN e : e[i] \in [lbn : Nat, block : Block]
    BY <1>1, Entry, Zenon
  <2> QED
    BY <2>1
<1>3. /\ \A i, j \in DOMAIN e : i < j => e[i].lbn < e[j].lbn
      /\ {e[i].lbn : i \in DOMAIN e} = DOMAIN held
      /\ \A i \in DOMAIN e : e[i].block = held[e[i].lbn]
  BY DEF Serialized, e
<1>4. DOMAIN e = 1..Len(e) /\ Len(e) \in Nat
  BY <1>1
<1>5. Accepted(file)
  <2> SUFFICES ASSUME NEW i \in DOMAIN e
               PROVE  /\ e[i].lbn < file.size
                      /\ e[i].lbn >= IF i = 1 THEN 0 ELSE e[i - 1].lbn + 1
    BY DEF Accepted, e
  <2>1. e[i].lbn \in DOMAIN held /\ e[i].lbn \in Nat
    BY <1>2, <1>3
  <2>2. e[i].lbn < file.size
    BY <1>1, <2>1 DEF HeldWithin
  <2>3. CASE i = 1
    BY <2>1, <2>2, <2>3
  <2>4. CASE i # 1
    <3>1. i - 1 \in DOMAIN e /\ i - 1 < i
      BY <1>4, <2>4
    <3>2. e[i - 1].lbn < e[i].lbn /\ e[i - 1].lbn \in Nat
      BY <1>2, <1>3, <3>1
    <3> QED
      BY <2>1, <2>2, <2>4, <3>2
  <2> QED
    BY <2>3, <2>4
<1>6. Parsed(file) = held
  <2>1. Parsed(file) = [l \in DOMAIN held |-> e[CHOOSE i \in DOMAIN e : e[i].lbn = l].block]
    BY <1>3 DEF Parsed, e
  <2>2. ASSUME NEW l \in DOMAIN held
        PROVE  e[CHOOSE i \in DOMAIN e : e[i].lbn = l].block = held[l]
    <3>1. \E i \in DOMAIN e : e[i].lbn = l
      BY <1>3
    <3> DEFINE i == CHOOSE i \in DOMAIN e : e[i].lbn = l
    <3>2. i \in DOMAIN e /\ e[i].lbn = l
      BY <3>1
    <3> HIDE DEF i
    <3> QED
      BY <1>3, <3>2
  <2>3. held = [l \in DOMAIN held |-> held[l]]
    BY DEF HeldWithin
  <2> QED
    BY <2>1, <2>2, <2>3
<1> QED
  BY <1>5, <1>6

-----------------------------------------------------------------------------
(* What each call leaves held.                                              *)
LEMMA ResizeHeld == ASSUME HeldWithin, NEW n \in Int, Resize(n) PROVE HeldWithin'
  BY DEF HeldWithin, Resize

LEMMA ClearHeld == ASSUME HeldWithin, NEW lbn \in Int, ClearBlock(lbn) PROVE HeldWithin'
  BY DEF HeldWithin, ClearBlock

LEMMA WriteHeld ==
  ASSUME HeldWithin, NEW lbn \in Int, NEW b \in Block, WriteBlock(lbn, b) PROVE HeldWithin'
<1>1. CASE lbn < 0 \/ lbn >= blocks
  BY <1>1 DEF HeldWithin, WriteBlock
<1>2. CASE ~(lbn < 0 \/ lbn >= blocks) /\ b = Zero
  BY <1>2 DEF HeldWithin, WriteBlock
<1>3. CASE ~(lbn < 0 \/ lbn >= blocks) /\ b # Zero
  <2>1. lbn \in 0..(blocks - 1) /\ b \in Content \ {Zero}
    BY <1>3 DEF HeldWithin, Block
  <2>2. /\ held' = [l \in DOMAIN held \cup {lbn} |-> IF l = lbn THEN b ELSE held[l]]
        /\ blocks' = blocks
    BY <1>3 DEF WriteBlock
  <2> QED
    BY <2>1, <2>2 DEF HeldWithin
<1> QED
  BY <1>1, <1>2, <1>3

(* A sector of the diskette is a block of its volume.                       *)
LEMMA SectorIsBlock ==
  ASSUME NEW t \in Tracks, NEW s \in Sectors, NEW b \in Block, WriteSector(t, s, b)
  PROVE  LbnFromPhys(t, s) \in Int /\ WriteBlock(LbnFromPhys(t, s), b)
<1>1. LbnFromPhys(t, s) \in 0..799
  BY PhysOfLbn, ZenonT(30)
<1> QED
  BY <1>1 DEF WriteSector

LEMMA ReloadSame == ASSUME HeldWithin, Reload PROVE UNCHANGED vars
<1>1. PICK file \in File : Serialized(file) /\ blocks' = file.size /\ held' = Parsed(file)
  BY DEF Reload
<1>2. Parsed(file) = held
  BY <1>1, RoundTrip DEF RoundTrips
<1> QED
  BY <1>1, <1>2 DEF vars, Serialized

LEMMA StepHeld == HeldWithin /\ [Next]_vars => HeldWithin'
<1> SUFFICES ASSUME HeldWithin, [Next]_vars PROVE HeldWithin'
  OBVIOUS
<1>1. CASE \E n \in Int : Resize(n)
  BY <1>1, ResizeHeld
<1>2. CASE \E lbn \in Int : ClearBlock(lbn)
  BY <1>2, ClearHeld
<1>3. CASE \E lbn \in Int, b \in Block : WriteBlock(lbn, b)
  BY <1>3, WriteHeld
<1>4. CASE \E track \in Tracks, sector \in Sectors, b \in Block : WriteSector(track, sector, b)
  BY <1>4, SectorIsBlock, WriteHeld
<1>5. CASE Reload \/ UNCHANGED vars
  <2>1. UNCHANGED vars
    BY <1>5, ReloadSame
  <2> QED
    BY <2>1 DEF vars, HeldWithin
<1> QED
  BY <1>1, <1>2, <1>3, <1>4, <1>5 DEF Next

(* Nothing is ever held past the end or as zeros, so a volume grown again   *)
(* shows nothing that was cut off (SparseVolume.cpp's resize, writeBlock).  *)
THEOREM SpecHeldWithin == Spec => []HeldWithin
  BY InitHeld, StepHeld, PTL DEF Spec

(* Whatever is held, its serial form comes back as the same volume.         *)
THEOREM SpecRoundTrips == Spec => []RoundTrips
  BY SpecHeldWithin, RoundTrip, PTL

-----------------------------------------------------------------------------
(* The volume's blocks as a store's.                                        *)
Shown == [l \in 0..(blocks - 1) |-> ReadBlock(l)]

LEMMA ReadsBlock == ASSUME HeldWithin, NEW l \in Int PROVE ReadBlock(l) \in Block
  BY DEF HeldWithin, ReadBlock, Block

LEMMA WriteShows ==
  ASSUME HeldWithin, NEW lbn \in Int, NEW b \in Block, WriteBlock(lbn, b), NEW l \in Int
  PROVE  ReadBlock(l)' = IF l = lbn /\ lbn \in 0..(blocks - 1) THEN b ELSE ReadBlock(l)
<1>1. CASE lbn < 0 \/ lbn >= blocks
  BY <1>1 DEF HeldWithin, WriteBlock, ReadBlock
<1>2. CASE ~(lbn < 0 \/ lbn >= blocks) /\ b = Zero
  BY <1>2 DEF HeldWithin, WriteBlock, ReadBlock
<1>3. CASE ~(lbn < 0 \/ lbn >= blocks) /\ b # Zero
  <2>1. held' = [k \in DOMAIN held \cup {lbn} |-> IF k = lbn THEN b ELSE held[k]]
    BY <1>3 DEF WriteBlock
  <2>2. lbn \in 0..(blocks - 1)
    BY <1>3 DEF HeldWithin
  <2> QED
    BY <2>1, <2>2 DEF ReadBlock
<1> QED
  BY <1>1, <1>2, <1>3

LEMMA WriteStores ==
  ASSUME HeldWithin, NEW lbn \in Int, NEW b \in Block, WriteBlock(lbn, b)
  PROVE  Store!Write(lbn, b) \/ (blocks' = blocks /\ Shown' = Shown)
<1>1. blocks' = blocks /\ blocks \in Nat
  BY DEF WriteBlock, HeldWithin
<1>2. \A l \in 0..(blocks - 1) :
        ReadBlock(l)' = IF l = lbn /\ lbn \in 0..(blocks - 1) THEN b ELSE ReadBlock(l)
  <2> SUFFICES ASSUME NEW l \in 0..(blocks - 1)
               PROVE ReadBlock(l)' = IF l = lbn /\ lbn \in 0..(blocks - 1) THEN b ELSE ReadBlock(l)
    OBVIOUS
  <2>1. l \in Int
    BY <1>1
  <2> QED
    BY <2>1, WriteShows
<1>3. Shown' = [l \in 0..(blocks - 1) |-> ReadBlock(l)']
  BY <1>1 DEF Shown
<1>4. CASE lbn \in 0..(blocks - 1)
  <2>1. Shown' = [Shown EXCEPT ![lbn] = b]
    BY <1>1, <1>2, <1>3, <1>4 DEF Shown
  <2> QED
    BY <1>1, <1>4, <2>1 DEF Store!Write, Shown
<1>5. CASE lbn \notin 0..(blocks - 1)
  BY <1>1, <1>2, <1>3, <1>5 DEF Shown
<1> QED
  BY <1>4, <1>5

LEMMA ClearStores ==
  ASSUME HeldWithin, NEW lbn \in Int, ClearBlock(lbn)
  PROVE  Store!Write(lbn, Zero) \/ (blocks' = blocks /\ Shown' = Shown)
<1>1. CASE lbn \in 0..(blocks - 1)
  <2>1. WriteBlock(lbn, Zero)
    BY <1>1 DEF ClearBlock, WriteBlock, HeldWithin
  <2>2. Zero \in Block
    BY DEF Block
  <2> QED
    BY <2>1, <2>2, WriteStores
<1>2. CASE lbn \notin 0..(blocks - 1)
  <2>1. held' = held /\ blocks' = blocks
    <3>1. DOMAIN held \ {lbn} = DOMAIN held
      BY <1>2 DEF HeldWithin
    <3>2. held = [l \in DOMAIN held |-> held[l]]
      BY DEF HeldWithin
    <3> QED
      BY <3>1, <3>2 DEF ClearBlock
  <2> QED
    BY <2>1 DEF Shown, ReadBlock
<1> QED
  BY <1>1, <1>2

LEMMA ResizeStores ==
  ASSUME HeldWithin, NEW n \in Int, Resize(n)
  PROVE  \E m \in Nat : Store!Resize(m)
<1> DEFINE m == IF n < 0 THEN 0 ELSE n
<1>1. m \in Nat /\ blocks' = m /\ blocks \in Nat
  BY DEF Resize, HeldWithin
<1>2. \A l \in 0..(m - 1) :
        ReadBlock(l)' = IF l < blocks THEN Shown[l] ELSE Zero
  <2> SUFFICES ASSUME NEW l \in 0..(m - 1)
               PROVE ReadBlock(l)' = IF l < blocks THEN Shown[l] ELSE Zero
    OBVIOUS
  <2>1. held' = [k \in {j \in DOMAIN held : j < m} |-> held[k]]
    BY DEF Resize
  <2>2. ReadBlock(l)' = ReadBlock(l)
    BY <1>1, <2>1 DEF ReadBlock, HeldWithin
  <2>3. CASE l < blocks
    BY <1>1, <2>2, <2>3 DEF Shown
  <2>4. CASE ~(l < blocks)
    BY <1>1, <2>2, <2>4 DEF HeldWithin, ReadBlock
  <2> QED
    BY <2>3, <2>4
<1>3. Shown' = [l \in 0..(m - 1) |-> ReadBlock(l)']
  BY <1>1 DEF Shown
<1> HIDE DEF m
<1>4. Shown' = [l \in 0..(m - 1) |-> IF l < blocks THEN Shown[l] ELSE Zero]
  BY <1>1, <1>2, <1>3
<1> QED
  BY <1>1, <1>4 DEF Store!Resize, Shown

(* The sparse volume is the store of blocks it stands for, through any      *)
(* writes, clears, changes of size and turns through its serial form.       *)
THEOREM SparseVolumeImplements == Spec => ImplementsBlockStore
<1>1. Init => Store!Init
  <2> SUFFICES ASSUME Init PROVE Store!Init
    OBVIOUS
  <2>1. HeldWithin
    BY InitHeld
  <2>2. \A l \in 0..(blocks - 1) : ReadBlock(l) \in Block
    BY <2>1, ReadsBlock
  <2> QED
    BY <2>1, <2>2 DEF Store!Init, Store!Sized, HeldWithin
<1>2. HeldWithin /\ [Next]_vars => [Store!Next]_<<blocks, Shown>>
  <2> SUFFICES ASSUME HeldWithin, [Next]_vars PROVE Store!Next \/ (blocks' = blocks /\ Shown' = Shown)
    OBVIOUS
  <2>1. CASE \E n \in Int : Resize(n)
    BY <2>1, ResizeStores DEF Store!Next
  <2>2. CASE \E lbn \in Int : ClearBlock(lbn)
    <3>1. Zero \in Block
      BY DEF Block
    <3> QED
      BY <2>2, <3>1, ClearStores DEF Store!Next
  <2>3. CASE \E lbn \in Int, b \in Block : WriteBlock(lbn, b)
    BY <2>3, WriteStores DEF Store!Next
  <2>4. CASE \E track \in Tracks, sector \in Sectors, b \in Block : WriteSector(track, sector, b)
    BY <2>4, SectorIsBlock, WriteStores DEF Store!Next
  <2>5. CASE Reload \/ UNCHANGED vars
    <3>1. UNCHANGED vars
      BY <2>5, ReloadSame
    <3> QED
      BY <3>1 DEF vars, Shown, ReadBlock
  <2> QED
    BY <2>1, <2>2, <2>3, <2>4, <2>5 DEF Next
<1> QED
  BY <1>1, <1>2, SpecHeldWithin, PTL DEF Spec, ImplementsBlockStore, Store!Spec, Shown

(* As a diskette, the volume has each sector where the handler looks for it *)
(* and nowhere else: writing one changes that one (cFdcVolumeWrite).        *)
THEOREM SpecSectorAlone == Spec => SectorAlone
<1>1. ASSUME HeldWithin, NEW track \in Tracks, NEW t \in Tracks, NEW sector \in Sectors,
             NEW x \in Sectors, NEW b \in Block, WriteSector(track, sector, b)
      PROVE  ReadSector(t, x)' = IF t = track /\ x = sector THEN b ELSE ReadSector(t, x)
  <2> DEFINE lbn == LbnFromPhys(track, sector)
             l == LbnFromPhys(t, x)
  <2>1. lbn \in 0..799 /\ l \in 0..799
    <3>1. LbnFromPhys(track, sector) \in 0..799
      BY PhysOfLbn, ZenonT(30)
    <3>2. LbnFromPhys(t, x) \in 0..799
      BY PhysOfLbn, ZenonT(30)
    <3> QED
      BY <3>1, <3>2
  <2>2. lbn = l <=> t = track /\ x = sector
    BY SectorsApart, Zenon
  <2>3. WriteBlock(lbn, b) /\ blocks = 800
    BY <1>1 DEF WriteSector, kSsBlocks
  <2> HIDE DEF lbn, l
  <2>4. ReadBlock(l)' = IF l = lbn THEN b ELSE ReadBlock(l)
    <3>1. HeldWithin /\ lbn \in Int /\ l \in Int
      BY <1>1, <2>1
    <3>2. ReadBlock(l)' = IF l = lbn /\ lbn \in 0..(blocks - 1) THEN b ELSE ReadBlock(l)
      BY <2>3, <3>1, WriteShows
    <3>3. lbn \in 0..(blocks - 1)
      BY <2>1, <2>3
    <3> QED
      BY <3>2, <3>3, Zenon
  <2>5. ReadSector(t, x)' = ReadBlock(l)'
    BY DEF ReadSector, l
  <2>6. CASE l = lbn
    BY <2>2, <2>4, <2>5, <2>6
  <2>7. CASE l # lbn
    <3>1. ReadBlock(l) = ReadSector(t, x)
      BY DEF ReadSector, l
    <3> QED
      BY <2>2, <2>4, <2>5, <2>7, <3>1
  <2> QED
    BY <2>6, <2>7
<1>2. HeldWithin /\ [Next]_vars => [WritesAlone]_vars
  BY <1>1 DEF WritesAlone
<1> QED
  BY <1>2, SpecHeldWithin, PTL DEF Spec, SectorAlone
=============================================================================
