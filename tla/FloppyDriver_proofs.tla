------------------------ MODULE FloppyDriver_proofs ------------------------
(***************************************************************************)
(* Of the controller, for every geometry, every set of commands and every   *)
(* order of the CPU's, the host's and the clock's steps: its types, the     *)
(* agreement of its three lines, the bounds of its indexes, and that a      *)
(* diskette is changed one whole sector at a time by a write command only.  *)
(* And to a polling driver it implements SectorStore, for every jobs and    *)
(* any number of them, whatever the host puts in or takes out meanwhile.    *)
(*                                                                          *)
(* The controller's TypeOK alone is not inductive: a step pulse lowers      *)
(* pulses, a byte raises buf_pos, a formatter's byte lowers wt_bytes_left,  *)
(* and each stays in range only because the phase that does it fixes the    *)
(* counter (IndexesInBounds); and that no INTRQ meets BUSY needs that BUSY  *)
(* is up in every phase.                                                    *)
(*                                                                          *)
(* The driver's invariant follows the bytes.  While a transfer runs, what   *)
(* the driver has moved fixes where the controller is (Reading, Storing,    *)
(* Formatted): the sector register and buf_pos, what of the buffer is       *)
(* filled, and for WRITE TRACK the field the parser is in.  A driver that   *)
(* died leaves the transfer where it was, so the invariant outlives it.     *)
(***************************************************************************)
EXTENDS FloppyDriver, FiniteSetTheorems, SequenceTheorems, TLAPS

-----------------------------------------------------------------------------
(* The controller: its invariant, and what it shows.                        *)

(* What FINISH will show is never BUSY.                                     *)
EndsIdle == BUSY \notin next_status

IInv == TypeOK /\ LinesAgree /\ IndexesInBounds /\ EndsIdle

USE FloppyAssumption DEF Byte, Units, Drives

(* The controller starts in the invariant.                                  *)
LEMMA InitInv == Init => IInv
<1> SUFFICES ASSUME Init PROVE IInv
  OBVIOUS
<1>1. ZeroSector \in Sector
  BY DEF ZeroSector, Sector
<1>2. MediaOK /\ DriveOK
  BY <1>1 DEF Init, MediaOK, DriveOK
<1>3. RegistersOK /\ CountersOK /\ buffer \in Sector
  BY <1>1 DEF Init, RegistersOK, CountersOK
<1>4. ControlOK /\ EndsIdle
  BY DEF Init, ControlOK, EndsIdle, States, Command, Ops
<1>5. ParserOK /\ ParserFlagsOK
  <2>1. ParserOK
    BY DEF Init, ParserOK, Fields
  <2>2. ParserFlagsOK
    BY DEF Init, ParserFlagsOK
  <2> QED
    BY <2>1, <2>2
<1>6. LinesAgree
  BY DEF Init, LinesAgree
<1>7. IndexesInBounds
  BY DEF Init, IndexesInBounds, Writing
<1> QED
  BY <1>2, <1>3, <1>4, <1>5, <1>6, <1>7 DEF IInv, TypeOK

(* A Type I status is made of flags other than BUSY.                        *)
LEMMA Type1StatusFlags ==
  ASSUME NEW h PROVE Type1Status(h) \subseteq Flags /\ BUSY \notin Type1Status(h)
  BY DEF Type1Status, Flags, BUSY, TRACK0, NOT_READY, WRITE_PROT, HEAD_LOADED

(* A clamped track is on the diskette.                                      *)
LEMMA ClampRange == ASSUME NEW t \in Int PROVE Clamp(t) \in 0..Tracks - 1
  BY DEF Clamp

(* A blank sector is a sector, and so is one with a byte replaced.          *)
LEMMA ZeroSectorType == ZeroSector \in Sector
  BY DEF ZeroSector, Sector
LEMMA PutByte ==
  ASSUME NEW sec \in Sector, NEW i \in 0..SectorSize - 1, NEW b \in Byte
  PROVE  [sec EXCEPT ![i] = b] \in Sector
  BY DEF Sector
LEMMA ByteOf ==
  ASSUME NEW sec \in Sector, NEW i \in 0..SectorSize - 1
  PROVE  sec[i] \in Byte
  BY DEF Sector

(* The sector under the head is a sector.                                   *)
LEMMA DiskSector ==
  ASSUME MediaOK, DriveOK, NEW s \in 1..Sectors
  PROVE  /\ disk[selected][Track][s] \in Sector
         /\ disk[selected][Track][s][0] \in Byte
<1>1. disk[selected][Track][s] \in Sector
  BY DEF MediaOK, DriveOK, Track
<1>2. 0 \in 0..SectorSize - 1
  BY FloppyAssumption DEF FloppyAssumption
<1> HIDE DEF Sector
<1> QED
  BY <1>1, <1>2, ByteOf

(* Storing a buffer leaves every diskette well formed.                      *)
LEMMA StoreType ==
  ASSUME MediaOK, DriveOK, NEW s \in 1..Sectors, NEW data \in Sector, Store(s, data)
  PROVE  disk' \in [Units -> [0..Tracks - 1 -> [1..Sectors -> Sector]]]
<1> DEFINE Row == [1..Sectors -> Sector]
           Side == [0..Tracks - 1 -> Row]
<1>1. selected \in Units /\ Track \in 0..Tracks - 1
  BY DEF DriveOK, Track
<1>2. disk[selected] \in Side /\ disk[selected][Track] \in Row
  BY <1>1 DEF MediaOK
<1>3. [disk[selected][Track] EXCEPT ![s] = data] \in Row
  BY <1>2
<1>4. [disk[selected] EXCEPT ![Track][s] = data] \in Side
  BY <1>1, <1>2, <1>3
<1> QED
  BY <1>1, <1>4 DEF MediaOK, Store

(* The reset line, the host's mounts and register A.                        *)
LEMMA HostInv ==
  ASSUME IInv, Host \/ (\E d \in 0..3, side \in 0..1, on \in BOOLEAN : Select(d, side, on))
  PROVE  IInv'
<1> USE DEF IInv, TypeOK, mediaVars, driveVars, regVars, xferVars, stepVars, lineVars, wtVars
<1>1. CASE Reset
  <2>1. MediaOK' /\ DriveOK' /\ RegistersOK' /\ buffer' \in Sector
    BY <1>1 DEF Reset, MediaOK, DriveOK, RegistersOK
  <2>2. CountersOK' /\ ParserOK'
    BY <1>1 DEF Reset, CountersOK, ParserOK, Fields, StartParser
  <2>3. ParserFlagsOK'
    BY <1>1 DEF Reset, ParserFlagsOK, StartParser
  <2>4. ControlOK' /\ EndsIdle'
    BY <1>1 DEF Reset, ControlOK, EndsIdle, States, Command, Ops
  <2>5. LinesAgree' /\ IndexesInBounds'
    BY <1>1 DEF Reset, LinesAgree, IndexesInBounds, Writing, StartParser
  <2> QED
    BY <2>1, <2>2, <2>3, <2>4, <2>5 DEF TypeOK
<1>2. ASSUME NEW u \in Mounts, NEW k \in Kinds, NEW ro \in BOOLEAN, Attach(u, k, ro)
      PROVE  IInv'
  <2>1. DriveOK' /\ RegistersOK' /\ CountersOK' /\ buffer' \in Sector /\
     ParserFlagsOK' /\ ControlOK' /\ EndsIdle' /\ ParserOK' /\ LinesAgree' /\
     IndexesInBounds'
    BY <1>2 DEF Attach, DriveOK, RegistersOK, CountersOK, ParserFlagsOK, ControlOK,
       EndsIdle, States, ParserOK, Fields, LinesAgree, IndexesInBounds, Writing
  <2>2. MediaOK'
    BY <1>2 DEF Attach, MediaOK
  <2> QED
    BY <2>1, <2>2 DEF TypeOK
<1>3. ASSUME NEW u \in Mounts, Detach(u)
      PROVE  IInv'
  <2>1. DriveOK' /\ RegistersOK' /\ CountersOK' /\ buffer' \in Sector /\
     ParserFlagsOK' /\ ControlOK' /\ EndsIdle' /\ ParserOK' /\ LinesAgree' /\
     IndexesInBounds'
    BY <1>3 DEF Detach, DriveOK, RegistersOK, CountersOK, ParserFlagsOK, ControlOK,
       EndsIdle, States, ParserOK, Fields, LinesAgree, IndexesInBounds, Writing
  <2>2. MediaOK'
    BY <1>3 DEF Detach, MediaOK
  <2> QED
    BY <2>1, <2>2 DEF TypeOK
<1>4. ASSUME NEW d \in 0..3, NEW side \in 0..1, NEW on \in BOOLEAN, Select(d, side, on)
      PROVE  IInv'
  <2>1. MediaOK' /\ RegistersOK' /\ CountersOK' /\ buffer' \in Sector /\
     ParserFlagsOK' /\ ControlOK' /\ EndsIdle' /\ ParserOK' /\ LinesAgree' /\
     IndexesInBounds'
    BY <1>4 DEF Select, MediaOK, RegistersOK, CountersOK, ParserFlagsOK, ControlOK,
       EndsIdle, States, ParserOK, Fields, LinesAgree, IndexesInBounds, Writing
  <2>2. DriveOK'
    BY <1>4 DEF Select, DriveOK
  <2> QED
    BY <2>1, <2>2 DEF TypeOK
<1> QED
  BY <1>1, <1>2, <1>3, <1>4 DEF Host

(* Each command, written at any moment.                                     *)
LEMMA CommandInv ==
  ASSUME IInv, NEW c \in Command, WriteCommand(c)
  PROVE  IInv'
<1> USE DEF IInv, TypeOK, mediaVars, driveVars, regVars, xferVars, stepVars, lineVars, wtVars, Latch
<1>0. c \in Command /\ Track \in 0..Tracks - 1
  BY DEF Track, DriveOK
<1>1. CASE Position(c)
  <2>0. Clamp(Target(c)) \in 0..Tracks - 1
    <3>1. Target(c) \in Int
      BY <1>0 DEF Target, RegistersOK, CountersOK
    <3> QED
      BY <3>1, ClampRange
  <2>1. MediaOK' /\ DriveOK' /\ RegistersOK' /\ buffer' \in Sector /\ ParserFlagsOK'
     /\ ParserOK'
    BY <1>1 DEF Position, MediaOK, DriveOK, RegistersOK, ParserFlagsOK, ParserOK,
       Fields
  <2>2. CountersOK'
    BY <1>1, <1>0, <2>0 DEF Position, CountersOK, StartType1
  <2>3. ControlOK' /\ EndsIdle'
    BY <1>1, <1>0, Type1StatusFlags DEF Position, ControlOK, EndsIdle, States,
       StartType1, ScheduleFinish, Flags, BUSY
  <2>4. LinesAgree'
    BY <1>1, Type1StatusFlags DEF Position, LinesAgree, StartType1, ScheduleFinish,
       Flags, BUSY
  <2>5. IndexesInBounds'
    BY <1>1, <1>0, <2>0 DEF Position, IndexesInBounds, Writing, StartType1,
       ScheduleFinish
  <2> QED
    BY <2>1, <2>2, <2>3, <2>4, <2>5 DEF TypeOK
<1>2. CASE Transfer(c)
  <2>1. MediaOK' /\ DriveOK' /\ RegistersOK' /\ ParserFlagsOK' /\ ParserOK'
    BY <1>2 DEF Transfer, MediaOK, DriveOK, RegistersOK, ParserFlagsOK, ParserOK,
       Fields
  <2>2. CountersOK'
    BY <1>2 DEF Transfer, CountersOK
  <2>3. buffer' \in Sector
    BY <1>2, ZeroSectorType DEF Transfer
  <2>4. ControlOK' /\ EndsIdle'
    BY <1>2, <1>0 DEF Transfer, ControlOK, EndsIdle, States, Refusal, NOT_READY,
       WRITE_PROT, ScheduleFinish, Flags, BUSY
  <2>5. LinesAgree'
    BY <1>2 DEF Transfer, LinesAgree, ScheduleFinish, Flags, BUSY, Refusal,
       NOT_READY, WRITE_PROT
  <2>6. IndexesInBounds'
    BY <1>2 DEF Transfer, IndexesInBounds, Writing, ScheduleFinish
  <2> QED
    BY <2>1, <2>2, <2>3, <2>4, <2>5, <2>6 DEF TypeOK
<1>3. CASE ReadAddress(c)
  <2>1. MediaOK' /\ DriveOK' /\ CountersOK' /\ buffer' \in Sector /\ ParserFlagsOK' /\
     ParserOK'
    BY <1>3 DEF ReadAddress, MediaOK, DriveOK, CountersOK, ParserFlagsOK, ParserOK,
       Fields
  <2>2. RegistersOK'
    BY <1>3, <1>0 DEF ReadAddress, RegistersOK
  <2>3. ControlOK' /\ EndsIdle'
    BY <1>3, <1>0 DEF ReadAddress, ControlOK, EndsIdle, States, SEEK_ERROR,
       NOT_READY, ScheduleFinish, Flags, BUSY
  <2>4. LinesAgree'
    BY <1>3 DEF ReadAddress, LinesAgree, ScheduleFinish, Flags, BUSY, SEEK_ERROR,
       NOT_READY
  <2>5. IndexesInBounds'
    BY <1>3 DEF ReadAddress, IndexesInBounds, Writing, ScheduleFinish
  <2> QED
    BY <2>1, <2>2, <2>3, <2>4, <2>5 DEF TypeOK
<1>4. CASE WriteTrack(c)
  <2>1. MediaOK' /\ DriveOK' /\ RegistersOK' /\ CountersOK' /\ buffer' \in Sector
    BY <1>4 DEF WriteTrack, MediaOK, DriveOK, RegistersOK, CountersOK
  <2>2. ParserOK'
    <3>1. CASE UNCHANGED wtVars
      BY <3>1 DEF ParserOK
    <3>2. CASE StartParser(TrackBytes)
      BY <3>2 DEF ParserOK, Fields, StartParser
    <3> QED
      BY <1>4, <3>1, <3>2 DEF WriteTrack
  <2>3. ParserFlagsOK'
    BY <1>4 DEF WriteTrack, ParserFlagsOK, StartParser
  <2>4. ControlOK' /\ EndsIdle'
    BY <1>4, <1>0 DEF WriteTrack, ControlOK, EndsIdle, States, Refusal, NOT_READY,
       WRITE_PROT, ScheduleFinish, Flags, BUSY
  <2>5. LinesAgree'
    BY <1>4 DEF WriteTrack, LinesAgree, ScheduleFinish, Flags, BUSY, Refusal,
       NOT_READY, WRITE_PROT
  <2>6. IndexesInBounds'
    <3>1. CASE ScheduleFinish(Refusal(TRUE)) /\ UNCHANGED wtVars
      BY <3>1 DEF IndexesInBounds, Writing, ScheduleFinish
    <3>2. CASE StartParser(TrackBytes) /\ state' = "TYPE3_TRACK"
      BY <1>4, <3>2 DEF WriteTrack, IndexesInBounds, Writing, StartParser
    <3> QED
      BY <1>4, <3>1, <3>2 DEF WriteTrack
  <2> QED
    BY <2>1, <2>2, <2>3, <2>4, <2>5, <2>6 DEF TypeOK
<1>5. CASE Unsupported(c)
  <2>1. MediaOK' /\ DriveOK' /\ RegistersOK' /\ CountersOK' /\ buffer' \in Sector /\
     ParserFlagsOK' /\ ParserOK'
    BY <1>5 DEF Unsupported, MediaOK, DriveOK, RegistersOK, CountersOK,
       ParserFlagsOK, ParserOK, Fields
  <2>2. ControlOK' /\ EndsIdle'
    BY <1>5, <1>0 DEF Unsupported, ControlOK, EndsIdle, States, ScheduleFinish,
       Flags, BUSY
  <2>3. LinesAgree'
    BY <1>5 DEF Unsupported, LinesAgree, ScheduleFinish, Flags, BUSY
  <2>4. IndexesInBounds'
    BY <1>5 DEF Unsupported, IndexesInBounds, Writing, ScheduleFinish
  <2> QED
    BY <2>1, <2>2, <2>3, <2>4 DEF TypeOK
<1>6. CASE ForceInterrupt(c)
  <2>1. MediaOK' /\ DriveOK' /\ RegistersOK' /\ CountersOK' /\ buffer' \in Sector /\
     ParserFlagsOK' /\ ParserOK'
    BY <1>6 DEF ForceInterrupt, MediaOK, DriveOK, RegistersOK, CountersOK,
       ParserFlagsOK, ParserOK, Fields
  <2>2. ControlOK' /\ EndsIdle'
    BY <1>6, <1>0, Type1StatusFlags DEF ForceInterrupt, ControlOK, EndsIdle, States
  <2>3. LinesAgree'
    BY <1>6, Type1StatusFlags DEF ForceInterrupt, LinesAgree
  <2>4. IndexesInBounds'
    BY <1>6 DEF ForceInterrupt, IndexesInBounds, Writing
  <2> QED
    BY <2>1, <2>2, <2>3, <2>4 DEF TypeOK
<1> QED
  BY <1>1, <1>2, <1>3, <1>4, <1>5, <1>6 DEF WriteCommand

(* One byte of a formatter's stream.                                        *)
LEMMA FormatInv ==
  ASSUME IInv, NEW b \in Byte, Formatting, TakeByte(b),
         data_reg' = b, drq' = FALSE,
         UNCHANGED <<media, readOnly, driveVars, track_reg, sector_reg, buf_pos, stepVars,
                     lineVars, status, command, state>>
  PROVE  IInv'
<1> USE DEF IInv, TypeOK, mediaVars, driveVars, regVars, xferVars, stepVars, lineVars, wtVars, Formatting
<1>1. CASE wt_field = "ID" /\ TakeId(b)
  <2>1. MediaOK' /\ DriveOK' /\ RegistersOK' /\ CountersOK' /\ buffer' \in Sector
    BY <1>1 DEF TakeId, MediaOK, DriveOK, RegistersOK, CountersOK
  <2>2. ParserOK'
    BY <1>1 DEF TakeId, ParserOK, Fields, TakeByte, IndexesInBounds
  <2>3. ParserFlagsOK'
    BY <1>1 DEF TakeId, ParserFlagsOK
  <2>4. ControlOK' /\ EndsIdle'
    BY <1>1 DEF TakeId, ControlOK, EndsIdle, States
  <2>5. LinesAgree'
    BY <1>1 DEF TakeId, LinesAgree
  <2>6. IndexesInBounds'
    BY <1>1 DEF TakeId, IndexesInBounds, Writing, TakeByte, ParserOK
  <2> QED
    BY <2>1, <2>2, <2>3, <2>4, <2>5, <2>6 DEF TypeOK
<1>2. CASE wt_field = "DATA" /\ b = CRC /\ CloseData
  <2>1. DriveOK' /\ RegistersOK' /\ CountersOK' /\ buffer' \in Sector
    BY <1>2 DEF CloseData, DriveOK, RegistersOK, CountersOK
  <2>2. MediaOK'
    BY <1>2, StoreType, SMTT(20) DEF CloseData, MediaOK, Writable
  <2>3. ParserOK'
    BY <1>2 DEF CloseData, ParserOK, Fields, TakeByte
  <2>4. ParserFlagsOK'
    BY <1>2 DEF CloseData, ParserFlagsOK
  <2>5. ControlOK' /\ EndsIdle'
    BY <1>2 DEF CloseData, ControlOK, EndsIdle, States, WRITE_FAULT, Flags, BUSY
  <2>6. LinesAgree'
    BY <1>2 DEF CloseData, LinesAgree
  <2>7. IndexesInBounds'
    BY <1>2 DEF CloseData, IndexesInBounds, Writing, TakeByte
  <2> QED
    BY <2>1, <2>2, <2>3, <2>4, <2>5, <2>6, <2>7 DEF TypeOK
<1>3. CASE wt_field = "DATA" /\ b # CRC /\ TakeDatum(b)
  <2>1. MediaOK' /\ DriveOK' /\ RegistersOK' /\ CountersOK'
    BY <1>3 DEF TakeDatum, MediaOK, DriveOK, RegistersOK, CountersOK
  <2>2. buffer' \in Sector
    <3>1. CASE wt_count < SectorSize
      <4>1. wt_count \in 0..SectorSize - 1
        BY <3>1 DEF ParserOK
      <4> QED
        BY <1>3, <3>1, <4>1, PutByte DEF TakeDatum
    <3>2. CASE ~(wt_count < SectorSize)
      BY <1>3, <3>2 DEF TakeDatum
    <3> QED
      BY <3>1, <3>2
  <2>3. ParserOK'
    BY <1>3 DEF TakeDatum, ParserOK, Fields, TakeByte
  <2>4. ParserFlagsOK'
    BY <1>3 DEF TakeDatum, ParserFlagsOK
  <2>5. ControlOK' /\ EndsIdle'
    BY <1>3 DEF TakeDatum, ControlOK, EndsIdle, States
  <2>6. LinesAgree'
    BY <1>3 DEF TakeDatum, LinesAgree
  <2>7. IndexesInBounds'
    BY <1>3 DEF TakeDatum, IndexesInBounds, Writing, TakeByte, ParserOK
  <2> QED
    BY <2>1, <2>2, <2>3, <2>4, <2>5, <2>6, <2>7 DEF TypeOK
<1>4. CASE wt_field = "GAP" /\ TakeGap(b)
  <2>1. MediaOK' /\ DriveOK' /\ RegistersOK' /\ CountersOK' /\ buffer' \in Sector
    BY <1>4 DEF TakeGap, MediaOK, DriveOK, RegistersOK, CountersOK
  <2>2. ParserOK'
    BY <1>4 DEF TakeGap, ParserOK, Fields, TakeByte
  <2>3. ParserFlagsOK'
    BY <1>4 DEF TakeGap, ParserFlagsOK
  <2>4. ControlOK' /\ EndsIdle'
    BY <1>4 DEF TakeGap, ControlOK, EndsIdle, States
  <2>5. LinesAgree'
    BY <1>4 DEF TakeGap, LinesAgree
  <2>6. IndexesInBounds'
    BY <1>4 DEF TakeGap, IndexesInBounds, Writing, TakeByte, ParserOK
  <2> QED
    BY <2>1, <2>2, <2>3, <2>4, <2>5, <2>6 DEF TypeOK
<1> QED
  BY <1>1, <1>2, <1>3, <1>4 DEF TakeByte

(* The other registers.                                                     *)
LEMMA RegisterInv ==
  ASSUME IInv,
         \/ \E v \in Byte : WriteTrackReg(v) \/ WriteSectorReg(v)
         \/ \E b \in Byte : WriteData(b)
         \/ ReadStatus \/ ReadData
  PROVE  IInv'
<1> USE DEF IInv, TypeOK, mediaVars, driveVars, regVars, xferVars, stepVars, lineVars, wtVars
<1>1. ASSUME NEW v \in Byte, WriteTrackReg(v) PROVE IInv'
  <2>1. MediaOK' /\ DriveOK' /\ CountersOK' /\ buffer' \in Sector /\ ParserFlagsOK' /\
     ControlOK' /\ EndsIdle' /\ ParserOK' /\ LinesAgree' /\ IndexesInBounds'
    BY <1>1, SMTT(20) DEF WriteTrackReg, MediaOK, DriveOK, CountersOK, ParserFlagsOK,
       ControlOK, EndsIdle, States, ParserOK, Fields, LinesAgree, IndexesInBounds,
       Writing
  <2>2. RegistersOK'
    BY <1>1 DEF WriteTrackReg, RegistersOK
  <2> QED
    BY <2>1, <2>2 DEF TypeOK
<1>2. ASSUME NEW v \in Byte, WriteSectorReg(v) PROVE IInv'
  <2>1. MediaOK' /\ DriveOK' /\ CountersOK' /\ buffer' \in Sector /\ ParserFlagsOK' /\
     ControlOK' /\ EndsIdle' /\ ParserOK' /\ LinesAgree' /\ IndexesInBounds'
    BY <1>2, SMTT(20) DEF WriteSectorReg, MediaOK, DriveOK, CountersOK, ParserFlagsOK,
       ControlOK, EndsIdle, States, ParserOK, Fields, LinesAgree, IndexesInBounds,
       Writing
  <2>2. RegistersOK'
    BY <1>2 DEF WriteSectorReg, RegistersOK
  <2> QED
    BY <2>1, <2>2 DEF TypeOK
<1>3. ASSUME NEW b \in Byte, WriteData(b) PROVE IInv'
  <2>1. CASE Formatting
    BY <1>3, <2>1, FormatInv DEF WriteData, Formatting, Writing
  <2>2. CASE ~Formatting
    <3>0. b \in Byte
      OBVIOUS
    <3>a. /\ data_reg' = b
          /\ UNCHANGED <<media, readOnly, disk, driveVars, track_reg, sector_reg, buf_pos,
                         stepVars, wtVars>>
      BY <1>3, <2>2 DEF WriteData
    <3>b. MediaOK' /\ DriveOK'
      BY <3>a DEF MediaOK, DriveOK
    <3>c. RegistersOK' /\ CountersOK'
      BY <3>0, <3>a DEF RegistersOK, CountersOK
    <3>d. ParserFlagsOK' /\ ParserOK'
      BY <3>a DEF ParserFlagsOK, ParserOK, Fields
    <3>1. MediaOK' /\ DriveOK' /\ RegistersOK' /\ CountersOK' /\ ParserFlagsOK' /\
       ParserOK'
      BY <3>b, <3>c, <3>d
    <3>2. buffer' \in Sector
      <4>1. CASE Writing /\ buf_pos < SectorSize
        <5>1. buf_pos \in 0..SectorSize - 1 /\ b \in Byte
          BY <4>1 DEF CountersOK
        <5>2. [buffer EXCEPT ![buf_pos] = b] \in Sector
          BY <5>1, PutByte
        <5>3. buffer' = [buffer EXCEPT ![buf_pos] = b]
          BY <1>3, <2>2, <4>1 DEF WriteData
        <5> QED
          BY <5>2, <5>3
      <4>2. CASE ~(Writing /\ buf_pos < SectorSize)
        <5>1. buffer' = buffer
          BY <1>3, <2>2, <4>2 DEF WriteData
        <5> QED
          BY <5>1
      <4> QED
        BY <4>1, <4>2
    <3>3. ControlOK' /\ EndsIdle'
      BY <1>3, <2>2 DEF WriteData, ControlOK, EndsIdle, States
    <3>4. LinesAgree'
      BY <1>3, <2>2 DEF WriteData, LinesAgree
    <3>5. IndexesInBounds'
      BY <1>3, <2>2, ZenonT(60) DEF WriteData, IndexesInBounds, Writing
    <3> QED
      BY <3>1, <3>2, <3>3, <3>4, <3>5 DEF TypeOK
  <2> QED
    BY <2>1, <2>2
<1>4. CASE ReadStatus
  <2>1. MediaOK' /\ DriveOK' /\ RegistersOK' /\ CountersOK' /\ buffer' \in Sector /\
     ParserFlagsOK' /\ ParserOK' /\ IndexesInBounds'
    BY <1>4, SMTT(20) DEF ReadStatus, MediaOK, DriveOK, RegistersOK, CountersOK,
       ParserFlagsOK, ParserOK, Fields, IndexesInBounds, Writing
  <2>2. ControlOK' /\ EndsIdle'
    BY <1>4 DEF ReadStatus, ControlOK, EndsIdle, States
  <2>3. LinesAgree'
    BY <1>4 DEF ReadStatus, LinesAgree
  <2> QED
    BY <2>1, <2>2, <2>3 DEF TypeOK
<1>5. CASE ReadData
  <2>1. MediaOK' /\ DriveOK' /\ RegistersOK' /\ CountersOK' /\ buffer' \in Sector /\
     ParserFlagsOK' /\ ParserOK' /\ IndexesInBounds'
    BY <1>5, SMTT(20) DEF ReadData, MediaOK, DriveOK, RegistersOK, CountersOK, ParserFlagsOK,
       ParserOK, Fields, IndexesInBounds, Writing
  <2>2. ControlOK' /\ EndsIdle'
    BY <1>5 DEF ReadData, ControlOK, EndsIdle, States
  <2>3. LinesAgree'
    BY <1>5 DEF ReadData, LinesAgree
  <2> QED
    BY <2>1, <2>2, <2>3 DEF TypeOK
<1> QED
  BY <1>1, <1>2, <1>3, <1>4, <1>5

(* The clock.                                                               *)
LEMMA TickInv ==
  ASSUME IInv, Tick
  PROVE  IInv'
<1> USE DEF IInv, TypeOK, mediaVars, driveVars, regVars, xferVars, stepVars, lineVars, wtVars
<1>0. Track \in 0..Tracks - 1
  BY DEF Track, DriveOK
<1>1. CASE TickStep
  <2>0. Clamp(Track + dir) \in 0..Tracks - 1
    BY <1>0, ClampRange DEF CountersOK
  <2>1. MediaOK' /\ buffer' \in Sector /\ ParserFlagsOK' /\ ParserOK'
    BY <1>1 DEF TickStep, MediaOK, ParserFlagsOK, ParserOK, Fields
  <2>2. DriveOK'
    BY <1>1, <2>0 DEF TickStep, DriveOK
  <2>3. RegistersOK'
    BY <1>1, <2>0 DEF TickStep, RegistersOK
  <2>4. CountersOK'
    BY <1>1 DEF TickStep, CountersOK, IndexesInBounds
  <2>5. ControlOK' /\ EndsIdle'
    BY <1>1, Type1StatusFlags DEF TickStep, ControlOK, EndsIdle, States,
       ScheduleFinish, Flags, BUSY
  <2>6. LinesAgree'
    BY <1>1, Type1StatusFlags DEF TickStep, LinesAgree, ScheduleFinish, Flags, BUSY
  <2>7. IndexesInBounds'
    BY <1>1 DEF TickStep, IndexesInBounds, Writing, ScheduleFinish, CountersOK
  <2> QED
    BY <2>1, <2>2, <2>3, <2>4, <2>5, <2>6, <2>7 DEF TypeOK
<1>2. CASE TickSearch
  <2>1. MediaOK' /\ DriveOK' /\ ParserFlagsOK' /\ ParserOK'
    BY <1>2 DEF TickSearch, MediaOK, DriveOK, ParserFlagsOK, ParserOK, Fields
  <2>2. RegistersOK'
    <3>1. data_reg' = data_reg \/ (Readable(sector_reg) /\ data_reg' = disk[selected][Track][sector_reg][0])
      BY <1>2 DEF TickSearch, Offer
    <3>2. data_reg' \in Byte
      <4>1. CASE data_reg' = data_reg
        BY <4>1 DEF RegistersOK
      <4>2. CASE Readable(sector_reg) /\ data_reg' = disk[selected][Track][sector_reg][0]
        <5>1. sector_reg \in 1..Sectors
          BY <4>2 DEF Readable
        <5>2. disk[selected][Track][sector_reg][0] \in Byte
          BY <5>1, DiskSector
        <5> QED
          BY <4>2, <5>2
      <4> QED
        BY <3>1, <4>1, <4>2
    <3>3. UNCHANGED <<track_reg, sector_reg>>
      BY <1>2 DEF TickSearch
    <3> QED
      BY <3>2, <3>3 DEF RegistersOK
  <2>3. CountersOK'
    BY <1>2 DEF TickSearch, CountersOK, Offer
  <2>4. buffer' \in Sector
    BY <1>2, DiskSector, ZenonT(60) DEF TickSearch, Offer, Readable
  <2>5. ControlOK' /\ EndsIdle'
    BY <1>2 DEF TickSearch, ControlOK, EndsIdle, States, SEEK_ERROR, Offer,
       ScheduleFinish, Flags, BUSY
  <2>6. LinesAgree'
    BY <1>2 DEF TickSearch, LinesAgree, SEEK_ERROR, Offer, ScheduleFinish, Flags,
       BUSY
  <2>7. IndexesInBounds'
    BY <1>2 DEF TickSearch, IndexesInBounds, Writing, Offer, ScheduleFinish
  <2> QED
    BY <2>1, <2>2, <2>3, <2>4, <2>5, <2>6, <2>7 DEF TypeOK
<1>3. CASE TickRead
  <2>1. MediaOK' /\ DriveOK' /\ ParserFlagsOK' /\ ParserOK'
    BY <1>3 DEF TickRead, MediaOK, DriveOK, ParserFlagsOK, ParserOK, Fields
  <2>2. RegistersOK'
    <3>1. CASE buf_pos < SectorSize
      <4>1. buffer[buf_pos] \in Byte
        BY <3>1, ByteOf DEF CountersOK
      <4> QED
        BY <1>3, <3>1, <4>1 DEF TickRead, RegistersOK, CountersOK
    <3>2. CASE ~(buf_pos < SectorSize)
      <4>1. \/ data_reg' = data_reg
            \/ Readable(NextSector) /\ data_reg' = disk[selected][Track][NextSector][0]
        BY <1>3, <3>2 DEF TickRead, Offer
      <4>2. data_reg' \in Byte
        <5>1. CASE data_reg' = data_reg
          BY <5>1 DEF RegistersOK
        <5>2. CASE Readable(NextSector) /\ data_reg' = disk[selected][Track][NextSector][0]
          <6>1. NextSector \in 1..Sectors
            BY <5>2 DEF Readable
          <6>2. disk[selected][Track][NextSector][0] \in Byte
            BY <6>1, DiskSector
          <6> QED
            BY <5>2, <6>2
        <5> QED
          BY <4>1, <5>1, <5>2
      <4>3. NextSector \in Byte
        BY DEF RegistersOK, NextSector
      <4>4. sector_reg' = sector_reg \/ sector_reg' = NextSector
        BY <1>3, <3>2 DEF TickRead
      <4>5. track_reg' = track_reg
        BY <1>3 DEF TickRead
      <4> QED
        BY <4>2, <4>3, <4>4, <4>5 DEF RegistersOK
    <3> QED
      BY <3>1, <3>2
  <2>3. CountersOK'
    BY <1>3 DEF TickRead, CountersOK, Offer
  <2>4. buffer' \in Sector
    BY <1>3, DiskSector, ZenonT(60) DEF TickRead, Offer, Readable
  <2>5. ControlOK' /\ EndsIdle'
    BY <1>3 DEF TickRead, ControlOK, EndsIdle, States, SEEK_ERROR, Offer,
       ScheduleFinish, Flags, BUSY
  <2>6. LinesAgree'
    BY <1>3 DEF TickRead, LinesAgree, SEEK_ERROR, Offer, ScheduleFinish, Flags, BUSY
  <2>7. IndexesInBounds'
    BY <1>3 DEF TickRead, IndexesInBounds, Writing, Offer, ScheduleFinish,
       CountersOK
  <2> QED
    BY <2>1, <2>2, <2>3, <2>4, <2>5, <2>6, <2>7 DEF TypeOK
<1>4. CASE TickWrite
  <2>1. DriveOK' /\ ParserFlagsOK' /\ ParserOK'
    BY <1>4 DEF TickWrite, DriveOK, ParserFlagsOK, ParserOK, Fields
  <2>2. MediaOK'
    BY <1>4, StoreType, SMTT(20) DEF TickWrite, MediaOK, Writable
  <2>3. RegistersOK'
    BY <1>4 DEF TickWrite, RegistersOK, Writable
  <2>4. CountersOK'
    BY <1>4 DEF TickWrite, CountersOK, IndexesInBounds, Writing
  <2>5. buffer' \in Sector
    BY <1>4, ZeroSectorType DEF TickWrite
  <2>6. ControlOK' /\ EndsIdle'
    BY <1>4 DEF TickWrite, ControlOK, EndsIdle, States, SEEK_ERROR, ScheduleFinish,
       Flags, BUSY
  <2>7. LinesAgree'
    BY <1>4 DEF TickWrite, LinesAgree, SEEK_ERROR, ScheduleFinish, Flags, BUSY
  <2>8. IndexesInBounds'
    BY <1>4 DEF TickWrite, IndexesInBounds, Writing, SectorFull, ScheduleFinish,
       CountersOK
  <2> QED
    BY <2>1, <2>2, <2>3, <2>4, <2>5, <2>6, <2>7, <2>8 DEF TypeOK
<1>5. CASE TickTrack
  <2>1. MediaOK' /\ DriveOK' /\ RegistersOK' /\ CountersOK' /\ buffer' \in Sector /\
     ParserFlagsOK'
    BY <1>5 DEF TickTrack, MediaOK, DriveOK, RegistersOK, CountersOK, ParserFlagsOK
  <2>2. ParserOK'
    BY <1>5 DEF TickTrack, ParserOK, Fields, StarvedFor, IndexesInBounds
  <2>3. ControlOK' /\ EndsIdle'
    BY <1>5 DEF TickTrack, ControlOK, EndsIdle, States, LOST_DATA, ScheduleFinish,
       Flags, BUSY
  <2>4. LinesAgree'
    BY <1>5 DEF TickTrack, LinesAgree, LOST_DATA, ScheduleFinish, Flags, BUSY
  <2>5. IndexesInBounds'
    BY <1>5 DEF TickTrack, IndexesInBounds, Writing, ScheduleFinish, StarvedFor
  <2> QED
    BY <2>1, <2>2, <2>3, <2>4, <2>5 DEF TypeOK
<1>6. CASE TickFinish
  <2>1. MediaOK' /\ DriveOK' /\ RegistersOK' /\ CountersOK' /\ buffer' \in Sector /\
     ParserFlagsOK' /\ ParserOK'
    BY <1>6 DEF TickFinish, MediaOK, DriveOK, RegistersOK, CountersOK,
       ParserFlagsOK, ParserOK, Fields
  <2>2. ControlOK' /\ EndsIdle'
    BY <1>6 DEF TickFinish, ControlOK, EndsIdle, States
  <2>3. LinesAgree'
    BY <1>6 DEF TickFinish, LinesAgree, EndsIdle, ControlOK
  <2>4. IndexesInBounds'
    BY <1>6 DEF TickFinish, IndexesInBounds, Writing
  <2> QED
    BY <2>1, <2>2, <2>3, <2>4 DEF TypeOK
<1> QED
  BY <1>1, <1>2, <1>3, <1>4, <1>5, <1>6 DEF Tick

(* Every step keeps the invariant.                                          *)
LEMMA NextInv == IInv /\ [Next]_vars => IInv'
<1> SUFFICES ASSUME IInv, [Next]_vars PROVE IInv'
  OBVIOUS
<1>1. CASE UNCHANGED vars
  <2> USE <1>1 DEF IInv, TypeOK, vars, mediaVars, driveVars, regVars, xferVars, stepVars, lineVars, wtVars
  <2>1. MediaOK' /\ DriveOK' /\ RegistersOK'
    BY DEF MediaOK, DriveOK, RegistersOK
  <2>2. ControlOK' /\ CountersOK' /\ buffer' \in Sector
    BY DEF ControlOK, CountersOK
  <2>3. ParserOK' /\ ParserFlagsOK'
    BY DEF ParserOK, ParserFlagsOK
  <2>4. LinesAgree' /\ IndexesInBounds' /\ EndsIdle'
    BY DEF LinesAgree, IndexesInBounds, EndsIdle, Writing
  <2> QED
    BY <2>1, <2>2, <2>3, <2>4
<1>2. CASE Cpu
  <2>1. ASSUME NEW p \in Selects, NEW on \in BOOLEAN, Select(p[1], p[2], on) PROVE IInv'
    <3>1. p[1] \in 0..3 /\ p[2] \in 0..1
      OBVIOUS
    <3> QED
      BY <2>1, <3>1, HostInv
  <2>2. CASE \E c \in Commands : WriteCommand(c)
    BY <2>2, CommandInv
  <2>3. CASE \/ \E v \in RegValues : WriteTrackReg(v) \/ WriteSectorReg(v)
             \/ \E b \in DataValues : WriteData(b)
             \/ ReadStatus \/ ReadData
    BY <2>3, RegisterInv
  <2> QED
    BY <1>2, <2>1, <2>2, <2>3 DEF Cpu
<1>3. CASE Host
  BY <1>3, HostInv
<1>4. CASE Tick
  BY <1>4, TickInv
<1> QED
  BY <1>1, <1>2, <1>3, <1>4 DEF Next

(* Whatever the CPU, the host and the clock do in whatever order, the       *)
(* controller's state is well formed: fdc_write, fdc_read, fdc_select,      *)
(* fdc_attach, fdc_detach, fdc_reset and fdc_tick all keep it so.           *)
THEOREM TypeCorrect == Spec => []TypeOK
<1>1. IInv => TypeOK
  BY DEF IInv
<1> QED
  BY InitInv, NextInv, <1>1, PTL DEF Spec

(* BUSY, DRQ and INTRQ never contradict each other.                         *)
THEOREM LinesAlwaysAgree == Spec => []LinesAgree
<1>1. IInv => LinesAgree
  BY DEF IInv
<1> QED
  BY InitInv, NextInv, <1>1, PTL DEF Spec

(* No index of the controller ever leaves its buffer.                       *)
THEOREM IndexesStayInBounds == Spec => []IndexesInBounds
<1>1. IInv => IndexesInBounds
  BY DEF IInv
<1> QED
  BY InitInv, NextInv, <1>1, PTL DEF Spec

(* What a step may do to the diskettes.                                     *)
StoreStep ==
  disk' # disk =>
    /\ busy /\ command.op \in {"WRITE_SECTOR", "WRITE_TRACK"}
    /\ media[selected] # "none" /\ ~readOnly[selected]
    /\ \E s \in 1..Sectors : disk' = [disk EXCEPT ![selected][Track][s] = buffer]

(* Only the last byte of a sector write and the CRC byte of a formatted     *)
(* sector reach a diskette; the phase each belongs to names its command.    *)
LEMMA OneSectorStep == IInv /\ [Next]_vars => StoreStep
<1> SUFFICES ASSUME IInv, [Next]_vars, disk' # disk
             PROVE  /\ busy /\ command.op \in {"WRITE_SECTOR", "WRITE_TRACK"}
                    /\ media[selected] # "none" /\ ~readOnly[selected]
                    /\ \E s \in 1..Sectors :
                         disk' = [disk EXCEPT ![selected][Track][s] = buffer]
  BY DEF StoreStep
<1> USE DEF mediaVars
<1>1. CASE \E b \in DataValues : WriteData(b)
  <2>1. Formatting /\ CloseData /\ Writable(wt_sector) /\ Store(wt_sector, buffer)
        /\ wt_sector \in 1..Sectors
    BY <1>1 DEF WriteData, TakeByte, TakeId, TakeDatum, TakeGap, CloseData
  <2>2. busy /\ command.op = "WRITE_TRACK"
    BY <2>1 DEF Formatting, IInv, LinesAgree, IndexesInBounds
  <2> QED
    BY <2>1, <2>2 DEF Writable, Present, Store
<1>2. CASE TickWrite
  <2>1. Writable(sector_reg) /\ Store(sector_reg, buffer)
    BY <1>2 DEF TickWrite
  <2>2. busy /\ command.op = "WRITE_SECTOR"
    BY <1>2 DEF TickWrite, IInv, LinesAgree
  <2> QED
    BY <2>1, <2>2 DEF Writable, Present, Store
<1>3. CASE \E c \in Commands : WriteCommand(c)
  BY <1>3 DEF WriteCommand, Position, Transfer, ReadAddress, WriteTrack, Unsupported,
     ForceInterrupt
<1>4. CASE \E v \in RegValues : WriteTrackReg(v) \/ WriteSectorReg(v)
  BY <1>4 DEF WriteTrackReg, WriteSectorReg
<1>5. CASE ReadStatus \/ ReadData
  BY <1>5 DEF ReadStatus, ReadData
<1>6. CASE \E p \in Selects, on \in BOOLEAN : Select(p[1], p[2], on)
  BY <1>6 DEF Select
<1>7. CASE Host
  BY <1>7 DEF Host, Reset, Attach, Detach
<1>8. CASE TickStep \/ TickSearch \/ TickRead \/ TickTrack \/ TickFinish
  BY <1>8 DEF TickStep, TickSearch, TickRead, TickTrack, TickFinish
<1>9. CASE UNCHANGED vars
  BY <1>9 DEF vars
<1> QED
  BY <1>1, <1>2, <1>3, <1>4, <1>5, <1>6, <1>7, <1>8, <1>9 DEF Next, Cpu, Tick

(* Nothing but a running write command of the selected, writable unit ever  *)
(* changes a diskette, and it changes one whole sector.                     *)
THEOREM SectorsStoredWhole == Spec => OneSectorAtATime
<1>1. IInv /\ [Next]_vars => [StoreStep]_vars
  BY OneSectorStep
<1> QED
  BY InitInv, NextInv, <1>1, PTL DEF Spec, OneSectorAtATime, StoreStep

HIDE FloppyAssumption

-----------------------------------------------------------------------------
(* The driver: its invariant.                                               *)

DriverOK ==
  /\ pc \in {"idle", "select", "target", "seek", "seeking", "sector", "command", "moving", "dead"}
  /\ pc = "idle" => job = NoJob
  /\ pc # "idle" => job \in Jobs
  /\ moved \in Seq(Byte)

Seeking ==
  /\ command.op = "SEEK" /\ state \in {"TYPE1_STEP", "FINISH", "IDLE"}
  /\ state = "TYPE1_STEP" => Track + (IF dir = 1 THEN pulses ELSE -pulses) = job.track
  /\ state # "TYPE1_STEP" => Track = job.track

Reading ==
  /\ state \in {"TYPE2_SEARCH", "TYPE2_DATA", "FINISH", "IDLE"}
  /\ \A i \in 1..Len(moved) :
       moved[i] = disk[job.unit][job.track][job.first + (i - 1) \div SectorSize][(i - 1) % SectorSize]
  /\ state = "TYPE2_SEARCH" => moved = <<>> /\ sector_reg = job.first
  /\ state = "TYPE2_DATA" =>
       /\ sector_reg \in job.first..Sectors
       /\ buffer = disk[job.unit][job.track][sector_reg]
       /\ drq => data_reg = buffer[buf_pos - 1]
       /\ Len(moved) = (sector_reg - job.first) * SectorSize + buf_pos - (IF drq THEN 1 ELSE 0)

(* A job that is over was done, or its status or its count says otherwise.  *)
Stored(s) == disk[job.unit][job.track][s] = job.data[s]
Over(flag) ==
  state \in {"FINISH", "IDLE"} =>
    \/ \A s \in job.sectors : Stored(s)
    \/ flag \in (IF state = "IDLE" THEN status ELSE next_status)
    \/ Len(moved) # Expected(job)

Filled == buf_pos + (IF drq THEN 0 ELSE 1)      \* the bytes of the sector the driver gave
Storing ==
  /\ state \in {"TYPE2_SEARCH", "TYPE2_DATA", "FINISH", "IDLE"}
  /\ state = "TYPE2_SEARCH" => moved = <<>> /\ sector_reg = job.first
  /\ state = "TYPE2_DATA" =>
       /\ sector_reg \in job.sectors
       /\ Len(moved) = (sector_reg - job.first) * SectorSize + Filled
       /\ \A k \in 0..SectorSize - 1 : k < Filled => buffer[k] = job.data[sector_reg][k]
       /\ \A s \in job.sectors : s < sector_reg => Stored(s)
  /\ Over(SEEK_ERROR)

(* Where the records of a format are, and what the parser has made of the   *)
(* first n bytes.                                                           *)
Marks(j) == [j.sectors -> 1..TrackBytes]
Id(j) == CHOOSE id \in Marks(j) : \E mark \in Marks(j) : LaidOut(j, id, mark)
Mark(j) == CHOOSE mark \in Marks(j) : LaidOut(j, Id(j), mark)

InRecord(id, mark, s, n) == id[s] <= n /\ n < End(mark, s)
InId(id, s, n) ==
  id[s] <= n /\ n < id[s] + 4 =>
    /\ wt_field = "ID" /\ wt_count = n - id[s]
    /\ wt_count > 2 => wt_sector = s
Named(id, mark, s, n) ==
  id[s] + 4 <= n /\ n < mark[s] =>
    wt_field = "GAP" /\ wt_id_valid /\ wt_sector = s /\ wt_length = SizeCode
InData(mark, s, n) ==
  mark[s] <= n /\ n < End(mark, s) =>
    /\ wt_field = "DATA" /\ wt_count = n - mark[s]
    /\ wt_sector = s /\ wt_length = SizeCode
    /\ \A k \in 0..SectorSize - 1 : k < wt_count => buffer[k] = job.data[s][k]
SyncSeen(n) == wt_sync <=> (wt_field = "GAP" /\ n > 0 /\ Given(job, n) = SYNC)
Parsed(id, mark, n) ==
  /\ \A s \in job.sectors : InId(id, s, n) /\ Named(id, mark, s, n) /\ InData(mark, s, n)
  /\ (\A s \in job.sectors : ~InRecord(id, mark, s, n)) => wt_field = "GAP" /\ ~wt_id_valid
  /\ SyncSeen(n)
Closed(mark, n) ==
  \A s \in job.sectors : End(mark, s) <= n => Stored(s) \/ WRITE_FAULT \in next_status

Formatted ==
  /\ state \in {"TYPE3_TRACK", "FINISH", "IDLE"}
  /\ state = "TYPE3_TRACK" =>
       /\ wt_bytes_left = TrackBytes - Len(moved)
       /\ drq => wt_bytes_left > 0
       /\ Parsed(Id(job), Mark(job), Len(moved))
       /\ Closed(Mark(job), Len(moved))
  /\ Over(WRITE_FAULT)

Working ==
  /\ command = Order(job)
  /\ job.op = "read" => Reading
  /\ job.op = "write" => Storing
  /\ job.op = "format" => Formatted

Transferring == state \in {"TYPE2_SEARCH", "TYPE2_DATA", "TYPE3_TRACK"}

Follows ==
  /\ DriverOK
  /\ pc \in {"idle", "select", "target", "seek", "sector", "command"} => state = "IDLE"
  /\ pc \notin {"moving", "dead"} => moved = <<>>
  /\ pc \notin {"idle", "select"} => selected = job.unit
  /\ pc = "seek" => data_reg = job.track
  /\ pc = "seeking" => Seeking
  /\ pc \in {"sector", "command"} => Track = job.track
  /\ pc = "command" => sector_reg = job.first
  /\ pc = "moving" \/ (pc = "dead" /\ Transferring) => Track = job.track /\ Working

DInv == IInv /\ Follows

(* A step of the driver is one of the store, or none of it.                 *)
storeVars == <<disk, job, outcome>>
Implements == Drive!Next \/ UNCHANGED storeVars

-----------------------------------------------------------------------------
(* Arithmetic, and what a job is.                                           *)

LEMMA Geometry ==
  /\ Tracks \in 1..256 /\ Sectors \in 1..254
  /\ SectorSize \in Nat \ {0} /\ TrackBytes \in Nat \ {0}
  BY FloppyAssumption DEF FloppyAssumption

LEMMA Division ==
  ASSUME NEW n \in Nat \ {0}, NEW q \in Nat, NEW r \in 0..n - 1
  PROVE  (q * n + r) \div n = q /\ (q * n + r) % n = r
OBVIOUS

LEMMA UnitParts == ASSUME NEW u \in 0..3 PROVE (u \div 2) * 2 + (u % 2) = u
<1>1. u = 0 \/ u = 1 \/ u = 2 \/ u = 3
  OBVIOUS
<1>2. /\ 0 \div 2 = 0 /\ 0 % 2 = 0 /\ 1 \div 2 = 0 /\ 1 % 2 = 1
      /\ 2 \div 2 = 1 /\ 2 % 2 = 0 /\ 3 \div 2 = 1 /\ 3 % 2 = 1
  OBVIOUS
<1>3. CASE u = 0 BY <1>2, <1>3
<1>4. CASE u = 1 BY <1>2, <1>4
<1>5. CASE u = 2 BY <1>2, <1>5
<1>6. CASE u = 3 BY <1>2, <1>6
<1> QED
  BY <1>1, <1>3, <1>4, <1>5, <1>6

LEMMA JobFields ==
  ASSUME NEW j \in Jobs
  PROVE  /\ j.op \in {"read", "write", "format"} /\ j.unit \in 0..3 /\ j.track \in 0..Tracks - 1
         /\ j.track \in Byte /\ j.first \in Byte
         /\ j.first \in 1..Sectors /\ j.multi \in BOOLEAN /\ j.sectors \subseteq 1..Sectors
         /\ j.data \in [1..Sectors -> Sector] /\ j.stream \in Seq(Byte)
<1>1. j \in JobType
  BY DriverAssumption DEF DriverAssumption
<1>2. /\ j.op \in {"read", "write", "format"} /\ j.unit \in Units /\ j.track \in 0..Tracks - 1
      /\ j.first \in 1..Sectors /\ j.multi \in BOOLEAN /\ j.sectors \subseteq 1..Sectors
      /\ j.data \in [1..Sectors -> Sector] /\ j.stream \in Seq(Byte)
  BY <1>1 DEF JobType
<1>3. ASSUME NEW n \in 0..Tracks - 1 PROVE n \in Byte
  BY Geometry
<1>4. ASSUME NEW n \in 1..Sectors PROVE n \in Byte
  BY Geometry
<1>5. j.track \in Byte
  BY <1>2, <1>3, Zenon
<1>6. j.first \in Byte
  BY <1>2, <1>4, Zenon
<1> QED
  BY <1>2, <1>5, <1>6

LEMMA GivenByte ==
  ASSUME NEW j \in Jobs, NEW n \in Nat \ {0}
  PROVE  Given(j, n) \in Byte
<1>1. j.stream \in Seq(Byte) /\ Len(j.stream) \in Nat
  BY JobFields
<1>2. n <= Len(j.stream) => n \in 1..Len(j.stream)
  BY <1>1
<1>3. n <= Len(j.stream) => j.stream[n] \in Byte
  BY <1>1, <1>2, ElementOfSeq
<1> QED
  BY <1>3 DEF Given, GapByte

LEMMA Orders ==
  ASSUME NEW j \in Jobs
  PROVE  /\ Order(j) \in Command /\ Order(j).flag = j.multi
         /\ j.op = "read" => Order(j).op = "READ_SECTOR"
         /\ j.op = "write" => Order(j).op = "WRITE_SECTOR"
         /\ j.op = "format" => Order(j).op = "WRITE_TRACK"
  BY JobFields DEF Order, Command, Ops

LEMMA Laid ==
  ASSUME NEW j \in Jobs, j.op = "format"
  PROVE  /\ Id(j) \in Marks(j) /\ Mark(j) \in Marks(j)
         /\ LaidOut(j, Id(j), Mark(j))
<1> HIDE DEF LaidOut
<1>1. \E id \in Marks(j) : \E mark \in Marks(j) : LaidOut(j, id, mark)
  BY JobsFit DEF Marks
<1>2. Id(j) \in Marks(j) /\ \E mark \in Marks(j) : LaidOut(j, Id(j), mark)
  BY <1>1 DEF Id
<1> QED
  BY <1>2 DEF Mark

-----------------------------------------------------------------------------
(* Whatever the driver does is the controller's to do, so Floppy's          *)
(* invariant holds under it.                                                *)
LEMMA FloppyKept ==
  ASSUME IInv, DriverOK, [DriverNext]_allVars
  PROVE  IInv'
<1>1. CASE \E j \in Jobs : Take(j)
  BY <1>1, NextInv DEF Take
<1>2. CASE SelectUnit
  <2>1. job.unit \in 0..3
    BY <1>2, JobFields DEF SelectUnit, DriverOK
  <2>2. job.unit % 2 \in 0..3 /\ job.unit \div 2 \in 0..1
    BY <2>1
  <2> QED
    BY <1>2, <2>2, HostInv DEF SelectUnit
<1>3. CASE SetTarget
  <2>1. job \in Jobs
    BY <1>3 DEF SetTarget, DriverOK
  <2>2. job.track \in Byte
    BY <2>1, JobFields
  <2> QED
    BY <1>3, <2>2, RegisterInv DEF SetTarget
<1>4. CASE Seek
  <2>1. [op |-> "SEEK", flag |-> TRUE] \in Command
    BY DEF Command, Ops
  <2> QED
    BY <1>4, <2>1, CommandInv DEF Seek
<1>5. CASE SeekDone
  BY <1>5, RegisterInv DEF SeekDone
<1>6. CASE NameSector
  <2>1. job \in Jobs
    BY <1>6 DEF NameSector, DriverOK
  <2>2. job.first \in Byte
    BY <2>1, JobFields
  <2> QED
    BY <1>6, <2>2, RegisterInv DEF NameSector
<1>7. CASE Start
  <2>1. Order(job) \in Command
    BY <1>7, Orders DEF Start, DriverOK
  <2> QED
    BY <1>7, <2>1, CommandInv DEF Start
<1>8. CASE Answer
  <2>1. Given(job, Len(moved) + 1) \in Byte
    <3>1. job \in Jobs /\ Len(moved) + 1 \in Nat \ {0}
      BY <1>8 DEF Answer, DriverOK
    <3> QED
      BY <3>1, GivenByte
  <2> QED
    BY <1>8, <2>1, RegisterInv DEF Answer
<1>9. CASE Conclude
  BY <1>9, RegisterInv DEF Conclude
<1>10. CASE GiveUp
  <2>1. [op |-> "FORCE_INT", flag |-> FALSE] \in Command
    BY DEF Command, Ops
  <2> QED
    BY <1>10, <2>1, CommandInv DEF GiveUp
<1>11. CASE Die
  BY <1>11, NextInv DEF Die
<1>12. CASE HostStep
  BY <1>12, HostInv DEF HostStep, Host
<1>13. CASE ClockStep
  BY <1>13, TickInv DEF ClockStep
<1>14. CASE UNCHANGED allVars
  BY <1>14, NextInv DEF allVars
<1> QED
  BY <1>1, <1>2, <1>3, <1>4, <1>5, <1>6, <1>7, <1>8, <1>9, <1>10, <1>11, <1>12, <1>13, <1>14
     DEF DriverNext, Work

-----------------------------------------------------------------------------
(* The driver's own steps: until it gives a command the controller is idle. *)

LEMMA TakeFollows ==
  ASSUME DInv, NEW j \in Jobs, Take(j)
  PROVE  Follows' /\ Implements
<1>1. /\ pc = "idle" /\ pc' = "select" /\ job' = j /\ moved' = <<>> /\ UNCHANGED <<state, disk, outcome>>
  BY DEF Take, vars, mediaVars
<1>2. job = NoJob /\ state = "IDLE"
  BY <1>1 DEF DInv, Follows, DriverOK
<1>3. Follows'
  BY <1>1, <1>2 DEF Follows, DriverOK
<1>4. Drive!Accept(j)
  BY <1>1, <1>2 DEF Drive!Accept
<1> QED
  BY <1>3, <1>4 DEF Implements, Drive!Next

LEMMA ApproachFollows ==
  ASSUME DInv, SelectUnit \/ SetTarget \/ Seek \/ SeekDone \/ NameSector
  PROVE  Follows' /\ Implements
<1> USE DEF mediaVars, driveVars, regVars, xferVars, stepVars, lineVars, wtVars
<1>0. job' = job /\ moved' = moved /\ outcome' = outcome /\ job \in Jobs
  BY DEF SelectUnit, SetTarget, Seek, SeekDone, NameSector, DInv, Follows, DriverOK
<1>1. CASE SelectUnit
  <2>1. job.unit \in 0..3
    BY <1>0, JobFields
  <2>2. (job.unit \div 2) * 2 + (job.unit % 2) = job.unit
    BY <2>1, UnitParts
  <2>3. /\ pc = "select" /\ pc' = "target" /\ selected' = (job.unit \div 2) * 2 + (job.unit % 2)
        /\ UNCHANGED <<disk, state>>
    BY <1>1 DEF SelectUnit, Select
  <2>4. Follows'
    BY <1>0, <2>2, <2>3 DEF DInv, Follows, DriverOK
  <2> QED
    BY <1>0, <2>3, <2>4 DEF Implements, storeVars
<1>2. CASE SetTarget
  <2>1. state = "IDLE" /\ pc = "target" /\ pc' = "seek"
    BY <1>2 DEF SetTarget, DInv, Follows
  <2>2. data_reg' = job.track /\ UNCHANGED <<disk, state, selected>>
    BY <1>2, <2>1 DEF SetTarget, WriteData, Writing, Formatting
  <2>3. Follows'
    BY <1>0, <2>1, <2>2 DEF DInv, Follows, DriverOK
  <2> QED
    BY <1>0, <2>2, <2>3 DEF Implements, storeVars
<1>3. CASE Seek
  <2> DEFINE c == [op |-> "SEEK", flag |-> TRUE]
  <2>1. /\ pc = "seek" /\ pc' = "seeking" /\ data_reg = job.track /\ moved = <<>>
        /\ selected = job.unit
    BY <1>3 DEF Seek, DInv, Follows
  <2>2. Position(c)
    BY <1>3 DEF Seek, WriteCommand, Position, Transfer, ReadAddress, WriteTrack, Unsupported, ForceInterrupt
  <2>3. /\ command' = c /\ StartType1(job.track, dir) /\ UNCHANGED <<disk, selected, head>>
    BY <2>1, <2>2 DEF Position, Latch, Target
  <2>4. Clamp(job.track) = job.track /\ Track \in 0..Tracks - 1 /\ job.track \in 0..Tracks - 1
    BY <1>0, JobFields, Geometry DEF Clamp, DInv, IInv, TypeOK, DriveOK, Track
  <2>5. state' = "TYPE1_STEP" => Track + (IF dir' = 1 THEN pulses' ELSE -pulses') = job.track
    BY <2>3, <2>4 DEF StartType1, ScheduleFinish
  <2>6. state' \in {"TYPE1_STEP", "FINISH"} /\ (state' = "FINISH" => Track = job.track)
    BY <2>3, <2>4 DEF StartType1, ScheduleFinish
  <2>7. Track' = Track
    BY <2>3 DEF Track
  <2>8. Seeking'
    BY <1>0, <2>3, <2>5, <2>6, <2>7 DEF Seeking
  <2>9. Follows'
    BY <1>0, <2>1, <2>3, <2>8 DEF DInv, Follows, DriverOK
  <2> QED
    BY <1>0, <2>3, <2>9 DEF Implements, storeVars
<1>4. CASE SeekDone
  <2>1. pc = "seeking" /\ pc' = "sector" /\ intrq /\ UNCHANGED <<disk, state, selected, head>>
    BY <1>4 DEF SeekDone, ReadStatus
  <2>2. state = "IDLE"
    BY <2>1 DEF DInv, IInv, LinesAgree
  <2>3. Track = job.track /\ Track' = Track
    BY <2>1, <2>2 DEF DInv, Follows, Seeking, Track
  <2>4. Follows'
    BY <1>0, <2>1, <2>2, <2>3 DEF DInv, Follows, DriverOK
  <2> QED
    BY <1>0, <2>1, <2>4 DEF Implements, storeVars
<1>5. CASE NameSector
  <2>1. /\ pc = "sector" /\ pc' = "command" /\ sector_reg' = job.first
        /\ UNCHANGED <<disk, state, selected, head>>
    BY <1>5 DEF NameSector, WriteSectorReg
  <2>2. Track' = Track
    BY <2>1 DEF Track
  <2>3. Follows'
    BY <1>0, <2>1, <2>2 DEF DInv, Follows, DriverOK
  <2> QED
    BY <1>0, <2>1, <2>3 DEF Implements, storeVars
<1> QED
  BY <1>1, <1>2, <1>3, <1>4, <1>5

-----------------------------------------------------------------------------
(* Steps that leave a transfer as it is, and those that end it.             *)

workVars == <<disk, selected, head, job, moved, command, state, status, next_status, sector_reg,
              data_reg, drq, buffer, buf_pos, wtVars>>

LEMMA WorkFrame ==
  ASSUME UNCHANGED workVars
  PROVE  (Working => Working') /\ (Seeking /\ UNCHANGED stepVars => Seeking') /\ Track' = Track
<1> USE DEF workVars, wtVars, stepVars
<1>1. Track' = Track
  BY DEF Track
<1>2. ASSUME NEW flag, Over(flag) PROVE Over(flag)'
  BY <1>2 DEF Over, Stored
<1>3. Reading => Reading'
  BY DEF Reading
<1>4. Storing => Storing'
  BY <1>2 DEF Storing, Filled, Stored
<1>5. ASSUME NEW id, NEW mark, NEW n, Parsed(id, mark, n) PROVE Parsed(id, mark, n)'
  BY <1>5 DEF Parsed, InId, Named, InData, InRecord, SyncSeen
<1>6. ASSUME NEW mark, NEW n, Closed(mark, n) PROVE Closed(mark, n)'
  BY <1>6 DEF Closed, Stored
<1>7. Formatted => Formatted'
  BY <1>2, <1>5, <1>6 DEF Formatted
<1>8. Working => Working'
  BY <1>3, <1>4, <1>7 DEF Working
<1>9. Seeking /\ UNCHANGED stepVars => Seeking'
  BY <1>1 DEF Seeking
<1> QED
  BY <1>1, <1>8, <1>9

LEMMA AsideFollows ==
  ASSUME DInv, Die \/ HostStep \/ UNCHANGED allVars
  PROVE  Follows' /\ Implements
<1>1. /\ UNCHANGED <<workVars, stepVars, outcome>>
      /\ pc' = pc \/ (pc \in {"seeking", "moving"} /\ pc' = "dead")
  BY DEF Die, HostStep, Attach, Detach, allVars, driverVars, vars, workVars, mediaVars, driveVars,
         regVars, xferVars, stepVars, lineVars, wtVars
<1>2. (Working => Working') /\ (Seeking => Seeking') /\ Track' = Track
  BY <1>1, WorkFrame
<1>3. UNCHANGED <<disk, job, moved, state, selected, data_reg, sector_reg, outcome>>
  BY <1>1 DEF workVars
<1>4. ~(pc = "seeking" /\ Transferring)
  BY DEF DInv, Follows, Seeking, Transferring
<1>5. Transferring' <=> Transferring
  BY <1>3 DEF Transferring
<1>6. Follows'
  BY <1>1, <1>2, <1>3, <1>4, <1>5 DEF DInv, Follows, DriverOK
<1> QED
  BY <1>3, <1>6 DEF Implements, storeVars

(* What an end of a job leaves.                                             *)
LEMMA EndFollows ==
  ASSUME DInv, pc' = "idle", job' = NoJob, moved' = <<>>, state' = "IDLE"
  PROVE  Follows'
  BY DEF DInv, Follows, DriverOK, Transferring

LEMMA GiveUpFollows ==
  ASSUME DInv, GiveUp
  PROVE  Follows' /\ Implements
<1>1. /\ pc \in {"seeking", "moving"} /\ pc' = "idle" /\ job' = NoJob /\ moved' = <<>> /\ outcome' = Failed
      /\ WriteCommand([op |-> "FORCE_INT", flag |-> FALSE])
  BY DEF GiveUp
<1>2. state' = "IDLE" /\ disk' = disk
  BY <1>1 DEF WriteCommand, Position, Transfer, ReadAddress, WriteTrack, Unsupported, ForceInterrupt,
              mediaVars
<1>3. job \in Jobs /\ job # NoJob
  BY <1>1, DriverAssumption DEF DriverAssumption, DInv, Follows, DriverOK
<1>4. Drive!Fail
  BY <1>1, <1>2, <1>3 DEF Drive!Fail, Drive!Failed, Failed
<1> QED
  BY <1>1, <1>2, <1>4, EndFollows DEF Implements, Drive!Next

LEMMA ConcludeFollows ==
  ASSUME DInv, Conclude
  PROVE  Follows' /\ Implements
<1> DEFINE good == StatusRead \cap Errors = {} /\ Len(moved) = Expected(job)
<1>1. /\ pc = "moving" /\ intrq /\ pc' = "idle" /\ job' = NoJob /\ moved' = <<>>
      /\ outcome' = IF good THEN [ok |-> TRUE, data |-> IF job.op = "read" THEN moved ELSE <<>>]
                    ELSE Failed
      /\ UNCHANGED <<disk, state>>
  BY DEF Conclude, ReadStatus, mediaVars
<1>2. state = "IDLE"
  BY <1>1 DEF DInv, IInv, LinesAgree
<1>3. job \in Jobs /\ job # NoJob /\ Working /\ moved \in Seq(Byte)
  BY <1>1, DriverAssumption DEF DriverAssumption, DInv, Follows, DriverOK
<1>4. Follows'
  BY <1>1, <1>2, EndFollows
<1>5. CASE ~good
  <2>1. Drive!Fail
    BY <1>1, <1>3, <1>5 DEF Drive!Fail, Drive!Failed, Failed
  <2> QED
    BY <1>4, <2>1 DEF Implements, Drive!Next
<1>6. CASE good /\ job.op = "read"
  <2>1. Len(moved) = Cardinality(job.sectors) * SectorSize
    BY <1>6 DEF Expected
  <2>2. \A i \in 1..Len(moved) :
          moved[i] = disk[job.unit][job.track][job.first + (i - 1) \div SectorSize][(i - 1) % SectorSize]
    BY <1>3, <1>6 DEF Working, Reading
  <2>3. moved = [i \in 1..Len(moved) |-> moved[i]]
    BY <1>3
  <2>4. moved = ReadBytes(disk, job)
    BY <2>1, <2>2, <2>3 DEF ReadBytes
  <2>5. outcome' = [ok |-> TRUE, data |-> ReadBytes(disk, job)]
    BY <1>1, <1>6, <2>4
  <2>6. Drive!Done
    BY <1>1, <1>3, <1>6, <2>5 DEF Drive!Done
  <2> QED
    BY <1>4, <2>6 DEF Implements, Drive!Next
<1>7. CASE good /\ job.op # "read"
  <2>1. SEEK_ERROR \notin status /\ WRITE_FAULT \notin status
    BY <1>7 DEF StatusRead, Errors, SEEK_ERROR, WRITE_FAULT, NOT_READY
  <2>2. job.op \in {"write", "format"}
    BY <1>3, <1>7, JobFields
  <2>3. \A s \in job.sectors : Stored(s)
    BY <1>2, <1>3, <1>7, <2>1, <2>2 DEF Working, Storing, Formatted, Over
  <2>4. outcome' = [ok |-> TRUE, data |-> <<>>]
    BY <1>1, <1>7
  <2>5. Drive!Done
    BY <1>1, <1>3, <1>7, <2>3, <2>4 DEF Drive!Done, Stored
  <2> QED
    BY <1>4, <2>5 DEF Implements, Drive!Next
<1> QED
  BY <1>5, <1>6, <1>7

-----------------------------------------------------------------------------
(* The command is given.                                                    *)

LEMMA JobSize ==
  ASSUME NEW j \in Jobs, j.op \in {"write", "format"}
  PROVE  Expected(j) \in Nat \ {0}
<1>1. CASE j.op = "write"
  <2>1. Fills(j)
    BY <1>1, JobsFit DEF JobsFit
  <2>2. \E m \in Nat : Len(j.stream) = (m + 1) * SectorSize
    <3>1. CASE j.multi
      <4>1. Len(j.stream) = ((Sectors - j.first) + 1) * SectorSize /\ Sectors - j.first \in Nat
        BY <2>1, <3>1, JobFields, Geometry DEF Fills
      <4> QED
        BY <4>1
    <3>2. CASE ~j.multi
      <4>1. Len(j.stream) = (0 + 1) * SectorSize
        BY <2>1, <3>2, JobFields, Geometry DEF Fills
      <4> QED
        BY <4>1
    <3> QED
      BY <3>1, <3>2
  <2>3. \A m \in Nat : (m + 1) * SectorSize \in Nat \ {0}
    BY Geometry
  <2> QED
    BY <1>1, <2>2, <2>3 DEF Expected
<1>2. CASE j.op = "format"
  BY <1>2, Geometry DEF Expected
<1> QED
  BY <1>1, <1>2

(* Before the first byte the parser is outside every record.                *)
LEMMA ParserStarts ==
  ASSUME job \in Jobs, job.op = "format", wt_field = "GAP", ~wt_id_valid, ~wt_sync
  PROVE  Parsed(Id(job), Mark(job), 0) /\ Closed(Mark(job), 0)
<1>1. Id(job) \in Marks(job) /\ Mark(job) \in Marks(job) /\ LaidOut(job, Id(job), Mark(job))
  BY Laid
<1> DEFINE id == Id(job)
           mark == Mark(job)
<1>2. \A s \in job.sectors : id[s] \in 1..TrackBytes /\ mark[s] \in 1..TrackBytes
  BY <1>1 DEF Marks
<1>3. \A s \in job.sectors : 0 < id[s] /\ 0 < mark[s] /\ 0 < End(mark, s)
  BY <1>2, Geometry DEF End
<1> HIDE DEF id, mark
<1>4. \A s \in job.sectors : InId(id, s, 0) /\ Named(id, mark, s, 0) /\ InData(mark, s, 0)
  BY <1>2, <1>3 DEF InId, Named, InData
<1>5. Parsed(id, mark, 0)
  BY <1>4 DEF Parsed, SyncSeen
<1>6. Closed(mark, 0)
  <2>1. \A s \in job.sectors : ~(End(mark, s) <= 0)
    BY <1>2, <1>3, Geometry DEF End
  <2> QED
    BY <2>1 DEF Closed
<1> QED
  BY <1>5, <1>6 DEF id, mark

LEMMA StartFollows ==
  ASSUME DInv, Start
  PROVE  Follows' /\ Implements
<1>1. /\ pc = "command" /\ pc' = "moving" /\ job \in Jobs /\ job' = job /\ moved = <<>> /\ moved' = <<>>
      /\ outcome' = outcome /\ WriteCommand(Order(job)) /\ sector_reg = job.first
      /\ Track = job.track /\ selected = job.unit
  BY DEF Start, DInv, Follows, DriverOK
<1>2. job.op \in {"read", "write", "format"} /\ Len(moved') = 0
  BY <1>1, JobFields
<1>3. ASSUME NEW flag, job.op \in {"write", "format"} PROVE Over(flag)'
  BY <1>1, <1>2, <1>3, JobSize DEF Over, Expected
<1>4. CASE job.op \in {"read", "write"}
  <2>1. Transfer(Order(job))
    BY <1>1, <1>4, Orders DEF WriteCommand, Position, ReadAddress, WriteTrack, Unsupported, ForceInterrupt
  <2>2. /\ command' = Order(job) /\ state' \in {"TYPE2_SEARCH", "FINISH"} /\ sector_reg' = sector_reg
        /\ UNCHANGED <<disk, selected, head>>
    BY <2>1 DEF Transfer, Latch, ScheduleFinish, mediaVars, driveVars, regVars
  <2>3. Track' = Track
    BY <2>2 DEF Track
  <2>4. job.op = "read" => Reading'
    BY <1>1, <1>2, <2>2 DEF Reading
  <2>5. job.op = "write" => Storing'
    BY <1>1, <1>2, <1>3, <2>2 DEF Storing
  <2>6. Working'
    BY <1>1, <1>4, <2>2, <2>4, <2>5 DEF Working
  <2>7. Follows'
    BY <1>1, <2>2, <2>3, <2>6 DEF DInv, Follows, DriverOK
  <2> QED
    BY <1>1, <2>2, <2>7 DEF Implements, storeVars
<1>5. CASE job.op = "format"
  <2>1. WriteTrack(Order(job))
    BY <1>1, <1>5, Orders DEF WriteCommand, Position, Transfer, ReadAddress, Unsupported, ForceInterrupt
  <2>2. /\ command' = Order(job) /\ state' \in {"TYPE3_TRACK", "FINISH"}
        /\ UNCHANGED <<disk, selected, head>>
    BY <2>1 DEF WriteTrack, Latch, ScheduleFinish, mediaVars, driveVars, regVars
  <2>3. Track' = Track
    BY <2>2 DEF Track
  <2>4. state' = "TYPE3_TRACK" =>
          /\ wt_bytes_left' = TrackBytes /\ drq' = FALSE
          /\ wt_field' = "GAP" /\ ~wt_id_valid' /\ ~wt_sync'
    BY <2>1 DEF WriteTrack, ScheduleFinish, StartParser
  <2>5. state' = "TYPE3_TRACK" => Parsed(Id(job), Mark(job), 0)' /\ Closed(Mark(job), 0)'
    <3>1. (job \in Jobs /\ job.op = "format")'
      BY <1>1, <1>5
    <3>2. (job \in Jobs /\ job.op = "format" /\ wt_field = "GAP" /\ ~wt_id_valid /\ ~wt_sync
             => Parsed(Id(job), Mark(job), 0) /\ Closed(Mark(job), 0))'
      BY ParserStarts, PTL
    <3> QED
      BY <2>4, <3>1, <3>2
  <2>6. Formatted'
    BY <1>1, <1>2, <1>3, <1>5, <2>2, <2>4, <2>5, Geometry DEF Formatted
  <2>7. Working'
    BY <1>1, <1>5, <2>2, <2>6 DEF Working
  <2>8. Follows'
    BY <1>1, <2>2, <2>3, <2>7 DEF DInv, Follows, DriverOK
  <2> QED
    BY <1>1, <2>2, <2>8 DEF Implements, storeVars
<1> QED
  BY <1>2, <1>4, <1>5

-----------------------------------------------------------------------------
(* The parser of WRITE TRACK, a byte at a time.                             *)

LaidFor(id, mark) ==
  /\ job \in Jobs /\ job.op = "format"
  /\ id \in Marks(job) /\ mark \in Marks(job) /\ LaidOut(job, id, mark)

LEMMA RecordBounds ==
  ASSUME NEW id, NEW mark, LaidFor(id, mark), NEW s \in job.sectors
  PROVE  /\ id[s] \in Nat /\ mark[s] \in Nat /\ End(mark, s) = mark[s] + SectorSize + 1
         /\ 1 < id[s] /\ id[s] + 5 < mark[s] /\ End(mark, s) <= TrackBytes
<1>1. id[s] \in 1..TrackBytes /\ mark[s] \in 1..TrackBytes
  BY DEF LaidFor, Marks
<1>2. 1 < id[s] /\ id[s] + 5 < mark[s] /\ End(mark, s) <= TrackBytes
  BY DEF LaidFor, LaidOut
<1> QED
  BY <1>1, <1>2, Geometry DEF End

LEMMA RecordBytes ==
  ASSUME NEW id, NEW mark, LaidFor(id, mark), NEW s \in job.sectors
  PROVE  /\ Given(job, id[s] - 1) = SYNC /\ Given(job, id[s]) = ID_MARK
         /\ Given(job, id[s] + 3) = s /\ Given(job, id[s] + 4) = SizeCode
         /\ Given(job, mark[s] - 1) = SYNC /\ Given(job, mark[s]) \in {DATA_MARK, DELETED_MARK}
         /\ \A k \in 0..SectorSize - 1 : /\ Given(job, mark[s] + 1 + k) = job.data[s][k]
                                         /\ job.data[s][k] # CRC
         /\ Given(job, End(mark, s)) = CRC
         /\ \A n \in id[s] + 5..mark[s] - 1 : Given(job, n - 1) = SYNC =>
              Given(job, n) \notin {ID_MARK, DATA_MARK, DELETED_MARK}
  BY DEF LaidFor, LaidOut

LEMMA Elsewhere ==
  ASSUME NEW id, NEW mark, LaidFor(id, mark), NEW n \in 2..TrackBytes,
         Given(job, n - 1) = SYNC, Given(job, n) = ID_MARK
  PROVE  \E s \in job.sectors : id[s] <= n /\ n <= End(mark, s)
  BY DEF LaidFor, LaidOut

LEMMA Apart ==
  ASSUME NEW id, NEW mark, LaidFor(id, mark), NEW s \in job.sectors, NEW r \in job.sectors, r # s,
         NEW n \in Nat, id[s] <= n, n <= End(mark, s)
  PROVE  ~InRecord(id, mark, r, n)
<1>1. End(mark, s) < id[r] \/ End(mark, r) < id[s]
  BY DEF LaidFor, LaidOut
<1>2. /\ id[s] \in Nat /\ id[r] \in Nat /\ End(mark, s) \in Nat /\ End(mark, r) \in Nat
  BY RecordBounds, Geometry
<1> QED
  BY <1>1, <1>2 DEF InRecord

(* Inside the record of one sector it is enough to look at that one.        *)
LEMMA ParsedInside ==
  ASSUME NEW id, NEW mark, LaidFor(id, mark), job' = job, NEW s \in job.sectors, NEW n \in Nat,
         InRecord(id, mark, s, n),
         InId(id, s, n)', Named(id, mark, s, n)', InData(mark, s, n)', SyncSeen(n)'
  PROVE  Parsed(id, mark, n)'
<1>1. ASSUME NEW r \in job.sectors, r # s
      PROVE  InId(id, r, n)' /\ Named(id, mark, r, n)' /\ InData(mark, r, n)'
  <2>1. ~InRecord(id, mark, r, n)
    <3>1. id[s] <= n /\ n < End(mark, s) /\ End(mark, s) \in Nat
      BY RecordBounds, Geometry DEF InRecord
    <3> QED
      BY <1>1, <3>1, Apart
  <2>2. /\ id[r] \in Nat /\ mark[r] \in Nat /\ id[r] + 5 < mark[r]
        /\ End(mark, r) = mark[r] + SectorSize + 1
    BY <1>1, RecordBounds
  <2> QED
    BY <2>1, <2>2, Geometry DEF InRecord, InId, Named, InData
<1>2. \A r \in job.sectors : InId(id, r, n)' /\ Named(id, mark, r, n)' /\ InData(mark, r, n)'
  BY <1>1
<1> QED
  BY <1>2 DEF Parsed, InRecord

LEMMA ParsedOutside ==
  ASSUME NEW id, NEW mark, LaidFor(id, mark), job' = job, NEW n \in Nat,
         \A s \in job.sectors : ~InRecord(id, mark, s, n),
         wt_field' = "GAP", ~wt_id_valid', SyncSeen(n)'
  PROVE  Parsed(id, mark, n)'
<1>1. ASSUME NEW r \in job.sectors
      PROVE  InId(id, r, n)' /\ Named(id, mark, r, n)' /\ InData(mark, r, n)'
  <2>2. /\ id[r] \in Nat /\ mark[r] \in Nat /\ id[r] + 5 < mark[r]
        /\ End(mark, r) = mark[r] + SectorSize + 1
    BY <1>1, RecordBounds
  <2> QED
    BY <1>1, <2>2, Geometry DEF InRecord, InId, Named, InData
<1> QED
  BY <1>1 DEF Parsed

(* A sector that is closed stays so.                                        *)
LEMMA ClosedStays ==
  ASSUME NEW id, NEW mark, LaidFor(id, mark), job' = job, NEW n \in Nat, Closed(mark, n),
         UNCHANGED <<disk, next_status>>,
         \A r \in job.sectors : ~InRecord(id, mark, r, n) \/ n + 1 < End(mark, r)
  PROVE  Closed(mark, n + 1)'
<1>1. ASSUME NEW r \in job.sectors, End(mark, r) <= n + 1 PROVE End(mark, r) <= n
  <2>1. /\ id[r] \in Nat /\ mark[r] \in Nat /\ id[r] + 5 < mark[r]
        /\ End(mark, r) = mark[r] + SectorSize + 1
    BY <1>1, RecordBounds
  <2> QED
    BY <1>1, <2>1, Geometry DEF InRecord
<1> QED
  BY <1>1 DEF Closed, Stored

(* What one byte does.                                                      *)
Taking(id, mark, n) ==
  /\ LaidFor(id, mark) /\ n \in Nat /\ n < TrackBytes
  /\ Parsed(id, mark, n) /\ Closed(mark, n)
  /\ TakeByte(Given(job, n + 1)) /\ job' = job
  /\ selected = job.unit /\ Track = job.track /\ IInv
Commits(s) == disk' = [disk EXCEPT ![job.unit][job.track][s] = job.data[s]]
Taken(id, mark, n) ==
  /\ Parsed(id, mark, n + 1)' /\ Closed(mark, n + 1)'
  /\ disk' = disk \/ \E s \in job.sectors : Commits(s)

LEMMA IdByte ==
  ASSUME NEW id, NEW mark, NEW n, Taking(id, mark, n), NEW s \in job.sectors,
         id[s] <= n, n < id[s] + 4
  PROVE  Taken(id, mark, n)
<1>1. /\ LaidFor(id, mark) /\ n \in Nat /\ job' = job /\ Parsed(id, mark, n) /\ Closed(mark, n)
      /\ wt_count \in Nat
  BY DEF Taking, IInv, TypeOK, ParserOK
<1>2. /\ id[s] \in Nat /\ mark[s] \in Nat /\ id[s] + 5 < mark[s] /\ End(mark, s) = mark[s] + SectorSize + 1
  BY <1>1, RecordBounds
<1>3. wt_field = "ID" /\ wt_count = n - id[s] /\ (wt_count > 2 => wt_sector = s) /\ ~wt_sync
  BY <1>1 DEF Parsed, InId, SyncSeen
<1> DEFINE b == Given(job, n + 1)
<1>4. TakeId(b) /\ UNCHANGED <<disk, next_status>>
  BY <1>3 DEF Taking, TakeByte, TakeId
<1>5. (n + 1 = id[s] + 3 => b = s) /\ (n + 1 = id[s] + 4 => b = SizeCode)
  BY <1>1, <1>2, RecordBytes
<1> HIDE DEF b
<1>6. InId(id, s, n + 1)'
  <2>1. n + 1 < id[s] + 4 => wt_field' = "ID" /\ wt_count' = n + 1 - id[s]
    BY <1>1, <1>2, <1>3, <1>4 DEF TakeId
  <2>2. n + 1 < id[s] + 4 /\ wt_count' > 2 => wt_sector' = s
    BY <1>1, <1>2, <1>3, <1>4, <1>5 DEF TakeId
  <2> QED
    BY <1>1, <1>2, <2>1, <2>2 DEF InId
<1>7. Named(id, mark, s, n + 1)'
  <2>1. SUFFICES ASSUME id[s] + 4 <= n + 1
                 PROVE  wt_field' = "GAP" /\ wt_id_valid' /\ wt_sector' = s /\ wt_length' = SizeCode
    BY DEF Named
  <2>2. wt_count = 3 /\ b = SizeCode /\ wt_sector = s
    BY <1>1, <1>2, <1>3, <1>5, <2>1
  <2>3. wt_field' = "GAP" /\ wt_sector' = s
    BY <1>4, <2>2 DEF TakeId
  <2>4. wt_length' = SizeCode
    BY <1>4, <2>2 DEF TakeId
  <2>5. wt_id_valid'
    BY <1>4, <2>2, Zenon DEF TakeId
  <2> QED
    BY <2>3, <2>4, <2>5
<1>8. InData(mark, s, n + 1)'
  BY <1>1, <1>2 DEF InData
<1>9. SyncSeen(n + 1)'
  <2>1. wt_sync' = wt_sync
    BY <1>4 DEF TakeId
  <2>2. wt_field' = "GAP" => b = SizeCode
    BY <1>1, <1>2, <1>3, <1>4, <1>5 DEF TakeId
  <2>3. wt_field' = "GAP" => Given(job, n + 1) # SYNC
    BY <2>2 DEF b, SizeCode, SYNC
  <2> QED
    BY <1>1, <1>3, <2>1, <2>3 DEF SyncSeen
<1>10. InRecord(id, mark, s, n + 1)
  BY <1>1, <1>2, Geometry DEF InRecord
<1>11. Parsed(id, mark, n + 1)'
  BY <1>1, <1>6, <1>7, <1>8, <1>9, <1>10, ParsedInside
<1>12. \A r \in job.sectors : ~InRecord(id, mark, r, n) \/ n + 1 < End(mark, r)
  <2>1. id[s] <= n /\ n <= End(mark, s) /\ n + 1 < End(mark, s)
    BY <1>1, <1>2, Geometry
  <2>2. \A r \in job.sectors : r # s => ~InRecord(id, mark, r, n)
    BY <1>1, <2>1, Apart
  <2> QED
    BY <2>1, <2>2
<1>13. Closed(mark, n + 1)'
  BY <1>1, <1>4, <1>12, ClosedStays
<1> QED
  BY <1>4, <1>11, <1>13 DEF Taken

LEMMA GapByteInside ==
  ASSUME NEW id, NEW mark, NEW n, Taking(id, mark, n), NEW s \in job.sectors,
         id[s] + 4 <= n, n < mark[s]
  PROVE  Taken(id, mark, n)
<1>1. /\ LaidFor(id, mark) /\ n \in Nat /\ job' = job /\ Parsed(id, mark, n) /\ Closed(mark, n)
  BY DEF Taking
<1>2. /\ id[s] \in Nat /\ mark[s] \in Nat /\ id[s] + 5 < mark[s] /\ End(mark, s) = mark[s] + SectorSize + 1
  BY <1>1, RecordBounds
<1>3. wt_field = "GAP" /\ wt_id_valid /\ wt_sector = s /\ wt_length = SizeCode
  BY <1>1 DEF Parsed, Named
<1>4. wt_sync <=> Given(job, n) = SYNC
  BY <1>1, <1>2, <1>3 DEF Parsed, SyncSeen
<1> DEFINE b == Given(job, n + 1)
<1>5. TakeGap(b) /\ UNCHANGED <<disk, next_status>>
  BY <1>3 DEF Taking, TakeByte, TakeGap
<1>6. n + 1 = mark[s] => Given(job, n) = SYNC /\ b \in {DATA_MARK, DELETED_MARK}
  <2>1. n + 1 = mark[s] => n = mark[s] - 1
    BY <1>1, <1>2
  <2> QED
    BY <1>1, <2>1, RecordBytes
<1>7. n + 1 < mark[s] /\ Given(job, n) = SYNC => b \notin {ID_MARK, DATA_MARK, DELETED_MARK}
  <2>1. n + 1 < mark[s] => n + 1 \in id[s] + 5..mark[s] - 1 /\ (n + 1) - 1 = n
    BY <1>1, <1>2
  <2> QED
    BY <1>1, <2>1, RecordBytes
<1> HIDE DEF b
<1>8. ASSUME n + 1 = mark[s] PROVE Parsed(id, mark, n + 1)'
  <2>1. wt_sync /\ wt_id_valid /\ b \in {DATA_MARK, DELETED_MARK} /\ b # ID_MARK /\ b # SYNC
    BY <1>3, <1>4, <1>6, <1>8 DEF ID_MARK, DATA_MARK, DELETED_MARK, SYNC
  <2>2. ~wt_sync' /\ wt_sector' = s /\ wt_length' = SizeCode
    BY <1>3, <1>5, <2>1, Zenon DEF TakeGap
  <2>3. /\ wt_field' = "DATA" /\ wt_count' = 0 /\ ~wt_sync' /\ wt_sector' = s /\ wt_length' = SizeCode
    BY <1>5, <2>1, <2>2 DEF TakeGap
  <2>4. InData(mark, s, n + 1)'
    BY <1>2, <1>8, <2>3 DEF InData
  <2>5. InId(id, s, n + 1)' /\ Named(id, mark, s, n + 1)'
    BY <1>2, <1>8 DEF InId, Named
  <2>6. SyncSeen(n + 1)'
    BY <2>3 DEF SyncSeen
  <2>7. InRecord(id, mark, s, n + 1)
    BY <1>1, <1>2, <1>8, Geometry DEF InRecord
  <2> QED
    BY <1>1, <2>4, <2>5, <2>6, <2>7, ParsedInside
<1>9. ASSUME n + 1 < mark[s] PROVE Parsed(id, mark, n + 1)'
  <2>1. /\ wt_field' = "GAP" /\ wt_id_valid' /\ wt_sector' = s /\ wt_length' = SizeCode
        /\ wt_sync' <=> b = SYNC
    BY <1>3, <1>4, <1>5, <1>7, <1>9 DEF TakeGap
  <2>2. InId(id, s, n + 1)' /\ Named(id, mark, s, n + 1)' /\ InData(mark, s, n + 1)'
    BY <1>1, <1>2, <1>9, <2>1 DEF InId, Named, InData
  <2>3. SyncSeen(n + 1)'
    BY <1>1, <2>1 DEF SyncSeen, b
  <2>4. InRecord(id, mark, s, n + 1)
    BY <1>1, <1>2, <1>9, Geometry DEF InRecord
  <2> QED
    BY <1>1, <2>2, <2>3, <2>4, ParsedInside
<1>10. Parsed(id, mark, n + 1)'
  <2>1. n + 1 = mark[s] \/ n + 1 < mark[s]
    BY <1>1, <1>2
  <2> QED
    BY <2>1, <1>8, <1>9
<1>11. \A r \in job.sectors : ~InRecord(id, mark, r, n) \/ n + 1 < End(mark, r)
  <2>1. id[s] <= n /\ n <= End(mark, s) /\ n + 1 < End(mark, s)
    BY <1>1, <1>2, Geometry
  <2>2. \A r \in job.sectors : r # s => ~InRecord(id, mark, r, n)
    BY <1>1, <2>1, Apart
  <2> QED
    BY <2>1, <2>2
<1>12. Closed(mark, n + 1)'
  BY <1>1, <1>5, <1>11, ClosedStays
<1> QED
  BY <1>5, <1>10, <1>12 DEF Taken

LEMMA GapByteOutside ==
  ASSUME NEW id, NEW mark, NEW n, Taking(id, mark, n),
         \A s \in job.sectors : ~InRecord(id, mark, s, n)
  PROVE  Taken(id, mark, n)
<1>1. /\ LaidFor(id, mark) /\ n \in Nat /\ job' = job /\ Parsed(id, mark, n) /\ Closed(mark, n)
      /\ n < TrackBytes
  BY DEF Taking
<1>2. wt_field = "GAP" /\ ~wt_id_valid /\ (wt_sync <=> n > 0 /\ Given(job, n) = SYNC)
  BY <1>1 DEF Parsed, SyncSeen
<1> DEFINE b == Given(job, n + 1)
<1>3. TakeGap(b) /\ UNCHANGED <<disk, next_status>>
  BY <1>2 DEF Taking, TakeByte, TakeGap
<1>4. Closed(mark, n + 1)'
  BY <1>1, <1>3, ClosedStays
<1>5. CASE \E s \in job.sectors : id[s] = n + 1
  <2>1. PICK s \in job.sectors : id[s] = n + 1
    BY <1>5
  <2>2. /\ id[s] \in Nat /\ mark[s] \in Nat /\ id[s] + 5 < mark[s] /\ 1 < id[s]
        /\ End(mark, s) = mark[s] + SectorSize + 1
    BY <1>1, RecordBounds
  <2>3. n > 0 /\ n = id[s] - 1
    BY <1>1, <2>1, <2>2
  <2>4. wt_sync /\ b = ID_MARK
    BY <1>1, <1>2, <2>1, <2>3, RecordBytes
  <2> HIDE DEF b
  <2>5. b # SYNC
    BY <2>4 DEF ID_MARK, SYNC
  <2>6. ~wt_sync'
    BY <1>3, <2>5, Zenon DEF TakeGap
  <2>7. wt_field' = "ID" /\ wt_count' = 0 /\ ~wt_sync'
    BY <1>3, <2>4, <2>6 DEF TakeGap
  <2>8. InId(id, s, n + 1)' /\ Named(id, mark, s, n + 1)' /\ InData(mark, s, n + 1)'
    BY <2>1, <2>2, <2>7 DEF InId, Named, InData
  <2>9. SyncSeen(n + 1)'
    BY <2>7 DEF SyncSeen
  <2>10. InRecord(id, mark, s, n + 1)
    BY <1>1, <2>1, <2>2, Geometry DEF InRecord
  <2>11. Parsed(id, mark, n + 1)'
    BY <1>1, <2>8, <2>9, <2>10, ParsedInside
  <2> QED
    BY <1>3, <1>4, <2>11 DEF Taken
<1>6. CASE \A s \in job.sectors : id[s] # n + 1
  <2>1. \A s \in job.sectors : ~InRecord(id, mark, s, n + 1)
    <3>1. ASSUME NEW s \in job.sectors, InRecord(id, mark, s, n + 1) PROVE FALSE
      <4>1. id[s] \in Nat /\ End(mark, s) \in Nat /\ ~InRecord(id, mark, s, n) /\ id[s] # n + 1
        BY <1>1, <1>6, RecordBounds, Geometry
      <4> QED
        BY <1>1, <3>1, <4>1 DEF InRecord
    <3> QED
      BY <3>1
  <2>2. wt_sync => b # ID_MARK
    <3>1. SUFFICES ASSUME wt_sync, b = ID_MARK PROVE FALSE
      OBVIOUS
    <3>2. n + 1 \in 2..TrackBytes /\ (n + 1) - 1 = n
      BY <1>1, <1>2, <3>1, Geometry
    <3>3. \E s \in job.sectors : id[s] <= n + 1 /\ n + 1 <= End(mark, s)
      BY <1>1, <1>2, <3>1, <3>2, Elsewhere
    <3>4. PICK s \in job.sectors : id[s] <= n + 1 /\ n + 1 <= End(mark, s)
      BY <3>3
    <3>5. n + 1 = End(mark, s)
      <4>1. End(mark, s) \in Nat
        BY <1>1, RecordBounds, Geometry
      <4> QED
        BY <1>1, <2>1, <3>4, <4>1 DEF InRecord
    <3>6. b = CRC
      BY <1>1, <3>5, RecordBytes
    <3> QED
      BY <3>1, <3>6 DEF CRC, ID_MARK
  <2> HIDE DEF b
  <2>3. wt_field' = "GAP" /\ ~wt_id_valid' /\ (wt_sync' <=> b = SYNC)
    BY <1>2, <1>3, <2>2 DEF TakeGap
  <2>4. SyncSeen(n + 1)'
    BY <1>1, <2>3 DEF SyncSeen, b
  <2>5. Parsed(id, mark, n + 1)'
    BY <1>1, <2>1, <2>3, <2>4, ParsedOutside
  <2> QED
    BY <1>3, <1>4, <2>5 DEF Taken
<1> QED
  BY <1>5, <1>6

LEMMA SameFunction ==
  ASSUME NEW S, NEW T, NEW f \in [S -> T], NEW g \in [S -> T], \A x \in S : f[x] = g[x]
  PROVE  f = g
OBVIOUS

(* A sector committed is stored, and the others are as they were.           *)
LEMMA SectorCommitted ==
  ASSUME IInv, job \in Jobs, job' = job, NEW s \in job.sectors, Commits(s)
  PROVE  Stored(s)' /\ \A r \in job.sectors : Stored(r) => Stored(r)'
<1> DEFINE u == job.unit
           t == job.track
           data == job.data[s]
<1>1. /\ disk' = [disk EXCEPT ![u][t][s] = data] /\ u \in Units /\ t \in 0..Tracks - 1
      /\ s \in 1..Sectors /\ \A r \in job.sectors : r \in 1..Sectors
  BY JobFields DEF Commits
<1> HIDE DEF u, t, data
<1>2. disk \in [Units -> [0..Tracks - 1 -> [1..Sectors -> Sector]]]
  BY DEF IInv, TypeOK, MediaOK
<1>3. disk[u] \in [0..Tracks - 1 -> [1..Sectors -> Sector]] /\ disk'[u] = [disk[u] EXCEPT ![t][s] = data]
  BY <1>1, <1>2
<1>4. disk[u][t] \in [1..Sectors -> Sector] /\ disk'[u][t] = [disk[u][t] EXCEPT ![s] = data]
  BY <1>1, <1>3
<1>5. disk'[u][t][s] = data /\ \A r \in 1..Sectors : r # s => disk'[u][t][r] = disk[u][t][r]
  BY <1>1, <1>4
<1> USE DEF u, t, data
<1>6. Stored(s)'
  BY <1>5 DEF Stored
<1>7. ASSUME NEW r \in job.sectors, Stored(r), r # s PROVE Stored(r)'
  <2>1. disk'[job.unit][job.track][r] = disk[job.unit][job.track][r]
    BY <1>1, <1>5, <1>7
  <2> QED
    BY <1>7, <2>1 DEF Stored
<1> QED
  BY <1>6, <1>7

LEMMA DataByte ==
  ASSUME NEW id, NEW mark, NEW n, Taking(id, mark, n), NEW s \in job.sectors,
         mark[s] <= n, n < End(mark, s)
  PROVE  Taken(id, mark, n)
<1>1. /\ LaidFor(id, mark) /\ n \in Nat /\ job' = job /\ Parsed(id, mark, n) /\ Closed(mark, n)
      /\ wt_count \in Nat /\ buffer \in Sector /\ IInv /\ job \in Jobs
  BY DEF Taking, IInv, TypeOK, ParserOK, LaidFor
<1>2. /\ id[s] \in Nat /\ mark[s] \in Nat /\ id[s] + 5 < mark[s] /\ End(mark, s) = mark[s] + SectorSize + 1
      /\ End(mark, s) \in Nat
  BY <1>1, RecordBounds, Geometry
<1>3. /\ wt_field = "DATA" /\ wt_count = n - mark[s] /\ wt_sector = s /\ wt_length = SizeCode /\ ~wt_sync
      /\ \A k \in 0..SectorSize - 1 : k < wt_count => buffer[k] = job.data[s][k]
  BY <1>1 DEF Parsed, InData, SyncSeen
<1>4. job.data[s] \in Sector /\ s \in 1..Sectors
  BY <1>1, JobFields
<1> DEFINE b == Given(job, n + 1)
<1>5. \A r \in job.sectors : r # s => ~InRecord(id, mark, r, n) /\ End(mark, r) # n + 1
  <2>1. ASSUME NEW r \in job.sectors, r # s PROVE End(mark, r) # n + 1
    <3>1. End(mark, s) < id[r] \/ End(mark, r) < id[s]
      BY <1>1, <2>1 DEF LaidFor, LaidOut
    <3>2. id[r] \in Nat /\ mark[r] \in Nat /\ id[r] + 5 < mark[r] /\ End(mark, r) = mark[r] + SectorSize + 1
      BY <1>1, RecordBounds
    <3> QED
      BY <1>1, <1>2, <3>1, <3>2, Geometry
  <2>2. \A r \in job.sectors : r # s => ~InRecord(id, mark, r, n)
    <3>1. id[s] <= n /\ n <= End(mark, s)
      BY <1>1, <1>2
    <3> QED
      BY <1>1, <3>1, Apart
  <2> QED
    BY <2>1, <2>2
<1>6. CASE n + 1 < End(mark, s)
  <2>1. wt_count \in 0..SectorSize - 1 /\ n + 1 = mark[s] + 1 + wt_count
    BY <1>1, <1>2, <1>3, <1>6, Geometry
  <2>2. b = job.data[s][wt_count] /\ b # CRC
    BY <1>1, <2>1, RecordBytes
  <2>3. TakeDatum(b) /\ UNCHANGED <<disk, next_status>>
    BY <1>3, <2>2 DEF Taking, TakeByte, TakeDatum
  <2> HIDE DEF b
  <2>4. /\ wt_field' = "DATA" /\ wt_count' = n + 1 - mark[s] /\ wt_sector' = s /\ wt_length' = SizeCode
        /\ buffer' = [buffer EXCEPT ![wt_count] = b]
    <3>1. wt_count < SectorSize /\ wt_count + 1 = n + 1 - mark[s]
      BY <1>1, <1>2, <1>3, <2>1, Geometry
    <3>2. wt_count' = wt_count + 1 /\ UNCHANGED <<wt_field, wt_sector, wt_length>>
      BY <2>3, <3>1 DEF TakeDatum
    <3>3. buffer' = [buffer EXCEPT ![wt_count] = b]
      BY <2>3, <3>1 DEF TakeDatum
    <3> QED
      BY <1>3, <3>1, <3>2, <3>3
  <2>5. \A k \in 0..SectorSize - 1 : k < wt_count' => buffer'[k] = job.data[s][k]
    <3>1. buffer \in [0..SectorSize - 1 -> Byte] /\ wt_count' = wt_count + 1
      <4>1. buffer \in [0..SectorSize - 1 -> Byte]
        BY <1>1 DEF Sector
      <4>2. n \in Nat /\ mark[s] \in Nat
        BY <1>1, <1>2
      <4>3. wt_count' = n + 1 - mark[s] /\ wt_count = n - mark[s]
        BY <1>3, <2>4
      <4> QED
        BY <4>1, <4>2, <4>3
    <3>2. \A k \in 0..SectorSize - 1 : k # wt_count => buffer'[k] = buffer[k]
      BY <2>1, <2>4, <3>1
    <3>3. buffer'[wt_count] = b
      BY <2>1, <2>4, <3>1
    <3>4. \A k \in 0..SectorSize - 1 : k < wt_count + 1 => k < wt_count \/ k = wt_count
      BY <2>1
    <3> HIDE DEF b
    <3> QED
      BY <1>3, <2>2, <3>1, <3>2, <3>3, <3>4
  <2>6. InData(mark, s, n + 1)'
    BY <1>1, <1>2, <2>4, <2>5 DEF InData
  <2>7. InId(id, s, n + 1)' /\ Named(id, mark, s, n + 1)'
    BY <1>1, <1>2 DEF InId, Named
  <2>8. ~wt_sync'
    BY <1>3, <2>3, Zenon DEF TakeDatum
  <2>9. SyncSeen(n + 1)'
    BY <2>4, <2>8 DEF SyncSeen
  <2>10. InRecord(id, mark, s, n + 1)
    BY <1>1, <1>2, <1>6 DEF InRecord
  <2>11. Parsed(id, mark, n + 1)'
    BY <1>1, <2>6, <2>7, <2>9, <2>10, ParsedInside
  <2>12. Closed(mark, n + 1)'
    BY <1>1, <1>5, <1>6, <2>3, ClosedStays
  <2> QED
    BY <2>3, <2>11, <2>12 DEF Taken
<1>7. CASE n + 1 = End(mark, s)
  <2>1. b = CRC /\ wt_count = SectorSize
    <3>1. b = CRC
      BY <1>1, <1>7, RecordBytes
    <3> QED
      BY <1>1, <1>2, <1>3, <1>7, <3>1, Geometry
  <2>2. CloseData
    BY <1>3, <2>1 DEF Taking, TakeByte
  <2>3. buffer = job.data[s]
    <3> DEFINE S == 0..SectorSize - 1
               T == Byte
               f == buffer
               g == job.data[s]
    <3>1. \A k \in S : f[k] = g[k]
      BY <1>3, <2>1, Geometry
    <3>2. f \in [S -> T] /\ g \in [S -> T]
      BY <1>1, <1>4 DEF Sector
    <3> HIDE DEF S, T, f, g
    <3>3. f = g
      BY <3>1, <3>2, SameFunction
    <3> QED
      BY <3>3 DEF f, g
  <2>4. \/ /\ disk' = [disk EXCEPT ![selected][Track][s] = buffer] /\ next_status' = next_status
        \/ /\ disk' = disk /\ next_status' = next_status \cup {WRITE_FAULT}
    BY <1>3, <1>4, <2>1, <2>2 DEF CloseData, Store
  <2>5. (Commits(s) /\ next_status' = next_status) \/ (disk' = disk /\ WRITE_FAULT \in next_status')
    <3>1. selected = job.unit /\ Track = job.track
      BY DEF Taking
    <3>2. [disk EXCEPT ![selected][Track][s] = buffer] = [disk EXCEPT ![job.unit][job.track][s] = job.data[s]]
      BY <2>3, <3>1, Zenon
    <3>3. CASE disk' = [disk EXCEPT ![selected][Track][s] = buffer] /\ next_status' = next_status
      <4>1. Commits(s)
        BY <3>2, <3>3, Zenon DEF Commits
      <4> QED
        BY <3>3, <4>1
    <3>4. CASE disk' = disk /\ next_status' = next_status \cup {WRITE_FAULT}
      BY <3>4
    <3> QED
      BY <2>4, <3>3, <3>4
  <2>6. next_status \subseteq next_status'
    BY <2>4
  <2>7. wt_field' = "GAP" /\ ~wt_id_valid' /\ ~wt_sync'
    BY <1>3, <2>2, Zenon DEF CloseData
  <2>8. job.unit \in Units /\ job.track \in 0..Tracks - 1 /\ \A r \in job.sectors : r \in 1..Sectors
    BY <1>1, JobFields
  <2>9. Stored(s)' \/ WRITE_FAULT \in next_status'
    BY <1>1, <2>5, SectorCommitted
  <2>10. ASSUME NEW r \in job.sectors, r # s, Stored(r) PROVE Stored(r)'
    BY <1>1, <2>5, <2>10, SectorCommitted DEF Stored
  <2>11. Closed(mark, n + 1)'
    <3>1. ASSUME NEW r \in job.sectors, End(mark, r) <= n + 1, r # s
          PROVE  Stored(r)' \/ WRITE_FAULT \in next_status'
      <4>1. End(mark, r) \in Nat
        BY <1>1, RecordBounds, Geometry
      <4>2. End(mark, r) <= n
        BY <1>1, <1>5, <3>1, <4>1
      <4> QED
        BY <1>1, <2>6, <2>10, <3>1, <4>2 DEF Closed
    <3> QED
      BY <1>1, <2>9, <3>1 DEF Closed
  <2>12. \A r \in job.sectors : ~InRecord(id, mark, r, n + 1)
    <3>1. id[s] <= n + 1 /\ n + 1 <= End(mark, s) /\ n + 1 \in Nat
      BY <1>1, <1>2, <1>7
    <3>2. \A r \in job.sectors : r # s => ~InRecord(id, mark, r, n + 1)
      BY <1>1, <3>1, Apart
    <3> QED
      BY <1>7, <1>1, <1>2, <3>2 DEF InRecord
  <2>13. SyncSeen(n + 1)'
    <3>1. Given(job, n + 1) # SYNC
      BY <2>1 DEF CRC, SYNC
    <3> HIDE DEF b
    <3> QED
      BY <1>1, <2>7, <3>1 DEF SyncSeen
  <2>14. Parsed(id, mark, n + 1)'
    BY <1>1, <2>7, <2>12, <2>13, ParsedOutside
  <2> QED
    BY <2>5, <2>11, <2>14 DEF Taken
<1> QED
  <2>1. n + 1 < End(mark, s) \/ n + 1 = End(mark, s)
    BY <1>1, <1>2
  <2> QED
    BY <2>1, <1>6, <1>7

(* Every place is one of these four.                                        *)
LEMMA ByteTaken ==
  ASSUME NEW id, NEW mark, NEW n, Taking(id, mark, n)
  PROVE  Taken(id, mark, n)
<1>1. CASE \E s \in job.sectors : InRecord(id, mark, s, n)
  <2>1. PICK s \in job.sectors : InRecord(id, mark, s, n)
    BY <1>1
  <2>2. LaidFor(id, mark) /\ n \in Nat
    BY DEF Taking
  <2>3. id[s] \in Nat /\ mark[s] \in Nat
    BY <2>2, RecordBounds
  <2>4. \/ id[s] <= n /\ n < id[s] + 4
        \/ id[s] + 4 <= n /\ n < mark[s]
        \/ mark[s] <= n /\ n < End(mark, s)
    BY <2>1, <2>2, <2>3 DEF InRecord
  <2> QED
    BY <2>4, IdByte, GapByteInside, DataByte
<1> QED
  BY <1>1, GapByteOutside

-----------------------------------------------------------------------------
(* The driver answers a DRQ.                                                *)

LEMMA Within ==
  ASSUME NEW n \in Nat \ {0}, NEW a \in Nat, NEW b \in Nat, NEW k \in 0..n - 1, a <= b
  PROVE  a * n + k + 1 <= (b + 1) * n
<1>1. a * n <= b * n
  OBVIOUS
<1> QED
  BY <1>1

(* Where a byte of a write's stream goes.                                   *)
LEMMA FillByte ==
  ASSUME NEW j \in Jobs, j.op = "write", NEW s \in j.sectors, NEW k \in 0..SectorSize - 1
  PROVE  Given(j, (s - j.first) * SectorSize + k + 1) = j.data[s][k]
<1> DEFINE last == IF j.multi THEN Sectors ELSE j.first
           at == (s - j.first) * SectorSize + k + 1
<1>1. Fills(j)
  BY JobsFit DEF JobsFit
<1>2. /\ j.sectors = j.first..last /\ Len(j.stream) = (last - j.first + 1) * SectorSize
      /\ j.stream[at] = j.data[s][k]
  BY <1>1 DEF Fills
<1>3. last \in Nat /\ j.first \in Nat /\ s \in j.first..last
  BY <1>2, JobFields, Geometry
<1>4. at <= Len(j.stream)
  <2> DEFINE a == s - j.first
             b == last - j.first
  <2>1. a \in Nat /\ b \in Nat /\ a <= b
    BY <1>3
  <2>2. at = a * SectorSize + k + 1 /\ Len(j.stream) = (b + 1) * SectorSize
    BY <1>2
  <2> HIDE DEF a, b, at
  <2>3. a * SectorSize + k + 1 <= (b + 1) * SectorSize
    BY <2>1, Within, Geometry
  <2> QED
    BY <2>2, <2>3
<1> QED
  BY <1>2, <1>4 DEF Given

LEMMA ReadAnswer ==
  ASSUME DInv, job \in Jobs, job.op = "read", Working, drq, job' = job,
         moved' = Append(moved, data_reg), ReadData
  PROVE  Working'
<1>1. /\ Reading /\ moved \in Seq(Byte) /\ IInv
  BY DEF DInv, Follows, DriverOK, Working
<1>2. state = "TYPE2_DATA" /\ command.op = "READ_SECTOR"
  BY <1>1, Orders DEF IInv, LinesAgree, Reading, Working
<1>3. /\ drq' = FALSE /\ UNCHANGED <<disk, state, command, sector_reg, buffer, buf_pos>>
  BY DEF ReadData, mediaVars, regVars, xferVars
<1>4. buf_pos \in 1..SectorSize /\ sector_reg \in job.first..Sectors /\ job.first \in Nat
  BY <1>1, <1>2, JobFields, Geometry DEF Reading, IInv, TypeOK, CountersOK, IndexesInBounds
<1> DEFINE q == sector_reg - job.first
           r == buf_pos - 1
<1>5. Len(moved) = q * SectorSize + r /\ data_reg = disk[job.unit][job.track][sector_reg][r]
  <2>1. Len(moved) = q * SectorSize + buf_pos - 1
    BY <1>1, <1>2 DEF Reading
  <2>2. q * SectorSize \in Nat
    BY <1>4, Geometry
  <2> QED
    BY <1>1, <1>2, <1>4, <2>1, <2>2 DEF Reading
<1>6. q \in Nat /\ r \in 0..SectorSize - 1 /\ sector_reg = job.first + q
  BY <1>4, Geometry
<1> HIDE DEF q, r
<1>7. Len(moved) \div SectorSize = q /\ Len(moved) % SectorSize = r
  <2>1. (q * SectorSize + r) \div SectorSize = q /\ (q * SectorSize + r) % SectorSize = r
    BY <1>6, Division, Geometry
  <2> QED
    BY <1>5, <2>1
<1>8. data_reg \in Byte
  BY <1>1 DEF IInv, TypeOK, RegistersOK
<1>9. Len(moved') = Len(moved) + 1 /\ moved'[Len(moved) + 1] = data_reg
      /\ \A i \in 1..Len(moved) : moved'[i] = moved[i]
  BY <1>1, <1>8
<1>10. \A i \in 1..Len(moved') : moved'[i] =
         disk[job.unit][job.track][job.first + (i - 1) \div SectorSize][(i - 1) % SectorSize]
  <2>1. ASSUME NEW i \in 1..Len(moved')
        PROVE  moved'[i] = disk[job.unit][job.track][job.first + (i - 1) \div SectorSize][(i - 1) % SectorSize]
    <3>1. CASE i = Len(moved) + 1
      <4>1. i - 1 = Len(moved)
        BY <1>1, <3>1
      <4> QED
        BY <1>5, <1>6, <1>7, <1>9, <3>1, <4>1
    <3>2. CASE i \in 1..Len(moved)
      BY <1>1, <1>9, <3>2 DEF Reading
    <3>3. i = Len(moved) + 1 \/ i \in 1..Len(moved)
      <4>1. Len(moved) \in Nat
        BY <1>1
      <4> QED
        BY <1>9, <2>1, <4>1
    <3> QED
      BY <3>1, <3>2, <3>3
  <2> QED
    BY <2>1
<1>11. Len(moved') = (sector_reg - job.first) * SectorSize + buf_pos - 0
  <2>1. q * SectorSize \in Nat
    BY <1>6, Geometry
  <2>2. Len(moved') = q * SectorSize + (r + 1)
    <3>1. r \in Nat /\ Len(moved') = Len(moved) + 1 /\ Len(moved) = q * SectorSize + r
      <4>1. r \in Nat
        BY <1>6
      <4>2. Len(moved') = Len(moved) + 1
        BY <1>9
      <4> QED
        BY <1>5, <4>1, <4>2
    <3> QED
      BY <2>1, <3>1
  <2>3. r + 1 = buf_pos
    BY <1>4 DEF r
  <2>4. Len(moved') = q * SectorSize + buf_pos - 0
    BY <1>4, <2>1, <2>2, <2>3
  <2> QED
    BY <2>4 DEF q
<1>12. Reading'
  BY <1>1, <1>2, <1>3, <1>10, <1>11 DEF Reading
<1> QED
  BY <1>3, <1>12 DEF Working

LEMMA WriteAnswer ==
  ASSUME DInv, job \in Jobs, job.op = "write", Working, drq, job' = job,
         moved' = Append(moved, Given(job, Len(moved) + 1)), WriteData(Given(job, Len(moved) + 1))
  PROVE  Working' /\ disk' = disk
<1> DEFINE b == Given(job, Len(moved) + 1)
<1>1. /\ Storing /\ moved \in Seq(Byte) /\ IInv
  BY DEF DInv, Follows, DriverOK, Working
<1>2. state = "TYPE2_DATA" /\ command.op = "WRITE_SECTOR"
  BY <1>1, Orders DEF IInv, LinesAgree, Storing, Working
<1>3. Writing /\ ~Formatting
  BY <1>2 DEF Writing, Formatting
<1>4. buf_pos \in 0..SectorSize - 1
  BY <1>1, <1>3, Geometry DEF IInv, TypeOK, CountersOK, IndexesInBounds
<1>5. /\ drq' = FALSE /\ buffer' = [buffer EXCEPT ![buf_pos] = b]
      /\ UNCHANGED <<disk, state, command, sector_reg, buf_pos>>
  <2>1. buf_pos < SectorSize
    BY <1>4, Geometry
  <2> HIDE DEF b
  <2>2. WriteData(b)
    BY DEF b
  <2> QED
    BY <1>3, <2>1, <2>2 DEF WriteData
<1>6. /\ sector_reg \in job.sectors /\ Len(moved) = (sector_reg - job.first) * SectorSize + buf_pos
      /\ \A k \in 0..SectorSize - 1 : k < buf_pos => buffer[k] = job.data[sector_reg][k]
      /\ \A s \in job.sectors : s < sector_reg => Stored(s)
  <2>1. Filled = buf_pos
    BY <1>4 DEF Filled
  <2> QED
    BY <1>1, <1>2, <2>1 DEF Storing
<1>7. b = job.data[sector_reg][buf_pos]
  BY <1>4, <1>6, FillByte
<1>8. Given(job, Len(moved) + 1) \in Byte
  <2>1. Len(moved) + 1 \in Nat \ {0}
    BY <1>1
  <2> QED
    BY <2>1, GivenByte
<1>9. Len(moved') = Len(moved) + 1
  BY <1>1, <1>8
<1> HIDE DEF b
<1>10. sector_reg \in Nat /\ job.first \in Nat /\ (sector_reg - job.first) * SectorSize \in Int
  BY <1>6, JobFields, Geometry
<1>11. Filled' = buf_pos + 1 /\ Len(moved') = (sector_reg - job.first) * SectorSize + Filled'
  BY <1>4, <1>5, <1>6, <1>9, <1>10 DEF Filled
<1>12. \A k \in 0..SectorSize - 1 : k < buf_pos + 1 => buffer'[k] = job.data[sector_reg][k]
  <2>1. buffer \in [0..SectorSize - 1 -> Byte]
    BY <1>1 DEF IInv, TypeOK, Sector
  <2> QED
    BY <1>4, <1>5, <1>6, <1>7, <2>1
<1>13. \A s \in job.sectors : s < sector_reg => Stored(s)'
  BY <1>5, <1>6 DEF Stored
<1>14. Storing'
  BY <1>2, <1>5, <1>6, <1>11, <1>12, <1>13 DEF Storing, Over
<1> QED
  BY <1>5, <1>14 DEF Working

LEMMA FormatAnswer ==
  ASSUME DInv, job \in Jobs, job.op = "format", Working, drq, job' = job,
         selected = job.unit, Track = job.track,
         moved' = Append(moved, Given(job, Len(moved) + 1)), WriteData(Given(job, Len(moved) + 1))
  PROVE  Working' /\ (disk' = disk \/ \E s \in job.sectors : Commits(s))
<1>1. /\ Formatted /\ moved \in Seq(Byte) /\ IInv
  BY DEF DInv, Follows, DriverOK, Working
<1>2. PICK id, mark, n : id = Id(job) /\ mark = Mark(job) /\ n = Len(moved)
  OBVIOUS
<1>3. state = "TYPE3_TRACK" /\ wt_bytes_left > 0 /\ wt_bytes_left = TrackBytes - n /\ n \in Nat
  BY <1>1, <1>2 DEF IInv, LinesAgree, Formatted
<1>4. Formatting /\ ~Writing
  BY <1>3 DEF Formatting, Writing
<1>5. /\ TakeByte(Given(job, n + 1)) /\ drq' = FALSE /\ UNCHANGED <<state, command>>
  BY <1>2, <1>4 DEF WriteData
<1>6. LaidFor(id, mark)
  BY <1>2, Laid DEF LaidFor
<1>7. n < TrackBytes
  BY <1>3, Geometry
<1>8. Taking(id, mark, n)
  BY <1>1, <1>2, <1>3, <1>5, <1>6, <1>7 DEF Taking, Formatted
<1>9. Taken(id, mark, n)
  BY <1>8, ByteTaken
<1>10. Given(job, n + 1) \in Byte
  <2>1. n + 1 \in Nat \ {0}
    BY <1>3
  <2> QED
    BY <2>1, GivenByte
<1>11. Len(moved') = n + 1
  BY <1>1, <1>2, <1>10
<1>12. wt_bytes_left' = TrackBytes - Len(moved')
  BY <1>3, <1>5, <1>11, Geometry DEF TakeByte
<1>13. Parsed(Id(job), Mark(job), Len(moved))' /\ Closed(Mark(job), Len(moved))'
  <2>1. Parsed(id, mark, n + 1)' /\ Closed(mark, n + 1)'
    BY <1>9 DEF Taken
  <2> QED
    BY <1>2, <1>11, <2>1
<1>14. Formatted'
  BY <1>3, <1>5, <1>12, <1>13 DEF Formatted, Over
<1>15. Working'
  BY <1>5, <1>14 DEF Working
<1> QED
  BY <1>9, <1>15 DEF Taken

(* A sector committed is a step of the store.                               *)
LEMMA StoreSteps ==
  ASSUME job \in Jobs, job.op # "read", job' = job, outcome' = outcome,
         disk' = disk \/ \E s \in job.sectors : Commits(s)
  PROVE  Implements
<1>1. job # NoJob
  BY DriverAssumption DEF DriverAssumption
<1>2. CASE disk' = disk
  BY <1>2 DEF Implements, storeVars
<1>3. ASSUME NEW s \in job.sectors, Commits(s) PROVE Implements
  <2>1. Drive!Commit(s)
    BY <1>1, <1>3, Zenon DEF Drive!Commit, Commits
  <2> QED
    BY <1>1, <2>1 DEF Implements, Drive!Next
<1> QED
  BY <1>2, <1>3

LEMMA AnswerFollows ==
  ASSUME DInv, Answer
  PROVE  Follows' /\ Implements
<1>1. /\ pc = "moving" /\ pc' = pc /\ job' = job /\ outcome' = outcome /\ drq /\ job \in Jobs
      /\ Working /\ selected = job.unit /\ Track = job.track /\ moved \in Seq(Byte)
  BY DEF Answer, DInv, Follows, DriverOK
<1>2. CASE job.op = "read"
  <2>1. moved' = Append(moved, data_reg) /\ ReadData
    BY <1>2 DEF Answer
  <2>2. Working'
    BY <1>1, <1>2, <2>1, ReadAnswer
  <2>3. UNCHANGED <<disk, selected, head>> /\ data_reg \in Byte
    BY <2>1 DEF ReadData, mediaVars, driveVars, DInv, IInv, TypeOK, RegistersOK
  <2>4. Track' = Track /\ moved' \in Seq(Byte)
    BY <1>1, <2>1, <2>3 DEF Track
  <2>5. Follows'
    BY <1>1, <2>2, <2>3, <2>4 DEF Follows, DriverOK
  <2> QED
    BY <1>1, <2>3, <2>5 DEF Implements, storeVars
<1>3. CASE job.op # "read"
  <2> DEFINE b == Given(job, Len(moved) + 1)
  <2>1. moved' = Append(moved, b) /\ WriteData(b)
    BY <1>3 DEF Answer
  <2>2. job.op \in {"write", "format"}
    BY <1>1, <1>3, JobFields
  <2>3. Working' /\ (disk' = disk \/ \E s \in job.sectors : Commits(s))
    BY <1>1, <2>1, <2>2, WriteAnswer, FormatAnswer
  <2>4. b \in Byte
    <3>1. Len(moved) + 1 \in Nat \ {0}
      BY <1>1
    <3> QED
      BY <1>1, <3>1, GivenByte
  <2> HIDE DEF b
  <2>5. UNCHANGED <<selected, head>>
    BY <2>1 DEF WriteData, driveVars
  <2>6. Track' = Track /\ moved' \in Seq(Byte)
    BY <1>1, <2>1, <2>4, <2>5 DEF Track
  <2>7. Follows'
    BY <1>1, <2>3, <2>5, <2>6 DEF Follows, DriverOK
  <2> QED
    BY <1>1, <1>3, <2>3, <2>7, StoreSteps
<1> QED
  BY <1>2, <1>3

-----------------------------------------------------------------------------
(* The clock.                                                               *)

LEMMA SeekTick ==
  ASSUME DInv, Seeking, TickStep \/ TickFinish, job \in Jobs, job' = job
  PROVE  Seeking' /\ UNCHANGED <<disk, selected>> /\ state' \in {"TYPE1_STEP", "FINISH", "IDLE"}
<1>1. job.track \in 0..Tracks - 1 /\ Track \in 0..Tracks - 1
  BY JobFields, Geometry DEF DInv, IInv, TypeOK, DriveOK, Track
<1>2. CASE TickStep
  <2>1. /\ state = "TYPE1_STEP" /\ head' = [head EXCEPT ![selected % 2] = Clamp(Track + dir)]
        /\ pulses' = pulses - 1 /\ UNCHANGED <<disk, selected, dir, command>>
        /\ (pulses > 1 /\ state' = state) \/ (pulses <= 1 /\ state' = "FINISH")
    BY <1>2 DEF TickStep, ScheduleFinish, mediaVars
  <2>2. pulses \in Nat /\ pulses > 0 /\ dir \in {-1, 1}
    BY <2>1, Geometry DEF DInv, IInv, TypeOK, CountersOK, IndexesInBounds
  <2>3. Track + (IF dir = 1 THEN pulses ELSE -pulses) = job.track
    BY <2>1 DEF Seeking
  <2>4. Track + dir \in 0..Tracks - 1
    BY <1>1, <2>2, <2>3, Geometry
  <2>5. Clamp(Track + dir) = Track + dir
    BY <2>4, Geometry DEF Clamp
  <2>6. Track' = Track + dir
    <3>1. head \in [Drives -> 0..Tracks - 1] /\ selected % 2 \in Drives
      BY DEF DInv, IInv, TypeOK, DriveOK
    <3>2. head'[selected % 2] = Track + dir
      BY <2>1, <2>5, <3>1
    <3> QED
      BY <2>1, <3>2 DEF Track
  <2>7. Seeking'
    BY <1>1, <2>1, <2>2, <2>3, <2>6 DEF Seeking
  <2> QED
    BY <2>1, <2>7
<1>3. CASE TickFinish
  <2>1. state = "FINISH" /\ state' = "IDLE" /\ UNCHANGED <<disk, selected, head, command>>
    BY <1>3 DEF TickFinish, mediaVars, driveVars
  <2>2. Track' = Track
    BY <2>1 DEF Track
  <2> QED
    BY <2>1, <2>2 DEF Seeking
<1> QED
  BY <1>2, <1>3

(* The end of a transfer, whatever it was.                                  *)
LEMMA FinishTick ==
  ASSUME Working, TickFinish, job' = job, moved' = moved
  PROVE  Working' /\ disk' = disk
<1>1. state = "FINISH" /\ state' = "IDLE" /\ status' = next_status /\ UNCHANGED <<disk, command>>
  BY DEF TickFinish, mediaVars
<1>2. ASSUME NEW flag, Over(flag) PROVE Over(flag)'
  BY <1>1, <1>2 DEF Over, Stored
<1>3. Reading => Reading'
  BY <1>1 DEF Reading
<1>4. Storing => Storing'
  BY <1>1, <1>2 DEF Storing
<1>5. Formatted => Formatted'
  BY <1>1, <1>2 DEF Formatted
<1> QED
  BY <1>1, <1>3, <1>4, <1>5 DEF Working

LEMMA ReadTick ==
  ASSUME DInv, job \in Jobs, job.op = "read", Working, Track = job.track, selected = job.unit,
         job' = job, moved' = moved, TickSearch \/ TickRead
  PROVE  Working' /\ disk' = disk
<1> DEFINE Sound == \A i \in 1..Len(moved) :
      moved[i] = disk[job.unit][job.track][job.first + (i - 1) \div SectorSize][(i - 1) % SectorSize]
<1>1. Reading /\ IInv /\ command.op = "READ_SECTOR" /\ moved \in Seq(Byte)
  BY Orders DEF DInv, Working, Follows, DriverOK
<1>2. UNCHANGED <<disk, command>>
  BY DEF TickSearch, TickRead, mediaVars
<1>3. Sound'
  BY <1>1, <1>2 DEF Reading
<1> HIDE DEF Sound
<1>4. ASSUME state' = "FINISH" PROVE Reading'
  BY <1>3, <1>4 DEF Reading, Sound
<1>5. CASE TickSearch
  <2>1. CASE Readable(sector_reg) /\ Offer(disk[selected][Track][sector_reg]) /\ state' = "TYPE2_DATA"
    <3>1. moved = <<>> /\ sector_reg = job.first /\ sector_reg' = sector_reg
      BY <1>1, <1>5 DEF TickSearch, Reading, regVars
    <3>2. /\ buffer' = disk[job.unit][job.track][sector_reg] /\ buf_pos' = 1 /\ drq' = TRUE
          /\ data_reg' = buffer'[0]
      BY <2>1 DEF Offer
    <3>3. sector_reg \in job.first..Sectors
      BY <3>1, JobFields, Geometry
    <3>4. Len(moved') = (sector_reg' - job.first) * SectorSize + buf_pos' - 1
      BY <3>1, <3>2, JobFields, Geometry
    <3> QED
      BY <1>2, <1>3, <2>1, <3>1, <3>2, <3>3, <3>4 DEF Reading, Sound, Working
  <2>2. CASE state' = "FINISH"
    BY <1>2, <1>4, <2>2 DEF Working
  <2> QED
    BY <1>1, <1>2, <1>5, <2>1, <2>2 DEF TickSearch, ScheduleFinish
<1>6. CASE TickRead
  <2>1. /\ ~drq /\ sector_reg \in job.first..Sectors /\ buffer = disk[job.unit][job.track][sector_reg]
        /\ Len(moved) = (sector_reg - job.first) * SectorSize + buf_pos
        /\ buf_pos \in 1..SectorSize /\ job.first \in Nat /\ state = "TYPE2_DATA"
    <3>1. state = "TYPE2_DATA" /\ ~drq
      BY <1>6 DEF TickRead
    <3>2. buf_pos \in 1..SectorSize
      BY <1>1, <3>1, Geometry DEF IInv, TypeOK, CountersOK, IndexesInBounds
    <3>3. job.first \in Nat /\ sector_reg \in job.first..Sectors
      BY <1>1, <3>1, JobFields, Geometry DEF Reading
    <3>4. (sector_reg - job.first) * SectorSize \in Int
      BY <3>3, Geometry
    <3> QED
      BY <1>1, <3>1, <3>2, <3>3, <3>4 DEF Reading
  <2>2. CASE /\ buf_pos < SectorSize /\ data_reg' = buffer[buf_pos] /\ buf_pos' = buf_pos + 1
             /\ drq' = TRUE /\ UNCHANGED <<buffer, sector_reg, state>>
    <3>1. (sector_reg - job.first) * SectorSize \in Int
      BY <2>1, Geometry
    <3>2. Len(moved') = (sector_reg' - job.first) * SectorSize + buf_pos' - 1
      BY <2>1, <2>2, <3>1
    <3>3. data_reg' = buffer'[buf_pos' - 1]
      BY <2>1, <2>2
    <3> QED
      BY <1>2, <1>3, <2>1, <2>2, <3>2, <3>3 DEF Reading, Sound, Working
  <2>3. CASE /\ buf_pos >= SectorSize /\ sector_reg' = NextSector /\ Readable(NextSector)
             /\ Offer(disk[selected][Track][NextSector]) /\ state' = state
    <3>1. NextSector = sector_reg + 1
      <4>1. sector_reg \in job.first..Sectors /\ job.first \in Nat
        BY <2>1
      <4>2. sector_reg + 1 \in 0..255
        BY <4>1, Geometry
      <4>3. \A x \in 0..255 : x % 256 = x
        OBVIOUS
      <4> QED
        BY <4>2, <4>3 DEF NextSector
    <3>2. sector_reg' = sector_reg + 1 /\ sector_reg' \in job.first..Sectors /\ buf_pos = SectorSize
      BY <2>1, <2>3, <3>1, Geometry DEF Readable
    <3>3. /\ buffer' = disk[job.unit][job.track][sector_reg'] /\ buf_pos' = 1 /\ drq' = TRUE
          /\ data_reg' = buffer'[0]
      BY <2>3 DEF Offer
    <3>4. Len(moved') = (sector_reg' - job.first) * SectorSize + buf_pos' - 1
      <4> DEFINE q == sector_reg - job.first
      <4>1. q \in Nat /\ sector_reg' - job.first = q + 1
        BY <2>1, <3>2
      <4>2. Len(moved') = q * SectorSize + SectorSize
        BY <2>1, <3>2
      <4> HIDE DEF q
      <4>3. (q + 1) * SectorSize = q * SectorSize + SectorSize /\ q * SectorSize \in Nat
        BY <4>1, Geometry
      <4> QED
        BY <3>3, <4>1, <4>2, <4>3, Geometry
    <3>5. disk'[job.unit][job.track][sector_reg'] = disk[job.unit][job.track][sector_reg']
      BY <1>2
    <3>6. data_reg' = buffer'[buf_pos' - 1]
      BY <3>3
    <3>7. Reading'
      BY <1>3, <2>3, <2>1, <3>2, <3>3, <3>4, <3>5, <3>6 DEF Reading, Sound
    <3> QED
      BY <1>2, <3>7 DEF Working
  <2>4. CASE state' = "FINISH"
    BY <1>2, <1>4, <2>4 DEF Working
  <2> QED
    BY <1>6, <2>2, <2>3, <2>4 DEF TickRead, ScheduleFinish
<1> QED
  BY <1>5, <1>6

LEMMA WriteTick ==
  ASSUME DInv, job \in Jobs, job.op = "write", Working, Track = job.track, selected = job.unit,
         job' = job, moved' = moved, TickSearch \/ TickWrite
  PROVE  Working' /\ (disk' = disk \/ \E s \in job.sectors : Commits(s))
<1> DEFINE last == IF job.multi THEN Sectors ELSE job.first
<1>1. Storing /\ IInv /\ command.op = "WRITE_SECTOR" /\ command.flag = job.multi /\ moved \in Seq(Byte)
  BY Orders DEF DInv, Working, Follows, DriverOK
<1>2. /\ job.sectors = job.first..last /\ job.first \in 1..Sectors /\ last \in Nat /\ job.first <= last
      /\ job.data \in [1..Sectors -> Sector] /\ job.first \in Nat
  <2>1. Fills(job)
    BY JobsFit DEF JobsFit
  <2> QED
    BY <2>1, JobFields, Geometry DEF Fills
<1>3. command' = command
  BY DEF TickSearch, TickWrite
<1>4. CASE TickSearch
  <2>1. /\ moved = <<>> /\ sector_reg = job.first /\ UNCHANGED <<sector_reg, disk>>
        /\ buf_pos' = 0 /\ drq' = TRUE /\ state' = "TYPE2_DATA"
    BY <1>1, <1>4 DEF TickSearch, Storing, mediaVars
  <2>2. Filled' = 0
    BY <2>1 DEF Filled
  <2>3. sector_reg' \in job.sectors /\ Len(moved') = (sector_reg' - job.first) * SectorSize + Filled'
    BY <1>2, <2>1, <2>2, Geometry
  <2>4. \A k \in 0..SectorSize - 1 : ~(k < Filled')
    BY <2>2, Geometry
  <2>5. \A s \in job.sectors : ~(s < sector_reg')
    BY <1>2, <2>1
  <2>6. Storing'
    BY <2>1, <2>3, <2>4, <2>5 DEF Storing, Over
  <2> QED
    BY <1>3, <2>1, <2>6 DEF Working
<1>5. CASE TickWrite
  <2>1. /\ state = "TYPE2_DATA" /\ ~drq /\ buf_pos \in 0..SectorSize - 1
        /\ sector_reg \in job.sectors /\ sector_reg \in Nat
        /\ Len(moved) = (sector_reg - job.first) * SectorSize + (buf_pos + 1)
        /\ \A k \in 0..SectorSize - 1 : k < buf_pos + 1 => buffer[k] = job.data[sector_reg][k]
        /\ \A s \in job.sectors : s < sector_reg => Stored(s)
    <3>1. state = "TYPE2_DATA" /\ ~drq
      BY <1>5 DEF TickWrite
    <3>2. Filled = buf_pos + 1
      BY <3>1 DEF Filled
    <3>3. buf_pos \in 0..SectorSize - 1
      BY <1>1, <3>1, Geometry DEF IInv, TypeOK, CountersOK, IndexesInBounds, Writing
    <3> QED
      BY <1>1, <1>2, <3>1, <3>2, <3>3 DEF Storing
  <2>2. CASE /\ ~SectorFull /\ buf_pos' = buf_pos + 1 /\ drq' = TRUE
             /\ UNCHANGED <<disk, buffer, sector_reg, state>>
    <3>1. Filled' = buf_pos + 1
      BY <2>1, <2>2 DEF Filled
    <3>2. \A s \in job.sectors : s < sector_reg => Stored(s)'
      BY <2>1, <2>2 DEF Stored
    <3>3. Storing'
      BY <2>1, <2>2, <3>1, <3>2 DEF Storing, Over
    <3> QED
      BY <1>3, <2>2, <3>3 DEF Working
  <2> DEFINE Onward == /\ command.flag /\ sector_reg < Sectors
                       /\ sector_reg' = sector_reg + 1 /\ buf_pos' = 0 /\ drq' = TRUE /\ state' = state
             Last == ~(command.flag /\ sector_reg < Sectors) /\ state' = "FINISH"
  <2>3. CASE SectorFull /\ Store(sector_reg, buffer) /\ (Onward \/ Last)
    <3>1. buf_pos + 1 = SectorSize
      BY <2>1, <2>3, Geometry DEF SectorFull
    <3>2. buffer = job.data[sector_reg]
      <4> DEFINE S == 0..SectorSize - 1
                 T == Byte
                 f == buffer
                 g == job.data[sector_reg]
      <4>1. \A k \in S : f[k] = g[k]
        BY <2>1, <3>1, Geometry
      <4>2. sector_reg \in 1..Sectors
        BY <2>1, JobFields
      <4>3. g \in Sector /\ f \in Sector
        BY <1>1, <1>2, <4>2 DEF IInv, TypeOK
      <4>4. f \in [S -> T] /\ g \in [S -> T]
        BY <4>3 DEF Sector
      <4> HIDE DEF S, T, f, g
      <4>5. f = g
        BY <4>1, <4>4, SameFunction
      <4> QED
        BY <4>5 DEF f, g
    <3>3. \E s \in job.sectors : s = sector_reg
      BY <2>1
    <3>4. PICK s \in job.sectors : s = sector_reg
      BY <3>3
    <3>5. Commits(s)
      BY <2>3, <3>2, <3>4, Zenon DEF Store, Commits
    <3>6. \A r \in job.sectors : r <= sector_reg => Stored(r)'
      BY <1>1, <2>1, <3>4, <3>5, <1>2, SectorCommitted
    <3>7. CASE Onward
      <4>1. Filled' = 0
        BY <3>7 DEF Filled
      <4>2. sector_reg' \in job.sectors
        BY <1>1, <1>2, <2>1, <3>7, Geometry
      <4>3. Len(moved') = (sector_reg' - job.first) * SectorSize + Filled'
        <5> DEFINE q == sector_reg - job.first
        <5>1. q \in Nat /\ sector_reg' - job.first = q + 1
          <6>1. job.first <= sector_reg /\ job.first \in Nat /\ sector_reg \in Nat
            BY <1>2, <2>1
          <6>2. sector_reg' = sector_reg + 1
            BY <3>7
          <6> QED
            BY <6>1, <6>2
        <5>2. Len(moved') = q * SectorSize + SectorSize
          BY <2>1, <3>1
        <5> HIDE DEF q
        <5>3. (q + 1) * SectorSize = q * SectorSize + SectorSize
          BY <5>1, Geometry
        <5> QED
          BY <4>1, <5>1, <5>2, <5>3, Geometry
      <4>4. \A k \in 0..SectorSize - 1 : ~(k < Filled')
        BY <4>1, Geometry
      <4>5. \A r \in job.sectors : r < sector_reg' => Stored(r)'
        BY <1>2, <2>1, <3>6, <3>7
      <4>6. Storing'
        BY <2>1, <3>7, <4>2, <4>3, <4>4, <4>5 DEF Storing, Over
      <4> QED
        BY <1>3, <3>5, <4>6 DEF Working
    <3>8. CASE Last
      <4>1. \A r \in job.sectors : r <= sector_reg
        BY <1>1, <1>2, <2>1, <3>8, Geometry
      <4>2. Storing'
        BY <3>6, <3>8, <4>1 DEF Storing, Over
      <4> QED
        BY <1>3, <3>5, <4>2 DEF Working
    <3> QED
      BY <2>3, <3>7, <3>8
  <2>4. CASE ScheduleFinish(status \cup {SEEK_ERROR}) /\ disk' = disk
    <3>1. state' = "FINISH" /\ SEEK_ERROR \in next_status'
      BY <2>4 DEF ScheduleFinish, SEEK_ERROR, BUSY
    <3>2. Storing'
      BY <3>1 DEF Storing, Over
    <3> QED
      BY <1>3, <2>4, <3>2 DEF Working
  <2> QED
    <3>1. \/ /\ ~SectorFull /\ buf_pos' = buf_pos + 1 /\ drq' = TRUE
             /\ UNCHANGED <<disk, buffer, sector_reg, state>>
          \/ SectorFull /\ Store(sector_reg, buffer) /\ (Onward \/ Last)
          \/ ScheduleFinish(status \cup {SEEK_ERROR}) /\ disk' = disk
      BY <1>5 DEF TickWrite, ScheduleFinish
    <3> HIDE DEF Onward, Last
    <3> QED
      BY <3>1, <2>2, <2>3, <2>4
<1> QED
  BY <1>4, <1>5

LEMMA FormatTick ==
  ASSUME DInv, job \in Jobs, job.op = "format", Working, job' = job, moved' = moved, TickTrack
  PROVE  Working' /\ disk' = disk
<1>1. Formatted /\ IInv /\ moved \in Seq(Byte) /\ state = "TYPE3_TRACK"
  BY DEF DInv, Working, Follows, DriverOK, TickTrack
<1>2. /\ wt_bytes_left = TrackBytes - Len(moved) /\ (drq => wt_bytes_left > 0)
      /\ Parsed(Id(job), Mark(job), Len(moved)) /\ Closed(Mark(job), Len(moved))
      /\ Len(moved) \in Nat
  BY <1>1 DEF Formatted
<1>3. UNCHANGED <<disk, command, buffer, wt_bytes_left, wt_field, wt_count, wt_id_valid, wt_sync,
                  wt_sector, wt_length>>
  BY DEF TickTrack, mediaVars, xferVars
<1>4. CASE UNCHANGED <<state, next_status>> /\ (drq' => wt_bytes_left > 0)
  <2>1. Parsed(Id(job), Mark(job), Len(moved))'
    BY <1>2, <1>3 DEF Parsed, InId, Named, InData, InRecord, SyncSeen
  <2>2. Closed(Mark(job), Len(moved))'
    BY <1>2, <1>3, <1>4 DEF Closed, Stored
  <2>3. Formatted'
    BY <1>1, <1>2, <1>3, <1>4, <2>1, <2>2 DEF Formatted, Over
  <2> QED
    BY <1>3, <2>3 DEF Working
<1>5. CASE drq /\ state' = "FINISH"
  <2>1. Len(moved) # Expected(job)
    BY <1>2, <1>5, Geometry DEF Expected
  <2>2. Formatted'
    BY <1>5, <2>1 DEF Formatted, Over, Expected
  <2> QED
    BY <1>3, <2>2 DEF Working
<1>6. CASE ~drq /\ wt_bytes_left = 0 /\ ScheduleFinish(next_status)
  <2>1. /\ Len(moved) = TrackBytes /\ state' = "FINISH"
        /\ WRITE_FAULT \in next_status => WRITE_FAULT \in next_status'
    BY <1>2, <1>6, Geometry DEF ScheduleFinish, WRITE_FAULT, BUSY
  <2>2. ASSUME NEW s \in job.sectors PROVE Stored(s)' \/ WRITE_FAULT \in next_status'
    <3>1. End(Mark(job), s) <= TrackBytes
      <4>1. LaidOut(job, Id(job), Mark(job))
        BY Laid
      <4> QED
        BY <2>2, <4>1 DEF LaidOut
    <3>2. Stored(s) \/ WRITE_FAULT \in next_status
      BY <1>2, <2>1, <3>1 DEF Closed
    <3> QED
      BY <1>3, <2>1, <3>2 DEF Stored
  <2>3. Formatted'
    BY <2>1, <2>2 DEF Formatted, Over
  <2> QED
    BY <1>3, <2>3 DEF Working
<1> QED
  BY <1>2, <1>3, <1>4, <1>5, <1>6 DEF TickTrack, ScheduleFinish

LEMMA TransferTick ==
  ASSUME DInv, job \in Jobs, Working, Track = job.track, selected = job.unit,
         job' = job, moved' = moved, TickSearch \/ TickRead \/ TickWrite \/ TickTrack \/ TickFinish
  PROVE  /\ Working'
         /\ disk' = disk \/ (job.op # "read" /\ \E s \in job.sectors : Commits(s))
<1>1. job.op \in {"read", "write", "format"} /\ command.op = Order(job).op
  BY JobFields DEF Working
<1>2. CASE TickFinish
  BY <1>2, FinishTick
<1>3. CASE job.op = "read" /\ (TickSearch \/ TickRead)
  BY <1>3, ReadTick
<1>4. CASE job.op = "write" /\ (TickSearch \/ TickWrite)
  BY <1>4, WriteTick
<1>5. CASE job.op = "format" /\ TickTrack
  BY <1>5, FormatTick
<1>6. TickSearch \/ TickRead \/ TickWrite => job.op # "format"
  BY <1>1 DEF Working, Formatted, TickSearch, TickRead, TickWrite
<1>7. (TickRead => job.op # "write") /\ (TickWrite => job.op # "read")
  BY <1>1, Orders DEF TickRead, TickWrite
<1>8. TickTrack => job.op = "format"
  BY <1>1 DEF TickTrack, Working, Reading, Storing
<1> QED
  BY <1>1, <1>2, <1>3, <1>4, <1>5, <1>6, <1>7, <1>8

LEMMA ClockFollows ==
  ASSUME DInv, ClockStep
  PROVE  Follows' /\ Implements
<1>1. Tick /\ UNCHANGED driverVars
  BY DEF ClockStep
<1>2. pc' = pc /\ job' = job /\ moved' = moved /\ outcome' = outcome
  BY <1>1 DEF driverVars
<1>3. state # "IDLE"
  BY <1>1 DEF Tick, TickStep, TickSearch, TickRead, TickWrite, TickTrack, TickFinish
<1>4. pc \in {"seeking", "moving", "dead"} /\ job \in Jobs /\ selected = job.unit /\ DriverOK
  BY <1>3 DEF DInv, Follows, DriverOK
<1>5. selected' = selected
  BY <1>1 DEF Tick, TickStep, TickSearch, TickRead, TickWrite, TickTrack, TickFinish, driveVars
<1>6. TickStep => state = "TYPE1_STEP"
  BY DEF TickStep
<1>7. CASE pc = "seeking"
  <2>1. Seeking
    BY <1>7 DEF DInv, Follows
  <2>2. TickStep \/ TickFinish
    BY <1>1, <2>1 DEF Seeking, Tick, TickSearch, TickRead, TickWrite, TickTrack
  <2>3. Seeking' /\ disk' = disk
    BY <1>2, <1>4, <2>1, <2>2, SeekTick
  <2>4. moved = <<>>
    BY <1>7 DEF DInv, Follows
  <2>5. Follows'
    BY <1>2, <1>4, <1>5, <1>7, <2>3, <2>4 DEF Follows, DriverOK
  <2> QED
    BY <1>2, <2>3, <2>5 DEF Implements, storeVars
<1>8. CASE pc = "moving" \/ (pc = "dead" /\ Transferring)
  <2>1. Working /\ Track = job.track
    BY <1>8 DEF DInv, Follows
  <2>2. state # "TYPE1_STEP"
    BY <1>4, <2>1, JobFields DEF Working, Reading, Storing, Formatted
  <2>3. TickSearch \/ TickRead \/ TickWrite \/ TickTrack \/ TickFinish
    BY <1>1, <1>6, <2>2 DEF Tick
  <2>4. /\ Working'
        /\ disk' = disk \/ (job.op # "read" /\ \E s \in job.sectors : Commits(s))
    BY <1>2, <1>4, <2>1, <2>3, TransferTick
  <2>5. head' = head
    BY <2>3 DEF TickSearch, TickRead, TickWrite, TickTrack, TickFinish, driveVars
  <2>6. Track' = Track
    BY <1>5, <2>5 DEF Track
  <2>7. Follows'
    BY <1>2, <1>4, <1>5, <1>8, <2>1, <2>4, <2>6 DEF Follows, DriverOK
  <2>8. Implements
    <3>1. CASE disk' = disk
      BY <1>2, <3>1 DEF Implements, storeVars
    <3>2. CASE job.op # "read" /\ \E s \in job.sectors : Commits(s)
      BY <1>2, <1>4, <3>2, StoreSteps
    <3> QED
      BY <2>4, <3>1, <3>2
  <2> QED
    BY <2>7, <2>8
<1>9. CASE pc = "dead" /\ ~Transferring
  <2>1. TickStep \/ TickFinish
    BY <1>1, <1>9 DEF Transferring, Tick, TickSearch, TickRead, TickWrite, TickTrack
  <2>2. disk' = disk /\ state' \in {"TYPE1_STEP", "FINISH", "IDLE"}
    BY <2>1 DEF TickStep, TickFinish, ScheduleFinish, mediaVars
  <2>3. Follows'
    BY <1>2, <1>4, <1>5, <1>9, <2>2 DEF Follows, DriverOK, Transferring
  <2> QED
    BY <1>2, <2>2, <2>3 DEF Implements, storeVars
<1> QED
  BY <1>4, <1>7, <1>8, <1>9

-----------------------------------------------------------------------------
LEMMA InitFollows == DriverInit => DInv /\ Drive!Init
<1> SUFFICES ASSUME DriverInit PROVE DInv /\ Drive!Init
  OBVIOUS
<1>1. IInv
  BY InitInv DEF DriverInit
<1>2. /\ pc = "idle" /\ job = NoJob /\ moved = <<>> /\ outcome = Failed /\ state = "IDLE"
  BY DEF DriverInit, Init
<1>3. Follows
  BY <1>2 DEF Follows, DriverOK, Transferring
<1>4. Drive!Init
  BY <1>2 DEF Drive!Init, Drive!Failed, Failed
<1> QED
  BY <1>1, <1>3, <1>4 DEF DInv

LEMMA StepFollows ==
  DInv /\ [DriverNext]_allVars => DInv' /\ [Drive!Next]_<<disk, job, outcome>>
<1> SUFFICES ASSUME DInv, [DriverNext]_allVars
             PROVE  DInv' /\ [Drive!Next]_<<disk, job, outcome>>
  OBVIOUS
<1>1. IInv'
  BY FloppyKept DEF DInv, Follows
<1>2. Follows' /\ Implements
  <2>1. CASE \E j \in Jobs : Take(j)
    BY <2>1, TakeFollows
  <2>2. CASE SelectUnit \/ SetTarget \/ Seek \/ SeekDone \/ NameSector
    BY <2>2, ApproachFollows
  <2>3. CASE Start
    BY <2>3, StartFollows
  <2>4. CASE Answer
    BY <2>4, AnswerFollows
  <2>5. CASE Conclude
    BY <2>5, ConcludeFollows
  <2>6. CASE GiveUp
    BY <2>6, GiveUpFollows
  <2>7. CASE Die \/ HostStep \/ UNCHANGED allVars
    BY <2>7, AsideFollows
  <2>8. CASE ClockStep
    BY <2>8, ClockFollows
  <2> QED
    BY <2>1, <2>2, <2>3, <2>4, <2>5, <2>6, <2>7, <2>8 DEF DriverNext, Work
<1> QED
  BY <1>1, <1>2 DEF DInv, Implements, storeVars

(* For every geometry and every set of jobs laid out as trackStream and     *)
(* pumpWrite lay them, the controller driven byte by byte does what a store *)
(* of whole sectors does: no sector is torn or misplaced by an eject, a     *)
(* refusal, a FORCE INTERRUPT or a driver that dies, and a job reported     *)
(* clean was done in full.                                                  *)
THEOREM DriverStores == DriverSpec => ImplementsSectorStore
  BY InitFollows, StepFollows, PTL DEF DriverSpec, ImplementsSectorStore, Drive!Spec

=============================================================================
