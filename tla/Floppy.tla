------------------------------- MODULE Floppy -------------------------------
(***************************************************************************)
(* The KR1818VG93 (WD1793) floppy disk controller of the MS0515 and the     *)
(* four drive units it is wired to: core/src/floppy.c.                      *)
(*                                                                          *)
(* The CPU (fdc_write, fdc_read, fdc_select), the host (attach, detach) and *)
(* the controller's own clock (fdc_tick) act on one state.  A tick action   *)
(* is one turn of fdc_tick's loop, the expiry of the running phase's timer; *)
(* how many cycles a phase lasts is left out, so any number of register     *)
(* accesses may fall between two of them.  Step rates and settling, which   *)
(* only set those cycles, are left out with it, and so are the activity     *)
(* lamps.                                                                   *)
(***************************************************************************)
EXTENDS Integers

CONSTANTS
  Tracks,       \* FDC_TRACKS
  Sectors,      \* FDC_SECTORS
  SectorSize,   \* FDC_SECTOR_SIZE
  TrackBytes,   \* TRACK_BYTES, what WRITE TRACK takes in one revolution
  StarveTicks,  \* TRACK_STARVE_CYCLES in byte times (there: TrackBytes)
  Commands,     \* the commands the CPU may write, a set of Command records
  RegValues,    \* values the CPU writes to the track and sector registers
  DataValues,   \* values the CPU writes to the data register
  Selects,      \* <<drive, side>> pairs register A may name
  Mounts,       \* units the host may put a diskette in
  Kinds         \* what it may put there: "image", "backend"

Byte == 0..255
Units == 0..3                  \* FD0..FD3, numbered side * 2 + drive
Drives == 0..1
Sector == [0..SectorSize - 1 -> Byte]

Ops == {"RESTORE", "SEEK", "STEP", "STEP_IN", "STEP_OUT", "READ_SECTOR",
        "WRITE_SECTOR", "READ_ADDRESS", "FORCE_INT", "WRITE_TRACK", "UNKNOWN"}

(* flag is bit 4 for a STEP (update the track register), a READ or a WRITE  *)
(* (multiple sectors), and "any of bits 3:0" for FORCE INTERRUPT.           *)
Command == [op : Ops, flag : BOOLEAN]

ASSUME FloppyAssumption ==
  /\ Tracks \in 1..256
  /\ Sectors \in 1..254
  /\ SectorSize \in Nat \ {0}
  /\ TrackBytes \in Nat \ {0}
  /\ StarveTicks \in Nat \ {0}
  /\ Commands \subseteq Command
  /\ RegValues \subseteq Byte
  /\ DataValues \subseteq Byte
  /\ Selects \subseteq (0..3) \X (0..1)
  /\ Mounts \subseteq Units
  /\ Kinds \subseteq {"image", "backend"}

(* Status bits.  Bits 2 and 5 mean one thing after a Type I command and     *)
(* another after a transfer, as on the chip.                                *)
BUSY == "bit0"
TRACK0 == "bit2"
LOST_DATA == "bit2"
SEEK_ERROR == "bit4"
HEAD_LOADED == "bit5"
WRITE_FAULT == "bit5"
WRITE_PROT == "bit6"
NOT_READY == "bit7"
Flags == {"bit0", "bit2", "bit4", "bit5", "bit6", "bit7"}

(* The bytes WRITE TRACK does not store as they are.                        *)
SYNC == 245
CRC == 247
ID_MARK == 254
DATA_MARK == 251
DELETED_MARK == 248
SizeCode == 2          \* an ID's length code for 512 bytes

VARIABLES
  media,        \* per unit: "none", "image" (FILE*), "backend" (callbacks)
  readOnly,     \* per unit
  disk,         \* per unit: the diskette's sectors
  motor,        \* per unit: motor_on
  selected,     \* the unit register A selects
  spinning,     \* per drive: the spindle the listener was told turns
  head,         \* per drive: head_track
  status, command, track_reg, sector_reg, data_reg,
  drq, intrq, busy,
  state,        \* the phase of the running command
  pulses,       \* step_pulses_left
  dir,          \* step_direction
  next_status,
  buffer, buf_pos,
  wt_bytes_left, wt_field, wt_count, wt_id_valid, wt_sync, wt_starved,
  wt_sector, wt_length   \* wt_id[2] and wt_id[3]; the others are not looked at

mediaVars == <<media, readOnly, disk>>
driveVars == <<motor, selected, spinning, head>>
regVars == <<track_reg, sector_reg, data_reg>>
xferVars == <<buffer, buf_pos>>
stepVars == <<pulses, dir>>
lineVars == <<intrq, busy>>
wtVars == <<wt_bytes_left, wt_field, wt_count, wt_id_valid, wt_sync, wt_starved,
            wt_sector, wt_length>>
vars == <<mediaVars, driveVars, regVars, xferVars, stepVars, lineVars,
          status, command, drq, state, next_status, wtVars>>

States == {"IDLE", "TYPE1_STEP", "TYPE2_SEARCH", "TYPE2_DATA", "TYPE3_TRACK", "FINISH"}
Fields == {"GAP", "ID", "DATA"}     \* fdc_wt_field_t

-----------------------------------------------------------------------------
(* Helpers *)

Track == head[selected % 2]
Present(u) == media[u] # "none"
Ready == Present(selected) /\ motor[selected]

ZeroSector == [i \in 0..SectorSize - 1 |-> 0]

(* type1_status with the head over track h.                                 *)
Type1Status(h) ==
  (IF h = 0 THEN {TRACK0} ELSE {})
    \cup (IF Ready THEN {} ELSE {NOT_READY})
    \cup (IF readOnly[selected] THEN {WRITE_PROT} ELSE {})
    \cup (IF motor[selected] THEN {HEAD_LOADED} ELSE {})

(* A track number brought onto the diskette.                                *)
Clamp_OffByOne(t) == IF t < 0 THEN 0 ELSE IF t > Tracks THEN Tracks - 1 ELSE t   \* mutant
Clamp(t) == IF t < 0 THEN 0 ELSE IF t >= Tracks THEN Tracks - 1 ELSE t

ScheduleFinish_KeepsDrq(final) ==                                                \* mutant
  /\ state' = "FINISH"
  /\ next_status' = final \ {BUSY}
  /\ status' = final \cup {BUSY}
  /\ UNCHANGED drq

(* schedule_finish: BUSY is held for one more phase, then final applies.    *)
ScheduleFinish(final) ==
  /\ state' = "FINISH"
  /\ next_status' = final \ {BUSY}
  /\ status' = final \cup {BUSY}
  /\ drq' = FALSE

(* read_sector's outcomes: the sector that was read, or a refusal.  Only a  *)
(* backend can refuse a sector the diskette has.                            *)
Readable(s) == s \in 1..Sectors /\ Present(selected)
MayRefuse(s) == ~Readable(s) \/ media[selected] = "backend"

(* write_sector_at: whether it may succeed, and its effect.  The host's     *)
(* write can always fail (a full disk, a backend that refuses); the sector  *)
(* then keeps its old contents.                                             *)
Writable_IgnoresProtect(s) == s \in 1..Sectors /\ Present(selected)              \* mutant
Writable(s) == s \in 1..Sectors /\ Present(selected) /\ ~readOnly[selected]
Store(s, data) == disk' = [disk EXCEPT ![selected][Track][s] = data]

-----------------------------------------------------------------------------
(* fdc_init with empty drives, fdc_reset, and what the host does.           *)

Init ==
  /\ media = [u \in Units |-> "none"]
  /\ readOnly = [u \in Units |-> FALSE]
  /\ disk = [u \in Units |-> [t \in 0..Tracks - 1 |-> [s \in 1..Sectors |-> ZeroSector]]]
  /\ motor = [u \in Units |-> FALSE]
  /\ selected = 0
  /\ spinning = [d \in Drives |-> FALSE]
  /\ head = [d \in Drives |-> 0]
  /\ status = {} /\ next_status = {}
  /\ command = [op |-> "RESTORE", flag |-> FALSE]
  /\ track_reg = 0 /\ sector_reg = 0 /\ data_reg = 0
  /\ drq = FALSE /\ intrq = FALSE /\ busy = FALSE
  /\ state = "IDLE"
  /\ pulses = 0 /\ dir = 1
  /\ buffer = ZeroSector /\ buf_pos = 0
  /\ wt_bytes_left = 0 /\ wt_field = "GAP" /\ wt_count = 0
  /\ wt_id_valid = FALSE /\ wt_sync = FALSE /\ wt_starved = 0
  /\ wt_sector = 0 /\ wt_length = 0

(* The parser as a reset and WRITE TRACK leave it, left bytes to the index. *)
StartParser(left) ==
  /\ wt_bytes_left' = left
  /\ wt_field' = "GAP" /\ wt_count' = 0
  /\ wt_id_valid' = FALSE /\ wt_sync' = FALSE
  /\ wt_starved' = 0
  /\ UNCHANGED <<wt_sector, wt_length>>

Reset ==
  /\ motor' = [u \in Units |-> FALSE]
  /\ spinning' = [d \in Drives |-> FALSE]
  /\ head' = [d \in Drives |-> 0]
  /\ status' = {} /\ next_status' = {}
  /\ command' = [op |-> "RESTORE", flag |-> FALSE]
  /\ track_reg' = 0 /\ sector_reg' = 1 /\ data_reg' = 0
  /\ drq' = FALSE /\ intrq' = FALSE /\ busy' = FALSE
  /\ state' = "IDLE"
  /\ pulses' = 0 /\ dir' = 1
  /\ buf_pos' = 0
  /\ StartParser(0)
  /\ UNCHANGED <<mediaVars, selected, buffer>>

(* fdc_attach and fdc_attach_backend; what the unit held is detached first. *)
(* The diskette of a unit keeps its contents while it is out.               *)
Attach(u, kind, ro) ==
  /\ media' = [media EXCEPT ![u] = kind]
  /\ readOnly' = [readOnly EXCEPT ![u] = ro]
  /\ UNCHANGED <<disk, driveVars, regVars, xferVars, stepVars, lineVars,
                 status, command, drq, state, next_status, wtVars>>

Detach(u) ==
  /\ media' = [media EXCEPT ![u] = "none"]
  /\ readOnly' = [readOnly EXCEPT ![u] = FALSE]
  /\ UNCHANGED <<disk, driveVars, regVars, xferVars, stepVars, lineVars,
                 status, command, drq, state, next_status, wtVars>>

(* fdc_select: a unit past FD3 is ignored; the motor bit goes to the unit   *)
(* selected, the spindle to the drive the number names.                     *)
Select(d, side, on) ==
  LET unit == side * 2 + d IN
  /\ unit \in Units
  /\ selected' = unit
  /\ motor' = [motor EXCEPT ![unit] = on]
  /\ spinning' = [x \in Drives |-> on /\ x = d]
  /\ UNCHANGED <<mediaVars, head, regVars, xferVars, stepVars, lineVars,
                 status, command, drq, state, next_status, wtVars>>

-----------------------------------------------------------------------------
(* The command register.  A command written while another runs drops it.    *)

(* What every command but FORCE INTERRUPT does first.                       *)
Latch(c) ==
  /\ command' = c
  /\ intrq' = FALSE
  /\ busy' = TRUE

(* start_type1: from < 0 or past the last track is clamped; with no pulse   *)
(* to give the command finishes with the track register as it was.          *)
StartType1(target, step) ==
  LET delta == Clamp(target) - Track
  IN
  /\ dir' = IF delta < 0 THEN -1 ELSE IF delta > 0 THEN 1 ELSE step
  /\ pulses' = IF delta < 0 THEN -delta ELSE delta
  /\ \/ /\ delta = 0
        /\ ScheduleFinish(Type1Status(Track))
     \/ /\ delta # 0
        /\ state' = "TYPE1_STEP"
        /\ status' = Type1Status(Track) \cup {BUSY}
        /\ drq' = FALSE
        /\ UNCHANGED next_status

Target(c) ==
  CASE c.op = "RESTORE"  -> 0
    [] c.op = "SEEK"     -> data_reg
    [] c.op = "STEP"     -> Track + dir
    [] c.op = "STEP_IN"  -> Track + 1
    [] c.op = "STEP_OUT" -> Track - 1
    [] OTHER             -> Track

Position(c) ==
  /\ c.op \in {"RESTORE", "SEEK", "STEP", "STEP_IN", "STEP_OUT"}
  /\ Latch(c)
  /\ StartType1(Target(c), CASE c.op = "STEP_IN" -> 1
                             [] c.op = "STEP_OUT" -> -1
                             [] OTHER -> dir)
  /\ UNCHANGED <<mediaVars, driveVars, regVars, xferVars, wtVars>>

(* The drive's answer to a command that needs a diskette in it.             *)
Refusal(writing) ==
  IF ~Ready THEN {NOT_READY}
  ELSE IF writing /\ readOnly[selected] THEN {WRITE_PROT} ELSE {}

(* start_type2                                                              *)
Transfer(c) ==
  LET writing == c.op = "WRITE_SECTOR" IN
  /\ c.op \in {"READ_SECTOR", "WRITE_SECTOR"}
  /\ Latch(c)
  /\ \/ /\ Refusal(writing) # {}
        /\ ScheduleFinish(Refusal(writing))
        /\ UNCHANGED xferVars
     \/ /\ Refusal(writing) = {}
        /\ buffer' = IF writing THEN ZeroSector ELSE buffer
        /\ buf_pos' = 0
        /\ state' = "TYPE2_SEARCH"
        /\ status' = {BUSY}
        /\ drq' = FALSE
        /\ UNCHANGED next_status
  /\ UNCHANGED <<mediaVars, driveVars, regVars, stepVars, wtVars>>

(* READ ADDRESS leaves the track under the head in the sector register.     *)
ReadAddress(c) ==
  /\ c.op = "READ_ADDRESS"
  /\ Latch(c)
  /\ sector_reg' = IF Ready THEN Track ELSE sector_reg
  /\ ScheduleFinish(IF Ready THEN {} ELSE {SEEK_ERROR, NOT_READY})
  /\ UNCHANGED <<mediaVars, driveVars, track_reg, data_reg, xferVars, stepVars, wtVars>>

(* start_write_track                                                        *)
WriteTrack(c) ==
  /\ c.op = "WRITE_TRACK"
  /\ Latch(c)
  /\ \/ /\ Refusal(TRUE) # {}
        /\ ScheduleFinish(Refusal(TRUE))
        /\ UNCHANGED wtVars
     \/ /\ Refusal(TRUE) = {}
        /\ StartParser(TrackBytes)
        /\ state' = "TYPE3_TRACK"
        /\ status' = {BUSY} /\ next_status' = {}
        /\ drq' = FALSE
  /\ UNCHANGED <<mediaVars, driveVars, regVars, xferVars, stepVars>>

Unsupported(c) ==
  /\ c.op = "UNKNOWN"
  /\ Latch(c)
  /\ ScheduleFinish({})
  /\ UNCHANGED <<mediaVars, driveVars, regVars, xferVars, stepVars, wtVars>>

ForceInterrupt_LetsItRun(c) ==                                                    \* mutant
  /\ c.op = "FORCE_INT"
  /\ intrq' = (intrq \/ c.flag)
  /\ UNCHANGED <<mediaVars, driveVars, regVars, xferVars, stepVars, busy, drq, state, status,
                 command, next_status, wtVars>>

ForceInterrupt(c) ==
  /\ c.op = "FORCE_INT"
  /\ command' = c
  /\ state' = "IDLE"
  /\ busy' = FALSE /\ drq' = FALSE
  /\ status' = Type1Status(Track)
  /\ intrq' = (intrq \/ c.flag)
  /\ UNCHANGED <<mediaVars, driveVars, regVars, xferVars, stepVars, next_status, wtVars>>

WriteCommand(c) ==
  \/ Position(c)    \/ Transfer(c)    \/ ReadAddress(c)
  \/ WriteTrack(c)  \/ Unsupported(c) \/ ForceInterrupt(c)

-----------------------------------------------------------------------------
(* The other registers (fdc_write 1..3, fdc_read).                          *)

WriteTrackReg(v) ==
  /\ track_reg' = v
  /\ UNCHANGED <<mediaVars, driveVars, sector_reg, data_reg, xferVars, stepVars, lineVars,
                 status, command, drq, state, next_status, wtVars>>

WriteSectorReg(v) ==
  /\ sector_reg' = v
  /\ UNCHANGED <<mediaVars, driveVars, track_reg, data_reg, xferVars, stepVars, lineVars,
                 status, command, drq, state, next_status, wtVars>>

(* wt_close_data: a whole sector of this machine's format is stored where   *)
(* the head is, under the number its ID named; anything else is let go.     *)
CloseData ==
  LET whole == wt_length = SizeCode /\ wt_count = SectorSize /\ wt_sector \in 1..Sectors IN
  /\ \/ /\ whole /\ Writable(wt_sector)
        /\ Store(wt_sector, buffer)
        /\ UNCHANGED next_status
     \/ /\ whole                              \* write_sector_at refused
        /\ next_status' = next_status \cup {WRITE_FAULT}
        /\ UNCHANGED disk
     \/ /\ ~whole
        /\ UNCHANGED <<disk, next_status>>
  /\ wt_id_valid' = FALSE /\ wt_field' = "GAP"
  /\ UNCHANGED <<wt_count, wt_sector, wt_length, wt_sync, buffer>>

(* wt_take_byte                                                             *)
TakeId(b) ==
  /\ wt_sector' = IF wt_count = 2 THEN b ELSE wt_sector
  /\ wt_length' = IF wt_count = 3 THEN b ELSE wt_length
  /\ wt_count' = wt_count + 1
  /\ wt_id_valid' = (wt_id_valid \/ wt_count = 3)
  /\ wt_field' = IF wt_count = 3 THEN "GAP" ELSE wt_field
  /\ UNCHANGED <<disk, next_status, buffer, wt_sync>>

TakeDatum(b) ==
  /\ wt_count' = IF wt_count < SectorSize THEN wt_count + 1 ELSE SectorSize + 1
  /\ buffer' = IF wt_count < SectorSize THEN [buffer EXCEPT ![wt_count] = b] ELSE buffer
  /\ UNCHANGED <<disk, next_status, wt_field, wt_id_valid, wt_sync, wt_sector, wt_length>>

TakeGap(b) ==
  LET opensId == wt_sync /\ b = ID_MARK
      opensData == wt_sync /\ wt_id_valid /\ b \in {DATA_MARK, DELETED_MARK}
  IN
  /\ wt_field' = IF opensId THEN "ID" ELSE IF opensData THEN "DATA" ELSE wt_field
  /\ wt_count' = IF opensId \/ opensData THEN 0 ELSE wt_count
  /\ wt_sync' = (b = SYNC)
  /\ UNCHANGED <<disk, next_status, buffer, wt_id_valid, wt_sector, wt_length>>

TakeByte(b) ==
  /\ \/ wt_field = "ID" /\ TakeId(b)
     \/ wt_field = "DATA" /\ b = CRC /\ CloseData
     \/ wt_field = "DATA" /\ b # CRC /\ TakeDatum(b)
     \/ wt_field = "GAP" /\ TakeGap(b)
  /\ wt_bytes_left' = wt_bytes_left - 1
  /\ UNCHANGED wt_starved

Writing == state = "TYPE2_DATA" /\ command.op = "WRITE_SECTOR"
Formatting == state = "TYPE3_TRACK" /\ wt_bytes_left > 0

WriteData(b) ==
  /\ data_reg' = b
  /\ drq' = FALSE
  /\ \/ /\ Writing
        /\ buffer' = IF buf_pos < SectorSize THEN [buffer EXCEPT ![buf_pos] = b] ELSE buffer
        /\ UNCHANGED <<disk, next_status, wtVars>>
     \/ /\ Formatting
        /\ TakeByte(b)
     \/ /\ ~Writing /\ ~Formatting
        /\ UNCHANGED <<buffer, disk, next_status, wtVars>>
  /\ UNCHANGED <<media, readOnly, driveVars, track_reg, sector_reg, buf_pos, stepVars,
                 lineVars, status, command, state>>

(* What a status read returns: NOT READY is live, bit 1 is DRQ.             *)
StatusRead ==
  (status \ {NOT_READY}) \cup (IF Ready THEN {} ELSE {NOT_READY})
                         \cup (IF drq THEN {"bit1"} ELSE {})

ReadStatus ==
  /\ intrq' = FALSE
  /\ UNCHANGED <<mediaVars, driveVars, regVars, xferVars, stepVars, busy,
                 status, command, drq, state, next_status, wtVars>>

ReadData ==
  /\ drq' = FALSE
  /\ UNCHANGED <<mediaVars, driveVars, regVars, xferVars, stepVars, lineVars,
                 status, command, state, next_status, wtVars>>

-----------------------------------------------------------------------------
(* fdc_tick: the running phase's timer expires.                             *)

(* One step pulse on the drive selected now.                                *)
TickStep ==
  LET track == Clamp(Track + dir)
  IN
  /\ state = "TYPE1_STEP"
  /\ head' = [head EXCEPT ![selected % 2] = track]
  /\ pulses' = pulses - 1
  /\ track_reg' = CASE command.op = "RESTORE" -> 0
                    [] command.op = "SEEK"    -> track % 256
                    [] OTHER -> IF command.flag THEN track % 256 ELSE track_reg
  /\ \/ /\ pulses > 1
        /\ status' = Type1Status(track) \cup {BUSY}
        /\ UNCHANGED <<drq, state, next_status>>
     \/ /\ pulses <= 1
        /\ ScheduleFinish(Type1Status(track))
  /\ UNCHANGED <<mediaVars, motor, selected, spinning, sector_reg, data_reg, xferVars,
                 dir, lineVars, command, wtVars>>

(* read_sector succeeded: the first byte is offered.                        *)
Offer(sector) ==
  /\ buffer' = sector
  /\ buf_pos' = 1
  /\ data_reg' = sector[0]
  /\ drq' = TRUE

(* The search ends: a read has its sector or SEEK ERROR, a write asks for   *)
(* its first byte.                                                          *)
TickSearch ==
  /\ state = "TYPE2_SEARCH"
  /\ \/ /\ command.op = "READ_SECTOR" /\ Readable(sector_reg)
        /\ Offer(disk[selected][Track][sector_reg])
        /\ state' = "TYPE2_DATA" /\ status' = {BUSY}
        /\ UNCHANGED next_status
     \/ /\ command.op = "READ_SECTOR" /\ MayRefuse(sector_reg)
        /\ ScheduleFinish({SEEK_ERROR})
        /\ UNCHANGED <<xferVars, data_reg>>
     \/ /\ command.op = "WRITE_SECTOR"
        /\ buf_pos' = 0
        /\ drq' = TRUE
        /\ state' = "TYPE2_DATA" /\ status' = {BUSY}
        /\ UNCHANGED <<buffer, data_reg, next_status>>
  /\ UNCHANGED <<mediaVars, driveVars, track_reg, sector_reg, stepVars, lineVars,
                 command, wtVars>>

NextSector == (sector_reg + 1) % 256

(* The next byte of a read, the next sector of a multiple read, or the end. *)
(* While DRQ stands, the byte before unserved, a transfer waits: no step.   *)
TickRead ==
  /\ state = "TYPE2_DATA" /\ ~drq /\ command.op = "READ_SECTOR"
  /\ \/ /\ buf_pos < SectorSize
        /\ data_reg' = buffer[buf_pos]
        /\ buf_pos' = buf_pos + 1
        /\ drq' = TRUE
        /\ UNCHANGED <<buffer, sector_reg, state, status, next_status>>
     \/ /\ buf_pos >= SectorSize /\ ~command.flag
        /\ ScheduleFinish(status)
        /\ UNCHANGED <<data_reg, xferVars, sector_reg>>
     \/ /\ buf_pos >= SectorSize /\ command.flag
        /\ sector_reg' = NextSector
        /\ \/ /\ Readable(NextSector)
              /\ Offer(disk[selected][Track][NextSector])
              /\ UNCHANGED <<state, status, next_status>>
           \/ /\ NextSector > Sectors
              /\ ScheduleFinish(status)
              /\ UNCHANGED <<data_reg, xferVars>>
           \/ /\ NextSector <= Sectors /\ MayRefuse(NextSector)
              /\ ScheduleFinish(status \cup {SEEK_ERROR})
              /\ UNCHANGED <<data_reg, xferVars>>
  /\ UNCHANGED <<mediaVars, driveVars, track_reg, stepVars, lineVars, command, wtVars>>

SectorFull_OneLate == buf_pos >= SectorSize                                       \* mutant
SectorFull == buf_pos + 1 >= SectorSize

(* The next byte of a write; with the last one the buffer goes to the       *)
(* sector the sector register names now, on the unit selected now.          *)
TickWrite ==
  /\ state = "TYPE2_DATA" /\ ~drq /\ command.op = "WRITE_SECTOR"
  /\ \/ /\ ~SectorFull
        /\ buf_pos' = buf_pos + 1
        /\ drq' = TRUE
        /\ UNCHANGED <<disk, buffer, sector_reg, state, status, next_status>>
     \/ /\ SectorFull /\ Writable(sector_reg)
        /\ Store(sector_reg, buffer)
        /\ \/ /\ command.flag /\ sector_reg < Sectors
              /\ sector_reg' = sector_reg + 1
              /\ buffer' = ZeroSector
              /\ buf_pos' = 0
              /\ drq' = TRUE
              /\ UNCHANGED <<state, status, next_status>>
           \/ /\ ~(command.flag /\ sector_reg < Sectors)
              /\ buf_pos' = buf_pos + 1
              /\ ScheduleFinish(status)
              /\ UNCHANGED <<buffer, sector_reg>>
     \/ /\ SectorFull                 \* write_sector refused
        /\ buf_pos' = buf_pos + 1
        /\ ScheduleFinish(status \cup {SEEK_ERROR})
        /\ UNCHANGED <<disk, buffer, sector_reg>>
  /\ UNCHANGED <<media, readOnly, driveVars, track_reg, data_reg, stepVars, lineVars,
                 command, wtVars>>

StarvedFor_Forgets == 0                                                           \* mutant
StarvedFor == wt_starved + 1

(* tick_write_track: a revolution without an answer ends the command.       *)
TickTrack ==
  /\ state = "TYPE3_TRACK"
  /\ \/ /\ drq /\ StarvedFor < StarveTicks
        /\ wt_starved' = StarvedFor
        /\ UNCHANGED <<drq, state, status, next_status>>
     \/ /\ drq /\ StarvedFor >= StarveTicks
        /\ wt_starved' = StarvedFor
        /\ ScheduleFinish(next_status \cup {LOST_DATA})
     \/ /\ ~drq /\ wt_bytes_left > 0
        /\ drq' = TRUE
        /\ wt_starved' = 0
        /\ UNCHANGED <<state, status, next_status>>
     \/ /\ ~drq /\ wt_bytes_left = 0
        /\ ScheduleFinish(next_status)
        /\ UNCHANGED wt_starved
  /\ UNCHANGED <<mediaVars, driveVars, regVars, xferVars, stepVars, lineVars, command,
                 wt_bytes_left, wt_field, wt_count, wt_id_valid, wt_sync, wt_sector, wt_length>>

TickFinish_NoIntrq ==                                                             \* mutant
  /\ state = "FINISH"
  /\ status' = next_status
  /\ busy' = FALSE /\ drq' = FALSE
  /\ state' = "IDLE"
  /\ UNCHANGED <<mediaVars, driveVars, regVars, xferVars, stepVars, intrq, command,
                 next_status, wtVars>>

TickFinish ==
  /\ state = "FINISH"
  /\ status' = next_status
  /\ busy' = FALSE /\ drq' = FALSE /\ intrq' = TRUE
  /\ state' = "IDLE"
  /\ UNCHANGED <<mediaVars, driveVars, regVars, xferVars, stepVars, command, next_status, wtVars>>

Tick == \/ TickStep  \/ TickSearch \/ TickRead
        \/ TickWrite \/ TickTrack  \/ TickFinish

Cpu == \/ \E c \in Commands : WriteCommand(c)
       \/ \E v \in RegValues : WriteTrackReg(v) \/ WriteSectorReg(v)
       \/ \E b \in DataValues : WriteData(b)
       \/ ReadStatus
       \/ ReadData
       \/ \E p \in Selects, on \in BOOLEAN : Select(p[1], p[2], on)

Host == \/ Reset
        \/ \E u \in Mounts, k \in Kinds, ro \in BOOLEAN : Attach(u, k, ro)
        \/ \E u \in Mounts : Detach(u)

Next == Cpu \/ Host \/ Tick

Spec == Init /\ [][Next]_vars

-----------------------------------------------------------------------------
(* Properties *)

MediaOK ==
  /\ media \in [Units -> {"none", "image", "backend"}]
  /\ readOnly \in [Units -> BOOLEAN]
  /\ disk \in [Units -> [0..Tracks - 1 -> [1..Sectors -> Sector]]]
DriveOK ==
  /\ motor \in [Units -> BOOLEAN]
  /\ selected \in Units
  /\ spinning \in [Drives -> BOOLEAN]
  /\ head \in [Drives -> 0..Tracks - 1]
RegistersOK == track_reg \in Byte /\ sector_reg \in Byte /\ data_reg \in Byte
ControlOK ==
  /\ status \subseteq Flags /\ next_status \subseteq Flags
  /\ drq \in BOOLEAN /\ intrq \in BOOLEAN /\ busy \in BOOLEAN
  /\ command \in Command
  /\ state \in States
CountersOK ==
  /\ pulses \in 0..Tracks - 1 /\ dir \in {-1, 1}
  /\ buf_pos \in 0..SectorSize
ParserOK ==
  /\ wt_bytes_left \in 0..TrackBytes /\ wt_count \in 0..SectorSize + 4
  /\ wt_starved \in 0..StarveTicks
  /\ wt_sector \in Byte /\ wt_length \in Byte
  /\ wt_field \in Fields
ParserFlagsOK == wt_id_valid \in BOOLEAN /\ wt_sync \in BOOLEAN

(* Every variable holds a value its C field can hold; the heads stay on the *)
(* diskette.                                                                *)
TypeOK == /\ MediaOK /\ DriveOK /\ RegistersOK /\ ControlOK /\ CountersOK
          /\ ParserOK /\ ParserFlagsOK /\ buffer \in Sector

(* The three lines the BIOS polls never contradict each other, whatever the *)
(* CPU writes and whenever it writes it: BUSY (the flag and the status bit) *)
(* exactly while a command runs, DRQ only while a transfer wants a byte,    *)
(* INTRQ only when nothing runs, so "BUSY up, then down" and "INTRQ means   *)
(* the command is over" are both safe to wait on.                           *)
LinesAgree ==
  /\ busy <=> state # "IDLE"
  /\ busy <=> BUSY \in status
  /\ drq => state \in {"TYPE2_DATA", "TYPE3_TRACK"}
  /\ intrq => ~busy

(* The indexes the tick and the data register use stay inside buffer[512]   *)
(* and wt_id[4], whatever command dropped whatever other: the phase always  *)
(* belongs to the latched command and its counters are in range.            *)
IndexesInBounds ==
  /\ state = "TYPE1_STEP" => /\ command.op \in {"RESTORE", "SEEK", "STEP", "STEP_IN", "STEP_OUT"}
                             /\ pulses > 0
  /\ state \in {"TYPE2_SEARCH", "TYPE2_DATA"} => command.op \in {"READ_SECTOR", "WRITE_SECTOR"}
  /\ Writing => buf_pos < SectorSize
  /\ state = "TYPE2_DATA" /\ command.op = "READ_SECTOR" => buf_pos > 0
  /\ state = "TYPE3_TRACK" => command.op = "WRITE_TRACK" /\ wt_starved < StarveTicks
  /\ wt_field = "ID" => wt_count < 4
  /\ wt_field = "DATA" => wt_count <= SectorSize + 1

(* No step changes a diskette but by storing one whole buffer in one sector *)
(* of the selected, writable unit, at the head, for a write command that is *)
(* running: a read, a seek, a dropped or interrupted command never leaves a *)
(* mark, and a write-protected diskette never changes.                      *)
OneSectorAtATime ==
  [][disk' # disk =>
       /\ busy /\ command.op \in {"WRITE_SECTOR", "WRITE_TRACK"}
       /\ media[selected] # "none" /\ ~readOnly[selected]
       /\ \E s \in 1..Sectors : disk' = [disk EXCEPT ![selected][Track][s] = buffer]]_vars
=============================================================================
