---------------------------- MODULE FloppyDriver ----------------------------
(***************************************************************************)
(* The controller of Floppy under a guest's disk driver: one that polls, as *)
(* the ROM's does (the controller interrupts nobody), and feeds a sector    *)
(* the way pumpWrite and pumpTrack of core/tests/test_floppy.cpp do.  The   *)
(* driver selects the unit, seeks, names the sector, gives the command and  *)
(* answers each DRQ until INTRQ; it may give up (FORCE INTERRUPT) or die    *)
(* with a command running, while the host ejects and mounts diskettes.      *)
(***************************************************************************)
EXTENDS Floppy, Sequences, FiniteSets

CONSTANTS
  Jobs,         \* what the driver may be asked to do
  NoJob,
  MaxJobs       \* how many of them, a bound on the runs

(* A job moves the sectors from first on: one, or with multi all that are   *)
(* left of the track; stream is what a write or a format gives for them.    *)
JobType == [op : {"read", "write", "format"}, unit : Units, track : 0..Tracks - 1,
            first : 1..Sectors, multi : BOOLEAN, sectors : SUBSET (1..Sectors),
            data : [1..Sectors -> Sector], stream : Seq(Byte)]

ASSUME DriverAssumption == NoJob \notin Jobs /\ MaxJobs \in Nat /\ Jobs \subseteq JobType

(* The n-th byte of a job; one whose stream is out goes on giving gap bytes.*)
GapByte == 78
Given(j, n) == IF n <= Len(j.stream) THEN j.stream[n] ELSE GapByte

(* A write's bytes are its sectors' in their order (pumpWrite).             *)
Fills(j) ==
  LET last == IF j.multi THEN Sectors ELSE j.first IN
  /\ j.sectors = j.first..last
  /\ Len(j.stream) = (last - j.first + 1) * SectorSize
  /\ \A s \in j.sectors, k \in 0..SectorSize - 1 :
       j.stream[(s - j.first) * SectorSize + k + 1] = j.data[s][k]

(* A format's bytes are the records of its sectors, with gaps around them   *)
(* and in them (trackStream): the record of s has its ID mark at id[s] and  *)
(* its data mark at mark[s], each behind a sync byte, and is over before    *)
(* the index comes round.  No other byte opens a field.                     *)
End(mark, s) == mark[s] + SectorSize + 1      \* its CRC byte
LaidOut(j, id, mark) ==
  LET g(n) == Given(j, n) IN
  /\ \A s \in j.sectors :
       /\ 1 < id[s] /\ id[s] + 5 < mark[s] /\ End(mark, s) <= TrackBytes
       /\ g(id[s] - 1) = SYNC /\ g(id[s]) = ID_MARK
       /\ g(id[s] + 3) = s /\ g(id[s] + 4) = SizeCode
       /\ g(mark[s] - 1) = SYNC /\ g(mark[s]) \in {DATA_MARK, DELETED_MARK}
       /\ \A k \in 0..SectorSize - 1 : g(mark[s] + 1 + k) = j.data[s][k] /\ j.data[s][k] # CRC
       /\ g(End(mark, s)) = CRC
       /\ \A n \in id[s] + 5..mark[s] - 1 :
            g(n - 1) = SYNC => g(n) \notin {ID_MARK, DATA_MARK, DELETED_MARK}
       /\ \A r \in j.sectors \ {s} : End(mark, s) < id[r] \/ End(mark, r) < id[s]
  /\ \A n \in 2..TrackBytes :
       g(n - 1) = SYNC /\ g(n) = ID_MARK => \E s \in j.sectors : id[s] <= n /\ n <= End(mark, s)

ASSUME JobsFit ==
  \A j \in Jobs :
    /\ j.op = "write" => Fills(j)
    /\ j.op = "format" =>
         \E id \in [j.sectors -> 1..TrackBytes], mark \in [j.sectors -> 1..TrackBytes] :
           LaidOut(j, id, mark)

VARIABLES
  pc,           \* where the driver is
  job,
  moved,        \* the bytes moved so far, in order
  outcome,      \* what it reported of the last job
  taken         \* jobs taken so far, to MaxJobs

driverVars == <<pc, job, moved, outcome, taken>>
allVars == <<vars, driverVars>>

Failed == [ok |-> FALSE, data |-> <<>>]

DriverInit ==
  /\ Init
  /\ pc = "idle" /\ job = NoJob /\ moved = <<>> /\ outcome = Failed /\ taken = 0

Take(j) ==
  /\ pc = "idle" /\ taken < MaxJobs
  /\ pc' = "select" /\ job' = j /\ moved' = <<>> /\ taken' = taken + 1
  /\ UNCHANGED <<vars, outcome>>

SelectUnit ==
  /\ pc = "select" /\ pc' = "target"
  /\ Select(job.unit % 2, job.unit \div 2, TRUE)
  /\ UNCHANGED <<job, moved, outcome, taken>>

SetTarget ==
  /\ pc = "target" /\ pc' = "seek"
  /\ WriteData(job.track)
  /\ UNCHANGED <<job, moved, outcome, taken>>

Seek ==
  /\ pc = "seek" /\ pc' = "seeking"
  /\ WriteCommand([op |-> "SEEK", flag |-> TRUE])
  /\ UNCHANGED <<job, moved, outcome, taken>>

SeekDone ==
  /\ pc = "seeking" /\ intrq /\ pc' = "sector"
  /\ ReadStatus
  /\ UNCHANGED <<job, moved, outcome, taken>>

NameSector ==
  /\ pc = "sector" /\ pc' = "command"
  /\ WriteSectorReg(job.first)
  /\ UNCHANGED <<job, moved, outcome, taken>>

Order(j) == [op |-> CASE j.op = "read" -> "READ_SECTOR"
                      [] j.op = "write" -> "WRITE_SECTOR"
                      [] j.op = "format" -> "WRITE_TRACK",
             flag |-> j.multi]
Start ==
  /\ pc = "command" /\ pc' = "moving"
  /\ WriteCommand(Order(job))
  /\ UNCHANGED <<job, moved, outcome, taken>>

Answer ==
  /\ pc = "moving" /\ drq
  /\ \/ /\ job.op = "read"
        /\ moved' = Append(moved, data_reg)
        /\ ReadData
     \/ /\ job.op # "read"
        /\ LET b == Given(job, Len(moved) + 1) IN moved' = Append(moved, b) /\ WriteData(b)
  /\ UNCHANGED <<pc, job, outcome, taken>>

Errors == {LOST_DATA, SEEK_ERROR, WRITE_FAULT, WRITE_PROT, NOT_READY}

(* NOT READY reads live: a command refused because the unit was empty reads *)
(* clean if a diskette has gone in since.  So the driver also counts its    *)
(* bytes, as pumpWrite does.                                                *)
Expected(j) == CASE j.op = "read"   -> Cardinality(j.sectors) * SectorSize
                 [] j.op = "write"  -> Len(j.stream)
                 [] j.op = "format" -> TrackBytes

Conclude ==
  /\ pc = "moving" /\ intrq
  /\ pc' = "idle" /\ job' = NoJob /\ moved' = <<>>
  /\ outcome' = IF StatusRead \cap Errors # {} \/ Len(moved) # Expected(job) THEN Failed
                ELSE [ok |-> TRUE, data |-> IF job.op = "read" THEN moved ELSE <<>>]
  /\ ReadStatus
  /\ UNCHANGED taken

GiveUp ==
  /\ pc \in {"seeking", "moving"}
  /\ pc' = "idle" /\ job' = NoJob /\ moved' = <<>> /\ outcome' = Failed
  /\ WriteCommand([op |-> "FORCE_INT", flag |-> FALSE])
  /\ UNCHANGED taken

(* The guest program stops for good; the controller does not know.          *)
Die ==
  /\ pc \in {"seeking", "moving"} /\ pc' = "dead"
  /\ UNCHANGED <<vars, job, moved, outcome, taken>>

Work == \/ SelectUnit \/ SetTarget \/ Seek \/ SeekDone \/ NameSector
        \/ Start \/ Answer \/ Conclude

HostStep ==
  /\ \/ \E u \in Mounts, k \in Kinds, ro \in BOOLEAN : Attach(u, k, ro)
     \/ \E u \in Mounts : Detach(u)
  /\ UNCHANGED driverVars

ClockStep == Tick /\ UNCHANGED driverVars

DriverNext == (\E j \in Jobs : Take(j)) \/ Work \/ GiveUp \/ Die \/ HostStep \/ ClockStep

(* fdc_tick runs after every instruction, and the CPU keeps executing the   *)
(* driver's code.                                                           *)
DriverSpec ==
  /\ DriverInit /\ [][DriverNext]_allVars
  /\ WF_allVars(ClockStep) /\ WF_allVars(Work)

-----------------------------------------------------------------------------
(* Properties *)

ReadBytes(store, j) ==
  [i \in 1..Cardinality(j.sectors) * SectorSize |->
     store[j.unit][j.track][j.first + (i - 1) \div SectorSize][(i - 1) % SectorSize]]

Drive == INSTANCE SectorStore WITH store <- disk, JobBytes <- ReadBytes

(* To its driver the controller is a store of whole sectors: whatever the   *)
(* host ejects, refuses or protects in the middle and however the driver    *)
(* gives up or dies, no sector is ever torn or misplaced, and a job whose   *)
(* status reads clean was done in full.                                     *)
ImplementsSectorStore == Drive!Spec

(* A driver that is alive gets out of every job: the controller never       *)
(* leaves it waiting for a DRQ or an INTRQ that does not come.              *)
JobEnds == (job # NoJob) ~> (job = NoJob \/ pc = "dead")

(* WRITE TRACK ends even when nobody feeds it any more: a revolution after  *)
(* the last answer it lets BUSY go.                                         *)
TrackEnds == (state = "TYPE3_TRACK") ~> (state = "IDLE")

(* "Seek: always tracks the head position" (the comment on the track        *)
(* register's update rules): a SEEK ends with the register on the head.     *)
SeekTracksHead == state = "FINISH" /\ command.op = "SEEK" => track_reg = Track
=============================================================================
