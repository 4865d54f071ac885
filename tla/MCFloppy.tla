------------------------------ MODULE MCFloppy ------------------------------
(***************************************************************************)
(* Floppy under a CPU that writes any register at any time and a host that  *)
(* mounts and ejects at any time.                                           *)
(***************************************************************************)
EXTENDS Floppy, FiniteSets

Cmd(op, f) == [op |-> op, flag |-> f]

MCCommands == {Cmd("RESTORE", FALSE), Cmd("SEEK", TRUE), Cmd("STEP_IN", TRUE),
               Cmd("READ_SECTOR", TRUE), Cmd("WRITE_SECTOR", FALSE), Cmd("WRITE_SECTOR", TRUE),
               Cmd("FORCE_INT", TRUE), Cmd("FORCE_INT", FALSE), Cmd("UNKNOWN", FALSE),
               Cmd("READ_ADDRESS", FALSE), Cmd("WRITE_TRACK", FALSE)}

(* Side 0 of drive 0 holds the diskette; the CPU may turn to side 1, empty. *)
MCSelects == {<<0, 0>>, <<0, 1>>}

(* At most one sector of the diskette differs from the blank one.           *)
OneSectorUsed ==
  Cardinality({p \in (0..Tracks - 1) \X (1..Sectors) : disk[0][p[1]][p[2]] # ZeroSector}) <= 1

(* What the controller can still use.  The registers the CPU only reads     *)
(* back, and what a phase leaves behind when it ends, are left out: the     *)
(* next command sets them before it reads them (no command here steps "in   *)
(* the direction of the last one").                                         *)
Live ==
  <<media, readOnly, disk, motor, selected, head, data_reg, sector_reg, busy, drq, intrq,
    state, BUSY \in status,
    IF state = "IDLE" THEN <<>> ELSE <<command>>,
    IF state = "TYPE1_STEP" THEN <<pulses, dir>> ELSE <<>>,
    IF state \in {"FINISH", "TYPE3_TRACK"} THEN <<next_status>> ELSE <<>>,
    IF state \in {"TYPE2_DATA", "TYPE2_SEARCH"} THEN <<buffer, buf_pos>> ELSE <<>>,
    IF state = "TYPE3_TRACK" THEN <<wtVars, IF wt_field = "DATA" THEN buffer ELSE <<>> >> ELSE <<>> >>
=============================================================================
