----------------------------- MODULE Interrupts -----------------------------
(***************************************************************************)
(* How a request becomes an interrupt: the processor's side of core/src/    *)
(* cpu.c and the three sources core/src/board.c wires to it.                *)
(*                                                                          *)
(* A device raises a line (irq_virq); the board's encoder shows the         *)
(* processor one code, which it latches in its read cycles (irq_seen) and   *)
(* takes before a later instruction, if the code's level is above its       *)
(* priority.  So a request is seen after the instruction that raised it, a  *)
(* withdrawn one may be seen still, and one line can hide another.          *)
(*                                                                          *)
(* A CPU action is one cpu_step: the service of what is pending and then    *)
(* one instruction, atomically, as in the code; the board's actions fall    *)
(* between two of them.  What the instructions are is left to the guest.    *)
(***************************************************************************)
EXTENDS Integers, Sequences

CONSTANTS
  Code,         \* the guest's locations
  Main,         \* where it starts
  Entry,        \* per source, the location in its vector
  VectorPS      \* per source, the priority in its vector

MON == 2
KBD == 5
TIMER == 11   \* a line is its CP code
Lines == {MON, KBD, TIMER}
TRAP == 1                             \* EMT and the other internal traps
NONE == 0
Sources == Lines \cup {TRAP}

ASSUME InterruptsAssumption ==
  /\ Main \in Code
  /\ Entry \in [Sources -> Code]
  /\ VectorPS \in [Sources -> 0..7]

(* What an instruction does, as far as interrupts go.                       *)
Instructions ==
  {[op |-> o] : o \in {"other", "wait", "trap", "rti", "read_key"}}
    \cup [op : {"mtps"}, prio : 0..7]
    \cup [op : {"dispatcher"}, mon : BOOLEAN, timer : BOOLEAN]

VARIABLES
  virq,         \* irq_virq: the lines that are up
  seen,         \* irq_seen: the code last read off CP0-CP3, or NONE
  priority,     \* PSW 7:5
  waiting,
  trapped,      \* irq_emt and its like
  pc, stack,    \* stack: frames of [pc, prio], the innermost last
  mon, timer,   \* dispatcher bits 8 and 9
  rx            \* kbd.irq: a byte waits in the receiver

cpuVars == <<seen, priority, waiting, trapped, pc, stack>>
boardVars == <<mon, timer, rx>>
vars == <<virq, cpuVars, boardVars>>

Frames == [pc : Code, prio : 0..7]

Init ==
  /\ virq = {} /\ seen = NONE
  /\ priority = 7 /\ waiting = FALSE /\ trapped = FALSE
  /\ pc = Main /\ stack = <<>>
  /\ mon = FALSE /\ timer = FALSE /\ rx = FALSE

-----------------------------------------------------------------------------
(* The processor *)

Level(code) == IF code >= 12 THEN 7 ELSE IF code >= 8 THEN 6 ELSE IF code >= 4 THEN 5 ELSE 4

(* kEncoderOrder, of the lines that are wired: the monitor first.           *)
Rank_MonitorLast(line) == CASE line = KBD -> 1 [] line = TIMER -> 2 [] line = MON -> 3   \* mutant
Rank(line) == CASE line = MON -> 1 [] line = KBD -> 2 [] line = TIMER -> 3

Encode_HoldsSeen(up) ==                                                           \* mutant
  IF seen # NONE THEN seen
  ELSE IF up = {} THEN NONE ELSE CHOOSE c \in up : \A d \in up : Rank(c) <= Rank(d)

(* cpu_sample_requests                                                      *)
Encode(up) == IF up = {} THEN NONE ELSE CHOOSE c \in up : \A d \in up : Rank(c) <= Rank(d)

(* cpu_check_interrupts: what is taken before the next instruction.  WAIT   *)
(* looks at the lines themselves.                                           *)
Shown == IF waiting THEN Encode(virq) ELSE seen
Taken == IF trapped THEN TRAP
         ELSE IF Shown # NONE /\ Level(Shown) > priority THEN Shown
         ELSE NONE

Left_DropsShown == virq \ {Shown}                                                 \* mutant
Left_KeepsLine == virq                                                            \* mutant
Left == virq \ {Taken}                        \* the lines after the service
Pushed == IF Taken = NONE THEN stack ELSE Append(stack, [pc |-> pc, prio |-> priority])
ServicePriority_WholePSW == IF Taken = NONE THEN priority ELSE 32 * VectorPS[Taken]   \* mutant
ServicePriority == IF Taken = NONE THEN priority ELSE VectorPS[Taken]
Here == IF Taken = NONE THEN pc ELSE Entry[Taken]

MonitorRequest_OnAnyEdge(up, now) ==                                              \* mutant
  IF now # mon THEN up \cup {MON} ELSE up

(* board_monitor_request: a 0-to-1 write of bit 8 raises the request, a     *)
(* 1-to-0 write withdraws it.                                               *)
MonitorRequest(up, now) ==
  IF now /\ ~mon THEN up \cup {MON} ELSE IF ~now /\ mon THEN up \ {MON} ELSE up

(* cpu_step on a running processor: the service, then the instruction i at  *)
(* Here, which goes on at next.  Its read cycles come before its write.     *)
Step(i, next) ==
  /\ ~waiting
  /\ seen' = Encode(Left)
  /\ trapped' = (i.op = "trap")
  /\ waiting' = (i.op = "wait")
  /\ rx' = (rx /\ i.op # "read_key")
  /\ \/ /\ i.op = "dispatcher"
        /\ mon' = i.mon /\ timer' = i.timer
        /\ virq' = MonitorRequest(Left, i.mon)
     \/ /\ i.op # "dispatcher"
        /\ virq' = Left
        /\ UNCHANGED <<mon, timer>>
  /\ \/ /\ i.op = "rti" /\ Pushed # <<>>
        /\ LET top == Pushed[Len(Pushed)] IN pc' = top.pc /\ priority' = top.prio
        /\ stack' = SubSeq(Pushed, 1, Len(Pushed) - 1)
     \/ /\ i.op # "rti"
        /\ pc' = next /\ stack' = Pushed
        /\ priority' = IF i.op = "mtps" THEN i.prio ELSE ServicePriority

(* cpu_step on a waiting one: the service alone, or a look at the lines.    *)
Wait ==
  /\ waiting
  /\ waiting' = (Taken = NONE)
  /\ seen' = Encode(Left)
  /\ virq' = Left
  /\ pc' = Here /\ stack' = Pushed /\ priority' = ServicePriority
  /\ trapped' = FALSE
  /\ UNCHANGED boardVars

-----------------------------------------------------------------------------
(* The board *)

(* One kbd_tick and what board_step_frame does after it: the line follows   *)
(* the USART's only here.  byte: the tick brings a byte to the receiver.    *)
KbdTick(byte) ==
  /\ rx' = (rx \/ byte)
  /\ virq' = IF rx' THEN virq \cup {KBD} ELSE virq \ {KBD}
  /\ UNCHANGED <<cpuVars, mon, timer>>

(* The end of a frame.                                                      *)
VBlank ==
  /\ virq' = IF timer THEN virq \cup {TIMER} ELSE virq
  /\ UNCHANGED <<cpuVars, boardVars>>

(* board_reset                                                              *)
Reset ==
  /\ virq' = {} /\ seen' = NONE
  /\ priority' = 7 /\ waiting' = FALSE /\ trapped' = FALSE
  /\ pc' = Main /\ stack' = <<>>
  /\ mon' = FALSE /\ timer' = FALSE /\ rx' = FALSE

(* Any guest.                                                               *)
Next ==
  \/ \E i \in Instructions, next \in Code : Step(i, next)
  \/ Wait
  \/ \E byte \in BOOLEAN : KbdTick(byte)
  \/ VBlank
  \/ Reset

Spec == Init /\ [][Next]_vars

-----------------------------------------------------------------------------
(* Properties *)

TypeOK ==
  /\ virq \subseteq Lines
  /\ seen \in Lines \cup {NONE}
  /\ priority \in 0..7
  /\ waiting \in BOOLEAN /\ trapped \in BOOLEAN
  /\ pc \in Code /\ stack \in Seq(Frames)
  /\ mon \in BOOLEAN /\ timer \in BOOLEAN /\ rx \in BOOLEAN

(* A request is never lost: a line goes down only as its interrupt is       *)
(* taken, as its device takes it back, or in a reset - not because another  *)
(* line or a trap was taken, or because the priority held it off.           *)
TakenNow(line) == Taken = line
WithdrawnNow(line) == \/ line = MON /\ mon /\ ~mon'
                      \/ line = KBD /\ ~rx'
ResetNow == pc' = Main /\ stack' = <<>> /\ priority' = 7 /\ virq' = {}
RequestsKept ==
  [][\A line \in virq \ virq' : TakenNow(line) \/ WithdrawnNow(line) \/ ResetNow]_vars

(* What the processor takes was on its lines when the instruction before    *)
(* began: a request that was taken back (bit 8 written 0, the key read) is  *)
(* served one instruction late at most, and never again.                    *)
TakenIsFresh == [][pc' # pc => Taken' \in virq \cup {TRAP, NONE}]_vars
=============================================================================
