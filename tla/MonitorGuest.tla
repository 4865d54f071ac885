---------------------------- MODULE MonitorGuest ----------------------------
(***************************************************************************)
(* Interrupts under the guest the repository's own fixes are about (docs/   *)
(* kb/KNOWN_ISSUES.md, lib/tests/test_ctrl_s_q.cpp): an RT-11 monitor that  *)
(* prints through the monitor's interrupt, one character a service, and     *)
(* stops on ^S and goes on on ^Q.                                           *)
(*                                                                          *)
(* Its output service withdraws its request as it enters, lowers the        *)
(* priority to print, asks for itself again if there is more (held by ^S it *)
(* asks too) and returns.  Its key service takes the byte, drops to         *)
(* priority 0 at once and only then acts on the key.                        *)
(***************************************************************************)
EXTENDS Interrupts

CONSTANTS
  Text,         \* how many characters there are to print
  Keys,         \* the keys that arrive, in order
  MaxResets     \* how often the machine may be reset, a bound on the runs

Output == {"clear", "window", "print", "shut", "again", "return"}
KeyService == {"take", "lower", "act", "done"}

ASSUME GuestAssumption ==
  /\ Text \in Nat /\ Keys \in Seq({"^S", "^Q"}) /\ Keys # <<>> /\ MaxResets \in Nat
  /\ Output \cup KeyService \cup {"start", "open", "idle", "call", "tick", "emt"} \subseteq Code

(* The monitor's program: where it starts, its vectors, and the priority it *)
(* enters its terminal service with.                                        *)
ASSUME VectorsAssumption ==
  /\ Main = "start"
  /\ Entry[MON] = "clear" /\ Entry[KBD] = "take" /\ Entry[TIMER] = "tick" /\ Entry[TRAP] = "emt"
  /\ VectorPS[MON] = 7

VARIABLES
  left,         \* characters not printed yet
  held,         \* by ^S
  arriving,     \* keys still on their way
  key,          \* the byte in the receiver (rx_data)
  taken,        \* per key service under way, the byte it took, the innermost last
  resets        \* resets so far

guestVars == <<left, held, arriving, key, taken, resets>>
allVars == <<vars, guestVars>>

GuestInit ==
  /\ Init
  /\ left = Text /\ held = FALSE /\ arriving = Keys /\ key = "" /\ taken = <<>>
  /\ resets = 0

Other == [op |-> "other"]
Rti == [op |-> "rti"]
Mtps(p) == [op |-> "mtps", prio |-> p]
Dispatcher(m) == [op |-> "dispatcher", mon |-> m, timer |-> TRUE]

(* Locations where the guest only drives the processor.                     *)
Plain(loc) ==
  \/ loc = "start"  /\ Step(Dispatcher(TRUE), "open")
  \/ loc = "open"   /\ Step(Mtps(0), "idle")
  \/ loc = "idle"   /\ Step([op |-> "wait"], "call")
  \/ loc = "call"   /\ Step([op |-> "trap"], "idle")
  \/ loc = "clear"  /\ Step(Dispatcher(FALSE), "window")
  \/ loc = "window" /\ Step(Mtps(0), "print")
  \/ loc = "shut"   /\ Step(Mtps(7), "again")
  \/ loc = "again"  /\ left > 0 /\ Step(Dispatcher(TRUE), "return")
  \/ loc = "again"  /\ left = 0 /\ Step(Other, "return")
  \/ loc = "lower"  /\ Step(Mtps(0), "act")
  \/ loc \in {"return", "tick", "emt"} /\ Step(Rti, loc)

PutChar(loc) ==
  /\ loc = "print" /\ Step(Other, "shut")
  /\ left' = IF held \/ left = 0 THEN left ELSE left - 1
  /\ UNCHANGED <<held, arriving, key, taken, resets>>

(* It reads the USART's status before its data.                             *)
TakeKey(loc) ==
  /\ loc = "take" /\ Step([op |-> "read_key"], "lower")
  /\ taken' = Append(taken, IF rx THEN key ELSE "")
  /\ UNCHANGED <<left, held, arriving, key, resets>>

Act(loc) ==
  /\ loc = "act" /\ Step(Other, "done")
  /\ held' = CASE taken[Len(taken)] = "^S" -> TRUE
               [] taken[Len(taken)] = "^Q" -> FALSE
               [] OTHER -> held
  /\ UNCHANGED <<left, arriving, key, taken, resets>>

KeyDone(loc) ==
  /\ loc = "done" /\ Step(Rti, loc)
  /\ taken' = SubSeq(taken, 1, Len(taken) - 1)
  /\ UNCHANGED <<left, held, arriving, key, resets>>

Run(loc) == \/ Plain(loc) /\ UNCHANGED guestVars
            \/ PutChar(loc) \/ TakeKey(loc) \/ Act(loc) \/ KeyDone(loc)

CpuStep == Run(Here) \/ (Wait /\ UNCHANGED guestVars)

Active == {pc} \cup {stack[i].pc : i \in 1..Len(stack)}

(* A byte takes eight kbd_ticks on the wire, some 16000 cycles: by then the *)
(* key service has acted on the one before it.                              *)
ByteArrives ==
  /\ arriving # <<>> /\ ~rx /\ Active \cap KeyService = {}
  /\ KbdTick(TRUE)
  /\ key' = Head(arriving) /\ arriving' = Tail(arriving)
  /\ UNCHANGED <<left, held, taken, resets>>

Tick == KbdTick(FALSE) /\ UNCHANGED guestVars

(* A frame is some 15000 instructions: the services of the last one are     *)
(* over before the next one's request.                                      *)
Frame == "tick" \notin Active /\ TIMER \notin virq /\ VBlank /\ UNCHANGED guestVars

(* The user resets the machine; the guest starts again.                     *)
Restart ==
  /\ resets < MaxResets /\ resets' = resets + 1
  /\ Reset
  /\ left' = Text /\ held' = FALSE /\ key' = "" /\ taken' = <<>>
  /\ UNCHANGED arriving

GuestNext == CpuStep \/ ByteArrives \/ Tick \/ Frame \/ Restart

(* board_step_frame runs an instruction, then the devices, and goes on.     *)
GuestSpec ==
  /\ GuestInit /\ [][GuestNext]_allVars
  /\ WF_allVars(CpuStep) /\ WF_allVars(ByteArrives) /\ WF_allVars(Tick) /\ WF_allVars(Frame)

-----------------------------------------------------------------------------
(* Properties *)

(* The terminal service never breaks into itself: at most one activation of *)
(* it is on the stack, so a long TYPE does not run the stack down           *)
(* (?MON-F-Stack overflow).                                                 *)
OutputNotReentered ==
  LET at == Append([i \in 1..Len(stack) |-> stack[i].pc], pc)
  IN \A i, j \in 1..Len(at) : at[i] \in Output /\ at[j] \in Output => i = j

(* Whenever ^Q comes, the text it lets go on is printed to its end.         *)
TextEnds == (arriving = <<>> /\ Keys[Len(Keys)] = "^Q") ~> left = 0

(* A clock tick is served, whatever the monitor and the keyboard ask for in *)
(* front of it.                                                             *)
TickServed == (TIMER \in virq) ~> (TIMER \notin virq)

(* "a latched-but-unserviced interrupt is cancelled once the CPU reads the  *)
(* data register" (board_step_frame): a key service is entered only while   *)
(* the USART has a byte.                                                    *)
NoSpuriousKey == Taken = KBD => rx
=============================================================================
