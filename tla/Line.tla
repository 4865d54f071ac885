-------------------------------- MODULE Line --------------------------------
(***************************************************************************)
(* What the keyboard's serial line promises the guest: the bytes it reads   *)
(* are the bytes sent, in order and each of them once, but for those the    *)
(* line lost - because it was full, because the keyboard dropped what was   *)
(* under way to answer a command, or because the guest reset its end.       *)
(***************************************************************************)
EXTENDS Naturals, Sequences

CONSTANTS
  Answers,      \* the sequences the keyboard answers commands with
  Room          \* how many bytes the line holds at least

VARIABLES
  line,         \* sent and not read
  heard,        \* the last byte read
  turn,         \* flips with every byte read
  lost          \* whether the line has lost a byte since the last reset

Init == line = <<>> /\ turn = 0 /\ lost = FALSE

(* A key event sends up to three bytes; some are lost only on a full line.  *)
Send ==
  /\ Len(line') \in Len(line)..Len(line) + 3
  /\ SubSeq(line', 1, Len(line)) = line
  /\ lost' = lost \/ (lost' /\ Len(line') >= Room)
  /\ UNCHANGED <<heard, turn>>

Read ==
  /\ line # <<>>
  /\ heard' = Head(line) /\ line' = Tail(line)
  /\ turn' = 1 - turn
  /\ UNCHANGED lost

(* The keyboard answers a command: what was under way is gone.              *)
Answer ==
  /\ line' \in Answers
  /\ lost' = (lost \/ line # <<>>)
  /\ UNCHANGED <<heard, turn>>

(* The guest resets its end: the byte that had arrived is gone.             *)
Drop ==
  /\ line # <<>> /\ line' = Tail(line)
  /\ lost' = TRUE
  /\ UNCHANGED <<heard, turn>>

(* What had been read or sent is forgotten at one end: the guest starts     *)
(* over, or the keyboard is loaded from a file that does not say it.        *)
Restart == lost' = TRUE /\ UNCHANGED <<line, heard, turn>>

(* The machine is reset.                                                    *)
Reset == line' = <<>> /\ turn' = 0 /\ lost' = FALSE

Next == Send \/ Read \/ Answer \/ Drop \/ Restart \/ Reset

Spec == Init /\ [][Next]_<<line, heard, turn, lost>>
=============================================================================
