---------------------------- MODULE KeyboardGuest ----------------------------
(***************************************************************************)
(* MS7004 between its user and the guest: a guest that programs the USART   *)
(* as docs/hardware/keyboard.md has the ROM do it, reads a byte at each     *)
(* interrupt and holds ВР and СУ from their code until ALL-UP, as           *)
(* lineFromKeyboard of lib/src/Emulator.cpp reads the line.  It may ask the *)
(* keyboard for its ID or reset it, and restart without a hardware reset;   *)
(* the host may save the machine and load it into another emulator.         *)
(***************************************************************************)
EXTENDS MS7004

CONSTANTS
  UserKeys,     \* the keys the user presses, a bound
  MaxEvents,    \* how many key events and repeats there are, a bound
  MaxCommands   \* how many host bytes, restarts, resets and loads, a bound

ASSUME GuestAssumption ==
  UserKeys \subseteq HeldKeys \cup Toggles /\ MaxEvents \in Nat /\ MaxCommands \in Nat

(* The FIFO holds the longest answer that may be asked for.                 *)
ASSUME AnswersFit == Capacity >= 2 /\ (POWER_UP \in HostBytes => Capacity >= 4)

VARIABLES
  boot,         \* the step of BootSequence the guest is at
  latch,        \* the modifiers it holds for down
  heard, turn,  \* the last byte read, and a bit that flips with each
  lost,         \* whether, since the last reset, a byte was lost or a load made
                \* the keyboard forget that a modifier was down
  events, commands

guestVars == <<boot, latch, heard, turn, lost, events, commands>>
allVars == <<vars, guestVars>>

(* Three zeros, the internal reset, the mode word, the command.             *)
BootSequence ==
  LET Word(b, e, i) == [baud |-> b, rxen |-> e, ireset |-> i]
      Zero == Word(FALSE, FALSE, FALSE)
  IN <<Zero, Zero, Zero, Word(FALSE, FALSE, TRUE), Word(TRUE, TRUE, TRUE),
       Word(TRUE, TRUE, FALSE)>>
Booted == boot > Len(BootSequence)

GuestInit ==
  /\ Init
  /\ boot = 1 /\ latch = {} /\ heard = ZERO /\ turn = 0 /\ lost = FALSE
  /\ events = 0 /\ commands = 0

(* lineFromKeyboard                                                         *)
Latched(down, byte) ==
  CASE byte \in {SHIFT, CTRL} -> down \cup {byte}
    [] byte = ALLUP -> {}
    [] OTHER -> down

Overflows(bs) == Fits(fifo, bs) < Len(bs)

UserStep(bs) ==
  /\ events < MaxEvents /\ events' = events + 1
  /\ lost' = (lost \/ Overflows(bs))
  /\ UNCHANGED <<boot, latch, heard, turn, commands>>

UserPress(key) == Press(key) /\ UserStep(PressBytes(key))
UserRelease(key) == Release(key) /\ UserStep(ReleaseBytes(key))
UserLeaves == ReleaseAll /\ UserStep(ReleaseAllBytes)
KeyRepeats == Repeat /\ UserStep(<<repeat_key>>)

(* The control writes of the boot sequence.                                 *)
BootStep ==
  /\ ~Booted /\ boot' = boot + 1
  /\ Program(BootSequence[boot])
  /\ lost' = (lost \/ (async /\ BootSequence[boot].ireset /\ rx_ready))
  /\ UNCHANGED <<keyboardVars, latch, heard, turn, events, commands>>

(* The interrupt service.                                                   *)
ReadKey ==
  /\ Booted /\ irq
  /\ ReadByte
  /\ latch' = Latched(latch, rx_data)
  /\ heard' = rx_data /\ turn' = 1 - turn
  /\ UNCHANGED <<keyboardVars, boot, lost, events, commands>>

Ask(b) ==
  /\ Booted /\ commands < MaxCommands /\ commands' = commands + 1
  /\ HostByte(b)
  /\ lost' = (lost \/ (~Second(b) /\ b \in {PROBE, POWER_UP} /\ Wire # <<>>))
  /\ UNCHANGED <<boot, latch, heard, turn, events>>

(* The guest starts over, the chip where it was; it has forgotten what it   *)
(* had read.                                                                *)
Restart ==
  /\ Booted /\ commands < MaxCommands /\ commands' = commands + 1
  /\ boot' = 1 /\ latch' = {} /\ lost' = TRUE
  /\ UNCHANGED <<vars, heard, turn, events>>

MachineReset ==
  /\ commands < MaxCommands /\ commands' = commands + 1
  /\ Reset
  /\ boot' = 1 /\ latch' = {} /\ heard' = ZERO /\ turn' = 0 /\ lost' = FALSE
  /\ UNCHANGED events

(* Emulator::saveState, and its loadState in any emulator                   *)
Load(delay, session) ==
  /\ commands < MaxCommands /\ commands' = commands + 1
  /\ LoadState(delay, session)
  /\ lost' = (lost \/ (modifier_in_session /\ ~session))
  /\ UNCHANGED <<boot, latch, heard, turn, events>>

ClockTick == UartTick /\ UNCHANGED <<keyboardVars, guestVars>>

GuestNext ==
  \/ \E key \in UserKeys : UserPress(key) \/ UserRelease(key)
  \/ UserLeaves \/ KeyRepeats
  \/ BootStep \/ ReadKey
  \/ \E b \in HostBytes : Ask(b)
  \/ Restart \/ MachineReset
  \/ \E delay \in 0..ByteTicks, session \in BOOLEAN : Load(delay, session)
  \/ ClockTick

(* board_step_frame ticks the USART every 2048 cycles and the guest's code  *)
(* runs between two ticks; the user need not do anything.                   *)
GuestSpec ==
  /\ GuestInit /\ [][GuestNext]_allVars
  /\ WF_allVars(ClockTick) /\ WF_allVars(BootStep) /\ WF_allVars(ReadKey)

-----------------------------------------------------------------------------
(* Properties *)

TypeOK ==
  /\ LineOK /\ KeyboardOK
  /\ boot \in 1..Len(BootSequence) + 1 /\ latch \subseteq {SHIFT, CTRL}
  /\ heard \in Bytes /\ turn \in {0, 1} /\ lost \in BOOLEAN

(* What a guest that holds down for down will hold once it has read bytes:  *)
(* the modifiers no ALL-UP comes after.                                     *)
HeldAfter(down, bytes) ==
  {m \in {SHIFT, CTRL} :
     \/ m \in down /\ \A j \in DOMAIN bytes : bytes[j] # ALLUP
     \/ \E i \in DOMAIN bytes :
          bytes[i] = m /\ \A j \in i + 1..Len(bytes) : bytes[j] # ALLUP}

(* What the guest will hold for down once it has read all that is sent.     *)
Settled == HeldAfter(latch, Wire)

(* No modifier sticks: once no key is down the guest, having read its       *)
(* bytes, holds neither ВР nor СУ - unless the line lost one of them, or    *)
(* the keyboard forgot in a load that it owes an ALL-UP.                    *)
NoModifierSticks == held = {} /\ ~lost => Settled = {}

(* A ВР that is down is down for the guest: the ALL-UPs the keyboard sends  *)
(* around single keys never take it away for the keys after them.           *)
ShiftReachesGuest == ShiftHeld /\ ~lost => SHIFT \in Settled

WireLine ==
  INSTANCE Line WITH line <- Wire, Answers <- {IdBytes, PowerUpBytes}, Room <- Capacity

(* To the guest the keyboard, its FIFO and the receiver are one line that   *)
(* hands over each byte once and in order, and loses bytes only where Line  *)
(* says it may.                                                             *)
ImplementsLine == WireLine!Spec

(* Every byte sent is read, or dropped by a command or a reset: none waits  *)
(* in the FIFO for ever.                                                    *)
BytesArrive == (Wire # <<>>) ~> (Wire = <<>>)

(* ФКС works by "the `effective_shift` wrapper around every key emission":  *)
(* so a key that repeats goes on being read with the Shift its cap asks for *)
(* at that moment, physical Shift against ФКС.                              *)
KeysSeenAsMeant ==
  [][KeyRepeats /\ ~lost' => (SHIFT \in Settled <=> EffectiveShift(repeat_key))]_allVars
=============================================================================
