------------------------------- MODULE MS7004 -------------------------------
(***************************************************************************)
(* The MS 7004 keyboard on the far end of the line of Uart: core/src/       *)
(* ms7004.c.                                                                *)
(*                                                                          *)
(* The user presses and releases keys, the machine's millisecond runs the   *)
(* auto-repeat, the machine sends commands.  When a repeat is due is left   *)
(* out (any tick may find it due), and with it the typing and game presets, *)
(* which only set the times; so are the lamps, the sounds and data_enabled, *)
(* which nothing in the keyboard reads back.                                *)
(***************************************************************************)
EXTENDS Uart, FiniteSets

CONSTANTS
  Letters,        \* the regular keys that are letters in either mode
  SymbolLetters,  \* letters in RUS, a single Latin glyph in LAT
  ShiftImmune,    \* those of them whose glyph Shift does not change in LAT
  OtherKeys,      \* digits, punctuation, functions
  NoRepeat,       \* the regular keys that do not repeat
  StackDepth,     \* key_stack's eight entries
  HostBytes       \* the bytes the machine may send to the keyboard

SHIFT_L == "SHIFT_L"
SHIFT_R == "SHIFT_R"
CTRL == "CTRL"
CAPS == "CAPS"
RUSLAT == "RUSLAT"
NONE == "NONE"
Shifts == {SHIFT_L, SHIFT_R}
Modifiers == Shifts \cup {CTRL}
Toggles == {CAPS, RUSLAT}
Regular == Letters \cup SymbolLetters \cup OtherKeys
HeldKeys == Modifiers \cup Regular      \* the keys held[] is ever set for

(* The bytes on the line: a key's code is the key itself, but for the two   *)
(* ВР, which share one.                                                     *)
SHIFT == "SHIFT"
ALLUP == "ALLUP"
Bytes == Regular \cup {SHIFT, CTRL, RUSLAT, ALLUP, ZERO, ONE}

ASSUME MS7004Assumption ==
  /\ ShiftImmune \subseteq SymbolLetters /\ NoRepeat \subseteq Regular
  /\ Regular \cap (Modifiers \cup Toggles \cup {NONE, SHIFT, ALLUP, ZERO, ONE}) = {}
  /\ StackDepth \in Nat \ {0}
  /\ HostBytes \subseteq 0..255

VARIABLES
  held, held_count, modifier_in_session,
  caps_on, ruslat_on,
  repeat_key, key_stack, repeat_enabled,
  cmd_pending   \* the prefix of a two-byte command, or 0

heldVars == <<held, held_count, modifier_in_session>>
repeatVars == <<repeat_key, key_stack>>
keyboardVars == <<heldVars, caps_on, ruslat_on, repeatVars, repeat_enabled, cmd_pending>>
vars == <<uartVars, keyboardVars>>

(* ms7004_init, ms7004_reset                                                *)
KeyboardInit ==
  /\ held = {} /\ held_count = 0 /\ modifier_in_session = FALSE
  /\ caps_on = FALSE /\ ruslat_on = FALSE
  /\ repeat_key = NONE /\ key_stack = <<>> /\ repeat_enabled = TRUE
  /\ cmd_pending = 0

KeyboardReset ==
  /\ held' = {} /\ held_count' = 0 /\ modifier_in_session' = FALSE
  /\ caps_on' = FALSE /\ ruslat_on' = FALSE
  /\ repeat_key' = NONE /\ key_stack' = <<>> /\ repeat_enabled' = TRUE
  /\ cmd_pending' = 0

Init == UartInit /\ KeyboardInit

(* Emulator::reset: board_reset, then ms7004_reset                          *)
Reset == UartReset /\ KeyboardReset

-----------------------------------------------------------------------------
(* The keys (ms7004_key) *)

ShiftHeld == held \cap Shifts # {}

(* effective_shift: what Shift the OS should see with a regular key.        *)
EffectiveShift(key) ==
  IF ~ruslat_on /\ key \in ShiftImmune THEN FALSE
  ELSE IF key \in Letters \/ (ruslat_on /\ key \in SymbolLetters) THEN ShiftHeld # caps_on
  ELSE ShiftHeld

KeyBytes_NoRestore(key) ==                                                        \* mutant
  IF EffectiveShift(key) = ShiftHeld THEN <<key>>
  ELSE IF EffectiveShift(key) THEN <<SHIFT, key, ALLUP>>
  ELSE <<ALLUP, key>>

(* A regular key, between the bytes that turn the OS's Shift over for it.   *)
KeyBytes(key) ==
  IF EffectiveShift(key) = ShiftHeld THEN <<key>>
  ELSE IF EffectiveShift(key) THEN <<SHIFT, key, ALLUP>>
  ELSE <<ALLUP, key, SHIFT>>

PressBytes(key) ==
  IF key \in Shifts THEN <<SHIFT>>
  ELSE IF key \in Regular THEN KeyBytes(key)
  ELSE IF key = CAPS THEN <<>>
  ELSE <<key>>

Toggle(key) ==
  /\ key \in Toggles
  /\ caps_on' = (caps_on # (key = CAPS))
  /\ ruslat_on' = (ruslat_on # (key = RUSLAT))
  /\ Send(PressBytes(key))
  /\ UNCHANGED <<heldVars, repeatVars, repeat_enabled, cmd_pending>>

HoldKey(key) ==
  /\ held' = held \cup {key}
  /\ held_count' = held_count + 1

PressModifier(key) ==
  /\ key \in Modifiers \ held
  /\ HoldKey(key)
  /\ modifier_in_session' = TRUE
  /\ repeat_key' = NONE
  /\ Send(PressBytes(key))
  /\ UNCHANGED <<key_stack, caps_on, ruslat_on, repeat_enabled, cmd_pending>>

PressRegular(key) ==
  /\ key \in Regular \ held
  /\ HoldKey(key)
  /\ Send(PressBytes(key))
  /\ repeat_key' = IF key \in NoRepeat THEN NONE ELSE key
  /\ key_stack' = IF key \notin NoRepeat /\ Len(key_stack) < StackDepth
                    THEN Append(key_stack, key) ELSE key_stack
  /\ UNCHANGED <<modifier_in_session, caps_on, ruslat_on, repeat_enabled, cmd_pending>>

Press(key) == Toggle(key) \/ PressModifier(key) \/ PressRegular(key)

Unstacked_Keeps(key) == key_stack                                                 \* mutant

(* The stack without key: what is above its first entry moves down.         *)
Stacked(key) == \E i \in 1..Len(key_stack) : key_stack[i] = key
First(key) == CHOOSE i \in 1..Len(key_stack) :
                key_stack[i] = key /\ \A j \in 1..i - 1 : key_stack[j] # key
Unstacked(key) ==
  IF Stacked(key)
    THEN [j \in 1..Len(key_stack) - 1 |->
            IF j < First(key) THEN key_stack[j] ELSE key_stack[j + 1]]
    ELSE key_stack

(* ALL-UP follows the last key up, if a modifier was down in the session.   *)
ReleaseBytes_ModifierLast(key) ==                                                 \* mutant
  IF held_count = 1 /\ key \in Modifiers THEN <<ALLUP>> ELSE <<>>
ReleaseBytes(key) ==
  IF held_count = 1 /\ modifier_in_session THEN <<ALLUP>> ELSE <<>>

Release(key) ==
  /\ key \in held
  /\ held' = held \ {key}
  /\ held_count' = held_count - 1
  /\ key_stack' = Unstacked(key)
  /\ repeat_key' = IF repeat_key # key THEN repeat_key
                   ELSE IF Unstacked(key) = <<>> THEN NONE
                   ELSE Unstacked(key)[Len(Unstacked(key))]
  /\ modifier_in_session' = (modifier_in_session /\ held_count # 1)
  /\ Send(ReleaseBytes(key))
  /\ UNCHANGED <<caps_on, ruslat_on, repeat_enabled, cmd_pending>>

(* ms7004_release_all                                                       *)
ReleaseAllBytes == IF held # {} /\ modifier_in_session THEN <<ALLUP>> ELSE <<>>
ReleaseAll ==
  /\ held' = {} /\ held_count' = 0 /\ modifier_in_session' = FALSE
  /\ repeat_key' = NONE /\ key_stack' = <<>>
  /\ Send(ReleaseAllBytes)
  /\ UNCHANGED <<caps_on, ruslat_on, repeat_enabled, cmd_pending>>

(* ms7004_tick with a repeat due                                            *)
Repeat ==
  LET held_still == repeat_key \in held IN
  /\ repeat_enabled /\ repeat_key # NONE
  /\ Send(IF held_still THEN <<repeat_key>> ELSE <<>>)
  /\ repeat_key' = IF held_still THEN repeat_key ELSE NONE
  /\ UNCHANGED <<heldVars, caps_on, ruslat_on, key_stack, repeat_enabled, cmd_pending>>

-----------------------------------------------------------------------------
(* A byte from the machine (kbd_write, the data register; ms7004_host_byte) *)

PROBE == 171
POWER_UP == 253   \* 253, 375 in octal
RepeatOn == {144, 227}
RepeatOff == {225, 217}
LedCodes == {17, 19}                 \* 021, 023: a mask may follow
VolumeCodes == {35, 27}              \* 043, 033: a volume follows
PrefixCodes == LedCodes \cup VolumeCodes
LedMasks == 128..143

(* cmd_second_byte: whether the pending prefix takes b with it.             *)
Second(b) == \/ cmd_pending \in VolumeCodes
             \/ cmd_pending \in LedCodes /\ b \in LedMasks

IdBytes == <<ONE, ZERO>>
PowerUpBytes == <<ONE, ZERO, ZERO, ZERO>>

HostByte(b) ==
  /\ \/ /\ Second(b)
        /\ cmd_pending' = 0
        /\ NoAnswer
        /\ UNCHANGED repeat_enabled
     \/ /\ ~Second(b)
        /\ cmd_pending' = IF b \in PrefixCodes THEN b ELSE 0
        /\ repeat_enabled' = CASE b \in RepeatOn -> TRUE
                               [] b \in RepeatOff \cup {POWER_UP} -> FALSE
                               [] OTHER -> repeat_enabled
        /\ CASE b = PROBE -> Answer(IdBytes)
             [] b = POWER_UP -> Answer(PowerUpBytes)
             [] OTHER -> NoAnswer
  /\ UNCHANGED <<heldVars, caps_on, ruslat_on, repeatVars>>

(* A saved state is loaded into an emulator at any point of its own run     *)
(* (read_kbd, read_ms7004): all is as it was saved but the wire's delay and *)
(* the session's modifier, which are not in the file and stay what they     *)
(* were there.                                                              *)
LoadState(delay, session) ==
  /\ rx_delay' = delay
  /\ modifier_in_session' = session
  /\ UNCHANGED <<fifo, rx_ready, rx_data, async, rxen, rxrdy, irq>>
  /\ UNCHANGED <<held, held_count, caps_on, ruslat_on, repeatVars, repeat_enabled, cmd_pending>>

Next ==
  \/ \E key \in HeldKeys \cup Toggles : Press(key)
  \/ \E key \in HeldKeys : Release(key)
  \/ ReleaseAll
  \/ Repeat
  \/ \E b \in HostBytes : HostByte(b)
  \/ /\ (\E c \in Control : Program(c)) \/ ReadByte \/ UartTick
     /\ UNCHANGED keyboardVars
  \/ \E delay \in 0..ByteTicks, session \in BOOLEAN : LoadState(delay, session)
  \/ Reset

Spec == Init /\ [][Next]_vars

-----------------------------------------------------------------------------
(* Properties *)

LineOK ==
  /\ fifo \in Seq(Bytes) /\ Len(fifo) <= Capacity
  /\ rx_ready \in BOOLEAN /\ rx_data \in Bytes /\ rx_delay \in 0..ByteTicks
  /\ async \in BOOLEAN /\ rxen \in BOOLEAN /\ rxrdy \in BOOLEAN /\ irq \in BOOLEAN

KeyboardOK ==
  /\ held \subseteq HeldKeys /\ held_count \in Nat
  /\ caps_on \in BOOLEAN /\ ruslat_on \in BOOLEAN /\ modifier_in_session \in BOOLEAN
  /\ repeat_key \in Regular \cup {NONE}
  /\ key_stack \in Seq(Regular) /\ Len(key_stack) <= StackDepth
  /\ repeat_enabled \in BOOLEAN /\ cmd_pending \in PrefixCodes \cup {0}

(* The interrupt line, the status bit and the byte never disagree, whatever *)
(* the order of control writes, flushes and reads: a guest that polls and   *)
(* one that waits for the interrupt see the same bytes.                     *)
LineSignalsAgree == rxrdy = rx_ready /\ irq = (rx_ready /\ rxen)

(* What the keyboard counts is what is held: held_count is the keys down,   *)
(* and the key that repeats and those it falls back to are down, each in    *)
(* the stack once - a key let go never goes on typing.                      *)
HeldKeysAgree ==
  /\ held_count = Cardinality(held)
  /\ repeat_key # NONE => repeat_key \in held
  /\ \A i \in 1..Len(key_stack) :
       key_stack[i] \in held /\ \A j \in 1..i - 1 : key_stack[j] # key_stack[i]
=============================================================================
