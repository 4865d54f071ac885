-------------------------------- MODULE Typist --------------------------------
(***************************************************************************)
(* Typist of lib/src/Typist.cpp: characters of the host, typed on the       *)
(* machine's keyboard a tap at a time, one call of pump a frame.  The       *)
(* system that reads the keys has one of two alphabets, which the RUS/LAT   *)
(* key flips; the Typist is not told which, and keeps its own account.      *)
(* Which key a character has (koi8CyrillicToKey, asciiToKey, kLetters) is   *)
(* a constant.  Nothing else flips the system's alphabet here: no reset, no *)
(* other user of the keyboard, no RUS/LAT through type(Key), which no       *)
(* caller passes (StdioBridge.cpp:53-67, HostKeys.cpp:45-48).               *)
(***************************************************************************)
EXTENDS Naturals, Sequences

CONSTANTS
  Byte, LF, CR,          \* the KOI-8R bytes
  Cyrillic, Latin,       \* letters; Latin has the control codes, typed with Ctrl
  Common,                \* characters whose key gives them in both alphabets
  Key, NoKey,            \* the keyboard's keys but RUS/LAT, and Key::None
  RusLat, ShiftL, Ctrl,
  KeyOf,                 \* a byte's key, and the modifiers with it; NoKey where there is none
  Reads(_, _, _)         \* what the system reads of a key with modifiers in an alphabet

VARIABLES
  queue, rus,            \* queue_, rus_: the alphabet as the taps will leave it
  phase, frames, held,   \* phase_, frames_, held_
  down,                  \* the keys of the keyboard that are down
  guest                  \* the system's alphabet

vars == <<queue, rus, phase, frames, held, down, guest>>

kHoldFrames == 1
kGapFrames == 4

Alphabets == {"lat", "rus"}
Flipped(alphabet) == IF alphabet = "lat" THEN "rus" ELSE "lat"

(* A tap, what it was queued for, and the Typist's alphabet at that time;   *)
(* the last two are of the model, for what is said of the taps.             *)
Tap(k, meant, alphabet) == [key |-> k.key, with |-> k.with, meant |-> meant, at |-> alphabet]
Bare(key) == [key |-> key, with |-> {}]

Init ==
  /\ queue = <<>> /\ rus = "lat"
  /\ phase = "idle" /\ frames = 0 /\ held = Tap(Bare(NoKey), NoKey, "lat")
  /\ down = {} /\ guest = "lat"

-----------------------------------------------------------------------------
(* A letter of one alphabet, after the key that brings it where needed.     *)
Switched(alphabet) ==
  IF rus = alphabet THEN queue ELSE Append(queue, Tap(Bare(RusLat), RusLat, rus))
TypeLetter(c, alphabet) ==
  /\ queue' = Append(Switched(alphabet), Tap(KeyOf[c], c, alphabet))
  /\ rus' = alphabet

Type(b) ==
  LET c == IF b = LF THEN CR ELSE b
  IN /\ \/ c \in Cyrillic /\ TypeLetter(c, "rus")
        \/ c \in Latin /\ TypeLetter(c, "lat")
        \/ /\ c \notin Cyrillic \cup Latin
           /\ queue' = IF KeyOf[c].key = NoKey THEN queue ELSE Append(queue, Tap(KeyOf[c], c, rus))
           /\ UNCHANGED rus
     /\ UNCHANGED <<phase, frames, held, down, guest>>

TypeKey(key) ==
  /\ queue' = IF key = NoKey THEN queue ELSE Append(queue, Tap(Bare(key), NoKey, rus))
  /\ UNCHANGED <<rus, phase, frames, held, down, guest>>

Pending == Len(queue) + (IF phase = "idle" THEN 0 ELSE 1)

-----------------------------------------------------------------------------
(* The keys of a tap, and what the system makes of it.                      *)
KeysOf(tap) == {tap.key} \cup tap.with
ReadIn(tap, alphabet) == Reads(tap.key, tap.with, alphabet)

(* pump, with time left to wait; at the end of a hold; and with the gap     *)
(* over, which goes on to the next tap.                                     *)
Wait ==
  /\ phase # "idle" /\ frames > 1
  /\ frames' = frames - 1
  /\ UNCHANGED <<queue, rus, phase, held, down, guest>>

LetGo ==
  /\ phase = "holding" /\ frames <= 1
  /\ down' = down \ KeysOf(held)
  /\ phase' = "cooldown" /\ frames' = kGapFrames
  /\ UNCHANGED <<queue, rus, held, guest>>

Press ==
  /\ phase = "idle" \/ (phase = "cooldown" /\ frames <= 1)
  /\ queue # <<>>
  /\ held' = Head(queue) /\ queue' = Tail(queue)
  /\ down' = down \cup KeysOf(Head(queue))
  /\ guest' = IF Head(queue).key = RusLat THEN Flipped(guest) ELSE guest
  /\ phase' = "holding" /\ frames' = kHoldFrames
  /\ UNCHANGED rus

Rest ==
  /\ phase = "cooldown" /\ frames <= 1
  /\ queue = <<>>
  /\ phase' = "idle" /\ frames' = 0
  /\ UNCHANGED <<queue, rus, held, down, guest>>

Next ==
  \/ \E b \in Byte : Type(b)
  \/ \E key \in Key : TypeKey(key)
  \/ Wait \/ LetGo \/ Press \/ Rest

Spec == Init /\ [][Next]_vars

-----------------------------------------------------------------------------
(* What the code takes of the tables.  Common has the digits and most of    *)
(* the rest, but not                                                        *)
(*   [ ] \ @ ^ _                                                            *)
(* whose keys are letters in the Russian alphabet (see kCyrillic), though   *)
(* the comment of Typist.cpp:206 counts them in.                            *)
TablesAgree ==
  /\ CR \in Byte /\ Cyrillic \cup Latin \cup Common \subseteq Byte
  /\ Cyrillic \cap Latin = {} /\ Common \cap (Cyrillic \cup Latin) = {}
  /\ NoKey \notin Byte /\ RusLat \notin Byte
  /\ NoKey \in Key /\ RusLat \notin Key
  /\ KeyOf \in [Byte -> [key : Key, with : SUBSET {ShiftL, Ctrl}]]
  /\ \A c \in Cyrillic : ReadIn(KeyOf[c], "rus") = c
  /\ \A c \in Latin : ReadIn(KeyOf[c], "lat") = c
  /\ \A c \in Common, alphabet \in Alphabets : ReadIn(KeyOf[c], alphabet) = c

(* A character that is pressed is read as that character, in the alphabet   *)
(* the system has by then, however the taps before it were queued and       *)
(* however far the pumping is behind the typing.                            *)
ReadAsMeant ==
  phase = "holding" /\ held.meant \in Cyrillic \cup Latin \cup Common
    => ReadIn(held, guest) = held.meant

(* With nothing pending, which is when the program runner ends at the end   *)
(* of its input (tools/run/src/main.cpp:98), no key is left down and the    *)
(* Typist's account of the alphabet is the system's.                        *)
NothingLeftDown == Pending = 0 => down = {} /\ rus = guest

(* Two taps never overlap: keys go down only when all are up.               *)
OneTapAtATime == [][down # {} => down' \subseteq down]_vars
=============================================================================
