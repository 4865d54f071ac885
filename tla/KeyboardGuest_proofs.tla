------------------------ MODULE KeyboardGuest_proofs ------------------------
(***************************************************************************)
(* The keyboard of MS7004 under every use of it, and the guest of           *)
(* KeyboardGuest, which is one such use: what is proved of every guest      *)
(* holds of it, and to it the FIFO, the wire and the receiver are the one   *)
(* line of module Line, for every capacity that holds an answer, every wire *)
(* time, all keys and commands.                                             *)
(***************************************************************************)
EXTENDS KeyboardGuest, FiniteSetTheorems, SequenceTheorems, TLAPS

(***************************************************************************)
(* The keyboard.  For every set of keys, every capacity of the FIFO and     *)
(* depth of the repeat stack, every command the machine may send and any    *)
(* use of the USART's registers: it counts what is held and repeats nothing *)
(* that is not, and the receiver's three signals agree.                     *)
(*                                                                          *)
(* Both need the types, and nothing else; for the stack of held keys the    *)
(* one lemma is that taking a key out of it leaves the others, in order.    *)
(***************************************************************************)

USE UartAssumption, MS7004Assumption
    DEF NONE, SHIFT, ALLUP, ZERO, ONE, CTRL, CAPS, RUSLAT, SHIFT_L, SHIFT_R,
        Shifts, Modifiers, Toggles, Regular, HeldKeys

-----------------------------------------------------------------------------
(* The line *)

LEMMA EmptySequence == ASSUME NEW S, NEW s, s = <<>> PROVE s \in Seq(S) /\ Len(s) = 0
OBVIOUS

(* The FIFO stays within its capacity, whatever is pushed.                  *)
LEMMA SendKeepsLine ==
  ASSUME LineOK, NEW bs \in Seq(Bytes), Send(bs)
  PROVE  LineOK'
<1> DEFINE n == Fits(fifo, bs)
<1>1. n \in 0..Len(bs) /\ Len(fifo) + n <= Capacity
  BY DEF LineOK, Fits
<1>2. SubSeq(bs, 1, n) \in Seq(Bytes) /\ Len(SubSeq(bs, 1, n)) = n
  BY <1>1
<1>3. fifo' = fifo \o SubSeq(bs, 1, n)
  BY DEF Send
<1>4. fifo' \in Seq(Bytes) /\ Len(fifo') <= Capacity
  BY <1>1, <1>2, <1>3 DEF LineOK
<1>5. rx_delay' \in 0..ByteTicks
  BY DEF Send, LineOK
<1> QED
  BY <1>4, <1>5 DEF Send, LineOK

LEMMA AnswerKeepsLine ==
  ASSUME LineOK, NEW bs \in Seq(Bytes), Answer(bs)
  PROVE  LineOK'
<1> DEFINE n == Fits(<<>>, bs)
<1>1. n \in 0..Len(bs) /\ n <= Capacity
  BY DEF LineOK, Fits
<1>2. SubSeq(bs, 1, n) \in Seq(Bytes) /\ Len(SubSeq(bs, 1, n)) = n
  BY <1>1
<1>3. fifo' \in Seq(Bytes) /\ Len(fifo') <= Capacity
  BY <1>1, <1>2 DEF Answer
<1>4. rx_delay' \in 0..ByteTicks
  BY DEF Answer, LineOK
<1> QED
  BY <1>3, <1>4 DEF Answer, LineOK, UpdateStatus

LEMMA TickKeepsLine == ASSUME LineOK, UartTick PROVE LineOK'
<1>1. CASE Arrived
  <2>1. fifo \in Seq(Bytes) /\ fifo # <<>> /\ Len(fifo) \in Nat
    BY <1>1 DEF LineOK, Arrived
  <2>2. Head(fifo) \in Bytes /\ Tail(fifo) \in Seq(Bytes) /\ Len(Tail(fifo)) <= Len(fifo)
    BY <2>1
  <2> QED
    BY <1>1, <2>2 DEF LineOK, UartTick, UpdateStatus
<1>2. CASE ~Arrived
  BY <1>2 DEF LineOK, UartTick, UpdateStatus
<1> QED
  BY <1>1, <1>2

(* What the keyboard sends is bytes.                                        *)
LEMMA ByteNames ==
  /\ {SHIFT, ALLUP, ZERO, ONE, CTRL, RUSLAT} \subseteq Bytes
  /\ Regular \subseteq Bytes
BY DEF Bytes

LEMMA TupleOfBytes ==
  ASSUME NEW a \in Bytes, NEW b \in Bytes, NEW c \in Bytes, NEW d \in Bytes
  PROVE  /\ <<>> \in Seq(Bytes) /\ <<a>> \in Seq(Bytes)
         /\ <<a, b>> \in Seq(Bytes) /\ <<a, b, c>> \in Seq(Bytes)
         /\ <<a, b, c, d>> \in Seq(Bytes)
OBVIOUS

LEMMA SentBytes ==
  /\ \A key \in HeldKeys \cup Toggles : PressBytes(key) \in Seq(Bytes)
  /\ \A key \in HeldKeys : ReleaseBytes(key) \in Seq(Bytes)
  /\ ReleaseAllBytes \in Seq(Bytes)
  /\ IdBytes \in Seq(Bytes) /\ PowerUpBytes \in Seq(Bytes)
<1>1. ASSUME NEW key \in HeldKeys \cup Toggles PROVE PressBytes(key) \in Seq(Bytes)
  <2>1. CASE key \in Regular
    <3>1. /\ <<key>> \in Seq(Bytes) /\ <<SHIFT, key, ALLUP>> \in Seq(Bytes)
          /\ <<ALLUP, key, SHIFT>> \in Seq(Bytes)
      BY <2>1, ByteNames, TupleOfBytes
    <3>2. PressBytes(key) = KeyBytes(key)
      BY <2>1 DEF PressBytes
    <3> QED
      BY <3>1, <3>2 DEF KeyBytes
  <2>2. CASE key \notin Regular
    <3>1. <<>> \in Seq(Bytes) /\ <<SHIFT>> \in Seq(Bytes)
          /\ <<CTRL>> \in Seq(Bytes) /\ <<RUSLAT>> \in Seq(Bytes)
      BY ByteNames, TupleOfBytes
    <3>2. PressBytes(key) \in {<<>>, <<SHIFT>>, <<CTRL>>, <<RUSLAT>>}
      BY <2>2 DEF PressBytes
    <3> QED
      BY <3>1, <3>2
  <2> QED
    BY <2>1, <2>2
<1>2. <<>> \in Seq(Bytes) /\ <<ALLUP>> \in Seq(Bytes)
  BY ByteNames, TupleOfBytes
<1>3. \A key \in HeldKeys : ReleaseBytes(key) \in Seq(Bytes)
  BY <1>2 DEF ReleaseBytes
<1>4. ReleaseAllBytes \in Seq(Bytes)
  BY <1>2 DEF ReleaseAllBytes
<1>5. IdBytes \in Seq(Bytes) /\ PowerUpBytes \in Seq(Bytes)
  BY ByteNames, TupleOfBytes DEF IdBytes, PowerUpBytes
<1> QED
  BY <1>1, <1>3, <1>4, <1>5

-----------------------------------------------------------------------------
(* The repeat stack *)

(* Taking a key out of a stack whose entries differ leaves a stack of the   *)
(* others, each once.                                                       *)
LEMMA UnstackedOthers ==
  ASSUME KeyboardOK, HeldKeysAgree, NEW key
  PROVE  /\ Unstacked(key) \in Seq(Regular) /\ Len(Unstacked(key)) <= Len(key_stack)
         /\ \A i \in 1..Len(Unstacked(key)) :
              /\ Unstacked(key)[i] \in held \ {key}
              /\ \A j \in 1..i - 1 : Unstacked(key)[j] # Unstacked(key)[i]
<1> DEFINE n == Len(key_stack)
           u == Unstacked(key)
<1>1. /\ key_stack \in Seq(Regular) /\ n \in Nat
      /\ \A i \in 1..n : key_stack[i] \in held
      /\ \A i, j \in 1..n : i # j => key_stack[i] # key_stack[j]
  BY DEF KeyboardOK, HeldKeysAgree
<1>2. CASE ~Stacked(key)
  BY <1>1, <1>2 DEF Stacked, Unstacked
<1>3. CASE Stacked(key)
  <2>1. PICK f \in 1..n : key_stack[f] = key
    BY <1>3 DEF Stacked
  <2>2. \A j \in 1..f - 1 : key_stack[j] # key
    BY <1>1, <2>1
  <2>3. First(key) \in 1..n /\ key_stack[First(key)] = key
    BY <2>1, <2>2 DEF First
  <2> DEFINE g == First(key)
             at(j) == IF j < g THEN j ELSE j + 1
  <2> HIDE DEF g
  <2>4. u = [j \in 1..n - 1 |-> IF j < g THEN key_stack[j] ELSE key_stack[j + 1]]
    BY <1>3 DEF Unstacked, g
  <2>5. \A j \in 1..n - 1 : at(j) \in 1..n /\ at(j) # g /\ u[j] = key_stack[at(j)]
    BY <1>1, <2>3, <2>4 DEF g
  <2>6. \A j \in 1..n - 1 : u[j] \in Regular
    BY <1>1, <2>5
  <2>7. u \in [1..n - 1 -> Regular] /\ n - 1 \in Nat
    BY <1>1, <2>3, <2>4, <2>6
  <2>8. u \in Seq(Regular) /\ Len(u) = n - 1
    BY <2>7
  <2>9. \A i \in 1..n - 1 : u[i] \in held \ {key}
    BY <1>1, <2>3, <2>5 DEF g
  <2>10. \A i, j \in 1..n - 1 : i # j => at(i) # at(j)
    BY <1>1, <2>3 DEF g
  <2>11. \A i, j \in 1..n - 1 : i # j => u[i] # u[j]
    BY <1>1, <2>5, <2>10
  <2> QED
    BY <1>1, <2>8, <2>9, <2>11
<1> QED
  BY <1>2, <1>3

LEMMA AppendRegular ==
  ASSUME NEW s \in Seq(Regular), NEW k \in Regular
  PROVE  /\ Append(s, k) \in Seq(Regular) /\ Len(Append(s, k)) = Len(s) + 1
         /\ \A i \in 1..Len(s) : Append(s, k)[i] = s[i]
         /\ Append(s, k)[Len(s) + 1] = k
OBVIOUS

-----------------------------------------------------------------------------
(* The invariant *)

IInv == LineOK /\ KeyboardOK /\ IsFiniteSet(held) /\ HeldKeysAgree /\ LineSignalsAgree
KeysAgree == KeyboardOK /\ IsFiniteSet(held) /\ HeldKeysAgree

LEMMA InitInv == ASSUME Init PROVE IInv
<1>1. IsFiniteSet({}) /\ Cardinality({}) = 0
  BY FS_EmptySet
<1>2. fifo \in Seq(Bytes) /\ Len(fifo) = 0 /\ key_stack \in Seq(Regular) /\ Len(key_stack) = 0
  BY EmptySequence DEF Init, UartInit, KeyboardInit
<1>3. LineOK
  <2>1. Len(fifo) <= Capacity
    BY <1>2
  <2>2. rx_data \in Bytes
    BY ByteNames DEF Init, UartInit
  <2>3. rx_delay \in 0..ByteTicks
    BY DEF Init, UartInit
  <2>4. /\ rx_ready \in BOOLEAN
        /\ async \in BOOLEAN /\ rxen \in BOOLEAN /\ rxrdy \in BOOLEAN /\ irq \in BOOLEAN
    BY DEF Init, UartInit
  <2> QED
    BY <1>2, <2>1, <2>2, <2>3, <2>4 DEF LineOK
<1>4. LineSignalsAgree
  BY DEF Init, UartInit, LineSignalsAgree
<1>5. KeyboardOK
  <2>1. held \subseteq HeldKeys /\ repeat_key \in Regular \cup {NONE}
    BY DEF Init, KeyboardInit
  <2>2. held_count \in Nat /\ cmd_pending \in PrefixCodes \cup {0}
    BY DEF Init, KeyboardInit
  <2>3. /\ caps_on \in BOOLEAN /\ ruslat_on \in BOOLEAN
        /\ modifier_in_session \in BOOLEAN /\ repeat_enabled \in BOOLEAN
    BY DEF Init, KeyboardInit
  <2>4. Len(key_stack) <= StackDepth
    BY <1>2
  <2> QED
    BY <1>2, <2>1, <2>2, <2>3, <2>4 DEF KeyboardOK
<1>6. HeldKeysAgree
  BY <1>1, <1>2 DEF Init, KeyboardInit, HeldKeysAgree
<1>7. IsFiniteSet(held)
  BY <1>1 DEF Init, KeyboardInit
<1> QED
  BY <1>3, <1>4, <1>5, <1>6, <1>7 DEF IInv

(* One more key down.                                                       *)
LEMMA HoldCounts ==
  ASSUME KeysAgree, NEW key \in HeldKeys \ held, HoldKey(key)
  PROVE  /\ IsFiniteSet(held') /\ held_count' = Cardinality(held') /\ held_count' \in Nat
         /\ held' \subseteq HeldKeys /\ held \subseteq held' /\ key \in held'
BY FS_AddElement, FS_CardinalityType DEF KeysAgree, KeyboardOK, HeldKeysAgree, HoldKey

LEMMA PressKeepsKeys ==
  ASSUME KeysAgree, NEW key \in HeldKeys \cup Toggles, Press(key)
  PROVE  KeysAgree'
<1>1. CASE Toggle(key)
  BY <1>1 DEF Toggle, KeysAgree, KeyboardOK, HeldKeysAgree, heldVars, repeatVars
<1>2. CASE PressModifier(key)
  <2>1. key \in HeldKeys \ held /\ HoldKey(key)
    BY <1>2 DEF PressModifier
  <2> QED
    BY <1>2, <2>1, HoldCounts, ZenonT(60) DEF PressModifier, KeysAgree, KeyboardOK, HeldKeysAgree
<1>3. CASE PressRegular(key)
  <2>1. key \in HeldKeys \ held /\ key \in Regular /\ HoldKey(key)
    BY <1>3 DEF PressRegular
  <2>2. /\ IsFiniteSet(held') /\ held_count' = Cardinality(held') /\ held_count' \in Nat
        /\ held' \subseteq HeldKeys /\ held \subseteq held' /\ key \in held'
    BY <2>1, HoldCounts
  <2>3. repeat_key' \in Regular \cup {NONE} /\ (repeat_key' # NONE => repeat_key' \in held')
    BY <1>3, <2>2 DEF PressRegular
  <2>4. /\ key_stack' \in Seq(Regular) /\ Len(key_stack') <= StackDepth
        /\ \A i \in 1..Len(key_stack') :
             key_stack'[i] \in held' /\ \A j \in 1..i - 1 : key_stack'[j] # key_stack'[i]
    <3>1. key_stack \in Seq(Regular) /\ Len(key_stack) \in Nat /\ Len(key_stack) <= StackDepth
      BY DEF KeysAgree, KeyboardOK
    <3>2. \A i \in 1..Len(key_stack) :
            key_stack[i] \in held /\ \A j \in 1..i - 1 : key_stack[j] # key_stack[i]
      BY DEF KeysAgree, HeldKeysAgree
    <3>3. CASE key_stack' = key_stack
      BY <2>2, <3>1, <3>2, <3>3, ZenonT(60)
    <3>4. CASE key_stack' = Append(key_stack, key) /\ Len(key_stack) < StackDepth
      <4> DEFINE a == Append(key_stack, key)
      <4>0. /\ a \in Seq(Regular) /\ Len(a) = Len(key_stack) + 1
            /\ \A i \in 1..Len(key_stack) : a[i] = key_stack[i]
            /\ a[Len(key_stack) + 1] = key
        <5> HIDE DEF Regular
        <5> QED
          BY <2>1, <3>1, AppendRegular
      <4>1. /\ Len(key_stack') = Len(key_stack) + 1 /\ key_stack' \in Seq(Regular)
            /\ \A i \in 1..Len(key_stack) : key_stack'[i] = key_stack[i]
            /\ key_stack'[Len(key_stack) + 1] = key
        <5> HIDE DEF a
        <5>1. key_stack' = a
          BY <3>4 DEF a
        <5> QED
          BY <4>0, <5>1
      <4>2. key \notin held
        BY <2>1
      <4>3. Len(key_stack') <= StackDepth
        <5> HIDE DEF a
        <5>1. Len(key_stack) < StackDepth
          BY <3>4
        <5> QED
          BY <3>1, <4>1, <5>1
      <4>4. ASSUME NEW i \in 1..Len(key_stack')
            PROVE  key_stack'[i] \in held' /\ \A j \in 1..i - 1 : key_stack'[j] # key_stack'[i]
        <5>0. i \in Nat /\ i >= 1
          OBVIOUS
        <5>1. CASE i <= Len(key_stack)
          <6>1. i \in 1..Len(key_stack) /\ \A j \in 1..i - 1 : j \in 1..Len(key_stack)
            BY <3>1, <5>0, <5>1
          <6>2. key_stack'[i] = key_stack[i] /\ \A j \in 1..i - 1 : key_stack'[j] = key_stack[j]
            BY <4>1, <6>1
          <6> QED
            BY <2>2, <3>2, <6>1, <6>2, ZenonT(60)
        <5>2. CASE i = Len(key_stack) + 1
          BY <2>2, <3>1, <3>2, <4>1, <4>2, <5>2
        <5> QED
          BY <3>1, <4>1, <5>1, <5>2
      <4> QED
        BY <4>1, <4>3, <4>4
    <3> QED
      BY <1>3, <3>3, <3>4 DEF PressRegular
  <2>5. UNCHANGED <<modifier_in_session, caps_on, ruslat_on, repeat_enabled, cmd_pending>>
    BY <1>3 DEF PressRegular
  <2> QED
    BY <2>2, <2>3, <2>4, <2>5 DEF KeysAgree, KeyboardOK, HeldKeysAgree
<1> QED
  BY <1>1, <1>2, <1>3 DEF Press

LEMMA ReleaseKeepsKeys ==
  ASSUME KeysAgree, NEW key \in HeldKeys, Release(key)
  PROVE  KeysAgree'
<1> DEFINE u == Unstacked(key)
<1>1. KeyboardOK /\ HeldKeysAgree /\ IsFiniteSet(held) /\ key \in held
  BY DEF KeysAgree, Release
<1>2. /\ u \in Seq(Regular) /\ Len(u) <= Len(key_stack) /\ Len(u) \in Nat
      /\ \A i \in 1..Len(u) : u[i] \in held \ {key} /\ \A j \in 1..i - 1 : u[j] # u[i]
  BY <1>1, UnstackedOthers
<1>3. held' = held \ {key} /\ held_count' = held_count - 1 /\ key_stack' = u
  BY DEF Release
<1>4. /\ IsFiniteSet(held') /\ Cardinality(held') = Cardinality(held) - 1
      /\ Cardinality(held') \in Nat
  BY <1>1, <1>3, FS_RemoveElement, FS_CardinalityType
<1>5. held_count' \in Nat /\ held_count' = Cardinality(held')
  BY <1>1, <1>3, <1>4 DEF HeldKeysAgree
<1>6. repeat_key' \in Regular \cup {NONE} /\ (repeat_key' # NONE => repeat_key' \in held')
  <2> HIDE DEF u
  <2>1. repeat_key' = IF repeat_key # key THEN repeat_key ELSE IF u = <<>> THEN NONE ELSE u[Len(u)]
    BY DEF Release, u
  <2>2. CASE repeat_key # key
    BY <1>1, <1>3, <2>1, <2>2 DEF KeyboardOK, HeldKeysAgree
  <2>3. CASE u # <<>>
    <3>1. Len(u) \in 1..Len(u)
      BY <1>2, <2>3
    <3>2. u[Len(u)] \in Regular /\ u[Len(u)] \in held \ {key}
      BY <1>2, <3>1
    <3> QED
      BY <1>3, <2>1, <2>2, <2>3, <3>2
  <2> QED
    BY <2>1, <2>2, <2>3
<1>7. Len(key_stack') <= StackDepth
  BY <1>1, <1>2, <1>3 DEF KeyboardOK
<1>8. /\ modifier_in_session' \in BOOLEAN
      /\ UNCHANGED <<caps_on, ruslat_on, repeat_enabled, cmd_pending>>
  BY DEF Release
<1>9. KeyboardOK'
  BY <1>1, <1>2, <1>3, <1>5, <1>6, <1>7, <1>8 DEF KeyboardOK
<1>10. HeldKeysAgree'
  BY <1>2, <1>3, <1>5, <1>6 DEF HeldKeysAgree
<1> QED
  BY <1>4, <1>9, <1>10 DEF KeysAgree

(* With no key held and nothing to repeat, everything agrees.               *)
LEMMA NoneHeldAgree ==
  ASSUME held' = {}, held_count' = 0, repeat_key' = NONE,
         key_stack' \in Seq(Regular), Len(key_stack') = 0,
         caps_on' \in BOOLEAN, ruslat_on' \in BOOLEAN, modifier_in_session' \in BOOLEAN,
         repeat_enabled' \in BOOLEAN, cmd_pending' \in PrefixCodes \cup {0}
  PROVE  KeysAgree'
<1>1. IsFiniteSet({}) /\ Cardinality({}) = 0
  BY FS_EmptySet
<1>2. held' \subseteq HeldKeys /\ repeat_key' \in Regular \cup {NONE}
  OBVIOUS
<1>3. held_count' \in Nat /\ Len(key_stack') <= StackDepth
  OBVIOUS
<1>4. KeyboardOK'
  <2> HIDE DEF Regular, HeldKeys, NONE
  <2> QED
    BY <1>2, <1>3 DEF KeyboardOK
<1>5. held_count' = Cardinality(held')
  BY <1>1
<1>6. \A i \in 1..Len(key_stack') :
        key_stack'[i] \in held' /\ \A j \in 1..i - 1 : key_stack'[j] # key_stack'[i]
  <2>1. 1..Len(key_stack') = {}
    OBVIOUS
  <2> QED
    BY <2>1
<1>7. HeldKeysAgree'
  BY <1>5, <1>6 DEF HeldKeysAgree
<1>8. IsFiniteSet(held')
  BY <1>1
<1> QED
  BY <1>4, <1>7, <1>8 DEF KeysAgree

(* The keys after every other step.                                         *)
LEMMA OthersKeepKeys ==
  ASSUME KeysAgree,
         \/ ReleaseAll \/ Repeat \/ (\E b \in HostBytes : HostByte(b)) \/ KeyboardReset
         \/ UNCHANGED keyboardVars
  PROVE  KeysAgree'
<1>1. /\ IsFiniteSet({}) /\ Cardinality({}) = 0
      /\ key_stack' = <<>> => key_stack' \in Seq(Regular) /\ Len(key_stack') = 0
  BY FS_EmptySet, EmptySequence
<1>2. CASE ReleaseAll
  <2>1. /\ held' = {} /\ held_count' = 0 /\ modifier_in_session' \in BOOLEAN
        /\ repeat_key' = NONE /\ UNCHANGED <<caps_on, ruslat_on, repeat_enabled, cmd_pending>>
    BY <1>2 DEF ReleaseAll
  <2>2. key_stack' \in Seq(Regular) /\ Len(key_stack') = 0
    BY <1>1, <1>2 DEF ReleaseAll
  <2>3. /\ caps_on' \in BOOLEAN /\ ruslat_on' \in BOOLEAN /\ repeat_enabled' \in BOOLEAN
        /\ cmd_pending' \in PrefixCodes \cup {0}
    BY <2>1 DEF KeysAgree, KeyboardOK
  <2> QED
    BY <1>1, <2>1, <2>2, <2>3, NoneHeldAgree
<1>3. CASE Repeat
  BY <1>3 DEF Repeat, KeysAgree, KeyboardOK, HeldKeysAgree, heldVars
<1>4. ASSUME NEW b \in HostBytes, HostByte(b) PROVE KeysAgree'
  <2>1. cmd_pending' \in PrefixCodes \cup {0} /\ repeat_enabled' \in BOOLEAN
    BY <1>4 DEF HostByte, KeysAgree, KeyboardOK
  <2> QED
    BY <1>4, <2>1 DEF HostByte, KeysAgree, KeyboardOK, HeldKeysAgree, heldVars, repeatVars
<1>5. CASE KeyboardReset
  <2>1. /\ held' = {} /\ held_count' = 0 /\ modifier_in_session' = FALSE /\ repeat_key' = NONE
        /\ caps_on' = FALSE /\ ruslat_on' = FALSE /\ repeat_enabled' = TRUE /\ cmd_pending' = 0
    BY <1>5 DEF KeyboardReset
  <2>2. key_stack' \in Seq(Regular) /\ Len(key_stack') = 0
    BY <1>1, <1>5 DEF KeyboardReset
  <2>3. held' = {} /\ held_count' = 0 /\ repeat_key' = NONE
    BY <2>1
  <2>4. /\ caps_on' \in BOOLEAN /\ ruslat_on' \in BOOLEAN
        /\ modifier_in_session' \in BOOLEAN /\ repeat_enabled' \in BOOLEAN
    BY <2>1
  <2>5. cmd_pending' \in PrefixCodes \cup {0}
    BY <2>1
  <2> QED
    BY <1>1, <2>2, <2>3, <2>4, <2>5, NoneHeldAgree
<1>6. CASE UNCHANGED keyboardVars
  BY <1>6 DEF keyboardVars, heldVars, repeatVars, KeysAgree, KeyboardOK, HeldKeysAgree
<1> QED
  BY <1>2, <1>3, <1>4, <1>5, <1>6

(* The line and its signals after a step that sends, answers or does        *)
(* neither.                                                                 *)
SignalsAgree == LineOK /\ LineSignalsAgree

LEMMA SendKeepsSignals ==
  ASSUME SignalsAgree, NEW bs \in Seq(Bytes), Send(bs) PROVE SignalsAgree'
BY SendKeepsLine DEF SignalsAgree, LineSignalsAgree, Send

LEMMA KeysKeepSignals ==
  ASSUME SignalsAgree, KeyboardOK,
         \/ \E key \in HeldKeys \cup Toggles : Press(key)
         \/ \E key \in HeldKeys : Release(key)
         \/ ReleaseAll \/ Repeat
  PROVE  SignalsAgree'
<1>1. ASSUME NEW key \in HeldKeys \cup Toggles, Press(key) PROVE SignalsAgree'
  <2>1. Send(PressBytes(key))
    BY <1>1 DEF Press, Toggle, PressModifier, PressRegular
  <2> QED
    BY <2>1, SentBytes, SendKeepsSignals
<1>2. ASSUME NEW key \in HeldKeys, Release(key) PROVE SignalsAgree'
  BY <1>2, SentBytes, SendKeepsSignals DEF Release
<1>3. CASE ReleaseAll
  BY <1>3, SentBytes, SendKeepsSignals DEF ReleaseAll
<1>4. CASE Repeat
  <2>1. repeat_key \in Regular
    BY <1>4 DEF Repeat, KeyboardOK
  <2>2. <<repeat_key>> \in Seq(Bytes) /\ <<>> \in Seq(Bytes)
    BY <2>1, ByteNames, TupleOfBytes
  <2>3. Send(<<repeat_key>>) \/ Send(<<>>)
    BY <1>4 DEF Repeat
  <2> QED
    BY <2>2, <2>3, SendKeepsSignals
<1> QED
  BY <1>1, <1>2, <1>3, <1>4

LEMMA HostKeepsSignals ==
  ASSUME SignalsAgree, NEW b \in HostBytes, HostByte(b) PROVE SignalsAgree'
<1>1. NoAnswer \/ Answer(IdBytes) \/ Answer(PowerUpBytes)
  BY DEF HostByte
<1>2. ASSUME NEW bs \in Seq(Bytes), Answer(bs) PROVE SignalsAgree'
  BY <1>2, AnswerKeepsLine DEF SignalsAgree, LineSignalsAgree, Answer, UpdateStatus
<1>3. CASE NoAnswer
  BY <1>3 DEF SignalsAgree, LineSignalsAgree, LineOK, NoAnswer, UpdateStatus
<1> QED
  BY <1>1, <1>2, <1>3, SentBytes

LEMMA RegistersKeepSignals ==
  ASSUME SignalsAgree,
         (\E c \in Control : Program(c)) \/ ReadByte \/ UartTick \/ UartReset
         \/ UNCHANGED uartVars
  PROVE  SignalsAgree'
<1>1. ASSUME NEW c \in Control, Program(c) PROVE SignalsAgree'
  <2>1. c.baud \in BOOLEAN /\ c.rxen \in BOOLEAN
    BY DEF Control
  <2>2. CASE WriteMode(c)
    BY <2>1, <2>2 DEF WriteMode, SignalsAgree, LineSignalsAgree, LineOK
  <2>3. CASE WriteControl(c)
    BY <2>1, <2>3 DEF WriteControl, UpdateStatus, SignalsAgree, LineSignalsAgree, LineOK
  <2>4. CASE InternalReset(c)
    BY <2>4 DEF InternalReset, UpdateStatus, SignalsAgree, LineSignalsAgree, LineOK
  <2> QED
    BY <1>1, <2>2, <2>3, <2>4 DEF Program
<1>2. CASE ReadByte
  BY <1>2 DEF ReadByte, UpdateStatus, SignalsAgree, LineSignalsAgree, LineOK
<1>3. CASE UartTick
  BY <1>3, TickKeepsLine DEF UartTick, UpdateStatus, SignalsAgree, LineSignalsAgree
<1>4. CASE UartReset
  <2>1. fifo' \in Seq(Bytes) /\ Len(fifo') = 0
    BY <1>4, EmptySequence DEF UartReset
  <2>2. Len(fifo') <= Capacity
    BY <2>1
  <2>3. rx_data' \in Bytes
    BY <1>4, ByteNames DEF UartReset
  <2>4. rx_delay' \in 0..ByteTicks
    BY <1>4 DEF UartReset
  <2>5. /\ rx_ready' \in BOOLEAN /\ async' \in BOOLEAN /\ rxen' \in BOOLEAN
        /\ rxrdy' \in BOOLEAN /\ irq' \in BOOLEAN
    BY <1>4 DEF UartReset
  <2>6. LineSignalsAgree'
    BY <1>4 DEF UartReset, LineSignalsAgree
  <2> QED
    BY <2>1, <2>2, <2>3, <2>4, <2>5, <2>6 DEF SignalsAgree, LineOK
<1>5. CASE UNCHANGED uartVars
  BY <1>5 DEF uartVars, SignalsAgree, LineSignalsAgree, LineOK
<1> QED
  BY <1>1, <1>2, <1>3, <1>4, <1>5

(* What a load brings back and what it leaves alone are each of their type, *)
(* and neither is in the signals or among the keys.                         *)
LEMMA LoadKeepsBoth ==
  ASSUME KeysAgree, SignalsAgree,
         NEW delay \in 0..ByteTicks, NEW session \in BOOLEAN, LoadState(delay, session)
  PROVE  KeysAgree' /\ SignalsAgree'
<1>1. KeysAgree'
  BY DEF LoadState, repeatVars, KeysAgree, KeyboardOK, HeldKeysAgree
<1>2. SignalsAgree'
  BY DEF LoadState, SignalsAgree, LineSignalsAgree, LineOK
<1> QED
  BY <1>1, <1>2

LEMMA StepInv == ASSUME IInv, [Next]_vars PROVE IInv'
<1> USE DEF IInv
<1>1. KeysAgree /\ SignalsAgree
  BY DEF KeysAgree, SignalsAgree
<1>2. KeysAgree'
  BY <1>1, PressKeepsKeys, ReleaseKeepsKeys, OthersKeepKeys, LoadKeepsBoth DEF Next, Reset, vars
<1>3. SignalsAgree'
  <2>1. CASE UNCHANGED vars
    BY <1>1, <2>1, RegistersKeepSignals DEF vars
  <2>2. CASE Next
    BY <1>1, <2>2, KeysKeepSignals, HostKeepsSignals, RegistersKeepSignals, LoadKeepsBoth
       DEF Next, Reset
  <2> QED
    BY <2>1, <2>2
<1> QED
  BY <1>2, <1>3 DEF KeysAgree, SignalsAgree

THEOREM KeyboardInv == Spec => []IInv
  BY InitInv, StepInv, PTL DEF Spec

(* The keyboard's count is the keys down, and what repeats or may repeat    *)
(* next is down (ms7004_key, ms7004_tick, ms7004_release_all).              *)
THEOREM HeldKeysAlwaysAgree == Spec => []HeldKeysAgree
  BY KeyboardInv, PTL DEF IInv

(* The interrupt line and the status bit follow the receiver (update_status *)
(* on every path of keyboard.c that changes it).                            *)
THEOREM SignalsAlwaysAgree == Spec => []LineSignalsAgree
  BY KeyboardInv, PTL DEF IInv

(* The FIFO and the repeat stack never overrun their arrays.                *)
THEOREM KeyboardTypes == Spec => [](LineOK /\ KeyboardOK)
  BY KeyboardInv, PTL DEF IInv

-----------------------------------------------------------------------------
(***************************************************************************)
(* The guest.                                                               *)
(***************************************************************************)

USE UartAssumption, MS7004Assumption, GuestAssumption, AnswersFit

(* The boot sequence is six control writes.                                 *)
LEMMA BootWords ==
  /\ Len(BootSequence) = 6
  /\ \A i \in 1..6 : BootSequence[i] \in Control
  BY DEF BootSequence, Control

-----------------------------------------------------------------------------
(* Each step of the guest is a step of the keyboard or changes neither the  *)
(* keyboard nor its line.                                                   *)
LEMMA GuestStep == ASSUME TypeOK, GuestNext PROVE [Next]_vars
<1>1. ASSUME NEW key \in UserKeys, UserPress(key) \/ UserRelease(key) PROVE Next
  <2>1. CASE UserPress(key)
    <3>1. key \in HeldKeys \cup Toggles
      OBVIOUS
    <3> QED
      BY <2>1, <3>1 DEF UserPress, Next
  <2>2. CASE UserRelease(key)
    <3>1. key \in HeldKeys
      BY <2>2 DEF UserRelease, Release, TypeOK, KeyboardOK
    <3> QED
      BY <2>2, <3>1 DEF UserRelease, Next
  <2> QED
    BY <1>1, <2>1, <2>2
<1>2. CASE UserLeaves \/ KeyRepeats
  BY <1>2 DEF UserLeaves, KeyRepeats, Next
<1>3. CASE BootStep
  <2>1. boot \in 1..6
    BY <1>3, BootWords DEF TypeOK, BootStep, Booted
  <2>2. BootSequence[boot] \in Control
    BY <2>1, BootWords
  <2> QED
    BY <1>3, <2>2 DEF BootStep, Next
<1>4. CASE ReadKey
  BY <1>4 DEF ReadKey, Next
<1>5. CASE \E b \in HostBytes : Ask(b)
  BY <1>5 DEF Ask, Next
<1>6. CASE Restart
  BY <1>6 DEF Restart
<1>7. CASE MachineReset
  BY <1>7 DEF MachineReset, Next
<1>8. CASE \E delay \in 0..ByteTicks, session \in BOOLEAN : Load(delay, session)
  BY <1>8 DEF Load, Next
<1>9. CASE ClockTick
  BY <1>9 DEF ClockTick, Next
<1> QED
  BY <1>1, <1>2, <1>3, <1>4, <1>5, <1>6, <1>7, <1>8, <1>9 DEF GuestNext

(* What the guest keeps for itself: where it is in its boot, the modifiers, *)
(* the last byte and whether one was lost.                                  *)
GuestOK ==
  /\ boot \in 1..Len(BootSequence) + 1 /\ latch \subseteq {SHIFT, CTRL}
  /\ heard \in Bytes /\ turn \in {0, 1} /\ lost \in BOOLEAN

(* The latch holds modifiers only.                                          *)
LEMMA LatchedModifiers ==
  ASSUME latch \subseteq {SHIFT, CTRL}, NEW byte PROVE Latched(latch, byte) \subseteq {SHIFT, CTRL}
  BY DEF Latched

(* Every step leaves the guest's own state of its type.                     *)
LEMMA GuestKeepsType == ASSUME TypeOK, [GuestNext]_allVars PROVE GuestOK'
<1>0. GuestOK /\ LineOK
  BY DEF TypeOK, GuestOK
<1> USE BootWords
<1>1. ASSUME NEW bs, UserStep(bs) PROVE GuestOK'
  BY <1>0, <1>1 DEF UserStep, GuestOK, Overflows
<1>2. CASE \E key \in UserKeys : UserPress(key) \/ UserRelease(key)
  BY <1>1, <1>2 DEF UserPress, UserRelease
<1>3. CASE UserLeaves \/ KeyRepeats
  BY <1>1, <1>3 DEF UserLeaves, KeyRepeats
<1>4. CASE BootStep
  <2>1. boot \in 1..6 /\ boot' = boot + 1
    BY <1>0, <1>4 DEF BootStep, Booted, GuestOK
  <2>2. boot' \in 1..Len(BootSequence) + 1
    BY <2>1
  <2>3. lost' \in BOOLEAN
    BY <1>4 DEF BootStep
  <2> QED
    BY <1>0, <1>4, <2>2, <2>3 DEF BootStep, GuestOK
<1>5. CASE ReadKey
  <2>1. latch' \subseteq {SHIFT, CTRL}
    BY <1>0, <1>5, LatchedModifiers DEF ReadKey, GuestOK
  <2>2. turn' \in {0, 1}
    BY <1>0, <1>5 DEF ReadKey, GuestOK
  <2>3. heard' \in Bytes
    BY <1>0, <1>5 DEF ReadKey, LineOK
  <2> QED
    BY <1>0, <1>5, <2>1, <2>2, <2>3 DEF ReadKey, GuestOK
<1>6. CASE \E b \in HostBytes : Ask(b)
  BY <1>0, <1>6 DEF Ask, GuestOK
<1>7. CASE Restart
  <2>1. boot' \in 1..Len(BootSequence) + 1
    BY <1>7 DEF Restart
  <2> QED
    BY <1>0, <1>7, <2>1 DEF Restart, GuestOK
<1>8. CASE MachineReset
  <2>1. boot' \in 1..Len(BootSequence) + 1
    BY <1>8 DEF MachineReset
  <2>2. heard' \in Bytes
    BY <1>8, ByteNames DEF MachineReset
  <2> QED
    BY <1>0, <1>8, <2>1, <2>2 DEF MachineReset, GuestOK
<1>9. CASE \E delay \in 0..ByteTicks, session \in BOOLEAN : Load(delay, session)
  BY <1>0, <1>9 DEF Load, GuestOK
<1>10. CASE ClockTick \/ UNCHANGED allVars
  <2>1. UNCHANGED guestVars
    BY <1>10 DEF ClockTick, allVars
  <2> QED
    BY <1>0, <2>1 DEF guestVars, GuestOK
<1> QED
  BY <1>2, <1>3, <1>4, <1>5, <1>6, <1>7, <1>8, <1>9, <1>10 DEF GuestNext

(* The keyboard's invariant with the guest's types.                         *)
GuestInv == IInv /\ TypeOK

LEMMA GuestInitInv == ASSUME GuestInit PROVE GuestInv
<1>1. IInv
  BY InitInv DEF GuestInit
<1>2. boot \in 1..Len(BootSequence) + 1
  BY BootWords DEF GuestInit
<1>3. heard \in Bytes
  BY ByteNames DEF GuestInit
<1> QED
  BY <1>1, <1>2, <1>3 DEF GuestInv, TypeOK, IInv, GuestInit

LEMMA GuestStepInv == ASSUME GuestInv, [GuestNext]_allVars PROVE GuestInv'
<1>1. [Next]_vars
  BY GuestStep DEF GuestInv, allVars
<1>2. IInv'
  BY <1>1, StepInv DEF GuestInv
<1>3. GuestOK'
  BY GuestKeepsType DEF GuestInv
<1> QED
  BY <1>2, <1>3 DEF GuestInv, TypeOK, IInv, GuestOK

(* Every behaviour of the guest is one of the keyboard's specification.     *)
THEOREM GuestIsOne == GuestSpec => Spec
<1>1. GuestInit => Init
  BY DEF GuestInit
<1>2. GuestInv /\ [GuestNext]_allVars => [Next]_vars
  BY GuestStep DEF GuestInv, allVars
<1> QED
  BY <1>1, <1>2, GuestInitInv, GuestStepInv, PTL DEF GuestSpec, Spec

(* The keyboard, the USART and the guest keep their types together.         *)
THEOREM GuestTypes == GuestSpec => []TypeOK
<1>1. GuestInv => TypeOK
  BY DEF GuestInv
<1> QED
  BY <1>1, GuestInitInv, GuestStepInv, PTL DEF GuestSpec

-----------------------------------------------------------------------------
(* The line *)

lineVars == <<Wire, heard, turn, lost>>

(* A sequence with another behind it begins with itself.                    *)
LEMMA Extends ==
  ASSUME NEW S, NEW w \in Seq(S), NEW t \in Seq(S)
  PROVE  w \o t \in Seq(S) /\ Len(w \o t) = Len(w) + Len(t) /\ SubSeq(w \o t, 1, Len(w)) = w
OBVIOUS

(* What is sent goes behind what is under way, cut short only by a full     *)
(* FIFO.                                                                    *)
LEMMA SentBehind ==
  ASSUME LineOK, NEW bs \in Seq(Bytes), Send(bs)
  PROVE  Wire' = Wire \o SubSeq(bs, 1, Fits(fifo, bs))
<1> DEFINE sent == SubSeq(bs, 1, Fits(fifo, bs))
<1>1. sent \in Seq(Bytes)
  BY DEF LineOK, Fits
<1>2. fifo' = fifo \o sent /\ rx_ready' = rx_ready /\ rx_data' = rx_data
  BY DEF Send
<1>3. fifo \in Seq(Bytes) /\ rx_data \in Bytes
  BY DEF LineOK
<1> HIDE DEF sent
<1>4. CASE rx_ready
  <2>1. <<rx_data>> \in Seq(Bytes)
    BY <1>3
  <2>2. <<rx_data>> \o (fifo \o sent) = (<<rx_data>> \o fifo) \o sent
    BY <1>1, <1>3, <2>1, ConcatAssociative, SMTT(20)
  <2> QED
    BY <1>2, <1>4, <2>2 DEF Wire, sent
<1>5. CASE ~rx_ready
  BY <1>2, <1>5 DEF Wire, sent
<1> QED
  BY <1>4, <1>5

LEMMA SendExtendsWire ==
  ASSUME LineOK, NEW bs \in Seq(Bytes), Send(bs)
  PROVE  /\ Wire \in Seq(Bytes) /\ Wire' \in Seq(Bytes)
         /\ Len(Wire') \in Len(Wire)..Len(Wire) + Len(bs)
         /\ SubSeq(Wire', 1, Len(Wire)) = Wire
         /\ Overflows(bs) => Len(Wire') >= Capacity
<1> DEFINE n == Fits(fifo, bs)
           sent == SubSeq(bs, 1, n)
<1>1. n \in 0..Len(bs) /\ Len(fifo) + n <= Capacity /\ (n < Len(bs) => Len(fifo) + n = Capacity)
  BY DEF LineOK, Fits
<1>2. sent \in Seq(Bytes) /\ Len(sent) = n
  BY <1>1
<1>3. Wire \in Seq(Bytes) /\ Len(Wire) \in Nat /\ Len(Wire) >= Len(fifo)
  BY DEF LineOK, Wire
<1>4. Wire' = Wire \o sent
  BY SentBehind
<1>5. /\ Wire \o sent \in Seq(Bytes) /\ Len(Wire \o sent) = Len(Wire) + n
      /\ SubSeq(Wire \o sent, 1, Len(Wire)) = Wire
  BY <1>2, <1>3, Extends
<1>6. Overflows(bs) => n < Len(bs)
  BY DEF Overflows
<1> HIDE DEF n, sent
<1>7. Len(fifo) \in Nat /\ Len(bs) \in Nat /\ n \in Nat
  BY <1>1 DEF LineOK
<1> QED
  BY <1>1, <1>3, <1>4, <1>5, <1>6, <1>7

(* A key's bytes are at most three.                                         *)
LEMMA FewBytes ==
  /\ \A key \in HeldKeys \cup Toggles : Len(PressBytes(key)) \in 0..3
  /\ \A key \in HeldKeys : Len(ReleaseBytes(key)) \in 0..3
  /\ Len(ReleaseAllBytes) \in 0..3
<1>1. ASSUME NEW key PROVE Len(PressBytes(key)) \in 0..3
  <2>1. Len(KeyBytes(key)) \in 0..3
    BY DEF KeyBytes
  <2> QED
    BY <2>1 DEF PressBytes
<1> QED
  BY <1>1 DEF ReleaseBytes, ReleaseAllBytes

(* So a key event sends as the line does.                                   *)
LEMMA UserSends ==
  ASSUME LineOK, lost \in BOOLEAN, NEW bs \in Seq(Bytes), Len(bs) \in 0..3, Send(bs), UserStep(bs)
  PROVE  WireLine!Send
<1>1. /\ Len(Wire') \in Len(Wire)..Len(Wire) + Len(bs)
      /\ SubSeq(Wire', 1, Len(Wire)) = Wire
      /\ Overflows(bs) => Len(Wire') >= Capacity
      /\ Wire \in Seq(Bytes)
  BY SendExtendsWire
<1>2. Len(Wire) \in Nat
  BY <1>1
<1>3. Len(Wire') \in Len(Wire)..Len(Wire) + 3
  <2> DEFINE before == Len(Wire)
             after == Len(Wire')
             k == Len(bs)
  <2>1. before \in Nat /\ after \in before..before + k /\ k \in 0..3
    BY <1>1, <1>2
  <2> HIDE DEF before, after, k
  <2>2. after \in before..before + 3
    BY <2>1
  <2> QED
    BY <2>2 DEF before, after
<1>4. lost' = (lost \/ Overflows(bs)) /\ UNCHANGED <<heard, turn>>
  BY DEF UserStep
<1>5. lost' = lost \/ (lost' /\ Len(Wire') >= Capacity)
  <2>1. CASE Overflows(bs)
    BY <1>1, <1>4, <2>1
  <2>2. CASE ~Overflows(bs)
    BY <1>4, <2>2
  <2> QED
    BY <1>1, <1>4, <2>1, <2>2
<1> QED
  BY <1>1, <1>3, <1>4, <1>5 DEF WireLine!Send

(* Every act of the user is a Send: the bytes of a key, or none.            *)
LEMMA UserRefines ==
  ASSUME GuestInv,
         (\E key \in UserKeys : UserPress(key) \/ UserRelease(key)) \/ UserLeaves \/ KeyRepeats
  PROVE  WireLine!Send
<1>0. LineOK /\ lost \in BOOLEAN /\ KeyboardOK /\ HeldKeysAgree
  BY DEF GuestInv, TypeOK, IInv
<1>1. ASSUME NEW key \in UserKeys, UserPress(key) PROVE WireLine!Send
  <2>1. key \in HeldKeys \cup Toggles
    OBVIOUS
  <2>2. Send(PressBytes(key)) /\ UserStep(PressBytes(key))
    BY <1>1 DEF UserPress, Press, Toggle, PressModifier, PressRegular
  <2> QED
    BY <1>0, <2>1, <2>2, SentBytes, FewBytes, UserSends
<1>2. ASSUME NEW key \in UserKeys, UserRelease(key) PROVE WireLine!Send
  <2>1. key \in HeldKeys
    BY <1>0, <1>2 DEF UserRelease, Release, KeyboardOK
  <2>2. Send(ReleaseBytes(key)) /\ UserStep(ReleaseBytes(key))
    BY <1>2 DEF UserRelease, Release
  <2> QED
    BY <1>0, <2>1, <2>2, SentBytes, FewBytes, UserSends
<1>3. CASE UserLeaves
  <2>1. Send(ReleaseAllBytes) /\ UserStep(ReleaseAllBytes)
    BY <1>3 DEF UserLeaves, ReleaseAll
  <2> QED
    BY <1>0, <2>1, SentBytes, FewBytes, UserSends
<1>4. CASE KeyRepeats
  <2>1. repeat_key \in Regular /\ repeat_key \in held
    BY <1>0, <1>4 DEF KeyRepeats, Repeat, KeyboardOK, HeldKeysAgree
  <2>2. Send(<<repeat_key>>) /\ UserStep(<<repeat_key>>)
    BY <1>4, <2>1 DEF KeyRepeats, Repeat
  <2>3. <<repeat_key>> \in Seq(Bytes) /\ Len(<<repeat_key>>) \in 0..3
    BY <2>1, ByteNames, TupleOfBytes
  <2> QED
    BY <1>0, <2>2, <2>3, UserSends
<1> QED
  BY <1>1, <1>2, <1>3, <1>4

(* The byte that has arrived is the line's first.                           *)
LEMMA FirstByte ==
  ASSUME LineOK
  PROVE  /\ rx_ready => Wire # <<>> /\ Head(Wire) = rx_data /\ Tail(Wire) = fifo
         /\ ~rx_ready => Wire = fifo
<1>1. rx_data \in Bytes /\ fifo \in Seq(Bytes)
  BY DEF LineOK
<1>2. <<rx_data>> \o fifo # <<>> /\ Head(<<rx_data>> \o fifo) = rx_data /\ Tail(<<rx_data>> \o fifo) = fifo
  BY <1>1
<1> QED
  BY <1>2 DEF Wire

(* The interrupt service reads the line's first byte.                       *)
LEMMA ReadRefines == ASSUME GuestInv, ReadKey PROVE WireLine!Read
<1>1. LineOK /\ rx_ready
  BY DEF GuestInv, IInv, LineSignalsAgree, LineOK, ReadKey
<1>2. Wire # <<>> /\ Head(Wire) = rx_data /\ Tail(Wire) = fifo
  BY <1>1, FirstByte
<1>3. Wire' = fifo
  BY DEF ReadKey, ReadByte, Wire
<1> QED
  BY <1>2, <1>3 DEF WireLine!Read, ReadKey

(* An internal reset drops the byte that has arrived, and only that.        *)
LEMMA BootRefines == ASSUME GuestInv, BootStep PROVE WireLine!Drop \/ UNCHANGED lineVars
<1>0. LineOK /\ lost \in BOOLEAN
  BY DEF GuestInv, IInv, TypeOK
<1>1. CASE async /\ BootSequence[boot].ireset
  <2>1. InternalReset(BootSequence[boot])
    BY <1>1 DEF BootStep, Program, WriteMode, WriteControl
  <2>2. Wire' = fifo
    BY <2>1 DEF InternalReset, Wire
  <2>3. UNCHANGED <<heard, turn>> /\ lost' = (lost \/ rx_ready)
    BY <1>1 DEF BootStep
  <2>4. CASE rx_ready
    BY <1>0, <2>2, <2>3, <2>4, FirstByte DEF WireLine!Drop
  <2>5. CASE ~rx_ready
    BY <1>0, <2>2, <2>3, <2>5, FirstByte DEF lineVars
  <2> QED
    BY <2>4, <2>5
<1>2. CASE ~(async /\ BootSequence[boot].ireset)
  <2>1. UNCHANGED <<fifo, rx_ready, rx_data>>
    BY <1>2 DEF BootStep, Program, WriteMode, WriteControl, InternalReset
  <2>2. UNCHANGED <<heard, turn, lost>>
    BY <1>0, <1>2 DEF BootStep
  <2> QED
    BY <2>1, <2>2 DEF lineVars, Wire
<1> QED
  BY <1>1, <1>2

(* All of a sequence is the sequence.                                       *)
LEMMA WholeSequence == ASSUME NEW S, NEW s \in Seq(S) PROVE SubSeq(s, 1, Len(s)) = s
OBVIOUS

(* An answer goes whole into a line that was emptied for it.                *)
LEMMA AnswerFits ==
  ASSUME NEW bs, bs = IdBytes \/ (bs = PowerUpBytes /\ Capacity >= 4), Answer(bs)
  PROVE  Wire' = bs
<1>1. CASE bs = IdBytes
  <2>1. Len(IdBytes) = 2 /\ Fits(<<>>, IdBytes) = Len(IdBytes)
    BY DEF IdBytes, Fits
  <2>2. SubSeq(IdBytes, 1, Len(IdBytes)) = IdBytes
    BY SentBytes, WholeSequence
  <2> QED
    BY <1>1, <2>1, <2>2 DEF Answer, Wire
<1>2. CASE bs = PowerUpBytes /\ Capacity >= 4
  <2>1. Len(PowerUpBytes) = 4 /\ Fits(<<>>, PowerUpBytes) = Len(PowerUpBytes)
    BY <1>2 DEF PowerUpBytes, Fits
  <2>2. SubSeq(PowerUpBytes, 1, Len(PowerUpBytes)) = PowerUpBytes
    BY SentBytes, WholeSequence
  <2> QED
    BY <1>2, <2>1, <2>2 DEF Answer, Wire
<1> QED
  BY <1>1, <1>2

(* A command is answered on an emptied line or changes nothing of it.       *)
LEMMA AskRefines ==
  ASSUME GuestInv, NEW b \in HostBytes, Ask(b) PROVE WireLine!Answer \/ UNCHANGED lineVars
<1>0. lost \in BOOLEAN
  BY DEF GuestInv, TypeOK
<1>1. HostByte(b) /\ UNCHANGED <<heard, turn>>
      /\ lost' = (lost \/ (~Second(b) /\ b \in {PROBE, POWER_UP} /\ Wire # <<>>))
  BY DEF Ask
<1>2. CASE ~Second(b) /\ b \in {PROBE, POWER_UP}
  <2>1. \/ Answer(IdBytes)
        \/ Answer(PowerUpBytes) /\ Capacity >= 4
    <3>1. (CASE b = PROBE -> Answer(IdBytes)
             [] b = POWER_UP -> Answer(PowerUpBytes)
             [] OTHER -> NoAnswer)
      BY <1>1, <1>2, Zenon DEF HostByte
    <3>2. CASE b = PROBE
      BY <3>1, <3>2 DEF PROBE, POWER_UP
    <3>3. CASE b = POWER_UP
      <4>1. Answer(PowerUpBytes)
        BY <3>1, <3>3 DEF PROBE, POWER_UP
      <4> QED
        BY <3>3, <4>1
    <3> QED
      BY <1>2, <3>2, <3>3
  <2>2. Wire' \in {IdBytes, PowerUpBytes}
    BY <2>1, AnswerFits
  <2>3. lost' = (lost \/ Wire # <<>>)
    BY <1>1, <1>2
  <2> QED
    BY <1>1, <2>2, <2>3 DEF WireLine!Answer
<1>3. CASE ~(~Second(b) /\ b \in {PROBE, POWER_UP})
  <2>1. NoAnswer
    BY <1>1, <1>3 DEF HostByte
  <2>2. lost' = lost
    BY <1>0, <1>1, <1>3
  <2> QED
    BY <1>1, <2>1, <2>2 DEF NoAnswer, lineVars, Wire
<1> QED
  BY <1>2, <1>3

(* A byte that arrives stays on the line until it is read.                  *)
LEMMA TickRefines == ASSUME GuestInv, ClockTick PROVE UNCHANGED lineVars
<1>1. LineOK
  BY DEF GuestInv, IInv
<1>2. Wire' = Wire
  <2>1. CASE Arrived
    <3>1. fifo \in Seq(Bytes) /\ fifo # <<>>
      BY <1>1, <2>1 DEF Arrived, LineOK
    <3>2. fifo = <<Head(fifo)>> \o Tail(fifo)
      BY <3>1
    <3> QED
      BY <2>1, <3>2 DEF Arrived, ClockTick, UartTick, Wire
  <2>2. CASE ~Arrived
    BY <2>2 DEF ClockTick, UartTick, Wire
  <2> QED
    BY <2>1, <2>2
<1> QED
  BY <1>2 DEF ClockTick, guestVars, lineVars

(* One case for each action of the guest.                                   *)
LEMMA LineStep == ASSUME GuestInv, [GuestNext]_allVars PROVE [WireLine!Next]_lineVars
<1>0. lost \in BOOLEAN
  BY DEF GuestInv, TypeOK
<1>1. CASE (\E key \in UserKeys : UserPress(key) \/ UserRelease(key)) \/ UserLeaves \/ KeyRepeats
  BY <1>1, UserRefines DEF WireLine!Next
<1>2. CASE BootStep
  BY <1>2, BootRefines DEF WireLine!Next
<1>3. CASE ReadKey
  BY <1>3, ReadRefines DEF WireLine!Next
<1>4. CASE \E b \in HostBytes : Ask(b)
  BY <1>4, AskRefines DEF WireLine!Next
<1>5. CASE Restart
  <2>1. Wire' = Wire
    BY <1>5 DEF Restart, vars, uartVars, Wire
  <2> QED
    BY <1>5, <2>1 DEF Restart, WireLine!Next, WireLine!Restart
<1>6. CASE MachineReset
  <2>1. Wire' = <<>>
    BY <1>6 DEF MachineReset, Reset, UartReset, Wire
  <2> QED
    BY <1>6, <2>1 DEF MachineReset, WireLine!Next, WireLine!Reset
<1>7. ASSUME NEW delay \in 0..ByteTicks, NEW session \in BOOLEAN, Load(delay, session)
      PROVE  [WireLine!Next]_lineVars
  <2>1. Wire' = Wire /\ UNCHANGED <<heard, turn>>
    BY <1>7 DEF Load, LoadState, Wire
  <2>2. lost' = lost \/ lost' = TRUE
    BY <1>0, <1>7 DEF Load
  <2> QED
    BY <2>1, <2>2 DEF WireLine!Next, WireLine!Restart, lineVars
<1>8. CASE ClockTick
  BY <1>8, TickRefines
<1>9. CASE UNCHANGED allVars
  BY <1>9 DEF allVars, vars, uartVars, guestVars, lineVars, Wire
<1> QED
  BY <1>1, <1>2, <1>3, <1>4, <1>5, <1>6, <1>7, <1>8, <1>9 DEF GuestNext

(* The guest reads the bytes sent, in order and each once, but for those    *)
(* the line may lose (keyboard.c's FIFO and receiver, the flush and the     *)
(* answers of ms7004.c's commands).                                         *)
THEOREM LineImplemented == GuestSpec => ImplementsLine
<1>1. GuestInit => WireLine!Init
  BY DEF GuestInit, Init, UartInit, WireLine!Init, Wire
<1>2. GuestInv /\ [GuestNext]_allVars => [WireLine!Next]_lineVars
  BY LineStep
<1> QED
  BY <1>1, <1>2, GuestInitInv, GuestStepInv, PTL DEF GuestSpec, ImplementsLine, WireLine!Spec, lineVars

-----------------------------------------------------------------------------
(***************************************************************************)
(* The modifiers.  What the guest will hold for down once it has read what  *)
(* is under way is the work of many bytes, but each of them acts as         *)
(* lineFromKeyboard acts on one: a byte sent acts on Settled as it would on *)
(* the latch (SendSettles), and a byte read leaves Settled alone            *)
(* (ReadSettles).  So it is enough that the keyboard's session remembers    *)
(* what is owed:                                                            *)
(***************************************************************************)

(* A modifier the guest will hold is owed an ALL-UP, by a session with a    *)
(* key down; and a ВР that is down is among them.                           *)
ModifiersAgree ==
  ~lost => /\ Settled # {} => modifier_in_session /\ held # {}
           /\ ShiftHeld => SHIFT \in Settled

(* Reading one byte more acts as the guest does on that byte.               *)
LEMMA HeldAfterAppend ==
  ASSUME NEW down, down \subseteq {SHIFT, CTRL}, NEW bs \in Seq(Bytes), NEW b \in Bytes
  PROVE  HeldAfter(down, Append(bs, b)) = Latched(HeldAfter(down, bs), b)
<1> DEFINE n == Len(bs)
           more == Append(bs, b)
<1>1. /\ n \in Nat /\ more \in Seq(Bytes) /\ Len(more) = n + 1 /\ more[n + 1] = b
      /\ \A i \in 1..n : more[i] = bs[i]
      /\ DOMAIN bs = 1..n /\ DOMAIN more = 1..n + 1
  OBVIOUS
<1> HIDE DEF n, more
<1>2. ASSUME NEW m \in {SHIFT, CTRL}
      PROVE  m \in HeldAfter(down, more) <=> m \in Latched(HeldAfter(down, bs), b)
  <2>0. m # ALLUP
    OBVIOUS
  <2>1. CASE b = ALLUP
    <3>1. Latched(HeldAfter(down, bs), b) = {}
      BY <2>1 DEF Latched
    <3>2. n + 1 \in DOMAIN more /\ more[n + 1] = ALLUP
      BY <1>1, <2>1
    <3>3. \A i \in DOMAIN more : more[i] = m => n + 1 \in i + 1..Len(more)
      BY <1>1, <2>0, <2>1
    <3>4. m \notin HeldAfter(down, more)
      BY <3>2, <3>3 DEF HeldAfter
    <3> QED
      BY <3>1, <3>4
  <2>2. CASE b = m
    <3>1. m \in Latched(HeldAfter(down, bs), b)
      BY <2>2 DEF Latched
    <3>2. n + 1 \in DOMAIN more /\ more[n + 1] = m
          /\ \A j \in n + 1 + 1..Len(more) : more[j] # ALLUP
      BY <1>1, <2>2
    <3>3. m \in HeldAfter(down, more)
      BY <3>2 DEF HeldAfter
    <3> QED
      BY <3>1, <3>3
  <2>3. CASE b # ALLUP /\ b # m
    <3>1. m \in Latched(HeldAfter(down, bs), b) <=> m \in HeldAfter(down, bs)
      BY <2>3 DEF Latched
    <3>2. (\A j \in DOMAIN more : more[j] # ALLUP) <=> (\A j \in DOMAIN bs : bs[j] # ALLUP)
      BY <1>1, <2>3
    <3>3. ASSUME NEW i \in DOMAIN bs
          PROVE  (\A j \in i + 1..Len(more) : more[j] # ALLUP)
                   <=> (\A j \in i + 1..Len(bs) : bs[j] # ALLUP)
      BY <1>1, <2>3 DEF n
    <3>4. (\E i \in DOMAIN more :
             more[i] = m /\ \A j \in i + 1..Len(more) : more[j] # ALLUP)
            <=> (\E i \in DOMAIN bs :
                   bs[i] = m /\ \A j \in i + 1..Len(bs) : bs[j] # ALLUP)
      <4>1. \A i \in DOMAIN more : more[i] = m => i \in DOMAIN bs
        BY <1>1, <2>3
      <4>2. \A i \in DOMAIN bs : i \in DOMAIN more /\ more[i] = bs[i]
        BY <1>1
      <4> QED
        BY <3>3, <4>1, <4>2
    <3> QED
      BY <3>1, <3>2, <3>4 DEF HeldAfter
  <2> QED
    BY <2>1, <2>2, <2>3
<1>3. HeldAfter(down, more) \subseteq {SHIFT, CTRL} /\ HeldAfter(down, bs) \subseteq {SHIFT, CTRL}
  BY DEF HeldAfter
<1>4. Latched(HeldAfter(down, bs), b) \subseteq {SHIFT, CTRL}
  <2>1. b = ALLUP \/ b \in {SHIFT, CTRL} \/ Latched(HeldAfter(down, bs), b) = HeldAfter(down, bs)
    BY DEF Latched
  <2> QED
    BY <1>3, <2>1 DEF Latched
<1> DEFINE before == HeldAfter(down, more)
           after == Latched(HeldAfter(down, bs), b)
<1> HIDE DEF before, after
<1>5. /\ before \subseteq {SHIFT, CTRL} /\ after \subseteq {SHIFT, CTRL}
      /\ \A m \in {SHIFT, CTRL} : m \in before <=> m \in after
  BY <1>2, <1>3, <1>4, Zenon DEF before, after
<1>6. before = after
  <2>1. ASSUME NEW x PROVE x \in before <=> x \in after
    BY <1>5
  <2> QED
    BY <2>1
<1> QED
  BY <1>6 DEF before, after, more

(* The guest that has read the first byte will hold what it would have.     *)
LEMMA HeldAfterTail ==
  ASSUME NEW down, down \subseteq {SHIFT, CTRL}, NEW bs \in Seq(Bytes), bs # <<>>
  PROVE  HeldAfter(Latched(down, Head(bs)), Tail(bs)) = HeldAfter(down, bs)
<1> DEFINE n == Len(bs)
           rest == Tail(bs)
           b == Head(bs)
           now == Latched(down, b)
<1>1. /\ n \in Nat \ {0} /\ rest \in Seq(Bytes) /\ Len(rest) = n - 1 /\ bs[1] = b /\ b \in Bytes
      /\ \A i \in 1..n - 1 : rest[i] = bs[i + 1]
      /\ DOMAIN bs = 1..n /\ DOMAIN rest = 1..n - 1
  OBVIOUS
<1> HIDE DEF n, rest, b
<1>2. ASSUME NEW m \in {SHIFT, CTRL}
      PROVE  m \in HeldAfter(now, rest) <=> m \in HeldAfter(down, bs)
  <2> DEFINE Clear(s, i) == \A j \in i..Len(s) : s[j] # ALLUP
  <2>0. m # ALLUP /\ Len(bs) = n
    BY DEF n
  <2>1. m \in now <=> b # ALLUP /\ (m \in down \/ b = m)
    BY DEF Latched
  <2>2. ASSUME NEW i \in Nat, i >= 1 PROVE Clear(rest, i) <=> Clear(bs, i + 1)
    <3>1. ASSUME Clear(rest, i), NEW j \in i + 1..Len(bs) PROVE bs[j] # ALLUP
      <4>1. j - 1 \in i..Len(rest) /\ j - 1 \in 1..n - 1
        BY <1>1, <2>0, <2>2
      <4>2. rest[j - 1] # ALLUP /\ rest[j - 1] = bs[j - 1 + 1]
        BY <1>1, <3>1, <4>1
      <4> QED
        BY <4>2
    <3>2. ASSUME Clear(bs, i + 1), NEW j \in i..Len(rest) PROVE rest[j] # ALLUP
      <4>1. j + 1 \in i + 1..Len(bs) /\ j \in 1..n - 1
        BY <1>1, <2>0, <2>2
      <4> QED
        BY <1>1, <3>2, <4>1
    <3> QED
      BY <3>1, <3>2
  <2>3. m \in HeldAfter(now, rest) <=>
          \/ m \in now /\ Clear(rest, 1)
          \/ \E i \in 1..n - 1 : rest[i] = m /\ Clear(rest, i + 1)
    BY <1>1 DEF HeldAfter
  <2>4. m \in HeldAfter(down, bs) <=>
          \/ m \in down /\ Clear(bs, 1)
          \/ \E i \in 1..n : bs[i] = m /\ Clear(bs, i + 1)
    BY <1>1, <2>0 DEF HeldAfter
  <2>5. Clear(rest, 1) <=> Clear(bs, 1 + 1)
    <3> HIDE DEF Clear
    <3> QED
      BY <2>2
  <2>6. Clear(bs, 1) <=> b # ALLUP /\ Clear(bs, 1 + 1)
    BY <1>1, <2>0
  <2>7. ASSUME NEW i \in 1..n - 1 PROVE Clear(rest, i + 1) <=> Clear(bs, i + 1 + 1)
    <3>1. i + 1 \in Nat /\ i + 1 >= 1
      BY <1>1
    <3> HIDE DEF Clear
    <3> QED
      BY <2>2, <3>1
  <2> HIDE DEF Clear, now
  <2>8. (\E i \in 1..n : bs[i] = m /\ Clear(bs, i + 1)) <=>
          \/ b = m /\ Clear(bs, 1 + 1)
          \/ \E i \in 1..n - 1 : rest[i] = m /\ Clear(rest, i + 1)
    <3>1. ASSUME NEW i \in 1..n, bs[i] = m, Clear(bs, i + 1)
          PROVE  \/ b = m /\ Clear(bs, 1 + 1)
                 \/ \E k \in 1..n - 1 : rest[k] = m /\ Clear(rest, k + 1)
      <4>1. CASE i = 1
        BY <1>1, <3>1, <4>1
      <4>2. CASE i # 1
        <5>1. i - 1 \in 1..n - 1 /\ i - 1 + 1 = i
          BY <1>1, <4>2
        <5>2. rest[i - 1] = m /\ Clear(rest, i - 1 + 1)
          BY <1>1, <2>7, <3>1, <5>1
        <5> QED
          BY <5>1, <5>2
      <4> QED
        BY <4>1, <4>2
    <3>2. ASSUME NEW i \in 1..n - 1, rest[i] = m, Clear(rest, i + 1)
          PROVE  \E k \in 1..n : bs[k] = m /\ Clear(bs, k + 1)
      <4>1. i + 1 \in 1..n /\ bs[i + 1] = m /\ Clear(bs, i + 1 + 1)
        BY <1>1, <2>7, <3>2
      <4> QED
        BY <4>1
    <3>3. ASSUME b = m, Clear(bs, 1 + 1)
          PROVE  \E k \in 1..n : bs[k] = m /\ Clear(bs, k + 1)
      <4>1. 1 \in 1..n /\ bs[1] = m
        BY <1>1, <3>3
      <4> QED
        BY <3>3, <4>1
    <3> QED
      BY <3>1, <3>2, <3>3
  <2> QED
    BY <2>0, <2>1, <2>3, <2>4, <2>5, <2>6, <2>8
<1>3. HeldAfter(now, rest) \subseteq {SHIFT, CTRL} /\ HeldAfter(down, bs) \subseteq {SHIFT, CTRL}
  BY DEF HeldAfter
<1> DEFINE before == HeldAfter(down, bs)
           after == HeldAfter(now, rest)
<1> HIDE DEF before, after
<1>4. /\ before \subseteq {SHIFT, CTRL} /\ after \subseteq {SHIFT, CTRL}
      /\ \A m \in {SHIFT, CTRL} : m \in after <=> m \in before
  BY <1>2, <1>3, Zenon DEF before, after
<1>5. before = after
  <2>1. ASSUME NEW x PROVE x \in before <=> x \in after
    BY <1>4
  <2> QED
    BY <2>1
<1> QED
  BY <1>5 DEF before, after, rest, b

(* What is sent whole goes behind what is under way.                        *)
LEMMA SentWhole ==
  ASSUME LineOK, NEW bs \in Seq(Bytes), Send(bs), ~Overflows(bs)
  PROVE  Wire \in Seq(Bytes) /\ Wire' = Wire \o bs
<1>1. Fits(fifo, bs) = Len(bs)
  BY DEF LineOK, Fits, Overflows
<1>2. SubSeq(bs, 1, Len(bs)) = bs
  BY WholeSequence
<1> QED
  BY <1>1, <1>2, SentBehind, SendExtendsWire

(* So each byte of it acts on Settled as it would on the latch; a wrapped   *)
(* key sends three.                                                         *)
LEMMA SendSettles ==
  ASSUME LineOK, latch \subseteq {SHIFT, CTRL}, UNCHANGED latch, NEW bs, Send(bs), ~Overflows(bs)
  PROVE  /\ bs = <<>> => Settled' = Settled
         /\ \A a \in Bytes : bs = <<a>> => Settled' = Latched(Settled, a)
         /\ \A a, b, c \in Bytes :
              bs = <<a, b, c>> => Settled' = Latched(Latched(Latched(Settled, a), b), c)
<1>1. ASSUME bs = <<>> PROVE Settled' = Settled
  <2>1. bs \in Seq(Bytes)
    BY <1>1
  <2>2. Wire \in Seq(Bytes) /\ Wire' = Wire \o <<>>
    BY <1>1, <2>1, SentWhole
  <2>3. Wire' = Wire
    BY <2>2
  <2> QED
    BY <2>3 DEF Settled
<1>2. ASSUME NEW a \in Bytes, bs = <<a>> PROVE Settled' = Latched(Settled, a)
  <2>1. bs \in Seq(Bytes)
    BY <1>2
  <2>2. Wire \in Seq(Bytes) /\ Wire' = Wire \o <<a>>
    BY <1>2, <2>1, SentWhole
  <2>3. Wire' = Append(Wire, a)
    BY <2>2
  <2>4. HeldAfter(latch, Append(Wire, a)) = Latched(HeldAfter(latch, Wire), a)
    BY <2>2, HeldAfterAppend
  <2> QED
    BY <2>3, <2>4 DEF Settled
<1>3. ASSUME NEW a \in Bytes, NEW b \in Bytes, NEW c \in Bytes, bs = <<a, b, c>>
      PROVE  Settled' = Latched(Latched(Latched(Settled, a), b), c)
  <2>1. bs \in Seq(Bytes)
    BY <1>3
  <2>2. Wire \in Seq(Bytes) /\ Wire' = Wire \o <<a, b, c>>
    BY <1>3, <2>1, SentWhole
  <2> DEFINE one == Append(Wire, a)
             two == Append(one, b)
  <2>3. one \in Seq(Bytes) /\ two \in Seq(Bytes) /\ Wire' = Append(two, c)
    BY <2>2
  <2>4. HeldAfter(latch, one) = Latched(HeldAfter(latch, Wire), a)
    BY <2>2, HeldAfterAppend
  <2> HIDE DEF one
  <2>5. HeldAfter(latch, two) = Latched(HeldAfter(latch, one), b)
    BY <2>3, HeldAfterAppend
  <2> HIDE DEF two
  <2>6. HeldAfter(latch, Append(two, c)) = Latched(HeldAfter(latch, two), c)
    BY <2>3, HeldAfterAppend
  <2> QED
    BY <2>3, <2>4, <2>5, <2>6 DEF Settled
<1> QED
  BY <1>1, <1>2, <1>3

(* What a byte does to the modifiers held.                                  *)
LEMMA LatchedByte ==
  ASSUME NEW down
  PROVE  /\ Latched(down, SHIFT) = down \cup {SHIFT}
         /\ Latched(down, CTRL) = down \cup {CTRL}
         /\ Latched(down, ALLUP) = {}
         /\ \A key \in Regular \cup {RUSLAT} : Latched(down, key) = down
<1>1. \A key \in Regular \cup {RUSLAT} : key \notin {SHIFT, CTRL} /\ key # ALLUP
  BY DEF MS7004Assumption
<1> QED
  BY <1>1 DEF Latched

(* A key pressed and not lost.                                              *)
LEMMA PressAgrees ==
  ASSUME GuestInv, ModifiersAgree, ~lost, NEW key \in UserKeys, UserPress(key),
         ~Overflows(PressBytes(key))
  PROVE  ModifiersAgree'
<1>1. LineOK /\ latch \subseteq {SHIFT, CTRL}
  BY DEF GuestInv, TypeOK
<1>2. /\ Settled # {} => modifier_in_session /\ held # {}
      /\ ShiftHeld => SHIFT \in Settled
  BY DEF ModifiersAgree
<1>3. Send(PressBytes(key)) /\ UNCHANGED latch
  BY DEF UserPress, UserStep, Press, Toggle, PressModifier, PressRegular
<1>4. Regular \cap (Modifiers \cup Toggles \cup {NONE, SHIFT, ALLUP, ZERO, ONE}) = {}
  BY DEF MS7004Assumption
<1>5. {SHIFT, CTRL, RUSLAT, ALLUP} \subseteq Bytes /\ Regular \subseteq Bytes
  BY DEF Bytes
<1>6. CASE Toggle(key)
  <2>1. UNCHANGED <<held, modifier_in_session>> /\ key \in Toggles
    BY <1>6 DEF Toggle, heldVars
  <2>2. Settled' = Settled
    <3>1. CASE key = CAPS
      <4>1. PressBytes(key) = <<>>
        BY <1>4, <3>1 DEF PressBytes
      <4> QED
        BY <1>1, <1>3, <4>1, SendSettles
    <3>2. CASE key = RUSLAT
      <4>1. PressBytes(key) = <<RUSLAT>>
        BY <1>4, <3>2 DEF PressBytes
      <4>2. Settled' = Latched(Settled, RUSLAT)
        BY <1>1, <1>3, <1>5, <4>1, SendSettles
      <4> QED
        BY <4>2, LatchedByte
    <3> QED
      BY <2>1, <3>1, <3>2
  <2> QED
    BY <1>2, <2>1, <2>2 DEF ModifiersAgree, ShiftHeld
<1>7. CASE PressModifier(key)
  <2>1. held' = held \cup {key} /\ modifier_in_session' = TRUE /\ key \in Modifiers
    BY <1>7 DEF PressModifier, HoldKey
  <2>2. CASE key \in Shifts
    <3>1. PressBytes(key) = <<SHIFT>>
      BY <2>2 DEF PressBytes
    <3>2. Settled' = Settled \cup {SHIFT}
      BY <1>1, <1>3, <1>5, <3>1, SendSettles, LatchedByte
    <3> QED
      BY <2>1, <3>2 DEF ModifiersAgree
  <2>3. CASE key = CTRL
    <3>1. PressBytes(key) = <<CTRL>>
      BY <1>4, <2>3 DEF PressBytes
    <3>2. Settled' = Settled \cup {CTRL}
      BY <1>1, <1>3, <1>5, <3>1, SendSettles, LatchedByte
    <3>3. ShiftHeld' = ShiftHeld
      BY <2>1, <2>3 DEF ShiftHeld
    <3> QED
      BY <1>2, <2>1, <3>2, <3>3 DEF ModifiersAgree
  <2> QED
    BY <2>1, <2>2, <2>3
<1>8. CASE PressRegular(key)
  <2>1. /\ held' = held \cup {key} /\ UNCHANGED modifier_in_session
        /\ key \in Regular /\ key \notin Modifiers
    BY <1>4, <1>8 DEF PressRegular, HoldKey
  <2>2. ShiftHeld' = ShiftHeld
    BY <2>1 DEF ShiftHeld
  <2>3. PressBytes(key) = KeyBytes(key) /\ key \in Bytes
    BY <1>4, <1>5, <2>1 DEF PressBytes
  <2>4. \/ Settled' = Settled
        \/ ~ShiftHeld /\ Settled' = {}
        \/ ShiftHeld /\ Settled' = {SHIFT}
    <3>1. CASE EffectiveShift(key) = ShiftHeld
      <4>1. PressBytes(key) = <<key>>
        BY <2>3, <3>1 DEF KeyBytes
      <4>2. Settled' = Latched(Settled, key)
        BY <1>1, <1>3, <2>3, <4>1, SendSettles
      <4> QED
        BY <2>1, <4>2, LatchedByte
    <3>2. CASE EffectiveShift(key) # ShiftHeld /\ ~ShiftHeld
      <4>1. PressBytes(key) = <<SHIFT, key, ALLUP>>
        <5>1. EffectiveShift(key) \in BOOLEAN /\ ShiftHeld \in BOOLEAN
          BY DEF EffectiveShift, ShiftHeld
        <5> QED
          BY <2>3, <3>2, <5>1 DEF KeyBytes
      <4>2. Settled' = Latched(Latched(Latched(Settled, SHIFT), key), ALLUP)
        BY <1>1, <1>3, <1>5, <2>3, <4>1, SendSettles
      <4> QED
        BY <3>2, <4>2, LatchedByte
    <3>3. CASE EffectiveShift(key) # ShiftHeld /\ ShiftHeld
      <4>1. PressBytes(key) = <<ALLUP, key, SHIFT>>
        <5>1. EffectiveShift(key) \in BOOLEAN /\ ShiftHeld \in BOOLEAN
          BY DEF EffectiveShift, ShiftHeld
        <5> QED
          BY <2>3, <3>3, <5>1 DEF KeyBytes
      <4>2. Settled' = Latched(Latched(Latched(Settled, ALLUP), key), SHIFT)
        BY <1>1, <1>3, <1>5, <2>3, <4>1, SendSettles
      <4>3. Latched(Settled, ALLUP) = {}
        BY LatchedByte
      <4>4. Latched({}, key) = {}
        BY <2>1, LatchedByte
      <4>5. Latched({}, SHIFT) = {SHIFT}
        <5>1. Latched({}, SHIFT) = {} \cup {SHIFT}
          BY LatchedByte
        <5> QED
          BY <5>1
      <4> QED
        BY <3>3, <4>2, <4>3, <4>4, <4>5
    <3> QED
      BY <3>1, <3>2, <3>3
  <2>5. Settled' # {} => modifier_in_session
    BY <1>2, <2>4
  <2> QED
    BY <1>2, <2>1, <2>2, <2>4, <2>5 DEF ModifiersAgree
<1> QED
  BY <1>6, <1>7, <1>8 DEF UserPress, Press

(* A key released, or all of them.                                          *)
LEMMA ReleaseAgrees ==
  ASSUME GuestInv, ModifiersAgree, ~lost,
         \/ \E key \in UserKeys : UserRelease(key) /\ ~Overflows(ReleaseBytes(key))
         \/ UserLeaves /\ ~Overflows(ReleaseAllBytes)
  PROVE  ModifiersAgree'
<1>1. LineOK /\ latch \subseteq {SHIFT, CTRL} /\ ALLUP \in Bytes
  BY DEF GuestInv, TypeOK, Bytes
<1>2. /\ Settled # {} => modifier_in_session /\ held # {}
      /\ ShiftHeld => SHIFT \in Settled
  BY DEF ModifiersAgree
<1>3. ASSUME NEW key \in UserKeys, UserRelease(key), ~Overflows(ReleaseBytes(key))
      PROVE  ModifiersAgree'
  <2>1. /\ Send(ReleaseBytes(key)) /\ UNCHANGED latch
        /\ key \in held /\ held' = held \ {key}
        /\ modifier_in_session' = (modifier_in_session /\ held_count # 1)
    BY <1>3 DEF UserRelease, UserStep, Release
  <2>2. held' = {} <=> held_count = 1
    <3>1. IsFiniteSet(held) /\ held_count = Cardinality(held)
      BY DEF GuestInv, IInv, HeldKeysAgree
    <3>2. Cardinality(held \ {key}) = Cardinality(held) - 1 /\ IsFiniteSet(held \ {key})
      BY <2>1, <3>1, FS_RemoveElement
    <3>3. held' = {} <=> Cardinality(held \ {key}) = 0
      BY <2>1, <3>2, FS_EmptySet
    <3>4. Cardinality(held) \in Nat
      BY <3>1, FS_CardinalityType
    <3> QED
      BY <3>1, <3>2, <3>3, <3>4
  <2>3. ShiftHeld' => ShiftHeld /\ held' # {}
    BY <2>1 DEF ShiftHeld
  <2>4. CASE held_count = 1 /\ modifier_in_session
    <3>1. ReleaseBytes(key) = <<ALLUP>>
      BY <2>4 DEF ReleaseBytes
    <3>2. Settled' = Latched(Settled, ALLUP)
      BY <1>1, <1>3, <2>1, <3>1, SendSettles
    <3>3. Settled' = {}
      BY <3>2, LatchedByte
    <3> QED
      BY <2>2, <2>3, <2>4, <3>3 DEF ModifiersAgree
  <2>5. CASE ~(held_count = 1 /\ modifier_in_session)
    <3>1. ReleaseBytes(key) = <<>>
      BY <2>5 DEF ReleaseBytes
    <3>2. Settled' = Settled
      BY <1>1, <1>3, <2>1, <3>1, SendSettles
    <3>3. Settled' # {} => modifier_in_session' /\ held' # {}
      BY <1>2, <2>1, <2>2, <2>5, <3>2
    <3> QED
      BY <1>2, <2>3, <3>2, <3>3 DEF ModifiersAgree
  <2> QED
    BY <2>4, <2>5
<1>4. ASSUME UserLeaves, ~Overflows(ReleaseAllBytes) PROVE ModifiersAgree'
  <2>1. Send(ReleaseAllBytes) /\ UNCHANGED latch /\ held' = {}
    BY <1>4 DEF UserLeaves, UserStep, ReleaseAll
  <2>2. Settled' = {}
    <3>1. CASE held # {} /\ modifier_in_session
      <4>1. ReleaseAllBytes = <<ALLUP>>
        BY <3>1 DEF ReleaseAllBytes
      <4>2. Settled' = Latched(Settled, ALLUP)
        BY <1>1, <1>4, <2>1, <4>1, SendSettles
      <4> QED
        BY <4>2, LatchedByte
    <3>2. CASE ~(held # {} /\ modifier_in_session)
      <4>1. ReleaseAllBytes = <<>>
        BY <3>2 DEF ReleaseAllBytes
      <4>2. Settled' = Settled
        BY <1>1, <1>4, <2>1, <4>1, SendSettles
      <4> QED
        BY <1>2, <3>2, <4>2
    <3> QED
      BY <3>1, <3>2
  <2> QED
    BY <2>1, <2>2 DEF ModifiersAgree, ShiftHeld
<1> QED
  BY <1>3, <1>4

(* A key repeated: a regular key's code alone.                              *)
LEMMA RepeatAgrees ==
  ASSUME GuestInv, ModifiersAgree, ~lost, KeyRepeats, ~Overflows(<<repeat_key>>)
  PROVE  ModifiersAgree'
<1>1. LineOK /\ latch \subseteq {SHIFT, CTRL} /\ KeyboardOK /\ HeldKeysAgree
  BY DEF GuestInv, TypeOK, IInv
<1>2. repeat_key \in Regular /\ repeat_key \in held /\ repeat_key \in Bytes
  BY <1>1 DEF KeyRepeats, Repeat, KeyboardOK, HeldKeysAgree, Bytes
<1>3. Send(<<repeat_key>>) /\ UNCHANGED latch /\ UNCHANGED <<held, modifier_in_session>>
  BY <1>2 DEF KeyRepeats, Repeat, UserStep, heldVars
<1>4. Settled' = Latched(Settled, repeat_key)
  BY <1>1, <1>2, <1>3, SendSettles
<1>5. Settled' = Settled
  BY <1>2, <1>4, LatchedByte
<1> QED
  BY <1>3, <1>5 DEF ModifiersAgree, ShiftHeld

(* A step that leaves the keyboard and what is under way alone leaves the   *)
(* modifiers alone.                                                         *)
LEMMA SameSettled ==
  ASSUME ModifiersAgree, Settled' = Settled, ~lost, UNCHANGED <<held, modifier_in_session>>
  PROVE  ModifiersAgree'
  BY DEF ModifiersAgree, ShiftHeld

(* A byte the guest reads has acted on the latch as it would have.          *)
LEMMA ReadSettles == ASSUME GuestInv, ReadKey PROVE Settled' = Settled
<1>1. LineOK /\ rx_ready /\ latch \subseteq {SHIFT, CTRL}
  BY DEF GuestInv, TypeOK, IInv, LineSignalsAgree, LineOK, ReadKey
<1>2. Wire # <<>> /\ Head(Wire) = rx_data /\ Tail(Wire) = fifo /\ Wire \in Seq(Bytes)
  BY <1>1, FirstByte DEF LineOK, Wire
<1>3. Wire' = fifo /\ latch' = Latched(latch, rx_data)
  BY DEF ReadKey, ReadByte, Wire
<1>4. HeldAfter(Latched(latch, Head(Wire)), Tail(Wire)) = HeldAfter(latch, Wire)
  BY <1>1, <1>2, HeldAfterTail
<1> QED
  BY <1>2, <1>3, <1>4 DEF Settled

(* Neither an answer nor an empty line holds a modifier or an ALL-UP.       *)
LEMMA AnswersHold ==
  ASSUME NEW down, down \subseteq {SHIFT, CTRL}, NEW bs \in {<<>>, IdBytes, PowerUpBytes}
  PROVE  HeldAfter(down, bs) = down
<1>1. \A i \in DOMAIN bs : bs[i] \in {ZERO, ONE}
  BY DEF IdBytes, PowerUpBytes
<1>2. \A i \in DOMAIN bs : bs[i] \notin {SHIFT, CTRL, ALLUP}
  BY <1>1
<1> QED
  BY <1>2 DEF HeldAfter

(* Every step that loses nothing keeps the modifiers.                       *)
LEMMA ModifiersStep ==
  ASSUME GuestInv, ModifiersAgree, [GuestNext]_allVars PROVE ModifiersAgree'
<1> SUFFICES ASSUME ~lost' PROVE ModifiersAgree'
  BY DEF ModifiersAgree
<1>0. LineOK /\ latch \subseteq {SHIFT, CTRL} /\ lost \in BOOLEAN /\ KeyboardOK /\ HeldKeysAgree
  BY DEF GuestInv, TypeOK, IInv
<1>1. ASSUME NEW key \in UserKeys, UserPress(key) PROVE ModifiersAgree'
  <2>1. ~lost /\ ~Overflows(PressBytes(key))
    BY <1>1 DEF UserPress, UserStep
  <2> QED
    BY <1>1, <2>1, PressAgrees
<1>2. ASSUME NEW key \in UserKeys, UserRelease(key) PROVE ModifiersAgree'
  <2>1. ~lost /\ ~Overflows(ReleaseBytes(key))
    BY <1>2 DEF UserRelease, UserStep
  <2> QED
    BY <1>2, <2>1, ReleaseAgrees
<1>3. CASE UserLeaves
  <2>1. ~lost /\ ~Overflows(ReleaseAllBytes)
    BY <1>3 DEF UserLeaves, UserStep
  <2> QED
    BY <1>3, <2>1, ReleaseAgrees
<1>4. CASE KeyRepeats
  <2>1. ~lost /\ ~Overflows(<<repeat_key>>)
    BY <1>4 DEF KeyRepeats, UserStep
  <2> QED
    BY <1>4, <2>1, RepeatAgrees
<1>5. CASE BootStep
  <2>1. ~lost /\ UNCHANGED <<held, modifier_in_session, latch>>
        /\ (async /\ BootSequence[boot].ireset => ~rx_ready)
    BY <1>5 DEF BootStep, keyboardVars, heldVars
  <2>2. Wire' = Wire
    <3>1. CASE async /\ BootSequence[boot].ireset
      <4>1. UNCHANGED fifo /\ rx_ready' = FALSE
        BY <1>5, <3>1 DEF BootStep, Program, WriteMode, WriteControl, InternalReset
      <4> QED
        BY <2>1, <3>1, <4>1 DEF Wire
    <3>2. CASE ~(async /\ BootSequence[boot].ireset)
      BY <1>5, <3>2 DEF BootStep, Program, WriteMode, WriteControl, InternalReset, Wire
    <3> QED
      BY <3>1, <3>2
  <2>3. Settled' = Settled
    BY <2>1, <2>2 DEF Settled
  <2> QED
    BY <2>1, <2>3, SameSettled
<1>6. CASE ReadKey
  <2>1. ~lost /\ UNCHANGED <<held, modifier_in_session>>
    BY <1>6 DEF ReadKey, keyboardVars, heldVars
  <2> QED
    BY <1>6, <2>1, ReadSettles, SameSettled
<1>7. ASSUME NEW b \in HostBytes, Ask(b) PROVE ModifiersAgree'
  <2>1. /\ ~lost /\ UNCHANGED <<held, modifier_in_session, latch>>
        /\ WireLine!Answer \/ UNCHANGED lineVars
    BY <1>7, AskRefines DEF Ask, HostByte, heldVars
  <2>2. Settled' = Settled
    <3>1. CASE UNCHANGED lineVars
      BY <2>1, <3>1 DEF lineVars, Settled
    <3>2. CASE WireLine!Answer
      <4>1. Wire = <<>> /\ Wire' \in {IdBytes, PowerUpBytes}
        BY <2>1, <3>2 DEF WireLine!Answer
      <4>2. HeldAfter(latch, Wire) = latch /\ HeldAfter(latch, Wire') = latch
        <5> DEFINE sent == Wire'
        <5>1. sent \in {<<>>, IdBytes, PowerUpBytes}
          BY <4>1
        <5> HIDE DEF sent
        <5>2. HeldAfter(latch, sent) = latch
          BY <1>0, <5>1, AnswersHold
        <5> QED
          BY <1>0, <4>1, <5>2, AnswersHold DEF sent
      <4> QED
        BY <2>1, <4>2 DEF Settled
    <3> QED
      BY <2>1, <3>1, <3>2
  <2> QED
    BY <2>1, <2>2, SameSettled
<1>8. CASE Restart
  BY <1>8 DEF Restart
<1>9. CASE MachineReset
  <2>1. held' = {} /\ latch' = {} /\ Wire' = <<>>
    BY <1>9 DEF MachineReset, Reset, UartReset, KeyboardReset, Wire
  <2>2. Settled' = {}
    BY <2>1 DEF Settled, HeldAfter
  <2> QED
    BY <2>1, <2>2 DEF ModifiersAgree, ShiftHeld
<1>10. ASSUME NEW delay \in 0..ByteTicks, NEW session \in BOOLEAN, Load(delay, session)
       PROVE  ModifiersAgree'
  <2>1. /\ ~lost /\ modifier_in_session' = session /\ (modifier_in_session => session)
        /\ UNCHANGED <<held, latch, fifo, rx_ready, rx_data>>
    BY <1>10 DEF Load, LoadState
  <2>2. Settled' = Settled
    BY <2>1 DEF Settled, Wire
  <2> QED
    BY <2>1, <2>2 DEF ModifiersAgree, ShiftHeld
<1>11. CASE ClockTick
  <2>1. ~lost /\ UNCHANGED <<held, modifier_in_session, latch, Wire>>
    BY <1>11, TickRefines DEF ClockTick, keyboardVars, heldVars, guestVars, lineVars
  <2> QED
    BY <2>1, SameSettled DEF Settled
<1>12. CASE UNCHANGED allVars
  <2>1. ~lost /\ UNCHANGED <<held, modifier_in_session, latch, Wire>>
    BY <1>12 DEF allVars, vars, uartVars, keyboardVars, heldVars, guestVars, Wire
  <2> QED
    BY <2>1, SameSettled DEF Settled
<1> QED
  BY <1>1, <1>2, <1>3, <1>4, <1>5, <1>6, <1>7, <1>8, <1>9, <1>10, <1>11, <1>12 DEF GuestNext

THEOREM ModifiersInv == GuestSpec => [](GuestInv /\ ModifiersAgree)
<1>1. GuestInit => ModifiersAgree
  BY DEF GuestInit, Init, UartInit, KeyboardInit, ModifiersAgree, Settled, HeldAfter, Wire, ShiftHeld
<1>2. GuestInv /\ ModifiersAgree /\ [GuestNext]_allVars => GuestInv' /\ ModifiersAgree'
  BY GuestStepInv, ModifiersStep
<1> QED
  BY <1>1, <1>2, GuestInitInv, PTL DEF GuestSpec

(* Whatever keys go down and up, toggled by ФКС or not, and whatever the    *)
(* machine asks or loads between them, a guest that is left with no key     *)
(* down comes to hold no modifier (ms7004_key's ALL-UP and Shift wrapper).  *)
THEOREM ModifiersLetGo == GuestSpec => []NoModifierSticks
<1>1. ModifiersAgree => NoModifierSticks
  BY DEF ModifiersAgree, NoModifierSticks
<1> QED
  BY <1>1, ModifiersInv, PTL

(* ... and a ВР that is down is never taken from the guest.                 *)
THEOREM ShiftAlwaysReaches == GuestSpec => []ShiftReachesGuest
<1>1. ModifiersAgree => ShiftReachesGuest
  BY DEF ModifiersAgree, ShiftReachesGuest
<1> QED
  BY <1>1, ModifiersInv, PTL
=============================================================================
