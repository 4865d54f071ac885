---------------------------- MODULE Typist_proofs ----------------------------
(***************************************************************************)
(* The characters typed are the characters read: the Typist's account of    *)
(* the alphabet runs ahead of the system's by the taps still queued, and    *)
(* each tap carries the alphabet it will be pressed in.                     *)
(***************************************************************************)
EXTENDS Typist, TLAPS

Meant == Byte \cup {NoKey, RusLat}
TapSet == [key : Key \cup {RusLat}, with : SUBSET {ShiftL, Ctrl},
           meant : Meant, at : Alphabets]

TypeOK ==
  /\ queue \in Seq(TapSet) /\ rus \in Alphabets /\ guest \in Alphabets
  /\ phase \in {"idle", "holding", "cooldown"}

(* A tap that is right in the alphabet it carries; only RUS/LAT is queued   *)
(* for something other than a character or a key.                           *)
Right(t) ==
  t.meant \in Cyrillic \cup Latin \cup Common
    => t.key # RusLat /\ ReadIn(t, t.at) = t.meant

(* The alphabet after a tap; and the alphabet the taps of q start in from i *)
(* on, which past the last of them is r.                                    *)
After(t) == IF t.key = RusLat THEN Flipped(t.at) ELSE t.at
StartsAt(q, r, i) == IF i \in 1..Len(q) THEN q[i].at ELSE r

Chain(q, r, g) ==
  /\ StartsAt(q, r, 1) = g
  /\ \A i \in 1..Len(q) : Right(q[i]) /\ StartsAt(q, r, i + 1) = After(q[i])
Chained == Chain(queue, rus, guest)

DownIsHeld == down = IF phase = "holding" THEN KeysOf(held) ELSE {}

IInv == TypeOK /\ Chained /\ ReadAsMeant /\ DownIsHeld

-----------------------------------------------------------------------------
LEMMA TapTyped ==
  ASSUME TablesAgree, NEW alphabet \in Alphabets
  PROVE  /\ \A c \in Byte : Tap(KeyOf[c], c, alphabet) \in TapSet
         /\ \A key \in Key : Tap(Bare(key), NoKey, alphabet) \in TapSet
         /\ Tap(Bare(RusLat), RusLat, alphabet) \in TapSet
  BY DEF TablesAgree, Tap, Bare, TapSet, Meant

(* A tap at the end of the queue, in the alphabet the queue leaves.         *)
LEMMA ChainAppend ==
  ASSUME NEW q \in Seq(TapSet), NEW r, NEW g, Chain(q, r, g),
         NEW t \in TapSet, t.at = r, Right(t)
  PROVE  Chain(Append(q, t), After(t), g)
<1> DEFINE n == Len(q)
           a == Append(q, t)
<1>1. /\ n \in Nat /\ Len(a) = n + 1 /\ a[n + 1] = t
      /\ \A i \in 1..n : a[i] = q[i]
  OBVIOUS
<1> HIDE DEF a, n
<1>2. ASSUME NEW i \in 1..(n + 1) PROVE StartsAt(a, After(t), i) = StartsAt(q, r, i)
  <2>1. CASE i \in 1..n
    BY <1>1, <2>1 DEF StartsAt, n
  <2>2. CASE i = n + 1
    BY <1>1, <2>2 DEF StartsAt, n
  <2> QED
    BY <1>1, <2>1, <2>2
<1>3. ASSUME NEW i \in 1..(n + 1) PROVE Right(a[i]) /\ StartsAt(a, After(t), i + 1) = After(a[i])
  <2>1. CASE i \in 1..n
    <3>1. Right(q[i]) /\ StartsAt(q, r, i + 1) = After(q[i])
      BY <2>1 DEF Chain, n
    <3>2. i + 1 \in 1..(n + 1)
      BY <1>1, <2>1
    <3> QED
      BY <1>1, <1>2, <2>1, <3>1, <3>2
  <2>2. CASE i = n + 1
    <3>1. StartsAt(a, After(t), n + 2) = After(t)
      BY <1>1 DEF StartsAt
    <3>2. i + 1 = n + 2
      BY <1>1, <2>2
    <3> QED
      BY <1>1, <2>2, <3>1, <3>2
  <2> QED
    BY <1>1, <2>1, <2>2
<1>4. StartsAt(a, After(t), 1) = g
  <2>1. 1 \in 1..(n + 1)
    BY <1>1
  <2> QED
    BY <1>2, <2>1 DEF Chain
<1> QED
  BY <1>1, <1>3, <1>4 DEF Chain, a

(* The first tap of the queue pressed.                                      *)
LEMMA ChainTail ==
  ASSUME NEW q \in Seq(TapSet), q # <<>>, NEW r, NEW g, Chain(q, r, g)
  PROVE  /\ Head(q) \in TapSet /\ Right(Head(q)) /\ Head(q).at = g
         /\ Tail(q) \in Seq(TapSet) /\ Chain(Tail(q), r, After(Head(q)))
<1> DEFINE n == Len(q)
           a == Tail(q)
<1>1. /\ n \in Nat /\ n >= 1 /\ a \in Seq(TapSet) /\ Len(a) = n - 1
      /\ Head(q) = q[1] /\ q[1] \in TapSet
      /\ \A i \in 1..(n - 1) : a[i] = q[i + 1]
  OBVIOUS
<1> HIDE DEF a, n
<1>2. Right(q[1]) /\ StartsAt(q, r, 2) = After(q[1]) /\ q[1].at = g
  <2>1. 1 \in 1..n /\ 1 + 1 = 2
    BY <1>1
  <2>2. Right(q[1]) /\ StartsAt(q, r, 2) = After(q[1])
    BY <2>1 DEF Chain, n
  <2>3. StartsAt(q, r, 1) = q[1].at
    BY <2>1 DEF StartsAt, n
  <2> QED
    BY <2>2, <2>3 DEF Chain
<1>3. ASSUME NEW i \in 1..n PROVE StartsAt(a, r, i) = StartsAt(q, r, i + 1)
  <2>1. CASE i \in 1..(n - 1)
    BY <1>1, <2>1 DEF StartsAt, n
  <2>2. CASE i = n
    BY <1>1, <2>2 DEF StartsAt, n
  <2> QED
    BY <1>1, <2>1, <2>2
<1>4. ASSUME NEW i \in 1..(n - 1) PROVE Right(a[i]) /\ StartsAt(a, r, i + 1) = After(a[i])
  <2>1. i + 1 \in 1..n
    BY <1>1
  <2>2. Right(q[i + 1]) /\ StartsAt(q, r, (i + 1) + 1) = After(q[i + 1])
    BY <2>1 DEF Chain, n
  <2> QED
    BY <1>1, <1>3, <2>1, <2>2
<1>5. StartsAt(a, r, 1) = After(q[1])
  <2>1. 1 \in 1..n /\ 1 + 1 = 2
    BY <1>1
  <2> QED
    BY <1>2, <1>3, <2>1
<1> QED
  BY <1>1, <1>2, <1>4, <1>5 DEF Chain, a

-----------------------------------------------------------------------------
(* What is queued is right in the alphabet it is queued for.                *)
LEMMA TapRight ==
  ASSUME TablesAgree
  PROVE  /\ \A c \in Cyrillic : Right(Tap(KeyOf[c], c, "rus"))
         /\ \A c \in Latin : Right(Tap(KeyOf[c], c, "lat"))
         /\ \A c \in Byte \ (Cyrillic \cup Latin), alphabet \in Alphabets :
              Right(Tap(KeyOf[c], c, alphabet))
         /\ \A key \in Key, alphabet \in Alphabets :
              /\ Right(Tap(Bare(key), NoKey, alphabet))
              /\ Right(Tap(Bare(RusLat), RusLat, alphabet))
<1>1. ASSUME NEW c \in Byte, NEW alphabet,
             c \in Cyrillic \cup Latin \cup Common => ReadIn(KeyOf[c], alphabet) = c
      PROVE  Right(Tap(KeyOf[c], c, alphabet))
  <2>1. KeyOf[c].key # RusLat
    BY DEF TablesAgree
  <2> QED
    BY <1>1, <2>1 DEF Right, Tap, ReadIn
<1>2. ASSUME NEW c \in Byte \ (Cyrillic \cup Latin), NEW alphabet \in Alphabets
      PROVE  Right(Tap(KeyOf[c], c, alphabet))
  BY <1>1 DEF TablesAgree
<1>3. \A c \in Cyrillic : Right(Tap(KeyOf[c], c, "rus"))
  BY <1>1 DEF TablesAgree
<1>4. \A c \in Latin : Right(Tap(KeyOf[c], c, "lat"))
  BY <1>1 DEF TablesAgree
<1>5. NoKey \notin Cyrillic \cup Latin \cup Common /\ RusLat \notin Cyrillic \cup Latin \cup Common
  BY DEF TablesAgree
<1> QED
  BY <1>2, <1>3, <1>4, <1>5 DEF Right, Tap

(* The alphabet behind a character's tap is the one it was pressed in.      *)
LEMMA AfterTap ==
  ASSUME TablesAgree, NEW alphabet \in Alphabets
  PROVE  /\ \A c \in Byte : After(Tap(KeyOf[c], c, alphabet)) = alphabet
         /\ \A key \in Key : After(Tap(Bare(key), NoKey, alphabet)) = alphabet
         /\ After(Tap(Bare(RusLat), RusLat, alphabet)) = Flipped(alphabet)
<1>1. \A c \in Byte : KeyOf[c].key # RusLat
  BY DEF TablesAgree
<1>2. \A key \in Key : key # RusLat
  BY DEF TablesAgree
<1> QED
  BY <1>1, <1>2 DEF After, Tap, Bare

LEMMA InitInv == TablesAgree /\ Init => IInv
<1> SUFFICES ASSUME TablesAgree, Init PROVE IInv
  OBVIOUS
<1>1. queue = <<>> /\ Len(queue) = 0
  BY DEF Init
<1>2. TypeOK
  BY DEF Init, TypeOK, Alphabets
<1>3. Chained
  BY <1>1 DEF Init, Chained, Chain, StartsAt
<1>4. ReadAsMeant /\ DownIsHeld
  BY DEF Init, ReadAsMeant, DownIsHeld
<1> QED
  BY <1>2, <1>3, <1>4 DEF IInv

(* A tap in the queue's alphabet, that leaves it there.                     *)
LEMMA QueuesOne ==
  ASSUME TypeOK, NEW q \in Seq(TapSet), NEW r, Chain(q, r, guest),
         NEW t \in TapSet, t.at = r, Right(t), After(t) \in Alphabets,
         queue' = Append(q, t), rus' = After(t), UNCHANGED <<phase, guest>>
  PROVE  TypeOK' /\ Chained'
<1>1. Chain(Append(q, t), After(t), guest)
  BY ChainAppend
<1>2. Append(q, t) \in Seq(TapSet)
  OBVIOUS
<1> QED
  BY <1>1, <1>2 DEF TypeOK, Chained

(* A letter queues one tap or two.                                          *)
LEMMA QueuesLetter ==
  ASSUME TablesAgree, TypeOK, Chained, NEW c \in Byte, NEW alphabet \in Alphabets,
         TypeLetter(c, alphabet), Right(Tap(KeyOf[c], c, alphabet)),
         UNCHANGED <<phase, guest>>
  PROVE  TypeOK' /\ Chained'
<1> DEFINE t == Tap(KeyOf[c], c, alphabet)
           switch == Tap(Bare(RusLat), RusLat, rus)
<1>1. t \in TapSet /\ t.at = alphabet /\ After(t) = alphabet
  BY TapTyped, AfterTap DEF Tap
<1>2. rus \in Alphabets
  BY DEF TypeOK
<1>3. Switched(alphabet) \in Seq(TapSet) /\ Chain(Switched(alphabet), alphabet, guest)
  <2>1. CASE rus = alphabet
    BY <2>1 DEF Switched, TypeOK, Chained
  <2>2. CASE rus # alphabet
    <3>1. Key # {}
      BY DEF TablesAgree
    <3>2. switch \in TapSet /\ switch.at = rus /\ Right(switch)
      BY <1>2, <3>1, TapTyped, TapRight DEF Tap
    <3>3. After(switch) = alphabet
      BY <1>2, <2>2, AfterTap DEF Flipped, Alphabets
    <3>4. queue \in Seq(TapSet) /\ Chain(queue, rus, guest)
      BY DEF TypeOK, Chained
    <3> HIDE DEF switch
    <3>5. Chain(Append(queue, switch), After(switch), guest)
      BY <3>2, <3>4, ChainAppend
    <3>6. Append(queue, switch) \in Seq(TapSet)
      BY <3>2, <3>4
    <3>7. Switched(alphabet) = Append(queue, switch)
      BY <2>2 DEF Switched, switch
    <3> QED
      BY <3>3, <3>5, <3>6, <3>7
  <2> QED
    BY <2>1, <2>2
<1>4. queue' = Append(Switched(alphabet), t) /\ rus' = alphabet
  BY DEF TypeLetter
<1> HIDE DEF t
<1>5. Right(t)
  BY DEF t
<1> QED
  BY <1>1, <1>3, <1>4, <1>5, QueuesOne

LEMMA QueuesPlain ==
  ASSUME TypeOK, Chained, NEW t \in TapSet, t.at = rus, Right(t), After(t) = rus,
         queue' = Append(queue, t), rus' = rus, UNCHANGED <<phase, guest>>
  PROVE  TypeOK' /\ Chained'
<1>1. queue \in Seq(TapSet) /\ rus \in Alphabets /\ Chain(queue, rus, guest)
  BY DEF TypeOK, Chained
<1> QED
  BY <1>1, QueuesOne

LEMMA QueuesNothing ==
  ASSUME TypeOK, Chained, UNCHANGED <<queue, rus, phase, guest>>
  PROVE  TypeOK' /\ Chained'
  BY DEF TypeOK, Chained

-----------------------------------------------------------------------------
LEMMA TypeQueues ==
  ASSUME TablesAgree, TypeOK, Chained, NEW b \in Byte, Type(b)
  PROVE  TypeOK' /\ Chained'
<1> DEFINE c == IF b = LF THEN CR ELSE b
<1>1. c \in Byte /\ UNCHANGED <<phase, guest>> /\ rus \in Alphabets
  BY DEF Type, TablesAgree, TypeOK
<1>2. \/ c \in Cyrillic /\ TypeLetter(c, "rus")
      \/ c \in Latin /\ TypeLetter(c, "lat")
      \/ /\ c \notin Cyrillic \cup Latin
         /\ queue' = IF KeyOf[c].key = NoKey THEN queue ELSE Append(queue, Tap(KeyOf[c], c, rus))
         /\ rus' = rus
  BY DEF Type
<1> HIDE DEF c
<1>3. "rus" \in Alphabets /\ "lat" \in Alphabets
  BY DEF Alphabets
<1>4. CASE c \in Cyrillic /\ TypeLetter(c, "rus")
  BY <1>1, <1>3, <1>4, TapRight, QueuesLetter
<1>5. CASE c \in Latin /\ TypeLetter(c, "lat")
  BY <1>1, <1>3, <1>5, TapRight, QueuesLetter
<1>6. CASE /\ c \notin Cyrillic \cup Latin /\ KeyOf[c].key # NoKey
           /\ queue' = Append(queue, Tap(KeyOf[c], c, rus)) /\ rus' = rus
  <2> DEFINE t == Tap(KeyOf[c], c, rus)
  <2>1. t \in TapSet /\ t.at = rus /\ After(t) = rus
    BY <1>1, TapTyped, AfterTap DEF Tap
  <2>2. Right(t)
    BY <1>1, <1>6, TapRight
  <2>3. queue' = Append(queue, t)
    BY <1>6
  <2> HIDE DEF t
  <2> QED
    BY <1>1, <1>6, <2>1, <2>2, <2>3, QueuesPlain
<1>7. CASE queue' = queue /\ rus' = rus
  BY <1>1, <1>7, QueuesNothing
<1> QED
  BY <1>2, <1>4, <1>5, <1>6, <1>7

LEMMA TypeKeyQueues ==
  ASSUME TablesAgree, TypeOK, Chained, NEW key \in Key, TypeKey(key)
  PROVE  TypeOK' /\ Chained'
<1>1. rus \in Alphabets /\ rus' = rus /\ UNCHANGED <<phase, guest>>
  BY DEF TypeOK, TypeKey
<1>2. CASE key = NoKey
  BY <1>1, <1>2, QueuesNothing DEF TypeKey
<1>3. CASE key # NoKey
  <2> DEFINE t == Tap(Bare(key), NoKey, rus)
  <2>1. t \in TapSet /\ t.at = rus /\ After(t) = rus
    BY <1>1, TapTyped, AfterTap DEF Tap
  <2>2. Right(t)
    BY <1>1, TapRight
  <2>3. queue' = Append(queue, t)
    BY <1>3 DEF TypeKey
  <2> HIDE DEF t
  <2> QED
    BY <1>1, <2>1, <2>2, <2>3, QueuesPlain
<1> QED
  BY <1>2, <1>3

(* The tap pressed is right in the system's alphabet, which it may flip.    *)
LEMMA PressChains ==
  ASSUME TypeOK, Chained, Press
  PROVE  TypeOK' /\ Chained' /\ ReadAsMeant'
<1>1. /\ queue \in Seq(TapSet) /\ queue # <<>> /\ Chain(queue, rus, guest)
      /\ guest \in Alphabets
  BY DEF TypeOK, Chained, Press
<1>2. /\ Head(queue) \in TapSet /\ Right(Head(queue)) /\ Head(queue).at = guest
      /\ Tail(queue) \in Seq(TapSet) /\ Chain(Tail(queue), rus, After(Head(queue)))
  BY <1>1, ChainTail
<1>3. /\ held' = Head(queue) /\ queue' = Tail(queue) /\ rus' = rus /\ phase' = "holding"
      /\ guest' = IF Head(queue).key = RusLat THEN Flipped(guest) ELSE guest
  BY DEF Press
<1>4. guest' = After(Head(queue))
  BY <1>2, <1>3 DEF After
<1>5. guest' \in Alphabets
  BY <1>1, <1>3 DEF Flipped, Alphabets
<1>6. TypeOK' /\ Chained'
  BY <1>2, <1>3, <1>4, <1>5 DEF TypeOK, Chained
<1>7. ReadAsMeant'
  BY <1>2, <1>3 DEF Right, ReadAsMeant
<1> QED
  BY <1>6, <1>7

LEMMA StepInv == ASSUME TablesAgree PROVE IInv /\ [Next]_vars => IInv'
<1> SUFFICES ASSUME IInv, [Next]_vars PROVE IInv'
  OBVIOUS
<1>1. TypeOK /\ Chained /\ ReadAsMeant /\ DownIsHeld
  BY DEF IInv
<1>2. CASE UNCHANGED <<phase, held, down, guest>> /\ TypeOK' /\ Chained'
  BY <1>1, <1>2 DEF IInv, ReadAsMeant, DownIsHeld
<1>3. ASSUME NEW b \in Byte, Type(b) PROVE IInv'
  BY <1>1, <1>2, <1>3, TypeQueues DEF Type
<1>4. ASSUME NEW key \in Key, TypeKey(key) PROVE IInv'
  BY <1>1, <1>2, <1>4, TypeKeyQueues DEF TypeKey
<1>5. CASE Wait
  BY <1>1, <1>2, <1>5, QueuesNothing DEF Wait
<1>6. CASE LetGo
  <2>1. TypeOK' /\ Chained'
    BY <1>1, <1>6 DEF LetGo, TypeOK, Chained
  <2>2. ReadAsMeant'
    BY <1>6 DEF LetGo, ReadAsMeant
  <2>3. DownIsHeld'
    BY <1>1, <1>6 DEF LetGo, DownIsHeld
  <2> QED
    BY <2>1, <2>2, <2>3 DEF IInv
<1>7. CASE Press
  <2>1. DownIsHeld'
    BY <1>1, <1>7 DEF Press, DownIsHeld
  <2> QED
    BY <1>1, <1>7, <2>1, PressChains DEF IInv
<1>8. CASE Rest
  <2>1. TypeOK' /\ Chained'
    BY <1>1, <1>8 DEF Rest, TypeOK, Chained
  <2>2. ReadAsMeant' /\ DownIsHeld'
    BY <1>1, <1>8 DEF Rest, ReadAsMeant, DownIsHeld
  <2> QED
    BY <2>1, <2>2 DEF IInv
<1>9. CASE UNCHANGED vars
  BY <1>1, <1>2, <1>9, QueuesNothing DEF vars
<1> QED
  BY <1>3, <1>4, <1>5, <1>6, <1>7, <1>8, <1>9 DEF Next

LEMMA SpecInv == ASSUME TablesAgree PROVE Spec => []IInv
  BY InitInv, StepInv, PTL DEF Spec

(* Every character that is pressed is read as it was meant.                 *)
THEOREM SpecReads == ASSUME TablesAgree PROVE Spec => []ReadAsMeant
<1>1. IInv => ReadAsMeant
  BY DEF IInv
<1> QED
  BY <1>1, SpecInv, PTL

(* With nothing pending all keys are up, and the two accounts agree.        *)
THEOREM SpecNothingLeft == ASSUME TablesAgree PROVE Spec => []NothingLeftDown
<1>1. IInv => NothingLeftDown
  <2> SUFFICES ASSUME IInv, Pending = 0 PROVE down = {} /\ rus = guest
    BY DEF NothingLeftDown
  <2>1. queue \in Seq(TapSet) /\ Len(queue) \in Nat
    BY DEF IInv, TypeOK
  <2>2. Len(queue) = 0 /\ phase = "idle"
    BY <2>1 DEF Pending
  <2>3. down = {}
    BY <2>2 DEF IInv, DownIsHeld
  <2>4. rus = guest
    BY <2>2 DEF IInv, Chained, Chain, StartsAt
  <2> QED
    BY <2>3, <2>4
<1> QED
  BY <1>1, SpecInv, PTL

(* A tap goes down only when the one before it is up, modifiers and all.    *)
THEOREM SpecOneTap == ASSUME TablesAgree PROVE Spec => OneTapAtATime
<1>1. IInv /\ [Next]_vars => [down # {} => down' \subseteq down]_vars
  <2> SUFFICES ASSUME IInv, Next, down # {} PROVE down' \subseteq down
    BY Zenon
  <2>1. phase = "holding"
    BY DEF IInv, DownIsHeld
  <2> QED
    BY <2>1 DEF Next, Type, TypeKey, Wait, LetGo, Press, Rest
<1> QED
  BY <1>1, SpecInv, PTL DEF Spec, OneTapAtATime

=============================================================================
