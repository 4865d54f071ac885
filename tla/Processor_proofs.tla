------------------------- MODULE Processor_proofs --------------------------
(***************************************************************************)
(* Three things: what the condition codes are for, over every word and      *)
(* every byte - a comparison is decided by the branch named for it, an      *)
(* overflow is flagged exactly when the signed result does not fit, and the *)
(* carry joins words into longer numbers; for every guest of Interrupts -   *)
(* any code, any vectors, any priorities in them, any stack depth - that no *)
(* request is lost, and no interrupt is served more than one instruction    *)
(* after its device took the request back; and for the monitor of           *)
(* MonitorGuest, which is one of those guests, for every text, every keys   *)
(* and every number of resets, that its terminal service never breaks into  *)
(* itself, although it prints at priority 0 and the key service drops to it *)
(* as well.                                                                 *)
(***************************************************************************)
EXTENDS MonitorGuest, Alu, SequenceTheorems, TLAPS

(***************************************************************************)
(* The condition codes.  The width h is half of 2^8 or of 2^16.             *)
(***************************************************************************)

Widths == {128, 32768}
Values(h) == 0..(2 * h - 1)
SignedValues(h) == (-h)..(h - 1)

(* Half of the values is a positive number.                                *)
LEMMA WidthPositive == ASSUME NEW h \in Widths PROVE h \in Nat /\ h > 0
  BY DEF Widths

(* The remainder of a number at most once round.                            *)
LEMMA Remains ==
  ASSUME NEW m \in Nat \ {0}, NEW z \in Int, 0 <= z, z < m
  PROVE  z % m = z
  OBVIOUS

(* One round too many is taken off.                                         *)
LEMMA WrapsDown ==
  ASSUME NEW m \in Nat \ {0}, NEW z \in Int, m <= z, z < m + m
  PROVE  z % m = z - m
  OBVIOUS

(* A number below zero comes round from above.                              *)
LEMMA WrapsUp ==
  ASSUME NEW m \in Nat \ {0}, NEW z \in Int, -m <= z, z < 0
  PROVE  z % m = z + m
  OBVIOUS

(* A sum of two values wraps round at most once.                            *)
LEMMA WrapSum ==
  ASSUME NEW h \in Widths, NEW x \in Values(h), NEW y \in Values(h)
  PROVE  Wrap(h, x + y) = IF x + y > 2 * h - 1 THEN (x + y) - 2 * h ELSE x + y
<1>1. 2 * h \in Nat \ {0}
  BY WidthPositive
<1>2. x + y \in Int
  BY WidthPositive DEF Values
<1>3. CASE x + y > 2 * h - 1
  <2>1. 2 * h <= x + y
    BY <1>1, <1>2, <1>3
  <2>2. x + y < 2 * h + 2 * h
    BY WidthPositive DEF Values
  <2>3. (x + y) % (2 * h) = (x + y) - 2 * h
    BY <1>1, <1>2, <2>1, <2>2, WrapsDown, Zenon
  <2> QED
    BY <1>3, <2>3 DEF Wrap
<1>4. CASE ~(x + y > 2 * h - 1)
  <2>1. x + y < 2 * h
    BY <1>1, <1>2, <1>4
  <2>2. 0 <= x + y
    BY WidthPositive DEF Values
  <2>3. (x + y) % (2 * h) = x + y
    BY <1>1, <1>2, <2>1, <2>2, Remains, Zenon
  <2> QED
    BY <1>4, <2>3 DEF Wrap
<1> QED
  BY <1>3, <1>4

(* So does a difference.                                                    *)
LEMMA WrapDifference ==
  ASSUME NEW h \in Widths, NEW x \in Values(h), NEW y \in Values(h)
  PROVE  Wrap(h, x - y) = IF x < y THEN (x - y) + 2 * h ELSE x - y
<1>1. 2 * h \in Nat \ {0}
  BY WidthPositive
<1>2. x - y \in Int
  BY WidthPositive DEF Values
<1>3. CASE x < y
  <2>1. x - y < 0
    BY <1>3, WidthPositive DEF Values
  <2>2. -(2 * h) <= x - y
    BY WidthPositive DEF Values
  <2>3. (x - y) % (2 * h) = (x - y) + 2 * h
    BY <1>1, <1>2, <2>1, <2>2, WrapsUp, Zenon
  <2> QED
    BY <1>3, <2>3 DEF Wrap
<1>4. CASE ~(x < y)
  <2>1. 0 <= x - y
    BY <1>4, WidthPositive DEF Values
  <2>2. x - y < 2 * h
    BY WidthPositive DEF Values
  <2>3. (x - y) % (2 * h) = x - y
    BY <1>1, <1>2, <2>1, <2>2, Remains, Zenon
  <2> QED
    BY <1>4, <2>3 DEF Wrap
<1> QED
  BY <1>3, <1>4

(* A high word a in a number of two words, one more or less or wrapped.     *)
LEMMA Distributes ==
  ASSUME NEW h \in Widths, NEW a \in Int
  PROVE  /\ 2 * h \in Int /\ a * (2 * h) \in Int /\ 4 * h * h \in Int
         /\ (a + 1) * (2 * h) = a * (2 * h) + 2 * h
         /\ (a - 1) * (2 * h) = a * (2 * h) - 2 * h
         /\ (a - 2 * h) * (2 * h) = a * (2 * h) - 4 * h * h
         /\ (a + 2 * h) * (2 * h) = a * (2 * h) + 4 * h * h
<1>1. CASE h = 128
  BY <1>1
<1>2. CASE h = 32768
  BY <1>2
<1> QED
  BY <1>1, <1>2 DEF Widths

-----------------------------------------------------------------------------
(* After CMP s, d every conditional branch goes the way the numbers say:    *)
(* BLT and its like by their values with a sign, BLO and its like without   *)
(* (op_cmp, op_cmpb and the branches of cpu_ops.c).                         *)
THEOREM ComparisonDecides ==
  ASSUME NEW h \in Widths, NEW s \in Values(h), NEW d \in Values(h), NEW c \in BOOLEAN
  PROVE  LET p == Cmp(h, s, d, c)
         IN /\ BranchTaken("beq", p) <=> s = d
            /\ BranchTaken("bne", p) <=> s # d
            /\ BranchTaken("blt", p) <=> Signed(h, s) < Signed(h, d)
            /\ BranchTaken("bge", p) <=> Signed(h, s) >= Signed(h, d)
            /\ BranchTaken("bgt", p) <=> Signed(h, s) > Signed(h, d)
            /\ BranchTaken("ble", p) <=> Signed(h, s) <= Signed(h, d)
            /\ BranchTaken("blo", p) <=> s < d
            /\ BranchTaken("bhis", p) <=> s >= d
            /\ BranchTaken("bhi", p) <=> s > d
            /\ BranchTaken("blos", p) <=> s <= d
<1> DEFINE p == Cmp(h, s, d, c)
           r == Wrap(h, s - d)
<1>1. r = IF s < d THEN s - d + 2 * h ELSE s - d
  BY WrapDifference
<1>2. h \in Nat /\ h > 0 /\ s \in Int /\ d \in Int /\ 0 <= s /\ s < 2 * h /\ 0 <= d /\ d < 2 * h
  BY WidthPositive DEF Values
<1>3. /\ p.n \in BOOLEAN /\ p.v \in BOOLEAN /\ p.z \in BOOLEAN /\ p.c \in BOOLEAN
      /\ (p.n <=> r >= h) /\ (p.z <=> r = 0) /\ (p.c <=> s < d)
      /\ (p.v <=> (~(s >= h <=> d >= h) /\ ~(s >= h <=> r >= h)))
  <2>1. /\ p.n = (r >= h) /\ p.z = (r = 0) /\ p.c = (s < d)
        /\ p.v = ((s >= h) # (d >= h) /\ (s >= h) # (r >= h))
    BY DEF Cmp, Result, Neg
  <2>2. r \in Int
    BY <1>1, <1>2
  <2> HIDE DEF p, r
  <2>3. /\ p.n \in BOOLEAN /\ p.z \in BOOLEAN /\ p.c \in BOOLEAN /\ p.v \in BOOLEAN
    BY <1>2, <2>1, <2>2
  <2>4. (p.n <=> r >= h) /\ (p.z <=> r = 0) /\ (p.c <=> s < d)
    BY <1>2, <2>1, <2>2
  <2>5. p.v <=> ((s >= h) # (d >= h) /\ (s >= h) # (r >= h))
    BY <1>2, <2>1, <2>2
  <2>6. p.v <=> (~(s >= h <=> d >= h) /\ ~(s >= h <=> r >= h))
    BY <1>2, <2>2, <2>5
  <2> QED
    BY <2>3, <2>4, <2>6
<1> HIDE DEF p, r
<1>4. p.z <=> s = d
  BY <1>1, <1>2, <1>3
<1>5. ~(p.n <=> p.v) <=> Signed(h, s) < Signed(h, d)
  BY <1>1, <1>2, <1>3 DEF Neg, Signed
<1>6. Signed(h, s) \in Int /\ Signed(h, d) \in Int /\ (Signed(h, s) = Signed(h, d) <=> s = d)
  BY <1>2 DEF Neg, Signed
<1>7. /\ BranchTaken("beq", p) <=> p.z
      /\ BranchTaken("bne", p) <=> ~p.z
      /\ BranchTaken("blt", p) <=> ~(p.n <=> p.v)
      /\ BranchTaken("bge", p) <=> (p.n <=> p.v)
      /\ BranchTaken("bgt", p) <=> ~(p.z \/ ~(p.n <=> p.v))
      /\ BranchTaken("ble", p) <=> p.z \/ ~(p.n <=> p.v)
      /\ BranchTaken("blo", p) <=> p.c
      /\ BranchTaken("bhis", p) <=> ~p.c
      /\ BranchTaken("bhi", p) <=> ~(p.c \/ p.z)
      /\ BranchTaken("blos", p) <=> p.c \/ p.z
  BY <1>3 DEF BranchTaken
<1> QED
  BY <1>2, <1>3, <1>4, <1>5, <1>6, <1>7 DEF p

-----------------------------------------------------------------------------
(* V after ADD and SUB is set exactly when the result with a sign does not  *)
(* fit, and when it fits it is the value left.                              *)
THEOREM OverflowExact ==
  ASSUME NEW h \in Widths, NEW s \in Values(h), NEW d \in Values(h), NEW c \in BOOLEAN
  PROVE  LET sum == Signed(h, d) + Signed(h, s)
             difference == Signed(h, d) - Signed(h, s)
         IN /\ Add(h, s, d, c).v <=> sum \notin SignedValues(h)
            /\ ~Add(h, s, d, c).v => Signed(h, Add(h, s, d, c).val) = sum
            /\ Sub(h, s, d, c).v <=> difference \notin SignedValues(h)
            /\ ~Sub(h, s, d, c).v => Signed(h, Sub(h, s, d, c).val) = difference
<1> DEFINE up == Wrap(h, s + d)
           down == Wrap(h, d - s)
<1>1. up = IF s + d > 2 * h - 1 THEN (s + d) - 2 * h ELSE s + d
  BY WrapSum
<1>2. down = IF d < s THEN d - s + 2 * h ELSE d - s
  BY WrapDifference
<1>3. h \in Nat /\ h > 0 /\ s \in Int /\ d \in Int /\ 0 <= s /\ s < 2 * h /\ 0 <= d /\ d < 2 * h
  BY WidthPositive DEF Values
<1>4. /\ Add(h, s, d, c).val = up /\ Sub(h, s, d, c).val = down
      /\ Add(h, s, d, c).v = (Neg(h, s) = Neg(h, d) /\ Neg(h, s) # Neg(h, up))
      /\ Sub(h, s, d, c).v = (Neg(h, d) # Neg(h, s) /\ Neg(h, s) = Neg(h, down))
  BY DEF Add, Sub, Result
<1> HIDE DEF up, down
<1>5. (Neg(h, s) = Neg(h, d) /\ Neg(h, s) # Neg(h, up)) <=> Signed(h, d) + Signed(h, s) \notin SignedValues(h)
  BY <1>1, <1>3 DEF Neg, Signed, SignedValues
<1>6. ~(Neg(h, s) = Neg(h, d) /\ Neg(h, s) # Neg(h, up)) => Signed(h, up) = Signed(h, d) + Signed(h, s)
  BY <1>1, <1>3 DEF Neg, Signed
<1>7. (Neg(h, d) # Neg(h, s) /\ Neg(h, s) = Neg(h, down)) <=> Signed(h, d) - Signed(h, s) \notin SignedValues(h)
  BY <1>2, <1>3 DEF Neg, Signed, SignedValues
<1>8. ~(Neg(h, d) # Neg(h, s) /\ Neg(h, s) = Neg(h, down)) => Signed(h, down) = Signed(h, d) - Signed(h, s)
  BY <1>2, <1>3 DEF Neg, Signed
<1> QED
  BY <1>4, <1>5, <1>6, <1>7, <1>8

(* What ADD leaves and carries, in numbers.                                 *)
LEMMA SumCodes ==
  ASSUME NEW h \in Widths, NEW s \in Values(h), NEW d \in Values(h), NEW c
  PROVE  /\ Add(h, s, d, c).val = IF s + d > 2 * h - 1 THEN (s + d) - 2 * h ELSE s + d
         /\ Add(h, s, d, c).c \in BOOLEAN
         /\ Add(h, s, d, c).c <=> s + d > 2 * h - 1
<1>1. Add(h, s, d, c).val = Wrap(h, s + d) /\ Add(h, s, d, c).c = (s + d > 2 * h - 1)
  BY DEF Add, Result
<1>2. h \in Int /\ s \in Int /\ d \in Int
  BY WidthPositive DEF Values
<1>3. Add(h, s, d, c).c \in BOOLEAN
  BY <1>1, <1>2
<1>4. Add(h, s, d, c).c <=> s + d > 2 * h - 1
  BY <1>1, <1>2
<1> QED
  BY <1>1, <1>3, <1>4, WrapSum

-----------------------------------------------------------------------------
(* ADD, ADC, ADD adds two numbers of two words each: the carry of the low   *)
(* words goes into the high ones and at most one of the two steps there     *)
(* carries out.                                                             *)
THEOREM CarriesJoinSums ==
  ASSUME NEW h \in Widths, NEW sl \in Values(h), NEW sh \in Values(h),
         NEW dl \in Values(h), NEW dh \in Values(h), NEW c \in BOOLEAN
  PROVE  LET low == Add(h, sl, dl, c)
             mid == Adc(h, dh, low.c)
             high == Add(h, sh, mid.val, mid.c)
             exact == (sh + dh) * (2 * h) + sl + dl
             total == high.val * (2 * h) + low.val
         IN /\ ~(mid.c /\ high.c)
            /\ total = IF mid.c \/ high.c THEN exact - 4 * h * h ELSE exact
<1> DEFINE low == Add(h, sl, dl, c)
           mid == Adc(h, dh, low.c)
           high == Add(h, sh, mid.val, mid.c)
<1>1. /\ low.val = IF sl + dl > 2 * h - 1 THEN (sl + dl) - 2 * h ELSE sl + dl
      /\ low.c \in BOOLEAN /\ (low.c <=> sl + dl > 2 * h - 1)
  BY SumCodes
<1>2. h \in Nat /\ h > 0 /\ sl \in Int /\ sh \in Int /\ dl \in Int /\ dh \in Int
      /\ 0 <= sl /\ sl < 2 * h /\ 0 <= dl /\ dl < 2 * h /\ 0 <= sh /\ sh < 2 * h /\ 0 <= dh /\ dh < 2 * h
  BY WidthPositive DEF Values
<1> HIDE DEF low
<1>3. /\ mid.val = IF low.c THEN (IF dh = 2 * h - 1 THEN 0 ELSE dh + 1) ELSE dh
      /\ mid.c \in BOOLEAN /\ (mid.c <=> low.c /\ dh = 2 * h - 1)
  <2>1. 0 \in Values(h) /\ 1 \in Values(h)
    BY WidthPositive DEF Values
  <2>2. /\ Wrap(h, dh + 1) = IF dh + 1 > 2 * h - 1 THEN (dh + 1) - 2 * h ELSE dh + 1
        /\ Wrap(h, dh + 0) = IF dh + 0 > 2 * h - 1 THEN (dh + 0) - 2 * h ELSE dh + 0
    BY <2>1, WrapSum
  <2>3. mid.val = Wrap(h, dh + Bool(low.c)) /\ mid.c = (low.c /\ dh = 2 * h - 1)
    BY DEF Adc, Result
  <2>4. mid.c \in BOOLEAN /\ (mid.c <=> low.c /\ dh = 2 * h - 1)
    BY <1>1, <2>3, Zenon
  <2> QED
    BY <1>1, <1>2, <2>2, <2>3, <2>4 DEF Bool
<1> HIDE DEF mid
<1>4. mid.val \in Values(h)
  BY <1>1, <1>2, <1>3 DEF Values
<1>5. /\ high.val = IF sh + mid.val > 2 * h - 1 THEN (sh + mid.val) - 2 * h ELSE sh + mid.val
      /\ high.c \in BOOLEAN /\ (high.c <=> sh + mid.val > 2 * h - 1)
  BY <1>4, SumCodes
<1> HIDE DEF high
<1>6. mid.val \in Int /\ 0 <= mid.val /\ mid.val < 2 * h
  BY <1>2, <1>4 DEF Values
<1>7. ~(mid.c /\ high.c)
  <2> SUFFICES ASSUME mid.c PROVE ~high.c
    OBVIOUS
  <2>1. mid.val = 0
    BY <1>1, <1>3
  <2> QED
    BY <1>2, <1>5, <2>1
<1> DEFINE a == sh + dh
           k == Bool(low.c)
<1>8. k \in Int /\ k = (IF low.c THEN 1 ELSE 0)
  BY DEF Bool
<1>9. high.val = IF mid.c \/ high.c THEN (a + k) - 2 * h ELSE a + k
  <2>1. CASE mid.c
    BY <1>1, <1>2, <1>3, <1>5, <1>7, <1>8, <2>1
  <2>2. CASE ~mid.c
    <3>1. mid.val = dh + k
      BY <1>1, <1>2, <1>3, <1>8, <2>2
    <3> HIDE DEF k
    <3> QED
      BY <1>2, <1>5, <1>8, <2>2, <3>1
  <2> QED
    BY <2>1, <2>2
<1>10. /\ 2 * h \in Int /\ a * (2 * h) \in Int /\ 4 * h * h \in Int
       /\ (a + 1) * (2 * h) = a * (2 * h) + 2 * h
       /\ (a - 2 * h) * (2 * h) = a * (2 * h) - 4 * h * h
       /\ ((a + 1) - 2 * h) * (2 * h) = (a + 1) * (2 * h) - 4 * h * h
  <2>1. a \in Int /\ a + 1 \in Int
    BY <1>2
  <2> HIDE DEF a
  <2> QED
    BY <2>1, Distributes
<1> DEFINE A == a * (2 * h)
           C == 4 * h * h
           total == high.val * (2 * h) + low.val
<1>11. high.val * (2 * h) = IF mid.c \/ high.c THEN (A + 2 * h * k) - C ELSE A + 2 * h * k
  <2>1. CASE low.c
    <3>1. high.val = IF mid.c \/ high.c THEN (a + 1) - 2 * h ELSE a + 1
      BY <1>8, <1>9, <2>1
    <3>2. high.val * (2 * h) = IF mid.c \/ high.c THEN (A + 2 * h) - C ELSE A + 2 * h
      BY <1>10, <3>1, Zenon
    <3> HIDE DEF A, C, k
    <3> QED
      BY <1>2, <1>8, <2>1, <3>2
  <2>2. CASE ~low.c
    <3>1. k = 0 /\ a + k = a
      BY <1>2, <1>8, <2>2
    <3>2. high.val = IF mid.c \/ high.c THEN a - 2 * h ELSE a
      BY <1>9, <3>1, Zenon
    <3>3. high.val * (2 * h) = IF mid.c \/ high.c THEN A - C ELSE A
      BY <1>10, <3>2, Zenon
    <3>4. A \in Int /\ C \in Int
      BY <1>10
    <3> HIDE DEF A, C, k
    <3> QED
      BY <1>2, <3>1, <3>3, <3>4
  <2> QED
    BY <2>1, <2>2
<1>12. low.val = (sl + dl) - 2 * h * k
  BY <1>1, <1>2, <1>8
<1>13. total = IF mid.c \/ high.c THEN (A + sl + dl) - C ELSE A + sl + dl
  <2>1. A \in Int /\ C \in Int /\ 2 * h * k \in Int
    BY <1>2, <1>8, <1>10
  <2> HIDE DEF A, C, k
  <2> QED
    BY <1>2, <1>11, <1>12, <2>1
<1> QED
  BY <1>7, <1>13 DEF low, mid, high

-----------------------------------------------------------------------------

(***************************************************************************)
(* Every guest.  TypeOK is inductive by itself.  The one fact behind the    *)
(* rest is what the encoder shows: a line that is up, or nothing.           *)
(***************************************************************************)

USE InterruptsAssumption DEF MON, KBD, TIMER, TRAP, NONE, Lines, Sources

(* The encoder shows a line that is up.                                     *)
LEMMA EncodeShows == ASSUME NEW up \in SUBSET Lines PROVE Encode(up) \in up \cup {NONE}
<1>1. CASE up = {}
  BY <1>1 DEF Encode
<1>2. CASE up # {}
  <2>1. \E c \in up : \A d \in up : Rank(c) <= Rank(d)
    BY <1>2 DEF Rank
  <2> QED
    BY <1>2, <2>1 DEF Encode
<1> QED
  BY <1>1, <1>2

(* What is taken is a line that can be seen, a trap, or nothing.            *)
LEMMA TakenType == ASSUME TypeOK PROVE Taken \in Sources \cup {NONE}
  BY EncodeShows DEF TypeOK, Taken, Shown

(* The stack and the priority an instruction starts with are well formed.   *)
LEMMA ServiceType ==
  ASSUME TypeOK
  PROVE  /\ Left \in SUBSET Lines
         /\ Pushed \in Seq(Frames)
         /\ ServicePriority \in 0..7
         /\ Here \in Code
<1>1. Taken = NONE \/ Taken \in Sources
  BY TakenType
<1>2. [pc |-> pc, prio |-> priority] \in Frames
  BY DEF TypeOK, Frames
<1>3. Left \in SUBSET Lines
  BY DEF TypeOK, Left
<1>4. Pushed \in Seq(Frames)
  BY <1>2 DEF TypeOK, Pushed
<1>5. ServicePriority \in 0..7 /\ Here \in Code
  BY <1>1 DEF TypeOK, ServicePriority, Here
<1> QED
  BY <1>3, <1>4, <1>5

(* Popping a frame leaves a stack of frames.                                *)
LEMMA PopType ==
  ASSUME NEW s \in Seq(Frames), s # <<>>
  PROVE  /\ s[Len(s)] \in Frames
         /\ SubSeq(s, 1, Len(s) - 1) \in Seq(Frames)
<1>1. Len(s) \in Nat /\ Len(s) > 0
  OBVIOUS
<1> QED
  BY <1>1

(* The empty stack is one.                                                  *)
LEMMA NoFrames == <<>> \in Seq(Frames)
  OBVIOUS

(* An instruction keeps the types.                                          *)
LEMMA StepType ==
  ASSUME TypeOK, NEW i \in Instructions, NEW next \in Code, Step(i, next)
  PROVE  TypeOK'
<1>1. virq' \in SUBSET Lines
  BY ServiceType DEF Step, MonitorRequest
<1>2. seen' \in Lines \cup {NONE}
  BY ServiceType, EncodeShows DEF Step
<1>3. waiting' \in BOOLEAN /\ trapped' \in BOOLEAN
  BY DEF Step
<1>4. rx' \in BOOLEAN
  BY DEF Step, TypeOK
<1>5. mon' \in BOOLEAN /\ timer' \in BOOLEAN
  BY DEF Step, TypeOK, Instructions
<1>6. pc' \in Code /\ stack' \in Seq(Frames) /\ priority' \in 0..7
  <2>1. CASE i.op = "rti"
    BY <2>1, ServiceType, PopType DEF Step, Frames
  <2>2. CASE i.op # "rti"
    <3>1. i.op = "mtps" => i.prio \in 0..7
      BY DEF Instructions
    <3> QED
      BY <2>2, <3>1, ServiceType DEF Step
  <2> QED
    BY <2>1, <2>2
<1> QED
  BY <1>1, <1>2, <1>3, <1>4, <1>5, <1>6 DEF TypeOK

(* So do WAIT, the board and the reset.                                     *)
LEMMA NextType == TypeOK /\ [Next]_vars => TypeOK'
<1> SUFFICES ASSUME TypeOK, [Next]_vars PROVE TypeOK'
  OBVIOUS
<1>1. CASE \E i \in Instructions, next \in Code : Step(i, next)
  BY <1>1, StepType
<1>2. CASE Wait
  BY <1>2, ServiceType, EncodeShows DEF Wait, TypeOK, boardVars
<1>3. CASE \E byte \in BOOLEAN : KbdTick(byte)
  BY <1>3 DEF KbdTick, TypeOK, cpuVars
<1>4. CASE VBlank
  BY <1>4 DEF VBlank, TypeOK, cpuVars, boardVars
<1>5. CASE Reset
  <2>1. stack' \in Seq(Frames)
    <3>1. stack' = <<>>
      BY <1>5 DEF Reset
    <3> QED
      BY <3>1, NoFrames
  <2>2. /\ virq' \subseteq Lines /\ seen' \in Lines \cup {NONE}
        /\ priority' \in 0..7 /\ pc' \in Code
    BY <1>5 DEF Reset
  <2>3. /\ waiting' \in BOOLEAN /\ trapped' \in BOOLEAN
        /\ mon' \in BOOLEAN /\ timer' \in BOOLEAN /\ rx' \in BOOLEAN
    BY <1>5 DEF Reset
  <2> QED
    BY <2>1, <2>2, <2>3 DEF TypeOK
<1>6. CASE UNCHANGED vars
  BY <1>6 DEF vars, cpuVars, boardVars, TypeOK
<1> QED
  BY <1>1, <1>2, <1>3, <1>4, <1>5, <1>6 DEF Next

LEMMA InitType == Init => TypeOK
<1> SUFFICES ASSUME Init PROVE TypeOK
  OBVIOUS
<1>1. stack \in Seq(Frames)
  <2>1. stack = <<>>
    BY DEF Init
  <2> QED
    BY <2>1, NoFrames
<1>2. /\ virq \subseteq Lines /\ seen \in Lines \cup {NONE}
      /\ priority \in 0..7 /\ pc \in Code
  BY DEF Init
<1>3. /\ waiting \in BOOLEAN /\ trapped \in BOOLEAN
      /\ mon \in BOOLEAN /\ timer \in BOOLEAN /\ rx \in BOOLEAN
  BY DEF Init
<1> QED
  BY <1>1, <1>2, <1>3 DEF TypeOK

(* The interrupt state is well formed whatever the guest does.              *)
THEOREM InterruptTypes == Spec => []TypeOK
  BY InitType, NextType, PTL DEF Spec

(* A line that goes down was taken, withdrawn or reset.                     *)
LEMMA KeptStep ==
  ASSUME TypeOK, [Next]_vars, NEW line \in virq \ virq'
  PROVE  TakenNow(line) \/ WithdrawnNow(line) \/ ResetNow
<1>1. CASE \E i \in Instructions, next \in Code : Step(i, next)
  <2> PICK i \in Instructions, next \in Code : Step(i, next)
    BY <1>1
  <2>1. line \in Left \/ TakenNow(line)
    BY DEF Left, TakenNow
  <2>2. CASE line \in Left
    <3>1. line = MON /\ mon /\ i.op = "dispatcher" /\ ~i.mon
      BY <2>2 DEF Step, MonitorRequest
    <3> QED
      BY <3>1 DEF Step, WithdrawnNow
  <2> QED
    BY <2>1, <2>2
<1>2. CASE Wait
  BY <1>2 DEF Wait, Left, TakenNow
<1>3. CASE \E byte \in BOOLEAN : KbdTick(byte)
  BY <1>3 DEF KbdTick, WithdrawnNow
<1>4. CASE VBlank
  BY <1>4 DEF VBlank
<1>5. CASE Reset
  BY <1>5 DEF Reset, ResetNow
<1>6. CASE UNCHANGED vars
  BY <1>6 DEF vars
<1> QED
  BY <1>1, <1>2, <1>3, <1>4, <1>5, <1>6 DEF Next

(* No request is ever lost: not to another line's service, not to a trap,   *)
(* not to the priority.                                                     *)
THEOREM RequestsNeverLost == Spec => RequestsKept
<1>1. TypeOK /\ [Next]_vars =>
        [\A line \in virq \ virq' : TakenNow(line) \/ WithdrawnNow(line) \/ ResetNow]_vars
  BY KeptStep
<1> QED
  BY InitType, NextType, <1>1, PTL DEF Spec, RequestsKept

(* After a step of the processor only a line that was up before it can be   *)
(* taken.                                                                   *)
LEMMA FreshStep ==
  ASSUME TypeOK, [Next]_vars, pc' # pc
  PROVE  Taken' \in virq \cup {TRAP, NONE}
<1>1. CASE \E i \in Instructions, next \in Code : Step(i, next)
  <2> PICK i \in Instructions, next \in Code : Step(i, next)
    BY <1>1
  <2>1. seen' \in Left \cup {NONE}
    BY ServiceType, EncodeShows DEF Step
  <2>2. CASE waiting'
    <3>1. virq' = Left
      BY <2>2 DEF Step
    <3>2. Encode(virq') \in virq' \cup {NONE}
      BY <3>1, ServiceType, EncodeShows
    <3>3. Taken' \in {TRAP, NONE, Encode(virq')}
      BY <2>2 DEF Taken, Shown, Encode, Rank
    <3> QED
      BY <3>1, <3>2, <3>3 DEF Left
  <2>3. CASE ~waiting'
    BY <2>1, <2>3 DEF Taken, Shown, Left
  <2> QED
    BY <2>2, <2>3
<1>2. CASE Wait
  <2>1. Taken # NONE /\ ~waiting'
    BY <1>2 DEF Wait, Here
  <2>2. seen' \in Left \cup {NONE}
    BY <1>2, ServiceType, EncodeShows DEF Wait
  <2> QED
    BY <2>1, <2>2 DEF Taken, Shown, Left
<1>3. CASE Reset
  BY <1>3 DEF Reset, Taken, Shown
<1>4. CASE (\E byte \in BOOLEAN : KbdTick(byte)) \/ VBlank \/ UNCHANGED vars
  BY <1>4 DEF KbdTick, VBlank, vars, cpuVars
<1> QED
  BY <1>1, <1>2, <1>3, <1>4 DEF Next

(* What is served was requested when the instruction before it began.       *)
THEOREM ServesOnlyFresh == Spec => TakenIsFresh
<1>1. TypeOK /\ [Next]_vars => [pc' # pc => Taken' \in virq \cup {TRAP, NONE}]_vars
  BY FreshStep
<1> QED
  BY InitType, NextType, <1>1, PTL DEF Spec, TakenIsFresh

-----------------------------------------------------------------------------
(***************************************************************************)
(* The monitor.  That its service is never entered twice is an argument     *)
(* about the request and not about the priority: while the service is on    *)
(* the stack bit 8 is 0, the line is down and the processor's latch does    *)
(* not hold it (Guarded), because the service wrote bit 8 first and only    *)
(* asks again once it has the priority back.                                *)
(***************************************************************************)

USE GuestAssumption, VectorsAssumption DEF MON, KBD, TIMER, TRAP, NONE, Lines, Sources

Asking == {"window", "print", "shut", "again"}     \* the service between its two writes of bit 8

(* A processor at p with priority prio, its stack, bit 8, the lines that    *)
(* are up and the latch.                                                    *)
Once(p, st) ==
  /\ \A i, j \in 1..Len(st) : st[i].pc \in Output /\ st[j].pc \in Output => i = j
  /\ p \in Output => \A i \in 1..Len(st) : st[i].pc \notin Output
Quiet(p, st, m, up, sn) ==
  p \in Asking \/ (\E i \in 1..Len(st) : st[i].pc \in Output)
    => m = FALSE /\ MON \notin up /\ sn # MON
Shut(p, prio, st, up, sn) ==
  /\ p \in {"clear", "window", "again", "return"} => prio = 7
  /\ p = "clear" => MON \notin up /\ sn # MON
  /\ \A i \in 1..Len(st) : st[i].pc \in Output => st[i].pc \in {"print", "shut"}
Started(p, prio, st) ==
  /\ p = "start" => st = <<>> /\ prio = 7
  /\ \A i \in 1..Len(st) : st[i].pc # "start"
Guarded(p, prio, st, m, up, sn) ==
  Once(p, st) /\ Quiet(p, st, m, up, sn) /\ Shut(p, prio, st, up, sn) /\ Started(p, prio, st)

Guards ==
  /\ Guarded(pc, priority, stack, mon, virq, seen)
  /\ waiting => pc = "call"
  /\ trapped => pc = "idle"

IInv == TypeOK /\ Guards

-----------------------------------------------------------------------------
(* Every instruction the guest runs is one the processor has, and leads to  *)
(* a location of the guest, so a step of the guest is one of Interrupts.    *)
LEMMA GuestStep == GuestNext => [Next]_vars
<1> SUFFICES ASSUME GuestNext PROVE [Next]_vars
  OBVIOUS
<1>1. ASSUME NEW i \in Instructions, NEW next \in Code, Step(i, next) PROVE Next
  BY <1>1 DEF Next
<1>2. /\ {Other, Rti, [op |-> "wait"], [op |-> "trap"], [op |-> "read_key"]} \subseteq Instructions
      /\ {Mtps(0), Mtps(7), Dispatcher(TRUE), Dispatcher(FALSE)} \subseteq Instructions
  BY DEF Instructions, Other, Rti, Mtps, Dispatcher
<1>3. CASE Run(Here)
  <2>1. CASE Plain(Here)
    BY <2>1, <1>1, <1>2 DEF Plain, Output, KeyService
  <2>2. CASE PutChar(Here) \/ TakeKey(Here) \/ Act(Here) \/ KeyDone(Here)
    BY <2>2, <1>1, <1>2 DEF PutChar, TakeKey, Act, KeyDone, Output, KeyService
  <2> QED
    BY <1>3, <2>1, <2>2 DEF Run
<1>4. CASE Wait
  BY <1>4 DEF Next
<1>5. CASE ByteArrives \/ Tick \/ Frame \/ Restart
  BY <1>5 DEF ByteArrives, Tick, Frame, Restart, Next
<1> QED
  BY <1>3, <1>4, <1>5 DEF GuestNext, CpuStep

LEMMA GuestTypes == TypeOK /\ [GuestNext]_allVars => TypeOK'
  BY GuestStep, NextType DEF allVars

(* The priority of a level is never above 7.                                *)
LEMMA LevelsBelowTop == ASSUME NEW c \in Lines PROVE Level(c) \in 4..6
  BY DEF Level

(* What the processor starts an instruction with, after the service of what *)
(* is pending, is guarded as it was before.                                 *)
LEMMA ServiceGuarded ==
  ASSUME IInv
  PROVE  Guarded(Here, ServicePriority, Pushed, mon, Left, Encode(Left))
<1> DEFINE sn == Encode(Left)
<1>1. TypeOK /\ Left \in SUBSET Lines /\ sn \in Left \cup {NONE}
  BY ServiceType, EncodeShows DEF IInv
<1>2. Taken \in Sources \cup {NONE}
  BY <1>1, TakenType
<1> HIDE DEF sn
<1>3. CASE Taken = NONE
  <2>1. Here = pc /\ ServicePriority = priority /\ Pushed = stack /\ Left \subseteq virq
    BY <1>3 DEF Here, ServicePriority, Pushed, Left
  <2>2. MON \notin virq => MON \notin Left /\ sn # MON
    BY <1>1, <2>1
  <2> QED
    BY <2>1, <2>2 DEF IInv, Guards, Guarded, Once, Quiet, Shut, Started, sn
<1>4. CASE Taken # NONE
  <2>1. /\ Pushed = Append(stack, [pc |-> pc, prio |-> priority])
        /\ ServicePriority = VectorPS[Taken] /\ Here = Entry[Taken]
    BY <1>4 DEF Pushed, ServicePriority, Here
  <2>2. /\ Len(Pushed) = Len(stack) + 1 /\ Len(stack) \in Nat
        /\ \A i \in 1..Len(stack) : Pushed[i] = stack[i]
        /\ Pushed[Len(stack) + 1].pc = pc
    BY <1>1, <2>1 DEF TypeOK
  <2>3. pc \in Output \cup {"start"} => pc \in {"print", "shut"}
    <3> DEFINE shown == Shown
    <3>a. shown \in Lines \cup {NONE}
      BY <1>1, EncodeShows DEF Shown, TypeOK
    <3>b. \/ trapped /\ Taken = TRAP
          \/ Taken = shown /\ shown # NONE /\ Level(shown) > priority
      BY <1>4 DEF Taken
    <3> HIDE DEF shown
    <3>1. CASE Taken = TRAP
      BY <3>1, <3>a, <3>b DEF IInv, Guards, Output
    <3>2. CASE Taken # TRAP
      <4>1. Taken \in Lines /\ Level(Taken) > priority
        BY <3>2, <3>a, <3>b
      <4>2. priority # 7
        BY <4>1, LevelsBelowTop
      <4> QED
        BY <4>2 DEF IInv, Guards, Guarded, Shut, Started, Output
    <3> QED
      BY <3>1, <3>2
  <2>4. Here \in {"clear", "take", "tick", "emt"} /\ (Here = "clear" => Taken = MON)
    BY <1>2, <1>4, <2>1
  <2>5. Taken = MON => /\ pc \notin Output /\ \A i \in 1..Len(stack) : stack[i].pc \notin Output
                       /\ MON \notin Left
    <3> SUFFICES ASSUME Taken = MON PROVE /\ pc \notin Output
                                          /\ \A i \in 1..Len(stack) : stack[i].pc \notin Output
                                          /\ MON \notin Left
      OBVIOUS
    <3>1. Shown = MON
      BY DEF Taken
    <3>2. MON \in virq \/ seen = MON
      <4>1. virq \in SUBSET Lines
        BY <1>1 DEF TypeOK
      <4> QED
        BY <4>1, <3>1, EncodeShows DEF Shown
    <3>3. pc \notin Asking /\ \A i \in 1..Len(stack) : stack[i].pc \notin Output
      BY <3>2 DEF IInv, Guards, Guarded, Quiet
    <3> QED
      BY <2>3, <3>3 DEF Left, Asking
  <2>6. Once(Here, Pushed)
    <3>1. Once(pc, stack)
      BY DEF IInv, Guards, Guarded
    <3>2. ASSUME Here \in Output, NEW i \in 1..Len(Pushed) PROVE Pushed[i].pc \notin Output
      <4>1. pc \notin Output /\ \A k \in 1..Len(stack) : stack[k].pc \notin Output
        BY <3>2, <2>4, <2>5 DEF Output
      <4> QED
        BY <4>1, <2>2
    <3>3. ASSUME NEW i \in 1..Len(Pushed), NEW j \in 1..Len(Pushed),
                 Pushed[i].pc \in Output, Pushed[j].pc \in Output
          PROVE  i = j
      <4>1. CASE i \in 1..Len(stack) /\ j \in 1..Len(stack)
        BY <4>1, <3>1, <3>3, <2>2 DEF Once
      <4>2. ASSUME pc \in Output, NEW k \in 1..Len(stack) PROVE stack[k].pc \notin Output
        BY <4>2, <3>1 DEF Once
      <4>3. i \in 1..Len(stack) \/ i = Len(stack) + 1
        BY <2>2
      <4>4. j \in 1..Len(stack) \/ j = Len(stack) + 1
        BY <2>2
      <4> HIDE DEF Output
      <4> QED
        BY <4>1, <4>2, <4>3, <4>4, <3>3, <2>2
    <3> QED
      BY <3>2, <3>3 DEF Once
  <2>7. Quiet(Here, Pushed, mon, Left, sn)
    <3>1. Here \notin Asking
      BY <2>4 DEF Asking
    <3>2. ASSUME NEW i \in 1..Len(Pushed), Pushed[i].pc \in Output
          PROVE  mon = FALSE /\ MON \notin virq
      <4>1. pc \in Asking \/ (\E k \in 1..Len(stack) : stack[k].pc \in Output) => mon = FALSE /\ MON \notin virq
        BY DEF IInv, Guards, Guarded, Quiet
      <4>2. i \in 1..Len(stack) \/ Pushed[i].pc = pc
        BY <2>2
      <4> QED
        BY <3>2, <2>2, <2>3, <4>1, <4>2 DEF Asking
    <3> QED
      BY <1>1, <3>1, <3>2 DEF Quiet, Left
  <2>8. Shut(Here, ServicePriority, Pushed, Left, sn)
    BY <1>1, <2>1, <2>2, <2>3, <2>4, <2>5 DEF IInv, Guards, Guarded, Shut
  <2>9. Started(Here, ServicePriority, Pushed)
    BY <2>2, <2>3, <2>4 DEF IInv, Guards, Guarded, Started
  <2> QED
    BY <2>6, <2>7, <2>8, <2>9 DEF Guarded, sn
<1> QED
  BY <1>3, <1>4

(* What Step leaves after a write of the dispatcher, and after any other    *)
(* instruction that is not an RTI.                                          *)
LEMMA OnDispatcher ==
  ASSUME NEW m \in BOOLEAN, NEW next, Step(Dispatcher(m), next)
  PROVE  /\ pc' = next /\ stack' = Pushed /\ priority' = ServicePriority /\ seen' = Encode(Left)
         /\ mon' = m /\ virq' = MonitorRequest(Left, m)
         /\ ~waiting' /\ ~trapped'
  BY DEF Step, Dispatcher

LEMMA Onward ==
  ASSUME NEW i, NEW next, Step(i, next), i.op \notin {"rti", "dispatcher"}
  PROVE  /\ pc' = next /\ stack' = Pushed /\ seen' = Encode(Left)
         /\ priority' = IF i.op = "mtps" THEN i.prio ELSE ServicePriority
         /\ mon' = mon /\ virq' = Left
         /\ waiting' => i.op = "wait"
         /\ trapped' => i.op = "trap"
  BY DEF Step

(* The three writes of bit 8: as the guest starts there is nothing on the   *)
(* stack, as the service enters its request is withdrawn, and as it asks    *)
(* again it is the only one and has the priority.                           *)
LEMMA DispatcherGuarded ==
  ASSUME IInv,
         \/ Here = "start" /\ Step(Dispatcher(TRUE), "open")
         \/ Here = "clear" /\ Step(Dispatcher(FALSE), "window")
         \/ Here = "again" /\ Step(Dispatcher(TRUE), "return")
  PROVE  Guards'
<1>1. Guarded(Here, ServicePriority, Pushed, mon, Left, Encode(Left))
  BY ServiceGuarded
<1>2. Left \in SUBSET Lines /\ Encode(Left) \in Left \cup {NONE}
  BY ServiceType, EncodeShows DEF IInv
<1>3. CASE Here = "start" /\ Step(Dispatcher(TRUE), "open")
  <2>1. pc' = "open" /\ stack' = <<>> /\ ~waiting' /\ ~trapped'
    BY <1>1, <1>3, OnDispatcher DEF Guarded, Started
  <2> QED
    BY <2>1 DEF Guards, Guarded, Once, Quiet, Shut, Started, Output, Asking
<1>4. CASE Here = "clear" /\ Step(Dispatcher(FALSE), "window")
  <2>1. /\ pc' = "window" /\ stack' = Pushed /\ seen' = Encode(Left) /\ priority' = ServicePriority
        /\ mon' = FALSE /\ virq' = MonitorRequest(Left, FALSE)
        /\ ~waiting' /\ ~trapped'
    BY <1>4, OnDispatcher
  <2>2. MON \notin virq' /\ seen' # MON /\ priority' = 7
    BY <1>1, <1>2, <1>4, <2>1 DEF Guarded, Shut, MonitorRequest
  <2>3. \A k \in 1..Len(stack') : stack'[k].pc \notin Output /\ stack'[k].pc # "start"
    BY <1>1, <1>4, <2>1 DEF Guarded, Once, Started, Output
  <2> QED
    BY <2>1, <2>2, <2>3 DEF Guards, Guarded, Once, Quiet, Shut, Started
<1>5. CASE Here = "again" /\ Step(Dispatcher(TRUE), "return")
  <2>1. /\ pc' = "return" /\ stack' = Pushed /\ priority' = ServicePriority
        /\ ~waiting' /\ ~trapped'
    BY <1>5, OnDispatcher
  <2>2. priority' = 7
    BY <1>1, <1>5, <2>1 DEF Guarded, Shut
  <2>3. \A k \in 1..Len(stack') : stack'[k].pc \notin Output /\ stack'[k].pc # "start"
    BY <1>1, <1>5, <2>1 DEF Guarded, Once, Started, Output
  <2> QED
    BY <2>1, <2>2, <2>3 DEF Guards, Guarded, Once, Quiet, Shut, Started, Asking
<1> QED
  BY <1>3, <1>4, <1>5

(* The instructions that leave bit 8 alone: only the service's own go from  *)
(* one of its locations to another.                                         *)
LEMMA PlainGuarded ==
  ASSUME IInv, NEW i, NEW next, Step(i, next), i.op \notin {"rti", "dispatcher"},
         next # "start",
         next \in Output => Here \in Asking,
         next \in Asking => Here \in Asking,
         next \notin {"clear", "window"},
         next = "return" => Here = "again" /\ i.op = "other",
         next = "again" => i.op = "mtps" /\ i.prio = 7,
         i.op = "wait" => next = "call",
         i.op = "trap" => next = "idle"
  PROVE  Guards'
<1>1. Guarded(Here, ServicePriority, Pushed, mon, Left, Encode(Left))
  BY ServiceGuarded
<1>2. /\ pc' = next /\ stack' = Pushed /\ seen' = Encode(Left)
      /\ priority' = IF i.op = "mtps" THEN i.prio ELSE ServicePriority
      /\ mon' = mon /\ virq' = Left
      /\ (waiting' => next = "call") /\ (trapped' => next = "idle")
  BY Onward
<1>3. Once(next, Pushed)
  BY <1>1 DEF Guarded, Once, Asking, Output
<1>4. Quiet(next, Pushed, mon, Left, Encode(Left))
  BY <1>1 DEF Guarded, Quiet
<1>5. Shut(next, priority', Pushed, Left, Encode(Left))
  BY <1>1, <1>2 DEF Guarded, Shut
<1>6. Started(next, priority', Pushed)
  BY <1>1 DEF Guarded, Started
<1> QED
  BY <1>2, <1>3, <1>4, <1>5, <1>6 DEF Guards, Guarded

(* An RTI takes the innermost frame up again: if it was cut out of the      *)
(* service, the service goes on where the line is still down.               *)
LEMMA ReturnGuarded ==
  ASSUME IInv, NEW next, Step(Rti, next)
  PROVE  Guards'
<1>1. Guarded(Here, ServicePriority, Pushed, mon, Left, Encode(Left))
  BY ServiceGuarded
<1>2. Pushed \in Seq(Frames) /\ Pushed # <<>>
  BY ServiceType DEF IInv, Step, Rti
<1> DEFINE n == Len(Pushed) - 1
<1>a. n \in Nat /\ n + 1 = Len(Pushed)
  BY <1>2
<1>b. Pushed[n + 1].pc = Pushed[Len(Pushed)].pc
  BY <1>a
<1>3. /\ pc' = Pushed[n + 1].pc /\ stack' = SubSeq(Pushed, 1, n)
      /\ mon' = mon /\ virq' = Left /\ seen' = Encode(Left)
      /\ ~waiting' /\ ~trapped'
  <2> HIDE DEF n
  <2>1. /\ pc' = Pushed[Len(Pushed)].pc
        /\ mon' = mon /\ virq' = Left /\ seen' = Encode(Left)
        /\ ~waiting' /\ ~trapped'
    BY DEF Step, Rti
  <2>2. stack' = SubSeq(Pushed, 1, n)
    BY DEF Step, Rti, n
  <2> QED
    BY <2>1, <2>2, <1>b
<1>4. /\ n \in Nat /\ Len(Pushed) = n + 1 /\ Len(stack') = n
      /\ \A k \in 1..n : stack'[k] = Pushed[k]
  <2> HIDE DEF n
  <2> QED
    BY <1>2, <1>a, <1>3
<1> HIDE DEF n
<1>5. n + 1 \in 1..Len(Pushed) /\ \A k \in 1..n : k \in 1..Len(Pushed) /\ k # n + 1
  BY <1>4
<1>6. Once(pc', stack')
  BY <1>1, <1>3, <1>4, <1>5 DEF Guarded, Once
<1>7. Quiet(pc', stack', mon', virq', seen')
  BY <1>1, <1>3, <1>4, <1>5 DEF Guarded, Quiet, Asking, Output
<1>8. Shut(pc', priority', stack', virq', seen')
  BY <1>1, <1>3, <1>4, <1>5 DEF Guarded, Shut, Output
<1>9. Started(pc', priority', stack')
  BY <1>1, <1>3, <1>4, <1>5 DEF Guarded, Started
<1> QED
  BY <1>3, <1>6, <1>7, <1>8, <1>9 DEF Guards, Guarded

-----------------------------------------------------------------------------
(* An instruction of the guest, whatever is served before it.               *)
LEMMA RunGuarded == ASSUME IInv, Run(Here) PROVE Guards'
<1>1. CASE Plain(Here)
  <2>1. CASE Here \in {"start", "clear"} \/ (Here = "again" /\ left > 0)
    <3>1. \/ Here = "start" /\ Step(Dispatcher(TRUE), "open")
          \/ Here = "clear" /\ Step(Dispatcher(FALSE), "window")
          \/ Here = "again" /\ Step(Dispatcher(TRUE), "return")
          \/ Here = "again" /\ left = 0
      BY <1>1, <2>1 DEF Plain
    <3>2. CASE Here = "again" /\ left = 0
      BY <2>1, <3>2
    <3> QED
      BY <3>1, <3>2, DispatcherGuarded
  <2>2. CASE Here \in {"return", "tick", "emt"}
    BY <1>1, <2>2, ReturnGuarded DEF Plain
  <2>3. CASE Here = "open"
    BY <1>1, <2>3, PlainGuarded DEF Plain, Mtps, Output, Asking
  <2>4. CASE Here = "idle"
    BY <1>1, <2>4, PlainGuarded DEF Plain, Output, Asking
  <2>5. CASE Here = "call"
    BY <1>1, <2>5, PlainGuarded DEF Plain, Output, Asking
  <2>6. CASE Here = "window"
    BY <1>1, <2>6, PlainGuarded DEF Plain, Mtps, Output, Asking
  <2>7. CASE Here = "shut"
    BY <1>1, <2>7, PlainGuarded DEF Plain, Mtps, Output, Asking
  <2>8. CASE Here = "again" /\ left = 0
    BY <1>1, <2>8, PlainGuarded DEF Plain, Other, Output, Asking
  <2>9. CASE Here = "lower"
    BY <1>1, <2>9, PlainGuarded DEF Plain, Mtps, Output, Asking
  <2> QED
    BY <1>1, <2>1, <2>2, <2>3, <2>4, <2>5, <2>6, <2>7, <2>8, <2>9 DEF Plain
<1>2. CASE PutChar(Here)
  BY <1>2, PlainGuarded DEF PutChar, Other, Output, Asking
<1>3. CASE TakeKey(Here)
  <2>1. Here = "take" /\ Step([op |-> "read_key"], "lower")
    BY <1>3 DEF TakeKey
  <2> QED
    BY <2>1, PlainGuarded DEF Output, Asking
<1>4. CASE Act(Here)
  <2>1. Here = "act" /\ Step(Other, "done")
    BY <1>4 DEF Act
  <2> QED
    BY <2>1, PlainGuarded DEF Other, Output, Asking
<1>5. CASE KeyDone(Here)
  BY <1>5, ReturnGuarded DEF KeyDone
<1> QED
  BY <1>1, <1>2, <1>3, <1>4, <1>5 DEF Run

(* A waiting processor only enters a service.                               *)
LEMMA WaitGuarded == ASSUME IInv, Wait PROVE Guards'
<1>1. Guarded(Here, ServicePriority, Pushed, mon, Left, Encode(Left))
  BY ServiceGuarded
<1>2. waiting' => pc' = "call"
  BY DEF Wait, Here, IInv, Guards
<1> QED
  BY <1>1, <1>2 DEF Wait, boardVars, Guards

(* The keyboard's ticks and the frame's end touch neither bit 8 nor its     *)
(* line.                                                                    *)
LEMMA BoardGuarded == ASSUME IInv, ByteArrives \/ Tick \/ Frame \/ UNCHANGED vars PROVE Guards'
<1>1. UNCHANGED <<cpuVars, mon>> /\ (MON \in virq' => MON \in virq)
  BY DEF ByteArrives, Tick, Frame, KbdTick, VBlank, vars, boardVars
<1> QED
  BY <1>1 DEF IInv, Guards, Guarded, Once, Quiet, Shut, Started, cpuVars

(* A guest that starts is guarded: nothing is on the stack.                 *)
LEMMA StartGuarded == ASSUME Init PROVE Guards
<1>1. pc = "start" /\ stack = <<>> /\ priority = 7 /\ ~waiting /\ ~trapped
  BY DEF Init
<1>2. \A k \in 1..Len(stack) : FALSE
  BY <1>1
<1> QED
  BY <1>1, <1>2 DEF Guards, Guarded, Once, Quiet, Shut, Started, Output, Asking

LEMMA ResetGuarded == ASSUME Reset PROVE Guards'
<1>1. pc' = "start" /\ stack' = <<>> /\ priority' = 7 /\ ~waiting' /\ ~trapped'
  BY DEF Reset
<1>2. \A k \in 1..Len(stack') : FALSE
  BY <1>1
<1> QED
  BY <1>1, <1>2 DEF Guards, Guarded, Once, Quiet, Shut, Started, Output, Asking

LEMMA GuestInitInv == GuestInit => IInv
  BY InitType, StartGuarded DEF GuestInit, IInv

LEMMA GuestNextInv == IInv /\ [GuestNext]_allVars => IInv'
<1> SUFFICES ASSUME IInv, [GuestNext]_allVars PROVE IInv'
  OBVIOUS
<1>1. TypeOK'
  BY GuestTypes DEF IInv
<1>2. CASE Run(Here)
  BY <1>2, <1>1, RunGuarded DEF IInv
<1>3. CASE Wait
  BY <1>3, <1>1, WaitGuarded DEF IInv
<1>4. CASE ByteArrives \/ Tick \/ Frame \/ UNCHANGED vars
  BY <1>4, <1>1, BoardGuarded DEF IInv
<1>5. CASE Restart
  BY <1>5, <1>1, ResetGuarded DEF Restart, IInv
<1> QED
  BY <1>2, <1>3, <1>4, <1>5 DEF GuestNext, CpuStep, allVars

(* For every text and keys, and however often the machine is reset, the     *)
(* terminal service is never entered while it is under way.                 *)
THEOREM ServiceNeverReentered == GuestSpec => []OutputNotReentered
<1>1. IInv => OutputNotReentered
  <2> SUFFICES ASSUME IInv PROVE OutputNotReentered
    OBVIOUS
  <2> DEFINE pcs == [i \in 1..Len(stack) |-> stack[i].pc]
             at == Append(pcs, pc)
  <2>1. Len(stack) \in Nat /\ pcs \in Seq(Code) /\ Len(pcs) = Len(stack)
    <3>1. stack \in Seq(Frames) /\ pc \in Code
      BY DEF IInv, TypeOK
    <3>2. ASSUME NEW i \in 1..Len(stack) PROVE stack[i].pc \in Code
      <4>1. stack[i] \in Frames
        BY <3>1, ElementOfSeq
      <4> QED
        BY <4>1 DEF Frames
    <3>3. Len(stack) \in Nat /\ DOMAIN pcs = 1..Len(stack) /\ pcs \in [1..Len(stack) -> Code]
      BY <3>1, <3>2
    <3>4. pcs \in Seq(Code)
      <4> HIDE DEF pcs
      <4>1. pcs \in UNION {[1..n -> Code] : n \in Nat}
        BY <3>3
      <4> QED
        BY <4>1, SeqDef, Zenon
    <3>5. Len(pcs) = Len(stack)
      BY <3>3, <3>4, LenProperties
    <3> QED
      BY <3>3, <3>4, <3>5
  <2>2. /\ Len(at) = Len(stack) + 1 /\ at[Len(stack) + 1] = pc
        /\ \A i \in 1..Len(stack) : at[i] = stack[i].pc
    BY <2>1
  <2> HIDE DEF at
  <2>3. ASSUME NEW i \in 1..Len(at), NEW j \in 1..Len(at), at[i] \in Output, at[j] \in Output
        PROVE  i = j
    BY <2>1, <2>2, <2>3 DEF IInv, Guards, Guarded, Once
  <2> QED
    BY <2>3 DEF OutputNotReentered, at
<1> QED
  BY GuestInitInv, GuestNextInv, <1>1, PTL DEF GuestSpec

(* A run of the guest is a run of the interrupts, so what Interrupts_proofs *)
(* shows of every guest holds of this one.                                  *)
THEOREM GuestIsOne == GuestSpec => Spec
<1>1. GuestInit => Init
  BY DEF GuestInit
<1>2. [GuestNext]_allVars => [Next]_vars
  BY GuestStep DEF allVars
<1> QED
  BY <1>1, <1>2, PTL DEF GuestSpec, Spec
=============================================================================
