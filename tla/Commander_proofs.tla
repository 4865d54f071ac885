--------------------------- MODULE Commander_proofs ---------------------------
(***************************************************************************)
(* Theorems about Commander: no copy of an image goes stale and no file is  *)
(* lost, whatever the images hold, however many files a transfer takes and  *)
(* whatever is answered to it.  The two ends of a transfer are on different *)
(* images (OtherImage); on one image a move loses the file.                 *)
(***************************************************************************)
EXTENDS Commander, FiniteSetTheorems, TLAPS

OtherImage == SameImage = FALSE

-----------------------------------------------------------------------------
(* What the variables hold.                                                 *)

AnyCopy == UNION {Copies(i) : i \in Images}
DeviceNames == {"A", "B", "HD"} \X {0, 1}
DeviceType(dev) ==
  dev \in [name : DeviceNames, image : Images, side : {0, 1}] /\ dev.side \in Sides(dev.image)

PanelType(p) ==
  p # NoPanel =>
    /\ p = [device |-> p.device, copy |-> p.copy, marks |-> p.marks]
    /\ DeviceType(p.device) /\ p.copy \in Copies(p.device.image) /\ p.marks \subseteq Names

TransferSet ==
  [move : BOOLEAN, queue : Seq(Names), at : Nat \ {0},
   device : [name : DeviceNames, image : Images, side : {0, 1}],
   own : AnyCopy \cup {NoImage}, touch : BOOLEAN, all : BOOLEAN, none : BOOLEAN, once : BOOLEAN]
TransferType(t) ==
  /\ t \in TransferSet
  /\ DeviceType(t.device)
  /\ t.own # NoImage => t.own \in Copies(t.device.image)
  /\ IsInjective(t.queue)

HdType(m) ==
  m # NoHd => m = [image |-> m.image, copy |-> m.copy] /\ m.image \in Hds /\ m.copy \in Copies(m.image)

TypeOK ==
  /\ DiskType(disk) /\ SlotType(slots)
  /\ panels = [i \in 1..2 |-> panels[i]] /\ \A i \in 1..2 : PanelType(panels[i])
  /\ active \in 1..2
  /\ transfer # NoTransfer => TransferType(transfer)
  /\ HdType(hdMem)
  /\ mode \in {"new", "up", "down"}

-----------------------------------------------------------------------------
(* The inductive invariant.  While a transfer waits for an answer its two   *)
(* images have been written and other copies of them have not been read     *)
(* again: they are under way.                                               *)

UnderWay == IF transfer = NoTransfer THEN {} ELSE {Here.device.image, transfer.device.image}

FreshOn(p, dk) ==
  p.copy = dk[p.device.image] /\ p.marks \subseteq NamesOn(Shown(p))
OthersFresh ==
  mode = "up" =>
    \A i \in 1..2 : HasLocation(panels[i]) /\ panels[i].device.image \notin UnderWay
                      => FreshOn(panels[i], disk)

HdFollowsFile ==
  /\ hdMem.image = slots.hd
  /\ hdMem # NoHd => hdMem.image \in UnderWay \/ hdMem.copy = disk[hdMem.image]

(* The ends of a transfer, which its source panel and its target keep as    *)
(* they have written them; and for a move, that the user knows.             *)
Ends(t) ==
  /\ HasLocation(Here)
  /\ Here.device.image # t.device.image
  /\ Here.copy = disk[Here.device.image]
  /\ Target(t) = disk[t.device.image]
  /\ t.own = NoImage => HasLocation(There) /\ There.device = t.device
Told(t, carried) ==
  t.move => \A j \in DOMAIN t.queue :
              [from |-> Place3(Here.device, t.queue[j]), to |-> Place3(t.device, t.queue[j])] \in carried
Transferring ==
  transfer # NoTransfer => mode = "up" /\ Ends(transfer) /\ Told(transfer, agreed.carried)

AgreedType == agreed = [given |-> agreed.given, carried |-> agreed.carried]

IInv == /\ TypeOK /\ AgreedType /\ PanelsMounted
        /\ OthersFresh /\ HdFollowsFile /\ Transferring

-----------------------------------------------------------------------------
(* The devices behind the slots: a name has one device, and with the image  *)
(* it tells the side.                                                       *)

LEMMA ToSetConcat ==
  ASSUME NEW T, NEW a \in Seq(T), NEW b \in Seq(T)
  PROVE  a \o b \in Seq(T) /\ ToSet(a \o b) = ToSet(a) \cup ToSet(b)
<1>1. /\ a \o b \in Seq(T) /\ Len(a \o b) = Len(a) + Len(b)
      /\ \A i \in 1..Len(a) : (a \o b)[i] = a[i]
      /\ \A i \in 1..Len(b) : (a \o b)[Len(a) + i] = b[i]
  OBVIOUS
<1> DEFINE c == a \o b
<1>2. ASSUME NEW x \in ToSet(c) PROVE x \in ToSet(a) \cup ToSet(b)
  <2>1. PICK i \in 1..Len(c) : x = c[i]
    BY DEF ToSet
  <2>2. CASE i <= Len(a)
    BY <1>1, <2>1, <2>2 DEF ToSet
  <2>3. CASE i > Len(a)
    <3>1. i - Len(a) \in 1..Len(b) /\ i = Len(a) + (i - Len(a))
      BY <1>1, <2>3
    <3>2. x = b[i - Len(a)]
      BY <1>1, <2>1, <3>1
    <3>3. QED BY <3>1, <3>2 DEF ToSet
  <2>4. QED BY <1>1, <2>2, <2>3
<1>3. ASSUME NEW x \in ToSet(a) PROVE x \in ToSet(c)
  BY <1>1 DEF ToSet
<1>4. ASSUME NEW x \in ToSet(b) PROVE x \in ToSet(c)
  <2>1. PICK i \in 1..Len(b) : x = b[i]
    BY DEF ToSet
  <2>2. Len(a) + i \in 1..Len(c) /\ c[Len(a) + i] = x
    BY <1>1, <2>1
  <2>3. QED BY <2>2 DEF ToSet
<1>5. QED BY <1>1, <1>2, <1>3, <1>4

Described(sl, dev) ==
  \/ \E d \in Drives, s \in {0, 1} :
       /\ sl[d].ds # NoImage /\ dev = Device(<<d, s>>, sl[d].ds, s)
  \/ \E d \in Drives, s \in {0, 1} :
       /\ sl[d].ds = NoImage /\ sl[d].side[s] # NoImage
       /\ dev = Device(<<d, s>>, sl[d].side[s], 0)
  \/ sl.hd # NoImage /\ dev = Device(<<"HD", 0>>, sl.hd, 0)

AnyDevice == [name : DeviceNames, image : Images, side : {0, 1}]

LEMMA DrivesDevices ==
  ASSUME NEW sl, SlotType(sl), NEW d \in {"A", "B"}
  PROVE  /\ FloppyDevices(sl, d) \in Seq(AnyDevice)
         /\ \A dev : dev \in ToSet(FloppyDevices(sl, d)) <=>
              /\ d \in Drives
              /\ \E s \in {0, 1} :
                   \/ sl[d].ds # NoImage /\ dev = Device(<<d, s>>, sl[d].ds, s)
                   \/ /\ sl[d].ds = NoImage /\ sl[d].side[s] # NoImage
                      /\ dev = Device(<<d, s>>, sl[d].side[s], 0)
<1>1. CASE d \notin Drives
  BY <1>1 DEF FloppyDevices, ToSet
<1>2. CASE d \in Drives /\ sl[d].ds # NoImage
  <2> DEFINE x == Device(<<d, 0>>, sl[d].ds, 0)
             y == Device(<<d, 1>>, sl[d].ds, 1)
  <2>1. FloppyDevices(sl, d) = <<x, y>>
    BY <1>2 DEF FloppyDevices
  <2>2. x \in AnyDevice /\ y \in AnyDevice
    BY <1>2, CommanderAssumption DEF CommanderAssumption, SlotType, DriveSlot, AnyDevice, DeviceNames, Device, Images
  <2>3. ToSet(<<x, y>>) = {x, y}
    BY DEF ToSet
  <2>4. QED BY <1>2, <2>1, <2>2, <2>3
<1>3. CASE d \in Drives /\ sl[d].ds = NoImage
  <2> DEFINE one(s) == SideDevice(sl, d, s)
  <2>1. ASSUME NEW s \in {0, 1}
        PROVE  /\ one(s) \in Seq(AnyDevice)
               /\ \A dev : dev \in ToSet(one(s)) <=>
                    sl[d].side[s] # NoImage /\ dev = Device(<<d, s>>, sl[d].side[s], 0)
    <3> DEFINE x == Device(<<d, s>>, sl[d].side[s], 0)
    <3>1. CASE sl[d].side[s] = NoImage
      BY <3>1 DEF SideDevice, ToSet
    <3>2. CASE sl[d].side[s] # NoImage
      <4>1. x \in AnyDevice
        BY <1>3, <3>2, CommanderAssumption DEF CommanderAssumption, SlotType, DriveSlot, AnyDevice, DeviceNames, Device, Images
      <4>2. one(s) = <<x>> /\ ToSet(<<x>>) = {x}
        BY <3>2 DEF SideDevice, ToSet
      <4>3. QED BY <3>2, <4>1, <4>2
    <3>3. QED BY <3>1, <3>2
  <2>2. FloppyDevices(sl, d) = one(0) \o one(1)
    BY <1>3 DEF FloppyDevices
  <2> HIDE DEF one
  <2>3. /\ one(0) \o one(1) \in Seq(AnyDevice)
        /\ ToSet(one(0) \o one(1)) = ToSet(one(0)) \cup ToSet(one(1))
    BY <2>1, ToSetConcat
  <2>4. QED BY <1>3, <2>1, <2>2, <2>3
<1>4. QED BY <1>1, <1>2, <1>3

LEMMA DevicesAre ==
  ASSUME NEW sl, SlotType(sl)
  PROVE  /\ DeviceSeq(sl) \in Seq(AnyDevice)
         /\ \A dev : dev \in Devices(sl) <=> Described(sl, dev)
<1> DEFINE a == FloppyDevices(sl, "A")
           b == FloppyDevices(sl, "B")
           h == HdDevices(sl)
<1>1. a \in Seq(AnyDevice) /\ b \in Seq(AnyDevice)
  BY DrivesDevices
<1>2. /\ h \in Seq(AnyDevice)
      /\ \A dev : dev \in ToSet(h) <=> sl.hd # NoImage /\ dev = Device(<<"HD", 0>>, sl.hd, 0)
  <2> DEFINE x == Device(<<"HD", 0>>, sl.hd, 0)
  <2>1. CASE sl.hd = NoImage
    BY <2>1 DEF HdDevices, ToSet
  <2>2. CASE sl.hd # NoImage
    <3>1. x \in AnyDevice
      BY <2>2, CommanderAssumption DEF CommanderAssumption, SlotType, AnyDevice, DeviceNames, Device, Images
    <3>2. h = <<x>> /\ ToSet(<<x>>) = {x}
      BY <2>2 DEF HdDevices, ToSet
    <3>3. QED BY <2>2, <3>1, <3>2
  <2>3. QED BY <2>1, <2>2
<1>3. DeviceSeq(sl) \in Seq(AnyDevice) /\ ToSet(DeviceSeq(sl)) = ToSet(a) \cup ToSet(b) \cup ToSet(h)
  <2>1. DeviceSeq(sl) = (a \o b) \o h \/ DeviceSeq(sl) = a \o (b \o h)
    BY DEF DeviceSeq
  <2> HIDE DEF a, b, h
  <2> DEFINE ab == a \o b
             bh == b \o h
  <2>2. ab \in Seq(AnyDevice) /\ ToSet(ab) = ToSet(a) \cup ToSet(b)
    BY <1>1, ToSetConcat
  <2>3. bh \in Seq(AnyDevice) /\ ToSet(bh) = ToSet(b) \cup ToSet(h)
    BY <1>1, <1>2, ToSetConcat
  <2>4. DeviceSeq(sl) = ab \o h \/ DeviceSeq(sl) = a \o bh
    BY <2>1
  <2> HIDE DEF ab, bh
  <2>5. ab \o h \in Seq(AnyDevice) /\ ToSet(ab \o h) = ToSet(ab) \cup ToSet(h)
    BY <1>2, <2>2, ToSetConcat
  <2>6. a \o bh \in Seq(AnyDevice) /\ ToSet(a \o bh) = ToSet(a) \cup ToSet(bh)
    BY <1>1, <2>3, ToSetConcat
  <2>7. QED BY <2>2, <2>3, <2>4, <2>5, <2>6
<1>4. Drives \subseteq {"A", "B"}
  BY CommanderAssumption DEF CommanderAssumption
<1>5. ASSUME NEW dev PROVE dev \in Devices(sl) <=> Described(sl, dev)
  <2> DEFINE on(d) ==
        /\ d \in Drives
        /\ \E s \in {0, 1} :
             \/ sl[d].ds # NoImage /\ dev = Device(<<d, s>>, sl[d].ds, s)
             \/ /\ sl[d].ds = NoImage /\ sl[d].side[s] # NoImage
                /\ dev = Device(<<d, s>>, sl[d].side[s], 0)
  <2>1. (dev \in ToSet(a) <=> on("A")) /\ (dev \in ToSet(b) <=> on("B"))
    BY DrivesDevices
  <2>2. Described(sl, dev) <=> (\E d \in Drives : on(d)) \/ (sl.hd # NoImage /\ dev = Device(<<"HD", 0>>, sl.hd, 0))
    BY DEF Described
  <2>3. (\E d \in Drives : on(d)) <=> on("A") \/ on("B")
    <3>1. \A d : on(d) => d \in Drives
      OBVIOUS
    <3> HIDE DEF on
    <3>2. QED BY <1>4, <3>1
  <2> HIDE DEF on
  <2>4. QED BY <1>2, <1>3, <2>1, <2>2, <2>3 DEF Devices
<1>6. QED BY <1>3, <1>5

LEMMA DeviceTyped ==
  ASSUME NEW sl, SlotType(sl), NEW dev \in Devices(sl)
  PROVE  DeviceType(dev)
<1>1. Described(sl, dev)
  BY DevicesAre
<1>2. Drives \subseteq {"A", "B"}
  BY CommanderAssumption DEF CommanderAssumption
<1>3. CASE \E d \in Drives, s \in {0, 1} : sl[d].ds # NoImage /\ dev = Device(<<d, s>>, sl[d].ds, s)
  BY <1>2, <1>3 DEF SlotType, DriveSlot, Device, DeviceType, DeviceNames, Images, Sides
<1>4. CASE \E d \in Drives, s \in {0, 1} :
             sl[d].side[s] # NoImage /\ dev = Device(<<d, s>>, sl[d].side[s], 0)
  BY <1>2, <1>4 DEF SlotType, DriveSlot, Device, DeviceType, DeviceNames, Images, Sides
<1>5. CASE sl.hd # NoImage /\ dev = Device(<<"HD", 0>>, sl.hd, 0)
  BY <1>5 DEF SlotType, Device, DeviceType, DeviceNames, Images, Sides
<1>6. QED BY <1>1, <1>3, <1>4, <1>5 DEF Described

LEMMA SameDevice ==
  ASSUME NEW sl, SlotType(sl), NEW dev \in Devices(sl),
         NEW old, SlotType(old), NEW was \in Devices(old),
         dev.name = was.name, dev.image = was.image \/ sl = old
  PROVE  dev = was
<1>1. Described(sl, dev) /\ Described(old, was)
  BY DevicesAre
<1>2. Drives \subseteq {"A", "B"} /\ TwoSided \cap OneSided = {}
  BY CommanderAssumption DEF CommanderAssumption
<1>3. CASE sl.hd # NoImage /\ dev = Device(<<"HD", 0>>, sl.hd, 0)
  <2>1. dev.name = <<"HD", 0>> /\ was.name = <<"HD", 0>> => dev = was
    BY <1>1, <1>2, <1>3 DEF Described, Device
  <2>2. dev.name = <<"HD", 0>> => was.name = <<"HD", 0>>
    OBVIOUS
  <2>3. QED BY <1>3, <2>1, <2>2 DEF Device
<1>4. CASE \E d \in Drives, s \in {0, 1} :
             dev = Device(<<d, s>>, sl[d].ds, s) /\ sl[d].ds # NoImage
  <2>1. PICK d \in Drives, s \in {0, 1} :
               dev = Device(<<d, s>>, sl[d].ds, s) /\ sl[d].ds # NoImage
    BY <1>4
  <2>2. \/ was = Device(<<d, s>>, old[d].ds, s)
        \/ was = Device(<<d, s>>, old[d].side[s], 0) /\ old[d].side[s] # NoImage
           /\ old[d].ds = NoImage
    BY <1>1, <1>2, <2>1 DEF Described, Device
  <2>3. sl[d].ds \in TwoSided /\ old[d].side[s] \in OneSided \cup {NoImage}
    BY <2>1 DEF SlotType, DriveSlot
  <2>4. QED BY <1>2, <2>1, <2>2, <2>3 DEF Device
<1>5. CASE \E d \in Drives, s \in {0, 1} :
             /\ dev = Device(<<d, s>>, sl[d].side[s], 0)
             /\ sl[d].side[s] # NoImage /\ sl[d].ds = NoImage
  <2>1. PICK d \in Drives, s \in {0, 1} :
               /\ dev = Device(<<d, s>>, sl[d].side[s], 0)
               /\ sl[d].side[s] # NoImage /\ sl[d].ds = NoImage
    BY <1>5
  <2>2. \/ was = Device(<<d, s>>, old[d].ds, s) /\ old[d].ds # NoImage
        \/ was = Device(<<d, s>>, old[d].side[s], 0)
    BY <1>1, <1>2, <2>1 DEF Described, Device
  <2>3. sl[d].side[s] \in OneSided /\ old[d].ds \in TwoSided \cup {NoImage}
    BY <2>1 DEF SlotType, DriveSlot
  <2>4. QED BY <1>2, <2>1, <2>2, <2>3 DEF Device
<1>6. QED BY <1>1, <1>3, <1>4, <1>5 DEF Described
-----------------------------------------------------------------------------
(* Induction, for the loop of a transfer and for the first of some devices. *)

LEMMA Induction ==
  ASSUME NEW S, 0 \in S, \A n \in Nat : n \in S => n + 1 \in S
  PROVE  Nat \subseteq S
<1>1. SUFFICES ASSUME NEW n \in Nat, n \notin S PROVE FALSE
  OBVIOUS
<1> DEFINE U == {i \in 0..n : i \in S}
           f == [i \in U |-> i + 1]
<1>2. IsFiniteSet(U)
  <2>1. IsFiniteSet(0..n)
    BY FS_Interval
  <2>2. U \in SUBSET (0..n)
    OBVIOUS
  <2> HIDE DEF U
  <2>3. QED BY <2>1, <2>2, FS_Subset
<1>3. f \in [U -> U]
  BY <1>1
<1>4. f \in Injection(U, U)
  BY <1>3 DEF Injection, IsInjective
<1>5. f \in Surjection(U, U)
  <2> HIDE DEF U, f
  <2>1. QED BY <1>2, <1>4, FS_Injection
<1>6. \E i \in U : f[i] = 0
  <2>1. 0 \in U
    OBVIOUS
  <2>2. \A t \in U : \E i \in U : f[i] = t
    <3> HIDE DEF U, f
    <3>1. QED BY <1>5 DEF Surjection
  <2>3. QED BY <2>1, <2>2
<1>7. QED BY <1>6

LEMMA FirstOf ==
  ASSUME NEW S \in SUBSET Nat, S # {}
  PROVE  \E m \in S : \A k \in S : m <= k
<1>1. SUFFICES ASSUME \A m \in S : \E k \in S : k < m PROVE FALSE
  OBVIOUS
<1> DEFINE Above == {n \in Nat : \A k \in S : n < k}
<1>2. 0 \in Above
  <2>1. ASSUME NEW k \in S PROVE 0 < k
    BY <1>1
  <2>2. QED BY <2>1
<1>3. ASSUME NEW n \in Nat, n \in Above PROVE n + 1 \in Above
  <2>1. ASSUME NEW m \in S PROVE n + 1 < m
    <3>1. PICK k \in S : k < m
      BY <1>1
    <3>2. n < k
      BY <1>3
    <3>3. QED BY <3>1, <3>2
  <2>2. QED BY <2>1
<1>4. Nat \subseteq Above
  <2> HIDE DEF Above
  <2>1. QED BY <1>2, <1>3, Induction
<1>5. PICK k \in S : TRUE
  OBVIOUS
<1>6. k \in Above
  <2> HIDE DEF Above
  <2>1. QED BY <1>4
<1>7. QED BY <1>6

LEMMA Queued ==
  ASSUME NEW sel \in SUBSET Names
  PROVE  /\ SetToSeq(sel) \in Seq(sel) /\ SetToSeq(sel) \in Seq(Names)
         /\ IsInjective(SetToSeq(sel))
<1>1. IsFiniteSet(sel)
  BY CommanderAssumption, FS_Subset DEF CommanderAssumption
<1>2. Cardinality(sel) \in Nat /\ ExistsBijection(1..Cardinality(sel), sel)
  BY <1>1, FS_CardinalityType
<1>3. \E f \in [1..Cardinality(sel) -> sel] : IsInjective(f)
  BY <1>2 DEF ExistsBijection, Bijection, Injection
<1>4. SetToSeq(sel) \in [1..Cardinality(sel) -> sel] /\ IsInjective(SetToSeq(sel))
  BY <1>3 DEF SetToSeq
<1>5. QED BY <1>2, <1>4

LEMMA RunUnfolds ==
  ASSUME NEW t, t.queue \in Seq(Names)
  PROVE  \E w : /\ w = [k \in 0..Len(t.queue) |-> IF k = 0 THEN RunStart(t) ELSE Further(w[k - 1])]
                /\ Run(t) = w[Len(t.queue)]
<1> DEFINE Unfolds(n, g) == g = [k \in 0..n |-> IF k = 0 THEN RunStart(t) ELSE Further(g[k - 1])]
           Some == {n \in Nat : \E g : Unfolds(n, g)}
<1>1. 0 \in Some
  <2> DEFINE g == [k \in 0..0 |-> RunStart(t)]
  <2>1. Unfolds(0, g)
    OBVIOUS
  <2>2. QED BY <2>1
<1>2. ASSUME NEW n \in Nat, n \in Some PROVE n + 1 \in Some
  <2>1. PICK g : Unfolds(n, g)
    BY <1>2
  <2> DEFINE h == [k \in 0..n + 1 |-> IF k <= n THEN g[k] ELSE Further(g[n])]
  <2>2. \A k \in 0..n + 1 : h[k] = IF k = 0 THEN RunStart(t) ELSE Further(h[k - 1])
    <3>1. TAKE k \in 0..n + 1
    <3>2. CASE k = 0
      BY <2>1, <3>2
    <3>3. CASE k # 0 /\ k <= n
      BY <2>1, <3>3
    <3>4. CASE k = n + 1
      BY <3>4
    <3>5. QED BY <3>2, <3>3, <3>4
  <2>3. Unfolds(n + 1, h)
    <3> HIDE DEF h
    <3>1. h = [k \in 0..n + 1 |-> h[k]]
      BY DEF h
    <3>2. QED BY <2>2, <3>1
  <2>4. QED
    <3> HIDE DEF h, Unfolds
    <3>1. QED BY <2>3
<1>3. Nat \subseteq Some
  <2> HIDE DEF Some
  <2>1. QED BY <1>1, <1>2, Induction
<1> DEFINE N == Len(t.queue)
           v == CHOOSE w : w = [k \in 0..N |-> IF k = 0 THEN RunStart(t) ELSE Further(w[k - 1])]
<1>4. N \in Nat
  OBVIOUS
<1>5. \E w : Unfolds(N, w)
  <2> HIDE DEF Unfolds, N
  <2>1. QED BY <1>3, <1>4
<1>6. Unfolds(N, v)
  <2> HIDE DEF N
  <2>1. QED BY <1>5
<1>7. Run(t) = v[N]
  BY DEF Run
<1>8. QED
  <2> HIDE DEF v
  <2>1. QED BY <1>6, <1>7

-----------------------------------------------------------------------------
(* The loop of a transfer.  Carrying holds of it after any number of files: *)
(* what it has written, and where the files are that it took or wrote over. *)

SetUp(t) ==
  /\ DiskType(disk) /\ PanelType(Here) /\ TransferType(t)
  /\ HasLocation(Here) /\ Here.device.image # t.device.image
  /\ Here.copy = disk[Here.device.image] /\ Target(t) = disk[t.device.image]
  /\ t.once => ~t.none

Passed(t, at) == {j \in DOMAIN t.queue : t.at <= j /\ j < at}
SourceKept(t, at, old, from, to) ==
  \A x \in old : \/ x \in from
                 \/ t.move /\ x \in to /\ \E j \in Passed(t, at) : x.name = t.queue[j]
TargetKept(t, at, old, to) ==
  \A x \in old : \/ x \in to
                 \/ \E j \in Passed(t, at) : x.name = t.queue[j] /\ (t.all \/ (t.once /\ j = t.at))

(* A copy of the image dev is on, changed on dev's side at most.            *)
OnSide(copy, dev) ==
  /\ copy \in Copies(dev.image)
  /\ \A s \in Sides(dev.image) : s # dev.side => copy[s] = disk[dev.image][s]

Progress(t, u) ==
  /\ u = [t EXCEPT !.at = u.at, !.once = u.once]
  /\ u.at \in Nat \ {0} /\ t.at <= u.at
  /\ u.once \in BOOLEAN /\ (u.once => t.once /\ u.at = t.at)

Parts(t, u, dk, f, g) ==
  LET from == Here.device
      to == t.device
  IN /\ Progress(t, u)
     /\ OnSide(f, from) /\ OnSide(g, to)
     /\ dk = [disk EXCEPT ![from.image] = f, ![to.image] = g]
     /\ SourceKept(t, u.at, disk[from.image][from.side].files, f[from.side].files, g[to.side].files)
     /\ TargetKept(t, u.at, disk[to.image][to.side].files, g[to.side].files)
Carrying(t, w) ==
  /\ w = [t |-> w.t, disk |-> w.disk, from |-> w.from, to |-> w.to, asks |-> w.asks]
  /\ Parts(t, w.t, w.disk, w.from, w.to)

Named(fs, n) == \A x \in fs : x.name = n

LEMMA StartCarries ==
  ASSUME NEW t, SetUp(t)
  PROVE  Carrying(t, RunStart(t))
<1> DEFINE w == RunStart(t)
<1>1. w = [t |-> t, disk |-> disk, from |-> disk[Here.device.image], to |-> disk[t.device.image], asks |-> FALSE]
  BY DEF RunStart, SetUp
<1>2. Progress(t, t)
  <2>1. t \in TransferSet
    BY DEF SetUp, TransferType
  <2>2. t.at \in Nat \ {0} /\ t.once \in BOOLEAN
    BY <2>1 DEF TransferSet
  <2>3. t = [t EXCEPT !.at = t.at, !.once = t.once]
    BY <2>1 DEF TransferSet
  <2>4. QED BY <2>2, <2>3 DEF Progress
<1>3. Here.device.image \in Images /\ t.device.image \in Images
  BY DEF SetUp, TransferType, PanelType, DeviceType, HasLocation
<1>4. OnSide(disk[Here.device.image], Here.device) /\ OnSide(disk[t.device.image], t.device)
  BY <1>3 DEF OnSide, SetUp, DiskType
<1>5. disk = [disk EXCEPT ![Here.device.image] = disk[Here.device.image], ![t.device.image] = disk[t.device.image]]
  BY <1>3 DEF SetUp, DiskType
<1>6. Parts(t, t, disk, disk[Here.device.image], disk[t.device.image])
  BY <1>2, <1>4, <1>5 DEF Parts, SourceKept, TargetKept
<1>7. /\ w = [t |-> w.t, disk |-> w.disk, from |-> w.from, to |-> w.to, asks |-> w.asks]
      /\ Parts(t, w.t, w.disk, w.from, w.to)
  <2> HIDE DEF w
  <2>1. QED BY <1>1, <1>6
<1>8. QED BY <1>7 DEF Carrying

LEMMA Moved ==
  ASSUME NEW t, TransferType(t), NEW u, Progress(t, u), u.at \in DOMAIN t.queue,
         NEW old, NEW from, NEW to, SourceKept(t, u.at, old, from, to),
         NEW v, Progress(t, v), v.at = u.at + 1,
         NEW src, Named(src, t.queue[u.at]), NEW there, Named(there, t.queue[u.at])
  PROVE  /\ SourceKept(t, v.at, old, from, (to \ there) \cup src)
         /\ SourceKept(t, v.at, old, from, to)
         /\ t.move => SourceKept(t, v.at, old, from \ src, (to \ there) \cup src)
<1>1. t.queue \in Seq(Names) /\ IsInjective(t.queue) /\ t.at \in Nat /\ t.at <= u.at /\ u.at \in Nat
  BY DEF TransferType, TransferSet, Progress
<1>2. Passed(t, u.at) \subseteq Passed(t, v.at) /\ u.at \in Passed(t, v.at)
  BY <1>1 DEF Passed
<1>3. ASSUME NEW x \in to, NEW j \in Passed(t, u.at), x.name = t.queue[j] PROVE x \notin there
  BY <1>1, <1>3 DEF Passed, IsInjective, Named
<1>4. ASSUME NEW x \in old
      PROVE \/ x \in from
            \/ t.move /\ x \in to /\ x \notin there /\ \E j \in Passed(t, v.at) : x.name = t.queue[j]
  BY <1>2, <1>3 DEF SourceKept
<1>5. QED BY <1>2, <1>4 DEF SourceKept, Named

LEMMA WrittenOver ==
  ASSUME NEW t, TransferType(t), NEW u, Progress(t, u), u.at \in DOMAIN t.queue,
         NEW old, NEW to, TargetKept(t, u.at, old, to),
         NEW v, Progress(t, v), v.at = u.at + 1,
         NEW src, NEW there, Named(there, t.queue[u.at]),
         there = {} \/ t.all \/ u.once
  PROVE  /\ TargetKept(t, v.at, old, (to \ there) \cup src)
         /\ TargetKept(t, v.at, old, to)
<1>1. t.queue \in Seq(Names) /\ t.at \in Nat /\ t.at <= u.at /\ u.at \in Nat
  BY DEF TransferType, TransferSet, Progress
<1>2. Passed(t, u.at) \subseteq Passed(t, v.at) /\ u.at \in Passed(t, v.at)
  BY <1>1 DEF Passed
<1>3. u.once => t.once /\ u.at = t.at
  BY DEF Progress
<1>4. QED BY <1>2, <1>3 DEF TargetKept, Named

WithFiles(copy, dev, fs) == [copy EXCEPT ![dev.side].files = fs]

LEMMA Written ==
  ASSUME NEW dev, DeviceType(dev), NEW copy, OnSide(copy, dev), NEW fs \in SUBSET File
  PROVE  /\ OnSide(WithFiles(copy, dev, fs), dev)
         /\ WithFiles(copy, dev, fs)[dev.side].files = fs
<1>1. dev.side \in Sides(dev.image)
  BY DEF DeviceType
<1>2. copy \in [Sides(dev.image) -> Volume]
  BY DEF OnSide, Copies
<1>3. [copy[dev.side] EXCEPT !.files = fs] \in Volume /\ [copy[dev.side] EXCEPT !.files = fs].files = fs
  BY <1>1, <1>2 DEF Volume
<1>4. [copy EXCEPT ![dev.side].files = fs] \in [Sides(dev.image) -> Volume]
  BY <1>1, <1>2, <1>3
<1>5. QED BY <1>1, <1>2, <1>3, <1>4 DEF OnSide, Copies, WithFiles

LEMMA FilesOf ==
  ASSUME NEW dev, DeviceType(dev), NEW copy \in Copies(dev.image)
  PROVE  copy[dev.side] \in Volume /\ copy[dev.side].files \in SUBSET File
BY DEF DeviceType, Copies, Volume

LEMMA Onward ==
  ASSUME NEW t \in TransferSet, NEW u, Progress(t, u)
  PROVE  /\ u \in TransferSet
         /\ Progress(t, [u EXCEPT !.at = @ + 1, !.once = FALSE])
         /\ ~u.once => Progress(t, [u EXCEPT !.at = @ + 1])
<1>1. PICK a, o : u = [t EXCEPT !.at = a, !.once = o]
  BY DEF Progress
<1>2. u.at = a /\ u.once = o /\ t.at \in Nat
  BY <1>1 DEF TransferSet
<1>3. a \in Nat \ {0} /\ t.at <= a /\ o \in BOOLEAN
  BY <1>2 DEF Progress
<1>4. u \in TransferSet
  BY <1>1, <1>3 DEF TransferSet
<1> DEFINE v == [u EXCEPT !.at = @ + 1, !.once = FALSE]
           x == [u EXCEPT !.at = @ + 1]
<1>5. v = [t EXCEPT !.at = a + 1, !.once = FALSE] /\ v.at = a + 1 /\ v.once = FALSE
  BY <1>1 DEF TransferSet
<1>6. ASSUME ~o
      PROVE  x = [t EXCEPT !.at = a + 1, !.once = FALSE] /\ x.at = a + 1 /\ x.once = FALSE
  BY <1>1, <1>3, <1>6 DEF TransferSet
<1> HIDE DEF v, x
<1>7. Progress(t, v)
  BY <1>2, <1>3, <1>5 DEF Progress
<1>8. ASSUME ~o PROVE Progress(t, x)
  <2>1. x = [t EXCEPT !.at = a + 1, !.once = FALSE] /\ x.at = a + 1 /\ x.once = FALSE
    BY <1>6, <1>8
  <2>2. x = [t EXCEPT !.at = x.at, !.once = x.once]
    BY <2>1
  <2>3. x.at \in Nat \ {0} /\ t.at <= x.at
    BY <1>2, <1>3, <2>1
  <2>4. QED BY <2>1, <2>2, <2>3 DEF Progress
<1>9. QED BY <1>2, <1>4, <1>7, <1>8 DEF v, x

(* What a step does to the record of the loop.                              *)
Wrote(w, i, x) == [w EXCEPT !.to = x, !.disk[i] = x]
Took(w, i, x) == [w EXCEPT !.from = x, !.disk[i] = x]
Done(w) == [w EXCEPT !.t.at = @ + 1, !.t.once = FALSE]
DoneOne(u) == [u EXCEPT !.at = @ + 1, !.once = FALSE]

LEMMA Recorded ==
  ASSUME NEW u, NEW dk, NEW f, NEW g, NEW a, NEW i, NEW x, NEW w,
         w = [t |-> u, disk |-> dk, from |-> f, to |-> g, asks |-> a]
  PROVE  /\ Wrote(w, i, x) = [t |-> u, disk |-> [dk EXCEPT ![i] = x], from |-> f, to |-> x, asks |-> a]
         /\ Took(w, i, x) = [t |-> u, disk |-> [dk EXCEPT ![i] = x], from |-> x, to |-> g, asks |-> a]
<1> DEFINE c == [w EXCEPT !.to = x]
           d == [w EXCEPT !.from = x]
<1>1. /\ c = [t |-> u, disk |-> dk, from |-> f, to |-> x, asks |-> a]
      /\ d = [t |-> u, disk |-> dk, from |-> x, to |-> g, asks |-> a]
  OBVIOUS
<1>2. Wrote(w, i, x) = [c EXCEPT !.disk[i] = x] /\ Took(w, i, x) = [d EXCEPT !.disk[i] = x]
  BY DEF Wrote, Took
<1> HIDE DEF c, d
<1>3. [c EXCEPT !.disk[i] = x] = [t |-> u, disk |-> [dk EXCEPT ![i] = x], from |-> f, to |-> x, asks |-> a]
  BY <1>1
<1>4. [d EXCEPT !.disk[i] = x] = [t |-> u, disk |-> [dk EXCEPT ![i] = x], from |-> x, to |-> g, asks |-> a]
  BY <1>1
<1>5. QED BY <1>2, <1>3, <1>4

LEMMA Passes ==
  ASSUME NEW u, NEW dk, NEW f, NEW g, NEW a, NEW w,
         w = [t |-> u, disk |-> dk, from |-> f, to |-> g, asks |-> a]
  PROVE  Done(w) = [t |-> DoneOne(u), disk |-> dk, from |-> f, to |-> g, asks |-> a]
<1> DEFINE v == [u EXCEPT !.at = @ + 1]
           c == [w EXCEPT !.t.at = @ + 1]
           x == [v EXCEPT !.once = FALSE]
<1>1. c = [t |-> v, disk |-> dk, from |-> f, to |-> g, asks |-> a]
  OBVIOUS
<1>2. Done(w) = [c EXCEPT !.t = [c.t EXCEPT !.once = FALSE]]
  BY DEF Done
<1>3. DoneOne(u) = x
  BY DEF DoneOne
<1>4. [c.t EXCEPT !.once = FALSE] = x
  <2>1. c.t = v
    BY <1>1
  <2> HIDE DEF c, v
  <2>2. QED BY <2>1
<1> HIDE DEF c, v, x
<1>5. [c EXCEPT !.t = x] = [t |-> x, disk |-> dk, from |-> f, to |-> g, asks |-> a]
  BY <1>1
<1>6. QED BY <1>2, <1>3, <1>4, <1>5

LEMMA StepCarries ==
  ASSUME NEW t, SetUp(t), NEW w, Carrying(t, w), w.t.at <= Len(w.t.queue)
  PROVE  Carrying(t, Step(w))
<1> DEFINE from == Here.device
           u == w.t
           dk == w.disk
           f == w.from
           g == w.to
           a == w.asks
           to == u.device
           n == u.queue[u.at]
           src == On(f[from.side], n)
           there == On(g[to.side], n)
           oldFrom == disk[from.image][from.side].files
           oldTo == disk[to.image][to.side].files
           fFiles == f[from.side].files
           gFiles == g[to.side].files
<1>1. w = [t |-> u, disk |-> dk, from |-> f, to |-> g, asks |-> a] /\ Parts(t, u, dk, f, g)
  BY DEF Carrying
<1> HIDE DEF u, dk, f, g, a
<1>2. TransferType(t) /\ t \in TransferSet /\ DeviceType(t.device) /\ from.image # t.device.image
  BY DEF SetUp, TransferType
<1>3. /\ u.queue = t.queue /\ u.move = t.move /\ to = t.device
      /\ u.all = t.all /\ u.none = t.none
  BY <1>1, <1>2 DEF Parts, Progress, TransferSet
<1>4. /\ DeviceType(from) /\ DeviceType(to) /\ DiskType(disk) /\ from.image # to.image
      /\ from.image \in Images /\ to.image \in Images
  BY <1>2, <1>3 DEF SetUp, PanelType, HasLocation, DeviceType
<1>5. u \in TransferSet
  BY <1>1, <1>2, Onward DEF Parts
<1>6. /\ u.at \in Nat \ {0} /\ u.at \in DOMAIN t.queue /\ t.queue \in Seq(Names)
      /\ u.once \in BOOLEAN /\ u.none \in BOOLEAN /\ n = t.queue[u.at]
  BY <1>2, <1>3, <1>5 DEF TransferSet, u
<1>7. /\ Progress(t, u) /\ OnSide(f, from) /\ OnSide(g, to)
      /\ dk = [disk EXCEPT ![from.image] = f, ![to.image] = g]
      /\ SourceKept(t, u.at, oldFrom, fFiles, gFiles) /\ TargetKept(t, u.at, oldTo, gFiles)
  BY <1>1, <1>3 DEF Parts
<1>8. /\ fFiles \in SUBSET File /\ gFiles \in SUBSET File
      /\ Named(src, t.queue[u.at]) /\ Named(there, t.queue[u.at]) /\ Named({}, t.queue[u.at])
      /\ src \subseteq fFiles
  BY <1>4, <1>6, <1>7, FilesOf DEF OnSide, On, Named
<1> DEFINE taken == there # {} /\ ~u.all /\ ~u.once
<1>9. ASSUME NEW v, NEW d, NEW x, NEW y, NEW b, Parts(t, v, d, x, y)
      PROVE  Carrying(t, [t |-> v, disk |-> d, from |-> x, to |-> y, asks |-> b])
  BY <1>9 DEF Carrying
<1>10. ASSUME NEW v, Progress(t, v), v.at = u.at + 1
       PROVE  /\ SourceKept(t, v.at, oldFrom, fFiles, gFiles)
              /\ TargetKept(t, v.at, oldTo, gFiles)
              /\ ~taken => /\ SourceKept(t, v.at, oldFrom, fFiles, (gFiles \ there) \cup src)
                           /\ u.move => SourceKept(t, v.at, oldFrom, fFiles \ src, (gFiles \ there) \cup src)
                           /\ TargetKept(t, v.at, oldTo, (gFiles \ there) \cup src)
  <2> HIDE DEF src, there, fFiles, gFiles, oldFrom, oldTo, n
  <2>1. /\ SourceKept(t, v.at, oldFrom, fFiles, gFiles)
        /\ SourceKept(t, v.at, oldFrom, fFiles, (gFiles \ there) \cup src)
        /\ u.move => SourceKept(t, v.at, oldFrom, fFiles \ src, (gFiles \ there) \cup src)
    BY <1>2, <1>3, <1>6, <1>7, <1>8, <1>10, Moved
  <2>2. TargetKept(t, v.at, oldTo, gFiles)
    BY <1>2, <1>6, <1>7, <1>8, <1>10, WrittenOver
  <2>3. ~taken => TargetKept(t, v.at, oldTo, (gFiles \ there) \cup src)
    BY <1>2, <1>3, <1>6, <1>7, <1>8, <1>10, WrittenOver
  <2>4. QED BY <2>1, <2>2, <2>3
<1>11. CASE taken /\ ~u.none
  <2>1. Step(w) = [w EXCEPT !.asks = TRUE]
    BY <1>11 DEF Step, u, g
  <2>2. Step(w) = [t |-> u, disk |-> dk, from |-> f, to |-> g, asks |-> TRUE]
    BY <1>1, <2>1
  <2>3. QED BY <1>1, <1>9, <2>2
<1>12. CASE taken /\ u.none
  <2> DEFINE v == [u EXCEPT !.at = @ + 1]
  <2>1. Step(w) = [w EXCEPT !.t.at = @ + 1]
    BY <1>12 DEF Step, u, g
  <2>2. Step(w) = [t |-> v, disk |-> dk, from |-> f, to |-> g, asks |-> a]
    BY <1>1, <2>1
  <2>3. Progress(t, v) /\ v.at = u.at + 1
    BY <1>2, <1>5, <1>7, <1>12, Onward DEF TransferSet
  <2> HIDE DEF v
  <2>4. SourceKept(t, v.at, oldFrom, fFiles, gFiles) /\ TargetKept(t, v.at, oldTo, gFiles)
    BY <1>10, <2>3
  <2>5. Parts(t, v, dk, f, g)
    BY <1>3, <1>7, <2>3, <2>4 DEF Parts
  <2>6. QED BY <1>9, <2>2, <2>5
<1>13. CASE ~taken
  <2> DEFINE newTo == [g EXCEPT ![to.side].files = (gFiles \ there) \cup src]
             newFrom == [f EXCEPT ![from.side].files = @ \ src]
             copied == Wrote(w, to.image, newTo)
             moved == Took(copied, from.image, newFrom)
             v == DoneOne(u)
  <2>1. Step(w) = Carried(w)
    BY <1>6, <1>13 DEF Step, u, g
  <2>2. Carried(w) \in {Done(w), Done(copied)} \/ (u.move /\ Carried(w) = Done(moved))
    <3> DEFINE goes == /\ src # {}
                       /\ u.move => \A x \in src : x.prot => u.touch \/ there # {}
                       /\ g[to.side].dir /\ Cardinality(gFiles \ there) < Room
    <3>1. Carried(w) = Done(IF ~goes THEN w ELSE IF u.move THEN moved ELSE copied)
      BY DEF Carried, Wrote, Took, Done, u, f, g
    <3> HIDE DEF copied, moved, goes
    <3>2. QED BY <3>1
  <2>3. Progress(t, v) /\ v.at = u.at + 1
    BY <1>2, <1>5, <1>7, Onward DEF TransferSet, DoneOne
  <2>4. OnSide(newTo, to) /\ newTo[to.side].files = (gFiles \ there) \cup src
    <3> DEFINE fs == (gFiles \ there) \cup src
    <3>1. fs \in SUBSET File
      BY <1>8
    <3> HIDE DEF fs
    <3>2. OnSide(WithFiles(g, to, fs), to) /\ WithFiles(g, to, fs)[to.side].files = fs
      BY <1>4, <1>7, <3>1, Written, ZenonT(60)
    <3>3. QED BY <3>2 DEF fs, WithFiles
  <2>5. OnSide(newFrom, from) /\ newFrom[from.side].files = fFiles \ src
    <3> DEFINE fs == fFiles \ src
    <3>1. fs \in SUBSET File
      BY <1>8
    <3>2. newFrom = [f EXCEPT ![from.side].files = fs]
      OBVIOUS
    <3> HIDE DEF fs
    <3>3. OnSide(WithFiles(f, from, fs), from) /\ WithFiles(f, from, fs)[from.side].files = fs
      BY <1>4, <1>7, <3>1, Written, ZenonT(60)
    <3>4. QED BY <3>2, <3>3 DEF fs, WithFiles
  <2>6. /\ SourceKept(t, v.at, oldFrom, fFiles, gFiles) /\ TargetKept(t, v.at, oldTo, gFiles)
        /\ SourceKept(t, v.at, oldFrom, fFiles, (gFiles \ there) \cup src)
        /\ TargetKept(t, v.at, oldTo, (gFiles \ there) \cup src)
        /\ u.move => SourceKept(t, v.at, oldFrom, fFiles \ src, (gFiles \ there) \cup src)
    <3> HIDE DEF v, src, there, oldFrom, oldTo, fFiles, gFiles
    <3>1. QED BY <1>10, <1>13, <2>3
  <2> DEFINE d1 == [dk EXCEPT ![to.image] = newTo]
             d2 == [d1 EXCEPT ![from.image] = newFrom]
  <2>7. /\ d1 = [disk EXCEPT ![from.image] = f, ![to.image] = newTo]
        /\ d2 = [disk EXCEPT ![from.image] = newFrom, ![to.image] = newTo]
    <3> HIDE DEF newTo, newFrom
    <3>1. QED BY <1>4, <1>7 DEF DiskType
  <2>8. /\ Done(w) = [t |-> v, disk |-> dk, from |-> f, to |-> g, asks |-> a]
        /\ Done(copied) = [t |-> v, disk |-> d1, from |-> f, to |-> newTo, asks |-> a]
        /\ Done(moved) = [t |-> v, disk |-> d2, from |-> newFrom, to |-> newTo, asks |-> a]
    <3> HIDE DEF newTo, newFrom
    <3>1. copied = [t |-> u, disk |-> d1, from |-> f, to |-> newTo, asks |-> a]
      BY <1>1, Recorded
    <3> HIDE DEF copied, d1
    <3>2. moved = [t |-> u, disk |-> d2, from |-> newFrom, to |-> newTo, asks |-> a]
      BY <3>1, Recorded
    <3> HIDE DEF moved, d2
    <3>3. Done(w) = [t |-> v, disk |-> dk, from |-> f, to |-> g, asks |-> a]
      BY <1>1, Passes
    <3> HIDE DEF d1, d2
    <3>4. Done(copied) = [t |-> v, disk |-> d1, from |-> f, to |-> newTo, asks |-> a]
      BY <3>1, Passes
    <3>5. Done(moved) = [t |-> v, disk |-> d2, from |-> newFrom, to |-> newTo, asks |-> a]
      BY <3>2, Passes
    <3>6. QED BY <3>3, <3>4, <3>5
  <2> HIDE DEF newTo, newFrom, v, d1, d2, src, there, oldFrom, oldTo
  <2>9. Parts(t, v, dk, f, g)
    BY <1>3, <1>7, <2>3, <2>6 DEF Parts, oldFrom, oldTo
  <2>10. Parts(t, v, d1, f, newTo)
    BY <1>3, <1>7, <2>3, <2>4, <2>6, <2>7 DEF Parts, oldFrom, oldTo
  <2>11. u.move => Parts(t, v, d2, newFrom, newTo)
    BY <1>3, <2>3, <2>4, <2>5, <2>6, <2>7 DEF Parts, oldFrom, oldTo
  <2>12. Carrying(t, Done(w)) /\ Carrying(t, Done(copied)) /\ (u.move => Carrying(t, Done(moved)))
    <3> HIDE DEF copied, moved
    <3>1. QED BY <1>9, <2>8, <2>9, <2>10, <2>11
  <2>13. QED BY <2>1, <2>2, <2>12
<1>14. QED BY <1>11, <1>12, <1>13

LEMMA RunCarries ==
  ASSUME NEW t, SetUp(t)
  PROVE  Carrying(t, Run(t))
<1>1. t.queue \in Seq(Names)
  BY DEF SetUp, TransferType, TransferSet
<1>2. PICK w : /\ w = [k \in 0..Len(t.queue) |-> IF k = 0 THEN RunStart(t) ELSE Further(w[k - 1])]
               /\ Run(t) = w[Len(t.queue)]
  BY <1>1, RunUnfolds
<1>3. Len(t.queue) \in Nat
  BY <1>1
<1> DEFINE N == Len(t.queue)
           Good == {n \in Nat : n \in 0..N => Carrying(t, w[n])}
<1>4. 0 \in Good
  <2>1. w[0] = RunStart(t)
    BY <1>2, <1>3
  <2>2. QED BY <2>1, StartCarries
<1>5. ASSUME NEW n \in Nat, n \in Good PROVE n + 1 \in Good
  <2>1. SUFFICES ASSUME n + 1 \in 0..N PROVE Carrying(t, w[n + 1])
    OBVIOUS
  <2>2. w[n + 1] = Further(w[n]) /\ n \in 0..N
    <3> HIDE DEF N
    <3>1. n + 1 # 0 /\ (n + 1) - 1 = n /\ N \in Nat
      BY <1>3 DEF N
    <3>2. QED BY <1>2, <2>1, <3>1 DEF N
  <2>3. Carrying(t, w[n])
    BY <1>5, <2>2
  <2>4. CASE w[n].asks \/ w[n].t.at > Len(w[n].t.queue)
    BY <2>2, <2>3, <2>4 DEF Further
  <2>5. CASE ~(w[n].asks \/ w[n].t.at > Len(w[n].t.queue))
    <3>1. w[n].t.at \in Nat /\ w[n].t.queue = t.queue
      BY <2>3 DEF Carrying, Parts, Progress, SetUp, TransferType, TransferSet
    <3>2. w[n].t.at <= Len(w[n].t.queue)
      BY <1>3, <2>5, <3>1
    <3>3. w[n + 1] = Step(w[n])
      BY <2>2, <2>5 DEF Further
    <3> HIDE DEF N
    <3>4. QED BY <2>3, <3>2, <3>3, StepCarries
  <2>6. QED BY <2>4, <2>5
<1>6. Nat \subseteq Good
  <2> HIDE DEF Good
  <2>1. QED BY <1>4, <1>5, Induction
<1>7. Carrying(t, w[N])
  BY <1>3, <1>6
<1>8. QED BY <1>2, <1>7

-----------------------------------------------------------------------------
(* What the operators do to panels.                                         *)

LEMMA Distinct ==
  /\ \A d, c, m : [device |-> d, copy |-> c, marks |-> m] # NoPanel
  /\ \A t \in TransferSet : t # NoTransfer
<1>1. ASSUME NEW d, NEW c, NEW m PROVE [device |-> d, copy |-> c, marks |-> m] # NoPanel
  <2>1. "copy" \in DOMAIN [device |-> d, copy |-> c, marks |-> m] /\ "copy" \notin DOMAIN NoPanel
    BY DEF NoPanel
  <2>2. QED BY <2>1
<1>2. ASSUME NEW t \in TransferSet PROVE t # NoTransfer
  <2>1. "at" \in DOMAIN t /\ "at" \notin DOMAIN NoTransfer
    BY DEF NoTransfer, TransferSet
  <2>2. QED BY <2>1
<1>3. QED BY <1>1, <1>2

LEMMA PanelParts ==
  ASSUME NEW p, PanelType(p), HasLocation(p)
  PROVE  /\ p = [device |-> p.device, copy |-> p.copy, marks |-> p.marks]
         /\ DeviceType(p.device) /\ p.device.image \in Images /\ p.device.side \in Sides(p.device.image)
         /\ p.copy \in Copies(p.device.image) /\ p.marks \subseteq Names
BY DEF PanelType, HasLocation, DeviceType

LEMMA PanelMade ==
  ASSUME NEW d, DeviceType(d), NEW c \in Copies(d.image), NEW m \in SUBSET Names
  PROVE  /\ PanelType([device |-> d, copy |-> c, marks |-> m])
         /\ HasLocation([device |-> d, copy |-> c, marks |-> m])
<1> DEFINE p == [device |-> d, copy |-> c, marks |-> m]
<1>1. p.device = d /\ p.copy = c /\ p.marks = m /\ p # NoPanel
  BY Distinct
<1>2. p = [device |-> p.device, copy |-> p.copy, marks |-> p.marks]
  OBVIOUS
<1> HIDE DEF p
<1>3. PanelType(p) /\ HasLocation(p)
  BY <1>1, <1>2 DEF PanelType, HasLocation
<1>4. QED BY <1>3 DEF p

LEMMA OpenedFresh ==
  ASSUME NEW dk, DiskType(dk), NEW dev, DeviceType(dev)
  PROVE  /\ PanelType(Opened(dev, dk)) /\ HasLocation(Opened(dev, dk))
         /\ Opened(dev, dk).device = dev /\ FreshOn(Opened(dev, dk), dk)
<1>1. dk[dev.image] \in Copies(dev.image)
  BY DEF DiskType, DeviceType
<1>2. PanelType(Opened(dev, dk)) /\ HasLocation(Opened(dev, dk))
  BY <1>1, PanelMade DEF Opened
<1>3. QED BY <1>2 DEF Opened, FreshOn

LEMMA ReloadedFresh ==
  ASSUME NEW dk, DiskType(dk), NEW p, PanelType(p), HasLocation(p)
  PROVE  /\ PanelType(Reloaded(p, dk)) /\ HasLocation(Reloaded(p, dk))
         /\ Reloaded(p, dk).device = p.device /\ FreshOn(Reloaded(p, dk), dk)
<1> DEFINE c == dk[p.device.image]
           m == p.marks \cap NamesOn(c[p.device.side])
           r == [device |-> p.device, copy |-> c, marks |-> m]
<1>1. PICK d, k, n : p = [device |-> d, copy |-> k, marks |-> n]
  BY PanelParts
<1>2. [p EXCEPT !.copy = c, !.marks = @ \cap NamesOn(c[p.device.side])] = r
  <2> DEFINE q == [p EXCEPT !.copy = c]
             x == NamesOn(c[p.device.side])
  <2> HIDE DEF x, c
  <2>1. q = [device |-> d, copy |-> c, marks |-> n]
    BY <1>1
  <2>2. [p EXCEPT !.copy = c, !.marks = @ \cap x] = [q EXCEPT !.marks = @ \cap x]
    OBVIOUS
  <2> HIDE DEF q
  <2>3. [q EXCEPT !.marks = @ \cap x] = [device |-> d, copy |-> c, marks |-> n \cap x]
    <3> DEFINE y == n \cap x
    <3>1. q.marks \cap x = y
      BY <2>1
    <3> HIDE DEF y
    <3>2. [q EXCEPT !.marks = y] = [device |-> d, copy |-> c, marks |-> y]
      BY <2>1
    <3>3. QED BY <3>1, <3>2 DEF y
  <2>4. p.device = d /\ p.marks = n
    BY <1>1
  <2> HIDE DEF r
  <2>5. r = [device |-> d, copy |-> c, marks |-> n \cap x]
    BY <2>4 DEF r, x
  <2>6. QED BY <2>2, <2>3, <2>5 DEF x
<1>3. Reloaded(p, dk) = r
  BY <1>2 DEF Reloaded
<1>4. c \in Copies(p.device.image) /\ m \in SUBSET Names /\ DeviceType(p.device)
  BY PanelParts DEF DiskType
<1>5. PanelType(r) /\ HasLocation(r)
  <2> HIDE DEF c, m
  <2>1. QED BY <1>4, PanelMade
<1>6. FreshOn(r, dk) /\ r.device = p.device
  BY DEF FreshOn, Shown
<1> HIDE DEF r
<1>7. QED BY <1>3, <1>5, <1>6

LEMMA RefreshedFresh ==
  ASSUME NEW dk, DiskType(dk), NEW sl, SlotType(sl), NEW ps, NEW old, SlotType(old),
         \A i \in 1..2 : PanelType(ps[i]) /\ (HasLocation(ps[i]) => ps[i].device \in Devices(old))
  PROVE  /\ Refreshed(ps, sl, dk) = [i \in 1..2 |-> Refreshed(ps, sl, dk)[i]]
         /\ \A i \in 1..2 :
              /\ PanelType(Refreshed(ps, sl, dk)[i])
              /\ HasLocation(Refreshed(ps, sl, dk)[i]) =>
                   /\ Refreshed(ps, sl, dk)[i].device \in Devices(sl)
                   /\ FreshOn(Refreshed(ps, sl, dk)[i], dk)
<1> DEFINE rs == Refreshed(ps, sl, dk)
           stays(p) == HasLocation(p) /\ \E d \in Devices(sl) : d.name = p.device.name /\ d.image = p.device.image
<1>1. rs = [i \in 1..2 |-> rs[i]] /\ \A i \in 1..2 : rs[i] = IF stays(ps[i]) THEN Reloaded(ps[i], dk) ELSE NoPanel
  BY DEF Refreshed
<1>2. ASSUME NEW i \in 1..2
      PROVE  /\ PanelType(rs[i])
             /\ HasLocation(rs[i]) => rs[i].device \in Devices(sl) /\ FreshOn(rs[i], dk)
  <2>1. CASE ~stays(ps[i])
    BY <1>1, <2>1 DEF PanelType, HasLocation
  <2>2. CASE stays(ps[i])
    <3>1. PICK d \in Devices(sl) : d.name = ps[i].device.name /\ d.image = ps[i].device.image
      BY <2>2
    <3>2. d = ps[i].device
      BY <2>2, <3>1, SameDevice
    <3>3. rs[i] = Reloaded(ps[i], dk)
      BY <1>1, <2>2
    <3>4. QED BY <2>2, <3>1, <3>2, <3>3, ReloadedFresh
  <2>3. QED BY <2>1, <2>2
<1>3. QED BY <1>1, <1>2

(* Panels, and the machine, that are as the images are but for some images. *)
FreshBut(ps, dk, images) ==
  \A i \in 1..2 : /\ PanelType(ps[i])
                  /\ HasLocation(ps[i]) /\ ps[i].device.image \notin images => FreshOn(ps[i], dk)
MachineBut(dk, images) ==
  HdType(hdMem) /\ (hdMem # NoHd /\ hdMem.image \notin images => hdMem.copy = dk[hdMem.image])

LEMMA ChangedKeeps ==
  ASSUME NEW ps, NEW dk, NEW images, images \subseteq Images, DiskType(dk),
         Changed(ps, dk, images), FreshBut(ps, dk, images), MachineBut(dk, images)
  PROVE  /\ disk' = dk
         /\ panels' = [i \in 1..2 |-> panels'[i]]
         /\ \A i \in 1..2 :
              /\ PanelType(panels'[i])
              /\ HasLocation(panels'[i]) =>
                   /\ HasLocation(ps[i]) /\ panels'[i].device = ps[i].device
                   /\ FreshOn(panels'[i], dk)
         /\ HdType(hdMem') /\ hdMem'.image = hdMem.image
         /\ hdMem' # NoHd => hdMem'.copy = dk[hdMem'.image]
<1>1. disk' = dk /\ panels' = PanelsAfter(ps, dk, images) /\ hdMem' = MachineAfter(dk, images)
  BY DEF Changed
<1>2. ASSUME NEW i \in 1..2
      PROVE  /\ PanelType(panels'[i])
             /\ HasLocation(panels'[i]) =>
                  /\ HasLocation(ps[i]) /\ panels'[i].device = ps[i].device
                  /\ FreshOn(panels'[i], dk)
  <2>1. CASE HasLocation(ps[i]) /\ ps[i].device.image \in images
    <3>1. panels'[i] = Reloaded(ps[i], dk)
      BY <1>1, <2>1 DEF PanelsAfter
    <3>2. QED BY <2>1, <3>1, ReloadedFresh DEF FreshBut
  <2>2. CASE ~(HasLocation(ps[i]) /\ ps[i].device.image \in images)
    <3>1. panels'[i] = ps[i]
      BY <1>1, <2>2 DEF PanelsAfter
    <3>2. QED BY <2>2, <3>1 DEF FreshBut
  <2>3. QED BY <2>1, <2>2
<1>3. /\ HdType(hdMem') /\ hdMem'.image = hdMem.image
      /\ hdMem' # NoHd => hdMem'.copy = dk[hdMem'.image]
  <2>1. CASE hdMem.image \in images /\ hdMem # NoHd
    <3>1. hdMem' = [image |-> hdMem.image, copy |-> dk[hdMem.image]]
      BY <1>1, <2>1 DEF MachineAfter
    <3>2. hdMem'.image = hdMem.image /\ hdMem'.copy = dk[hdMem.image] /\ hdMem.image \in Hds
      BY <2>1, <3>1 DEF HdType, MachineBut
    <3>3. dk[hdMem.image] \in Copies(hdMem.image)
      BY <3>2 DEF DiskType, Images
    <3>4. QED BY <3>1, <3>2, <3>3 DEF HdType
  <2>2. CASE hdMem.image \notin images
    BY <1>1, <2>2 DEF MachineAfter, MachineBut
  <2>3. hdMem.image \in images => hdMem # NoHd
    BY CommanderAssumption DEF CommanderAssumption, NoHd
  <2>4. QED BY <2>1, <2>2, <2>3
<1>4. panels' = [i \in 1..2 |-> panels'[i]]
  BY <1>1 DEF PanelsAfter
<1>5. QED BY <1>1, <1>2, <1>3, <1>4

-----------------------------------------------------------------------------
(* The invariant between transfers, and that a change of the volume in the  *)
(* active panel keeps it.                                                   *)

Quiet ==
  /\ TypeOK /\ AgreedType /\ PanelsMounted /\ transfer = NoTransfer
  /\ mode = "up" => \A i \in 1..2 : HasLocation(panels[i]) => FreshOn(panels[i], disk)
  /\ hdMem.image = slots.hd /\ (hdMem # NoHd => hdMem.copy = disk[hdMem.image])

LEMMA QuietIs == Quiet <=> IInv /\ transfer = NoTransfer
<1>1. transfer = NoTransfer => UnderWay = {}
  BY DEF UnderWay
<1>2. QED BY <1>1 DEF Quiet, IInv, OthersFresh, HdFollowsFile, Transferring

LEMMA HereTyped ==
  ASSUME Quiet, AtVolume
  PROVE  /\ active \in 1..2 /\ HasLocation(Here) /\ PanelType(Here) /\ FreshOn(Here, disk)
         /\ Here.device \in Devices(slots) /\ DeviceType(Here.device) /\ Here.device.image \in Images
         /\ Here.device.side \in Sides(Here.device.image)
         /\ Here.copy = disk[Here.device.image] /\ Here.copy \in Copies(Here.device.image)
         /\ Shown(Here) \in Volume
<1>1. active \in 1..2 /\ HasLocation(Here) /\ PanelType(Here) /\ FreshOn(Here, disk) /\ Here.device \in Devices(slots)
  BY DEF Quiet, AtVolume, Ready, Here, TypeOK, PanelsMounted
<1>2. QED BY <1>1, PanelParts DEF FreshOn, Shown, Copies

(* What is on a volume is there after the step, or the user let it go.      *)
Conserves ==
  \A i \in Images : disk'[i] # disk[i] =>
    \A s \in Sides(i) : \A f \in disk[i][s].files :
      \/ Holds(disk', <<i, s, f.name>>, f.data)
      \/ <<i, s, f.name>> \in agreed'.given
      \/ \E c \in agreed'.carried : c.from = <<i, s, f.name>> /\ Holds(disk', c.to, f.data)

LEMMA StoreKeeps ==
  ASSUME Quiet, AtVolume, NEW ps \in {panels, [panels EXCEPT ![active].marks = {}]},
         NEW vol \in Volume, Store(ps, vol), AgreedType',
         UNCHANGED <<slots, active, transfer, mode>>
  PROVE  /\ Quiet'
         /\ (\A f \in Shown(Here).files :
               \/ Holds(disk', Place3(Here.device, f.name), f.data)
               \/ Place3(Here.device, f.name) \in agreed'.given
               \/ \E c \in agreed'.carried : c.from = Place3(Here.device, f.name) /\ Holds(disk', c.to, f.data))
              => Conserves
         /\ Here.device.image \in Images /\ disk'[Here.device.image][Here.device.side] = vol
<1> DEFINE dev == Here.device
           copy == [Here.copy EXCEPT ![dev.side] = vol]
           dk == [disk EXCEPT ![dev.image] = copy]
<1>1. /\ active \in 1..2 /\ HasLocation(Here) /\ PanelType(Here) /\ FreshOn(Here, disk)
      /\ dev.image \in Images /\ dev.side \in Sides(dev.image)
      /\ Here.copy = disk[dev.image] /\ Here.copy \in Copies(dev.image)
  BY HereTyped
<1>2. copy \in Copies(dev.image) /\ copy[dev.side] = vol /\ \A s \in Sides(dev.image) : s # dev.side => copy[s] = disk[dev.image][s]
  BY <1>1 DEF Copies
<1>3. DiskType(disk) /\ DiskType(dk) /\ dk[dev.image] = copy /\ \A i \in Images : i # dev.image => dk[i] = disk[i]
  <2>1. DiskType(disk)
    BY DEF Quiet, TypeOK
  <2> HIDE DEF copy
  <2>2. QED BY <1>1, <1>2, <2>1 DEF DiskType
<1>4. Changed(ps, dk, {dev.image})
  BY DEF Store
<1>5. ASSUME NEW i \in 1..2
      PROVE  /\ PanelType(ps[i])
             /\ HasLocation(ps[i]) => HasLocation(panels[i]) /\ ps[i].device = panels[i].device
             /\ HasLocation(ps[i]) /\ ps[i].device.image # dev.image => FreshOn(ps[i], dk)
  <2>1. PanelType(panels[i]) /\ (HasLocation(panels[i]) => FreshOn(panels[i], disk) /\ panels[i].device.image \in Images)
    BY PanelParts DEF Quiet, TypeOK, AtVolume, Ready
  <2>2. CASE ps[i] = panels[i]
    BY <1>3, <2>1, <2>2 DEF FreshOn
  <2>3. CASE ps[i] # panels[i]
    <3>1. i = active /\ ps[i] = [Here EXCEPT !.marks = {}]
      BY <2>3 DEF Here, Quiet, TypeOK
    <3>2. PICK d, k, n : Here = [device |-> d, copy |-> k, marks |-> n]
      BY <1>1, PanelParts
    <3>3. ps[i] = [device |-> d, copy |-> k, marks |-> {}] /\ Here.device = d /\ Here.copy = k
      BY <3>1, <3>2
    <3>4. PanelType(ps[i]) /\ ps[i].device = d
      BY <1>1, <3>3, PanelMade, PanelParts
    <3>5. QED BY <1>1, <3>1, <3>3, <3>4 DEF Here
  <2>4. QED BY <2>2, <2>3
<1>6. hdMem # NoHd /\ hdMem.image \notin {dev.image} => hdMem.copy = dk[hdMem.image]
  BY <1>3 DEF Quiet, TypeOK, HdType, Images
<1>7. /\ disk' = dk
      /\ panels' = [i \in 1..2 |-> panels'[i]]
      /\ \A i \in 1..2 :
           /\ PanelType(panels'[i])
           /\ HasLocation(panels'[i]) =>
                /\ HasLocation(ps[i]) /\ panels'[i].device = ps[i].device
                /\ FreshOn(panels'[i], dk)
      /\ HdType(hdMem') /\ hdMem'.image = hdMem.image
      /\ hdMem' # NoHd => hdMem'.copy = dk[hdMem'.image]
  <2> HIDE DEF dk
  <2>1. MachineBut(dk, {dev.image}) /\ {dev.image} \subseteq Images
    BY <1>1, <1>6 DEF Quiet, TypeOK, MachineBut
  <2>2. FreshBut(ps, dk, {dev.image})
    BY <1>5 DEF FreshBut
  <2>3. QED BY <1>3, <1>4, <2>1, <2>2, ChangedKeeps
<1>8. Quiet'
  <2>1. \A i \in 1..2 : HasLocation(panels'[i]) => panels'[i].device \in Devices(slots')
    BY <1>5, <1>7 DEF Quiet, PanelsMounted
  <2> HIDE DEF dk
  <2>2. TypeOK'
    BY <1>3, <1>7 DEF Quiet, TypeOK
  <2>3. QED BY <1>7, <2>1, <2>2 DEF Quiet, PanelsMounted
<1>9. ASSUME \A f \in Shown(Here).files :
               \/ Holds(disk', Place3(Here.device, f.name), f.data)
               \/ Place3(Here.device, f.name) \in agreed'.given
               \/ \E c \in agreed'.carried : c.from = Place3(Here.device, f.name) /\ Holds(disk', c.to, f.data)
      PROVE  Conserves
  <2>1. SUFFICES ASSUME NEW i \in Images, disk'[i] # disk[i], NEW s \in Sides(i), NEW f \in disk[i][s].files
                 PROVE  \/ Holds(disk', <<i, s, f.name>>, f.data)
                        \/ <<i, s, f.name>> \in agreed'.given
                        \/ \E c \in agreed'.carried : c.from = <<i, s, f.name>> /\ Holds(disk', c.to, f.data)
    BY DEF Conserves
  <2> HIDE DEF dk, copy
  <2>2. i = dev.image
    BY <1>3, <1>7, <2>1
  <2>3. CASE s # dev.side
    <3>1. disk'[i][s] = disk[i][s]
      BY <1>2, <1>3, <1>7, <2>2, <2>3
    <3>2. QED BY <3>1 DEF Holds, On
  <2>4. CASE s = dev.side
    <3>1. f \in Shown(Here).files /\ Place3(Here.device, f.name) = <<i, s, f.name>>
      BY <1>1, <2>2, <2>4 DEF Shown, Place3
    <3>2. QED BY <1>9, <3>1
  <2>5. QED BY <2>3, <2>4
<1>10. QED
  <2> HIDE DEF dk, copy
  <2>1. QED BY <1>1, <1>2, <1>3, <1>7, <1>8, <1>9

LEMMA HeldThere ==
  ASSUME NEW dev, NEW n, NEW f \in On(disk'[dev.image][dev.side], n)
  PROVE  Holds(disk', Place3(dev, n), f.data)
<1>1. Place3(dev, n)[1] = dev.image /\ Place3(dev, n)[2] = dev.side /\ Place3(dev, n)[3] = n
  BY DEF Place3
<1>2. QED BY <1>1 DEF Holds

LEMMA DeleteKeeps ==
  ASSUME Quiet, NEW sel \in SUBSET Names, NEW touch \in BOOLEAN, Delete(sel, touch)
  PROVE  Quiet' /\ Conserves
<1> DEFINE vol == Shown(Here)
           goes == {f \in vol.files : f.name \in sel /\ (f.prot => touch)}
           new == [vol EXCEPT !.files = @ \ goes]
           ps == [panels EXCEPT ![active].marks = {}]
<1>1. AtVolume /\ vol \in Volume
  BY HereTyped DEF Delete
<1>2. new \in Volume /\ new.files = vol.files \ goes
  BY <1>1 DEF Volume
<1>3. Store(ps, new) /\ AgreedType' /\ UNCHANGED <<slots, active, transfer, mode>>
  BY DEF Delete, GivesUp, Agrees, AgreedType
<1>4. agreed'.given = {Place3(Here.device, n) : n \in {f.name : f \in goes}}
  BY DEF Delete, GivesUp, Agrees
<1> HIDE DEF new, ps
<1>5. ps \in {panels, [panels EXCEPT ![active].marks = {}]}
  BY DEF ps
<1>6. disk'[Here.device.image][Here.device.side] = new
  BY <1>1, <1>2, <1>3, <1>5, StoreKeeps
<1>7. ASSUME NEW f \in vol.files
      PROVE  \/ Holds(disk', Place3(Here.device, f.name), f.data)
             \/ Place3(Here.device, f.name) \in agreed'.given
  <2>1. CASE f \in goes
    BY <1>4, <2>1
  <2>2. CASE f \notin goes
    <3>1. f \in On(disk'[Here.device.image][Here.device.side], f.name)
      BY <1>2, <1>6, <2>2 DEF On
    <3>2. QED BY <3>1, HeldThere
  <2>3. QED BY <2>1, <2>2
<1>8. QED BY <1>1, <1>2, <1>3, <1>5, <1>7, StoreKeeps

LEMMA RenameKeeps ==
  ASSUME Quiet, NEW n \in Names, NEW to \in Names, NEW touch \in BOOLEAN, Rename(n, to, touch)
  PROVE  Quiet' /\ Conserves
<1> DEFINE vol == Shown(Here)
           fs == (vol.files \ On(vol, n)) \cup {[f EXCEPT !.name = to] : f \in On(vol, n)}
           new == [vol EXCEPT !.files = fs]
<1>1. AtVolume /\ vol \in Volume
  BY HereTyped DEF Rename
<1>2. ASSUME NEW f \in vol.files PROVE [f EXCEPT !.name = to] \in File /\ [f EXCEPT !.name = to].data = f.data /\ [f EXCEPT !.name = to].name = to
  BY <1>1 DEF Volume, File
<1>3. new \in Volume /\ new.files = fs
  BY <1>1, <1>2 DEF Volume, On
<1>4. /\ Store(panels, new) /\ AgreedType' /\ UNCHANGED <<slots, active, transfer, mode>>
      /\ agreed'.carried = {[from |-> Place3(Here.device, n), to |-> Place3(Here.device, to)]}
  BY DEF Rename, Agrees, AgreedType
<1> HIDE DEF new
<1>5. panels \in {panels, [panels EXCEPT ![active].marks = {}]}
  OBVIOUS
<1>6. disk'[Here.device.image][Here.device.side] = new
  BY <1>1, <1>3, <1>4, <1>5, StoreKeeps
<1>7. ASSUME NEW f \in vol.files
      PROVE  \/ Holds(disk', Place3(Here.device, f.name), f.data)
             \/ \E c \in agreed'.carried : c.from = Place3(Here.device, f.name) /\ Holds(disk', c.to, f.data)
  <2>1. CASE f \in On(vol, n)
    <3> DEFINE g == [f EXCEPT !.name = to]
    <3>1. g \in On(disk'[Here.device.image][Here.device.side], to) /\ f.name = n
      BY <1>2, <1>3, <1>6, <2>1 DEF On
    <3>2. Holds(disk', Place3(Here.device, to), g.data) /\ g.data = f.data
      BY <1>2, <3>1, HeldThere
    <3> DEFINE c == [from |-> Place3(Here.device, n), to |-> Place3(Here.device, to)]
    <3>3. c \in agreed'.carried /\ c.from = Place3(Here.device, f.name) /\ c.to = Place3(Here.device, to)
      BY <1>4, <3>1
    <3> HIDE DEF c, g
    <3>4. QED BY <3>2, <3>3
  <2>2. CASE f \notin On(vol, n)
    <3>1. f \in On(disk'[Here.device.image][Here.device.side], f.name)
      BY <1>3, <1>6, <2>2 DEF On
    <3>2. QED BY <3>1, HeldThere
  <2>3. QED BY <2>1, <2>2
<1>8. QED BY <1>1, <1>3, <1>4, <1>5, <1>7, StoreKeeps

LEMMA ProtectKeeps ==
  ASSUME Quiet, NEW sel \in SUBSET Names, NEW on \in BOOLEAN, Protect(sel, on)
  PROVE  Quiet' /\ Conserves
<1> DEFINE vol == Shown(Here)
           as(f) == IF f.name \in sel THEN [f EXCEPT !.prot = on] ELSE f
           fs == {as(f) : f \in vol.files}
           new == [vol EXCEPT !.files = fs]
<1>1. AtVolume /\ vol \in Volume
  BY HereTyped DEF Protect
<1>2. ASSUME NEW f \in vol.files PROVE as(f) \in File /\ as(f).name = f.name /\ as(f).data = f.data
  BY <1>1 DEF Volume, File
<1>3. new \in Volume /\ new.files = fs
  <2>1. fs \in SUBSET File
    BY <1>2
  <2> HIDE DEF fs
  <2>2. QED BY <1>1, <2>1 DEF Volume
<1>4. Store(panels, new) /\ AgreedType' /\ UNCHANGED <<slots, active, transfer, mode>>
  BY DEF Protect, GivesUp, Agrees, AgreedType
<1>5. panels \in {panels, [panels EXCEPT ![active].marks = {}]}
  OBVIOUS
<1> HIDE DEF new
<1>6. disk'[Here.device.image][Here.device.side] = new
  BY <1>1, <1>3, <1>4, <1>5, StoreKeeps
<1>7. ASSUME NEW f \in vol.files PROVE Holds(disk', Place3(Here.device, f.name), f.data)
  <2>1. as(f) \in On(disk'[Here.device.image][Here.device.side], f.name)
    BY <1>2, <1>3, <1>6 DEF On
  <2>2. as(f).data = f.data
    BY <1>2
  <2> HIDE DEF as
  <2>3. QED BY <2>1, <2>2, HeldThere
<1>8. QED BY <1>1, <1>3, <1>4, <1>5, <1>7, StoreKeeps

LEMMA RewriteKeeps ==
  ASSUME Quiet, Rewrite
  PROVE  Quiet' /\ Conserves
<1>1. AtVolume /\ Shown(Here) \in Volume
  BY HereTyped DEF Rewrite
<1>2. Store(panels, Shown(Here)) /\ AgreedType' /\ UNCHANGED <<slots, active, transfer, mode>>
  BY DEF Rewrite, GivesUp, Agrees, AgreedType
<1>3. panels \in {panels, [panels EXCEPT ![active].marks = {}]}
  OBVIOUS
<1>4. disk'[Here.device.image][Here.device.side] = Shown(Here)
  BY <1>1, <1>2, <1>3, StoreKeeps
<1>5. ASSUME NEW f \in Shown(Here).files PROVE Holds(disk', Place3(Here.device, f.name), f.data)
  <2>1. f \in On(disk'[Here.device.image][Here.device.side], f.name)
    BY <1>4 DEF On
  <2>2. QED BY <2>1, HeldThere
<1>6. QED BY <1>1, <1>2, <1>3, <1>5, StoreKeeps

LEMMA InitVolumeKeeps ==
  ASSUME Quiet, InitVolume
  PROVE  Quiet' /\ Conserves
<1> DEFINE new == [dir |-> TRUE, files |-> {}]
<1>1. AtVolume /\ Shown(Here) \in Volume
  BY HereTyped DEF InitVolume
<1>2. /\ Store(panels, new) /\ AgreedType' /\ UNCHANGED <<slots, active, transfer, mode>>
      /\ agreed'.given = {Place3(Here.device, n) : n \in Names}
  BY DEF InitVolume, GivesUp, Agrees, AgreedType
<1>3. panels \in {panels, [panels EXCEPT ![active].marks = {}]} /\ new \in Volume
  BY DEF Volume
<1> HIDE DEF new
<1>4. ASSUME NEW f \in Shown(Here).files PROVE Place3(Here.device, f.name) \in agreed'.given
  BY <1>1, <1>2 DEF Volume, File
<1>5. QED BY <1>1, <1>2, <1>3, <1>4, StoreKeeps

LEMMA ImportKeeps ==
  ASSUME Quiet, NEW f \in HostFiles, Import(f)
  PROVE  Quiet' /\ Conserves
<1> DEFINE vol == Shown(Here)
           fs == (vol.files \ On(vol, f.name)) \cup {f}
           new == [vol EXCEPT !.files = fs]
<1>1. AtVolume /\ vol \in Volume
  BY HereTyped DEF Import
<1>2. f \in File
  BY CommanderAssumption DEF CommanderAssumption
<1>3. new \in Volume /\ new.files = fs
  BY <1>1, <1>2 DEF Volume
<1>4. /\ Store(panels, new) /\ AgreedType' /\ UNCHANGED <<slots, active, transfer, mode>>
      /\ agreed'.given = {Place3(Here.device, f.name)}
  BY DEF Import, GivesUp, Agrees, AgreedType
<1>5. panels \in {panels, [panels EXCEPT ![active].marks = {}]}
  OBVIOUS
<1> HIDE DEF new
<1>6. disk'[Here.device.image][Here.device.side] = new
  BY <1>1, <1>3, <1>4, <1>5, StoreKeeps
<1>7. ASSUME NEW g \in vol.files
      PROVE  \/ Holds(disk', Place3(Here.device, g.name), g.data)
             \/ Place3(Here.device, g.name) \in agreed'.given
  <2>1. CASE g.name = f.name
    BY <1>4, <2>1
  <2>2. CASE g.name # f.name
    <3>1. g \in On(disk'[Here.device.image][Here.device.side], g.name)
      BY <1>3, <1>6, <2>2 DEF On
    <3>2. QED BY <3>1, HeldThere
  <2>3. QED BY <2>1, <2>2
<1>8. QED BY <1>1, <1>3, <1>4, <1>5, <1>7, StoreKeeps

-----------------------------------------------------------------------------
(* The keys that change no image, the slots and the machine.                *)

LEMMA SwitchKeeps ==
  ASSUME Quiet, SwitchPanel
  PROVE  Quiet' /\ Conserves
<1>1. active' \in 1..2 /\ AgreedType' /\ UNCHANGED <<disk, slots, panels, transfer, hdMem, mode>>
  BY DEF SwitchPanel, Quiet, TypeOK, GivesUp, Agrees, AgreedType
<1>2. QED BY <1>1 DEF Quiet, TypeOK, PanelsMounted, Conserves

LEMMA SwapKeeps ==
  ASSUME Quiet, SwapPanels
  PROVE  Quiet' /\ Conserves
<1>1. /\ AgreedType' /\ UNCHANGED <<disk, slots, active, transfer, hdMem, mode>>
      /\ panels' = [i \in 1..2 |-> panels[3 - i]]
  BY DEF SwapPanels, GivesUp, Agrees, AgreedType
<1>2. ASSUME NEW i \in 1..2
      PROVE  /\ PanelType(panels'[i])
             /\ HasLocation(panels'[i]) =>
                  /\ panels'[i].device \in Devices(slots')
                  /\ mode' = "up" => FreshOn(panels'[i], disk')
  <2>1. 3 - i \in 1..2 /\ panels'[i] = panels[3 - i]
    BY <1>1
  <2>2. QED BY <1>1, <2>1 DEF Quiet, TypeOK, PanelsMounted
<1>3. panels' = [i \in 1..2 |-> panels'[i]]
  BY <1>1
<1>4. QED BY <1>1, <1>2, <1>3 DEF Quiet, TypeOK, PanelsMounted, Conserves

LEMMA ToggleKeeps ==
  ASSUME Quiet, NEW ns \in SUBSET Names, ToggleMarks(ns)
  PROVE  Quiet' /\ Conserves
<1> DEFINE m == (Here.marks \ ns) \cup (ns \ Here.marks)
           h == [device |-> Here.device, copy |-> Here.copy, marks |-> m]
<1>1. /\ AgreedType' /\ UNCHANGED <<disk, slots, active, transfer, hdMem, mode>>
      /\ AtVolume /\ ns \subseteq NamesOn(Shown(Here))
      /\ panels' = [panels EXCEPT ![active].marks = (@ \ ns) \cup (ns \ @)]
  BY DEF ToggleMarks, GivesUp, Agrees, AgreedType
<1>2. /\ active \in 1..2 /\ HasLocation(Here) /\ PanelType(Here) /\ FreshOn(Here, disk)
      /\ Here.device \in Devices(slots)
  BY <1>1, HereTyped
<1>3. PICK d, k, n : Here = [device |-> d, copy |-> k, marks |-> n]
  BY <1>2, PanelParts
<1>4. [Here EXCEPT !.marks = (@ \ ns) \cup (ns \ @)] = h
  <2>1. Here.marks = n /\ Here.device = d /\ Here.copy = k
    BY <1>3
  <2>2. [Here EXCEPT !.marks = (@ \ ns) \cup (ns \ @)] = [Here EXCEPT !.marks = m]
    OBVIOUS
  <2> HIDE DEF m
  <2>3. [Here EXCEPT !.marks = m] = [device |-> d, copy |-> k, marks |-> m]
    BY <1>3
  <2>4. QED BY <2>1, <2>2, <2>3
<1>5. PanelType(h) /\ HasLocation(h) /\ h.device = Here.device /\ FreshOn(h, disk)
  <2>1. m \in SUBSET Names /\ m \subseteq NamesOn(Here.copy[Here.device.side])
    BY <1>1, <1>2, PanelParts DEF FreshOn, Shown
  <2>2. h.device = Here.device /\ h.copy = Here.copy /\ h.marks = m
    OBVIOUS
  <2> HIDE DEF m
  <2>3. PanelType(h) /\ HasLocation(h)
    BY <1>2, <2>1, PanelMade, PanelParts
  <2> HIDE DEF h
  <2>4. QED BY <1>2, <2>1, <2>2, <2>3 DEF FreshOn, Shown
<1>6. panels' = [i \in 1..2 |-> panels'[i]] /\ \A i \in 1..2 : panels'[i] = IF i = active THEN h ELSE panels[i]
  <2>1. panels = [i \in 1..2 |-> panels[i]]
    BY DEF Quiet, TypeOK
  <2> HIDE DEF h
  <2>2. panels' = [panels EXCEPT ![active] = h]
    BY <1>1, <1>2, <1>4 DEF Here
  <2>3. QED BY <1>2, <2>1, <2>2
<1> HIDE DEF h
<1>7. QED BY <1>1, <1>2, <1>5, <1>6 DEF Quiet, TypeOK, PanelsMounted, Conserves

FirstOn(sl, image) ==
  DeviceSeq(sl)[CHOOSE i \in DOMAIN DeviceSeq(sl) :
                  /\ DeviceSeq(sl)[i].image = image
                  /\ \A j \in 1..i - 1 : DeviceSeq(sl)[j].image # image]

LEMMA FirstDevice ==
  ASSUME NEW sl, SlotType(sl), NEW image, NEW dev \in Devices(sl), dev.image = image
  PROVE  FirstOn(sl, image) \in Devices(sl)
<1> DEFINE q == DeviceSeq(sl)
           S == {i \in DOMAIN q : q[i].image = image}
           IsFirst(i) == q[i].image = image /\ \A j \in 1..i - 1 : q[j].image # image
<1>1. q \in Seq(AnyDevice)
  BY DevicesAre
<1>2. S \in SUBSET Nat /\ S # {} /\ DOMAIN q = 1..Len(q) /\ Len(q) \in Nat
  BY <1>1 DEF Devices, ToSet
<1>3. PICK m \in S : \A k \in S : m <= k
  <2> HIDE DEF S
  <2>1. QED BY <1>2, FirstOf
<1>4. IsFirst(m) /\ m \in DOMAIN q
  <2>1. ASSUME NEW j \in 1..m - 1 PROVE q[j].image # image
    <3>1. j \in DOMAIN q /\ j < m
      BY <1>2, <1>3
    <3>2. QED BY <1>2, <1>3, <3>1
  <2>2. QED BY <1>3, <2>1
<1>5. (CHOOSE i \in DOMAIN q : IsFirst(i)) \in DOMAIN q
  <2> HIDE DEF q, IsFirst
  <2>1. QED BY <1>4
<1>6. QED BY <1>2, <1>5 DEF Devices, ToSet, FirstOn

LEMMA MountsKeep ==
  ASSUME Quiet, Ready, NEW sl, SlotType(sl), NEW ps, MountsChanged(sl, ps), active' \in 1..2,
         ps = [i \in 1..2 |-> ps[i]],
         \A i \in 1..2 : /\ PanelType(ps[i])
                         /\ HasLocation(ps[i]) => ps[i].device \in Devices(sl) /\ FreshOn(ps[i], disk)
  PROVE  Quiet' /\ Conserves
<1>1. /\ slots' = sl /\ panels' = ps /\ HdFollows(sl) /\ AgreedType' /\ UNCHANGED <<disk, transfer, mode>>
  BY DEF MountsChanged, GivesUp, Agrees, AgreedType
<1>2. DiskType(disk) /\ HdType(hdMem) /\ sl.hd \in Hds \cup {NoImage} /\ hdMem.image = slots.hd
  BY DEF Quiet, TypeOK, SlotType
<1>3. HdType(hdMem') /\ hdMem'.image = sl.hd /\ (hdMem' # NoHd => hdMem'.copy = disk[hdMem'.image])
  <2>1. CASE sl.hd = hdMem.image
    BY <1>1, <1>2, <2>1 DEF HdFollows, Quiet
  <2>2. CASE sl.hd # hdMem.image /\ sl.hd = NoImage
    BY <1>1, <2>2 DEF HdFollows, NoHd, HdType
  <2>3. CASE sl.hd # hdMem.image /\ sl.hd # NoImage
    <3>1. hdMem' = [image |-> sl.hd, copy |-> disk[sl.hd]]
      BY <1>1, <2>3 DEF HdFollows
    <3>2. disk[sl.hd] \in Copies(sl.hd) /\ sl.hd \in Hds
      BY <1>2, <2>3 DEF DiskType, Images
    <3>3. QED BY <3>1, <3>2 DEF HdType
  <2>4. QED BY <2>1, <2>2, <2>3
<1>4. TypeOK' /\ PanelsMounted'
  BY <1>1, <1>3 DEF Quiet, TypeOK, PanelsMounted
<1>5. QED BY <1>1, <1>3, <1>4 DEF Quiet, Conserves

LEMMA MountKeeps ==
  ASSUME Quiet, NEW p \in 1..2, NEW sl, SlotType(sl), NEW image, NEW dev, Described(sl, dev), dev.image = image,
         Mount(p, sl, image)
  PROVE  Quiet' /\ Conserves
<1> DEFINE d == FirstOn(sl, image)
           rs == Refreshed(panels, sl, disk)
           ps == [rs EXCEPT ![p] = Opened(d, disk)]
<1>1. Ready /\ active' = p /\ MountsChanged(sl, ps)
  BY DEF Mount, FirstOn
<1>2. d \in Devices(sl) /\ DeviceType(d)
  <2>1. dev \in Devices(sl)
    BY DevicesAre
  <2>2. d \in Devices(sl)
    BY <2>1, FirstDevice
  <2>3. QED BY <2>2, DeviceTyped
<1> HIDE DEF d
<1>3. DiskType(disk) /\ \A i \in 1..2 : PanelType(panels[i]) /\ (HasLocation(panels[i]) => panels[i].device \in Devices(slots))
  BY DEF Quiet, TypeOK, PanelsMounted
<1>4. SlotType(slots)
  BY DEF Quiet, TypeOK
<1>5. /\ rs = [i \in 1..2 |-> rs[i]]
      /\ \A i \in 1..2 :
           /\ PanelType(rs[i])
           /\ HasLocation(rs[i]) => rs[i].device \in Devices(sl) /\ FreshOn(rs[i], disk)
  BY <1>3, <1>4, RefreshedFresh
<1> HIDE DEF rs
<1>6. ps = [i \in 1..2 |-> ps[i]] /\ \A i \in 1..2 : ps[i] = IF i = p THEN Opened(d, disk) ELSE rs[i]
  BY <1>5
<1>7. PanelType(Opened(d, disk)) /\ Opened(d, disk).device = d /\ FreshOn(Opened(d, disk), disk)
  BY <1>2, <1>3, OpenedFresh
<1> HIDE DEF ps
<1>8. \A i \in 1..2 : /\ PanelType(ps[i])
                      /\ HasLocation(ps[i]) => ps[i].device \in Devices(sl) /\ FreshOn(ps[i], disk)
  BY <1>2, <1>5, <1>6, <1>7
<1>9. QED BY <1>1, <1>6, <1>8, MountsKeep

LEMMA MountTwoSidedKeeps ==
  ASSUME Quiet, NEW p \in 1..2, NEW d \in Drives, NEW image \in TwoSided, MountTwoSided(p, d, image)
  PROVE  Quiet' /\ Conserves
<1> DEFINE dr == [EmptyDrive EXCEPT !.ds = image]
           sl == [slots EXCEPT ![d] = dr]
<1>1. SlotType(slots) /\ d # "hd" /\ image # NoImage
  BY CommanderAssumption DEF CommanderAssumption, Quiet, TypeOK, Images
<1>2. dr \in DriveSlot /\ dr.ds = image
  BY DEF DriveSlot, EmptyDrive
<1> HIDE DEF dr
<1>3. SlotType(sl) /\ sl[d] = dr
  BY <1>1, <1>2 DEF SlotType
<1>4. Described(sl, Device(<<d, 0>>, sl[d].ds, 0)) /\ Device(<<d, 0>>, sl[d].ds, 0).image = image
  BY <1>1, <1>2, <1>3 DEF Described, Device
<1>5. Mount(p, sl, image)
  BY DEF MountTwoSided, dr
<1> HIDE DEF sl
<1>6. QED BY <1>3, <1>4, <1>5, MountKeeps

LEMMA MountOneSidedKeeps ==
  ASSUME Quiet, NEW p \in 1..2, NEW d \in Drives, NEW s \in {0, 1}, NEW image \in OneSided,
         MountOneSided(p, d, s, image)
  PROVE  Quiet' /\ Conserves
<1> DEFINE dr == [slots[d] EXCEPT !.ds = NoImage, !.side[s] = image]
           sl == [slots EXCEPT ![d] = [@ EXCEPT !.ds = NoImage, !.side[s] = image]]
<1>1. SlotType(slots) /\ d # "hd" /\ image # NoImage
  BY CommanderAssumption DEF CommanderAssumption, Quiet, TypeOK, Images
<1>2. dr \in DriveSlot /\ dr.ds = NoImage /\ dr.side[s] = image
  BY <1>1 DEF DriveSlot, SlotType
<1>3. SlotType(sl) /\ sl[d] = dr
  <2>1. sl = [slots EXCEPT ![d] = dr]
    OBVIOUS
  <2> HIDE DEF dr
  <2>2. QED BY <1>1, <1>2, <2>1 DEF SlotType
<1>4. Mount(p, sl, image)
  BY DEF MountOneSided
<1> HIDE DEF sl, dr
<1>5. Described(sl, Device(<<d, s>>, sl[d].side[s], 0)) /\ Device(<<d, s>>, sl[d].side[s], 0).image = image
  BY <1>1, <1>2, <1>3 DEF Described, Device
<1>6. QED BY <1>3, <1>4, <1>5, MountKeeps

LEMMA MountHdKeeps ==
  ASSUME Quiet, NEW p \in 1..2, NEW image \in Hds, MountHd(p, image)
  PROVE  Quiet' /\ Conserves
<1> DEFINE sl == [slots EXCEPT !.hd = image]
<1>1. SlotType(slots) /\ "hd" \notin Drives /\ image # NoImage
  BY CommanderAssumption DEF CommanderAssumption, Quiet, TypeOK, Images
<1>2. SlotType(sl) /\ sl.hd = image
  BY <1>1 DEF SlotType
<1>3. Mount(p, sl, image)
  BY DEF MountHd
<1> HIDE DEF sl
<1>4. Described(sl, Device(<<"HD", 0>>, sl.hd, 0)) /\ Device(<<"HD", 0>>, sl.hd, 0).image = image
  BY <1>1, <1>2 DEF Described, Device
<1>5. QED BY <1>2, <1>3, <1>4, MountKeeps

LEMMA UnmountKeeps ==
  ASSUME Quiet, NEW p \in 1..2, NEW slot \in Drives \cup {"hd"}, Unmount(p, slot)
  PROVE  Quiet' /\ Conserves
<1> DEFINE gone == IF slot = "hd" THEN NoImage ELSE EmptyDrive
           sl == [slots EXCEPT ![slot] = gone]
           rs == Refreshed(panels, sl, disk)
<1>1. SlotType(slots) /\ "hd" \notin Drives /\ EmptyDrive \in DriveSlot
  BY CommanderAssumption DEF CommanderAssumption, Quiet, TypeOK, EmptyDrive, DriveSlot
<1>2. SlotType(sl)
  BY <1>1 DEF SlotType
<1>3. Ready /\ active' = p /\ MountsChanged(sl, rs)
  BY DEF Unmount
<1> HIDE DEF sl
<1>4. DiskType(disk) /\ \A i \in 1..2 : PanelType(panels[i]) /\ (HasLocation(panels[i]) => panels[i].device \in Devices(slots))
  BY DEF Quiet, TypeOK, PanelsMounted
<1>5. /\ rs = [i \in 1..2 |-> rs[i]]
      /\ \A i \in 1..2 :
           /\ PanelType(rs[i])
           /\ HasLocation(rs[i]) => rs[i].device \in Devices(sl) /\ FreshOn(rs[i], disk)
  BY <1>1, <1>2, <1>4, RefreshedFresh
<1> HIDE DEF rs
<1>6. QED BY <1>2, <1>3, <1>5, MountsKeep

LEMMA ShowKeeps ==
  ASSUME Quiet, NEW p \in 1..2, NEW dev \in Devices(slots), ShowDevice(p, dev)
  PROVE  Quiet' /\ Conserves
<1>1. /\ AgreedType' /\ UNCHANGED <<disk, slots, transfer, hdMem, mode>> /\ active' = p
      /\ panels' = [panels EXCEPT ![p] = Opened(dev, disk)]
  BY DEF ShowDevice, GivesUp, Agrees, AgreedType
<1>2. SlotType(slots) /\ DiskType(disk) /\ panels = [i \in 1..2 |-> panels[i]]
  BY DEF Quiet, TypeOK
<1>3. /\ PanelType(Opened(dev, disk)) /\ Opened(dev, disk).device = dev /\ FreshOn(Opened(dev, disk), disk)
  BY <1>2, DeviceTyped, OpenedFresh
<1>4. /\ panels' = [i \in 1..2 |-> panels'[i]]
      /\ \A i \in 1..2 : panels'[i] = IF i = p THEN Opened(dev, disk) ELSE panels[i]
  BY <1>1, <1>2
<1>5. QED BY <1>1, <1>3, <1>4 DEF Quiet, TypeOK, PanelsMounted, Conserves

LEMMA EnterKeeps ==
  ASSUME Quiet, Enter
  PROVE  Quiet' /\ Conserves
<1> DEFINE devs == DeviceSeq(slots)
<1>1. AgreedType' /\ UNCHANGED <<disk, slots, active, transfer, hdMem>> /\ mode' = "up"
  BY DEF Enter, GivesUp, Agrees, AgreedType
<1>2. SlotType(slots) /\ DiskType(disk) /\ devs \in Seq(AnyDevice)
  BY DevicesAre DEF Quiet, TypeOK
<1>3. /\ panels' = [i \in 1..2 |-> panels'[i]]
      /\ \A i \in 1..2 :
           /\ PanelType(panels'[i])
           /\ HasLocation(panels'[i]) => panels'[i].device \in Devices(slots) /\ FreshOn(panels'[i], disk)
  <2>1. CASE mode = "down"
    <3>1. panels' = Refreshed(panels, slots, disk)
      BY <2>1 DEF Enter
    <3>2. \A i \in 1..2 : PanelType(panels[i]) /\ (HasLocation(panels[i]) => panels[i].device \in Devices(slots))
      BY DEF Quiet, TypeOK, PanelsMounted
    <3> DEFINE rs == Refreshed(panels, slots, disk)
    <3>3. /\ rs = [i \in 1..2 |-> rs[i]]
          /\ \A i \in 1..2 :
               /\ PanelType(rs[i])
               /\ HasLocation(rs[i]) => rs[i].device \in Devices(slots) /\ FreshOn(rs[i], disk)
      BY <1>2, <3>2, RefreshedFresh
    <3> HIDE DEF rs
    <3>4. panels' = rs
      BY <3>1 DEF rs
    <3>5. QED BY <3>3, <3>4
  <2>2. CASE mode # "down"
    <3>1. panels' = [i \in 1..2 |-> IF i <= Len(devs) THEN Opened(devs[i], disk) ELSE NoPanel]
      BY <2>2 DEF Enter
    <3>2. ASSUME NEW i \in 1..2
          PROVE  /\ PanelType(panels'[i])
                 /\ HasLocation(panels'[i]) => panels'[i].device \in Devices(slots) /\ FreshOn(panels'[i], disk)
      <4>1. CASE i <= Len(devs)
        <5>1. devs[i] \in Devices(slots) /\ panels'[i] = Opened(devs[i], disk)
          BY <1>2, <3>1, <4>1 DEF Devices, ToSet
        <5> HIDE DEF devs
        <5>2. QED BY <1>2, <5>1, DeviceTyped, OpenedFresh
      <4>2. CASE ~(i <= Len(devs))
        BY <3>1, <4>2 DEF PanelType, HasLocation
      <4>3. QED BY <4>1, <4>2
    <3>3. QED BY <3>1, <3>2
  <2>3. QED BY <2>1, <2>2
<1>4. QED BY <1>1, <1>3 DEF Quiet, TypeOK, PanelsMounted, Conserves

LEMMA LeaveKeeps ==
  ASSUME Quiet, Leave
  PROVE  Quiet' /\ Conserves
<1>1. AgreedType' /\ UNCHANGED <<disk, slots, panels, active, transfer, hdMem>> /\ mode' = "down"
  BY DEF Leave, GivesUp, Agrees, AgreedType
<1>2. QED BY <1>1 DEF Quiet, TypeOK, PanelsMounted, Conserves

LEMMA GuestKeeps ==
  ASSUME Quiet, NEW dev \in Devices(slots), NEW f \in HostFiles, NEW puts \in BOOLEAN,
         GuestWrites(dev, f, puts)
  PROVE  Quiet' /\ Conserves
<1> DEFINE now == IF dev.image = hdMem.image THEN hdMem.copy ELSE disk[dev.image]
           others == now[dev.side].files \ On(now[dev.side], f.name)
           fs == IF puts THEN others \cup {f} ELSE others
           copy == [now EXCEPT ![dev.side].files = IF puts THEN others \cup {f} ELSE others]
<1>1. /\ mode # "up" /\ disk' = [disk EXCEPT ![dev.image] = copy]
      /\ hdMem' = IF dev.image = hdMem.image THEN [hdMem EXCEPT !.copy = copy] ELSE hdMem
      /\ AgreedType' /\ agreed'.given = {Place3(dev, f.name)}
      /\ UNCHANGED <<slots, panels, active, transfer, mode>>
  BY DEF GuestWrites, GivesUp, Agrees, AgreedType
<1>2. /\ DeviceType(dev) /\ dev.image \in Images /\ dev.side \in Sides(dev.image)
      /\ DiskType(disk) /\ HdType(hdMem) /\ f \in File /\ dev.image # NoImage
  BY DeviceTyped, CommanderAssumption DEF CommanderAssumption, Quiet, TypeOK, DeviceType
<1>3. now = disk[dev.image] /\ now \in Copies(dev.image) /\ (dev.image = hdMem.image => hdMem # NoHd)
  BY <1>2 DEF Quiet, NoHd, DiskType
<1> HIDE DEF now
<1>4. fs \in SUBSET File /\ \A g \in now[dev.side].files : g.name # f.name => g \in fs
  BY <1>2, <1>3 DEF Copies, Volume, On
<1>5. /\ copy \in Copies(dev.image) /\ copy[dev.side].files = fs
      /\ \A s \in Sides(dev.image) : s # dev.side => copy[s] = now[s]
  <2> HIDE DEF fs
  <2>1. copy = [now EXCEPT ![dev.side].files = fs]
    BY DEF fs
  <2>2. now[dev.side] \in Volume /\ [now[dev.side] EXCEPT !.files = fs] \in Volume /\ [now[dev.side] EXCEPT !.files = fs].files = fs
    BY <1>2, <1>3, <1>4 DEF Copies, Volume
  <2> HIDE DEF copy
  <2>3. QED BY <1>2, <1>3, <2>1, <2>2 DEF Copies
<1> HIDE DEF copy, fs, others
<1>6. /\ DiskType(disk') /\ disk'[dev.image] = copy
      /\ \A i \in Images : i # dev.image => disk'[i] = disk[i]
  BY <1>1, <1>2, <1>5 DEF DiskType
<1>7. HdType(hdMem') /\ hdMem'.image = slots.hd /\ (hdMem' # NoHd => hdMem'.copy = disk'[hdMem'.image])
  <2>1. CASE dev.image = hdMem.image
    <3>1. PICK i, k : hdMem = [image |-> i, copy |-> k]
      BY <1>2, <1>3, <2>1 DEF HdType
    <3>2. hdMem' = [image |-> i, copy |-> copy] /\ hdMem.image = i
      BY <1>1, <2>1, <3>1
    <3>3. hdMem'.image = i /\ hdMem'.copy = copy /\ i \in Hds /\ i = dev.image
      BY <1>2, <1>3, <2>1, <3>2 DEF HdType
    <3>4. QED BY <1>5, <1>6, <3>2, <3>3 DEF HdType, Quiet
  <2>2. CASE dev.image # hdMem.image
    BY <1>1, <1>2, <1>6, <2>2 DEF Quiet, HdType, Images
  <2>3. QED BY <2>1, <2>2
<1>8. Quiet'
  BY <1>1, <1>6, <1>7 DEF Quiet, TypeOK, PanelsMounted
<1>9. Conserves
  <2>1. SUFFICES ASSUME NEW i \in Images, disk'[i] # disk[i], NEW s \in Sides(i), NEW g \in disk[i][s].files
                 PROVE  Holds(disk', <<i, s, g.name>>, g.data) \/ <<i, s, g.name>> \in agreed'.given
    BY DEF Conserves
  <2>2. i = dev.image
    BY <1>6, <2>1
  <2>3. CASE s = dev.side /\ g.name = f.name
    BY <1>1, <2>2, <2>3 DEF Place3
  <2>4. CASE ~(s = dev.side /\ g.name = f.name)
    <3>1. g \in disk'[i][s].files
      BY <1>3, <1>4, <1>5, <1>6, <2>2, <2>4
    <3>2. QED BY <3>1 DEF Holds, On
  <2>5. QED BY <2>3, <2>4
<1>10. QED BY <1>8, <1>9

-----------------------------------------------------------------------------
(* A transfer, to its next question or its end.                             *)

LEMMA RunLoses ==
  ASSUME NEW t, SetUp(t), disk' = Run(t).disk, Told(t, agreed'.carried),
         \A j \in DOMAIN t.queue : t.at <= j /\ (t.all \/ (t.once /\ j = t.at))
                                     => Place3(t.device, t.queue[j]) \in agreed'.given
  PROVE  Conserves
<1> DEFINE from == Here.device
           to == t.device
           w == Run(t)
<1>1. Carrying(t, w)
  BY RunCarries
<1>2. /\ Progress(t, w.t) /\ OnSide(w.from, from) /\ OnSide(w.to, to)
      /\ disk' = [disk EXCEPT ![from.image] = w.from, ![to.image] = w.to]
      /\ SourceKept(t, w.t.at, disk[from.image][from.side].files, w.from[from.side].files, w.to[to.side].files)
      /\ TargetKept(t, w.t.at, disk[to.image][to.side].files, w.to[to.side].files)
  BY <1>1 DEF Carrying, Parts
<1> HIDE DEF w
<1>3. /\ DiskType(disk) /\ from.image # to.image /\ from.image \in Images /\ to.image \in Images
  BY DEF SetUp, TransferType, PanelType, HasLocation, DeviceType
<1>4. /\ disk'[from.image] = w.from /\ disk'[to.image] = w.to
      /\ \A i \in Images : i \notin {from.image, to.image} => disk'[i] = disk[i]
  BY <1>2, <1>3 DEF DiskType
<1>5. SUFFICES ASSUME NEW i \in Images, disk'[i] # disk[i], NEW s \in Sides(i), NEW f \in disk[i][s].files
               PROVE  \/ Holds(disk', <<i, s, f.name>>, f.data)
                      \/ <<i, s, f.name>> \in agreed'.given
                      \/ \E c \in agreed'.carried : c.from = <<i, s, f.name>> /\ Holds(disk', c.to, f.data)
  BY DEF Conserves
<1>6. f \in disk'[i][s].files => Holds(disk', <<i, s, f.name>>, f.data)
  BY DEF Holds, On
<1>7. CASE i = from.image /\ s # from.side
  BY <1>2, <1>4, <1>6, <1>7 DEF OnSide
<1>8. CASE i = from.image /\ s = from.side
  <2>1. CASE f \in w.from[from.side].files
    BY <1>4, <1>6, <1>8, <2>1
  <2>2. CASE f \notin w.from[from.side].files
    <3>1. PICK j \in Passed(t, w.t.at) : f.name = t.queue[j]
      BY <1>2, <1>8, <2>2 DEF SourceKept
    <3>2. t.move /\ f \in w.to[to.side].files /\ j \in DOMAIN t.queue
      BY <1>2, <1>8, <2>2, <3>1 DEF SourceKept, Passed
    <3> DEFINE c == [from |-> Place3(from, t.queue[j]), to |-> Place3(to, t.queue[j])]
    <3>3. c \in agreed'.carried
      BY <3>2 DEF Told
    <3>4. c.from = <<i, s, f.name>> /\ c.to = Place3(to, f.name)
      BY <1>8, <3>1 DEF Place3
    <3> HIDE DEF c
    <3>5. f \in On(disk'[to.image][to.side], f.name)
      BY <1>4, <3>2 DEF On
    <3>6. Holds(disk', Place3(to, f.name), f.data)
      BY <3>5, HeldThere
    <3>7. QED BY <3>3, <3>4, <3>6
  <2>3. QED BY <2>1, <2>2
<1>9. CASE i = to.image /\ s # to.side
  BY <1>2, <1>4, <1>6, <1>9 DEF OnSide
<1>10. CASE i = to.image /\ s = to.side
  <2>1. CASE f \in w.to[to.side].files
    BY <1>4, <1>6, <1>10, <2>1
  <2>2. CASE f \notin w.to[to.side].files
    <3>1. PICK j \in Passed(t, w.t.at) : f.name = t.queue[j] /\ (t.all \/ (t.once /\ j = t.at))
      BY <1>2, <1>10, <2>2 DEF TargetKept
    <3>2. Place3(to, t.queue[j]) \in agreed'.given
      BY <3>1 DEF Passed
    <3>3. QED BY <1>10, <3>1, <3>2 DEF Place3
  <2>3. QED BY <2>1, <2>2
<1>11. QED BY <1>4, <1>5, <1>7, <1>8, <1>9, <1>10

(* What a transfer t stands on, as it starts and after an answer.           *)
RunReady(t) ==
  /\ TypeOK /\ PanelsMounted /\ mode = "up" /\ SetUp(t)
  /\ t.own = NoImage => HasLocation(There) /\ There.device = t.device
  /\ FreshBut(panels, disk, {Here.device.image, t.device.image})
  /\ hdMem.image = slots.hd /\ MachineBut(disk, {Here.device.image, t.device.image})

LEMMA CopiesLeft ==
  ASSUME NEW t, RunReady(t)
  PROVE  LET w == Run(t)
             ps == WithCopies(w)
         IN /\ DiskType(w.disk)
            /\ w.disk[Here.device.image] = w.from /\ w.disk[t.device.image] = w.to
            /\ w.to \in Copies(t.device.image)
            /\ w.t \in TransferSet /\ w.t.device = t.device /\ w.t.own = t.own
            /\ w.t.queue = t.queue /\ w.t.move = t.move
            /\ ps = [i \in 1..2 |-> ps[i]]
            /\ ps[active].copy = w.from /\ (t.own = NoImage => ps[3 - active].copy = w.to)
            /\ \A i \in 1..2 : HasLocation(ps[i]) = HasLocation(panels[i]) /\ ps[i].device = panels[i].device
            /\ FreshBut(ps, w.disk, {Here.device.image, t.device.image})
            /\ MachineBut(w.disk, {Here.device.image, t.device.image})
<1> DEFINE from == Here.device
           to == t.device
           w == Run(t)
           ps == WithCopies(w)
<1>1. Carrying(t, w)
  BY RunCarries DEF RunReady
<1>2. /\ Progress(t, w.t) /\ OnSide(w.from, from) /\ OnSide(w.to, to)
      /\ w.disk = [disk EXCEPT ![from.image] = w.from, ![to.image] = w.to]
  BY <1>1 DEF Carrying, Parts
<1>3. /\ DiskType(disk) /\ from.image # to.image /\ from.image \in Images /\ to.image \in Images
      /\ active \in 1..2 /\ HasLocation(Here) /\ PanelType(Here) /\ t \in TransferSet
  BY DEF RunReady, TypeOK, SetUp, TransferType, PanelType, HasLocation, DeviceType
<1> HIDE DEF w
<1>4. w.t \in TransferSet
  BY <1>2, <1>3, Onward
<1>5. w.t.device = t.device /\ w.t.own = t.own /\ w.t.queue = t.queue /\ w.t.move = t.move
  BY <1>2, <1>3 DEF Progress, TransferSet
<1>6. w.from \in Copies(from.image) /\ w.to \in Copies(to.image)
  BY <1>2 DEF OnSide
<1>7. /\ DiskType(w.disk) /\ w.disk[from.image] = w.from /\ w.disk[to.image] = w.to
      /\ \A i \in Images : i \notin {from.image, to.image} => w.disk[i] = disk[i]
  BY <1>2, <1>3, <1>6 DEF DiskType
<1> DEFINE With(p, c) == [p EXCEPT !.copy = c]
<1>8. ASSUME NEW p, PanelType(p), HasLocation(p), NEW c \in Copies(p.device.image)
      PROVE  /\ PanelType(With(p, c)) /\ HasLocation(With(p, c))
             /\ With(p, c).device = p.device /\ With(p, c).copy = c
  <2>1. PICK d, k, n : p = [device |-> d, copy |-> k, marks |-> n]
    BY <1>8, PanelParts
  <2>2. [p EXCEPT !.copy = c] = [device |-> d, copy |-> c, marks |-> n] /\ p.device = d /\ p.marks = n
    BY <2>1
  <2>3. DeviceType(d) /\ n \in SUBSET Names /\ c \in Copies(d.image)
    BY <1>8, <2>2, PanelParts
  <2>4. PanelType([device |-> d, copy |-> c, marks |-> n]) /\ HasLocation([device |-> d, copy |-> c, marks |-> n])
    BY <2>3, PanelMade
  <2>5. [device |-> d, copy |-> c, marks |-> n].device = d /\ [device |-> d, copy |-> c, marks |-> n].copy = c
    OBVIOUS
  <2>6. QED BY <2>2, <2>4, <2>5
<1>9. ASSUME NEW i \in 1..2
      PROVE  /\ PanelType(ps[i]) /\ HasLocation(ps[i]) = HasLocation(panels[i]) /\ ps[i].device = panels[i].device
             /\ i = active => ps[i].copy = w.from
             /\ i # active /\ t.own = NoImage => ps[i].copy = w.to
             /\ HasLocation(ps[i]) /\ ps[i].device.image \notin {from.image, to.image} => FreshOn(ps[i], w.disk)
  <2>1. PanelType(panels[i])
    BY DEF RunReady, TypeOK
  <2>2. CASE i = active
    <3>1. ps[i] = With(Here, w.from) /\ panels[i] = Here
      BY <2>2 DEF WithCopies, Here
    <3> HIDE DEF With, ps
    <3>2. /\ PanelType(ps[i]) /\ HasLocation(ps[i]) /\ ps[i].device = Here.device /\ ps[i].copy = w.from
      BY <1>3, <1>6, <1>8, <3>1
    <3>3. QED BY <1>3, <2>2, <3>1, <3>2
  <2>3. CASE i # active /\ t.own = NoImage
    <3>1. ps[i] = With(panels[i], w.to)
      BY <1>5, <2>3 DEF WithCopies
    <3>2. panels[i] = There /\ HasLocation(There) /\ There.device = to
      <4>1. i = 3 - active
        BY <1>3, <2>3
      <4>2. QED BY <2>3, <4>1 DEF RunReady, There
    <3> HIDE DEF With, ps
    <3>3. PanelType(ps[i]) /\ HasLocation(ps[i]) /\ ps[i].device = to /\ ps[i].copy = w.to
      BY <1>6, <1>8, <2>1, <3>1, <3>2
    <3>4. QED BY <2>3, <3>2, <3>3
  <2>4. CASE i # active /\ t.own # NoImage
    <3>1. ps[i] = panels[i]
      BY <1>5, <2>4 DEF WithCopies
    <3>2. ASSUME HasLocation(panels[i]), panels[i].device.image \notin {from.image, to.image}
          PROVE  FreshOn(panels[i], w.disk)
      <4>1. FreshOn(panels[i], disk) /\ panels[i].device.image \in Images
        BY <2>1, <3>2, PanelParts DEF RunReady, FreshBut
      <4>2. QED BY <1>7, <3>2, <4>1 DEF FreshOn
    <3>3. QED BY <2>1, <2>4, <3>1, <3>2
  <2>5. QED BY <2>2, <2>3, <2>4
<1>10. ps = [i \in 1..2 |-> ps[i]]
  BY DEF WithCopies
<1>11. MachineBut(w.disk, {from.image, to.image})
  BY <1>7 DEF RunReady, MachineBut, HdType, Images
<1> HIDE DEF ps
<1>12. FreshBut(ps, w.disk, {from.image, to.image})
  BY <1>9 DEF FreshBut
<1>13. 3 - active \in 1..2 /\ 3 - active # active
  BY <1>3
<1>14. QED BY <1>3, <1>4, <1>5, <1>6, <1>7, <1>9, <1>10, <1>11, <1>12, <1>13 DEF ps, w

LEMMA AskedKeeps ==
  ASSUME NEW t, RunReady(t), Asked(Run(t)), UNCHANGED <<slots, active, mode>>,
         AgreedType', Told(t, agreed'.carried)
  PROVE  IInv'
<1> DEFINE w == Run(t)
           ps == WithCopies(w)
           next == [w.t EXCEPT !.own = IF @ = NoImage THEN @ ELSE w.to]
<1>1. transfer' = next /\ panels' = ps /\ disk' = w.disk /\ hdMem' = hdMem
  BY DEF Asked
<1>2. /\ DiskType(w.disk) /\ w.disk[Here.device.image] = w.from /\ w.disk[t.device.image] = w.to
      /\ w.to \in Copies(t.device.image) /\ w.t \in TransferSet
      /\ w.t.device = t.device /\ w.t.own = t.own /\ w.t.queue = t.queue /\ w.t.move = t.move
      /\ ps = [i \in 1..2 |-> ps[i]]
      /\ ps[active].copy = w.from /\ (t.own = NoImage => ps[3 - active].copy = w.to)
      /\ \A i \in 1..2 : HasLocation(ps[i]) = HasLocation(panels[i]) /\ ps[i].device = panels[i].device
      /\ FreshBut(ps, w.disk, {Here.device.image, t.device.image})
      /\ MachineBut(w.disk, {Here.device.image, t.device.image})
  BY CopiesLeft
<1> HIDE DEF w, ps
<1>3. /\ TypeOK /\ PanelsMounted /\ mode = "up" /\ hdMem.image = slots.hd
      /\ TransferType(t) /\ t \in TransferSet /\ Here.device.image # t.device.image /\ HasLocation(Here)
      /\ t.own = NoImage => HasLocation(There) /\ There.device = t.device
      /\ active \in 1..2 /\ t.device.image \in Images
  BY DEF RunReady, SetUp, TypeOK, TransferType, DeviceType
<1>4. w.to # NoImage /\ w.to \in AnyCopy
  BY <1>2, <1>3, CommanderAssumption DEF CommanderAssumption, AnyCopy
<1>5. /\ next \in TransferSet /\ next.device = t.device /\ next.queue = t.queue /\ next.move = t.move
      /\ next.own = IF t.own = NoImage THEN NoImage ELSE w.to
  <2> DEFINE own == IF t.own = NoImage THEN NoImage ELSE w.to
  <2>1. next = [w.t EXCEPT !.own = own] /\ own \in AnyCopy \cup {NoImage}
    BY <1>2, <1>4
  <2> HIDE DEF own, next
  <2>2. /\ next \in TransferSet /\ next.own = own
        /\ next.device = w.t.device /\ next.queue = w.t.queue /\ next.move = w.t.move
    BY <1>2, <2>1 DEF TransferSet
  <2>3. QED BY <1>2, <2>2 DEF own
<1> HIDE DEF next
<1>6. TransferType(next) /\ next # NoTransfer
  BY <1>2, <1>3, <1>5, Distinct DEF TransferType
<1>7. /\ panels'[active'] = ps[active] /\ panels'[3 - active'] = ps[3 - active]
      /\ active \in 1..2 /\ 3 - active \in 1..2
  BY <1>1, <1>3
<1>8. /\ HasLocation(ps[active]) /\ ps[active].device = Here.device
      /\ t.own = NoImage => HasLocation(ps[3 - active]) /\ ps[3 - active].device = t.device
  BY <1>2, <1>3, <1>7 DEF Here, There
<1>9. TypeOK'
  BY <1>1, <1>2, <1>3, <1>6 DEF TypeOK, FreshBut
<1>10. PanelsMounted'
  BY <1>1, <1>2, <1>3 DEF PanelsMounted
<1>11. UnderWay' = {Here.device.image, t.device.image}
  BY <1>1, <1>5, <1>6, <1>7, <1>8 DEF UnderWay, Here
<1>12. OthersFresh'
  BY <1>1, <1>2, <1>11 DEF OthersFresh, FreshBut
<1>13. HdFollowsFile'
  BY <1>1, <1>2, <1>3, <1>11 DEF HdFollowsFile, MachineBut
<1>14. Ends(transfer)'
  <2>1. Here' = ps[active] /\ There' = ps[3 - active]
    BY <1>7 DEF Here, There
  <2>2. HasLocation(Here') /\ Here'.device.image # transfer'.device.image
    BY <1>1, <1>3, <1>5, <1>8, <2>1
  <2>3. Here'.copy = disk'[Here'.device.image]
    BY <1>1, <1>2, <1>8, <2>1
  <2>4. Target(transfer)' = disk'[transfer'.device.image]
    BY <1>1, <1>2, <1>4, <1>5, <2>1 DEF Target
  <2>5. transfer'.own = NoImage => HasLocation(There') /\ There'.device = transfer'.device
    BY <1>1, <1>4, <1>5, <1>8, <2>1
  <2>6. QED BY <2>2, <2>3, <2>4, <2>5 DEF Ends, HasLocation
<1>15. Told(transfer, agreed.carried)'
  BY <1>1, <1>5, <1>7, <1>8 DEF Told, Here
<1>16. Transferring'
  BY <1>3, <1>14, <1>15 DEF Transferring
<1>17. QED BY <1>9, <1>10, <1>12, <1>13, <1>16 DEF IInv

LEMMA FinishedKeeps ==
  ASSUME NEW t, RunReady(t), Finished(Run(t)), UNCHANGED <<slots, active, mode>>, AgreedType'
  PROVE  Quiet' /\ disk' = Run(t).disk
<1> DEFINE w == Run(t)
           ps == WithCopies(w)
           qs == [ps EXCEPT ![active].marks = {}]
           images == {Here.device.image, w.t.device.image}
<1>1. transfer' = NoTransfer /\ Changed(qs, w.disk, images)
  BY DEF Finished
<1>2. /\ DiskType(w.disk) /\ w.t.device = t.device
      /\ ps = [i \in 1..2 |-> ps[i]]
      /\ \A i \in 1..2 : HasLocation(ps[i]) = HasLocation(panels[i]) /\ ps[i].device = panels[i].device
      /\ FreshBut(ps, w.disk, {Here.device.image, t.device.image})
      /\ MachineBut(w.disk, {Here.device.image, t.device.image})
  BY CopiesLeft
<1> HIDE DEF w, ps
<1>3. /\ TypeOK /\ PanelsMounted /\ mode = "up" /\ hdMem.image = slots.hd /\ HasLocation(Here)
      /\ active \in 1..2 /\ t.device.image \in Images /\ PanelType(Here) /\ Here.device.image \in Images
  BY PanelParts DEF RunReady, SetUp, TypeOK, TransferType, DeviceType
<1>4. FreshBut(qs, w.disk, images) /\ \A i \in 1..2 : HasLocation(qs[i]) => HasLocation(panels[i]) /\ qs[i].device = panels[i].device
  <2>1. ASSUME NEW i \in 1..2
        PROVE  /\ PanelType(qs[i])
               /\ HasLocation(qs[i]) => HasLocation(panels[i]) /\ qs[i].device = panels[i].device
               /\ HasLocation(qs[i]) /\ qs[i].device.image \notin images => FreshOn(qs[i], w.disk)
    <3>1. CASE i # active
      BY <1>2, <3>1 DEF FreshBut
    <3>2. CASE i = active
      <4>1. qs[i] = [ps[i] EXCEPT !.marks = {}] /\ HasLocation(ps[i]) /\ PanelType(ps[i]) /\ ps[i].device = Here.device
        BY <1>2, <1>3, <3>2 DEF FreshBut, Here
      <4>2. PICK d, k, n : ps[i] = [device |-> d, copy |-> k, marks |-> n]
        BY <4>1, PanelParts, ZenonT(60)
      <4>3. qs[i] = [device |-> d, copy |-> k, marks |-> {}] /\ ps[i].device = d /\ ps[i].copy = k
        BY <4>1, <4>2
      <4>4. PanelType(qs[i]) /\ HasLocation(qs[i]) /\ qs[i].device = d
        BY <4>1, <4>3, PanelMade, PanelParts
      <4>5. QED BY <1>2, <3>2, <4>1, <4>3, <4>4 DEF Here
    <3>3. QED BY <3>1, <3>2
  <2> HIDE DEF qs
  <2>2. QED BY <2>1 DEF FreshBut
<1>5. images \subseteq Images /\ MachineBut(w.disk, images)
  BY <1>2, <1>3
<1> HIDE DEF qs, images
<1>6. /\ disk' = w.disk /\ panels' = [i \in 1..2 |-> panels'[i]]
      /\ \A i \in 1..2 :
           /\ PanelType(panels'[i])
           /\ HasLocation(panels'[i]) =>
                /\ HasLocation(qs[i]) /\ panels'[i].device = qs[i].device
                /\ FreshOn(panels'[i], w.disk)
      /\ HdType(hdMem') /\ hdMem'.image = hdMem.image
      /\ hdMem' # NoHd => hdMem'.copy = w.disk[hdMem'.image]
  BY <1>1, <1>2, <1>4, <1>5, ChangedKeeps
<1>7. TypeOK' /\ PanelsMounted'
  BY <1>1, <1>2, <1>3, <1>4, <1>6 DEF TypeOK, PanelsMounted
<1>8. QED BY <1>1, <1>3, <1>6, <1>7 DEF Quiet, w

LEMMA StartKeeps ==
  ASSUME OtherImage, Quiet, NEW move \in BOOLEAN, NEW sel \in SUBSET Names, NEW dev \in Devices(slots),
         NEW touch \in BOOLEAN, StartTransfer(move, sel, dev, touch)
  PROVE  IInv' /\ Conserves
<1> DEFINE queue == SetToSeq(sel)
           inOther == HasLocation(There) /\ There.device.name = dev.name
           own == IF inOther THEN NoImage ELSE disk[dev.image]
           t == [move |-> move, queue |-> queue, at |-> 1, device |-> dev, own |-> own,
                 touch |-> touch, all |-> FALSE, none |-> FALSE, once |-> FALSE]
           tells == IF move THEN {[from |-> Place3(Here.device, n), to |-> Place3(dev, n)] : n \in sel} ELSE {}
<1>1. /\ AtVolume /\ dev.image # Here.device.image
      /\ Asked(Run(t)) \/ Finished(Run(t))
      /\ agreed' = [given |-> {}, carried |-> tells]
      /\ UNCHANGED <<slots, active, mode>>
  BY DEF StartTransfer, OtherImage, Agrees
<1>2. /\ active \in 1..2 /\ HasLocation(Here) /\ PanelType(Here) /\ Here.copy = disk[Here.device.image]
  BY <1>1, HereTyped
<1>3. DeviceType(dev) /\ dev.image \in Images /\ DiskType(disk) /\ SlotType(slots) /\ TypeOK /\ PanelsMounted /\ mode = "up"
  BY <1>1, DeviceTyped DEF Quiet, TypeOK, DeviceType, AtVolume, Ready
<1>4. disk[dev.image] \in Copies(dev.image) /\ disk[dev.image] # NoImage /\ disk[dev.image] \in AnyCopy
  BY <1>3, CommanderAssumption DEF CommanderAssumption, DiskType, AnyCopy
<1>5. inOther => There.device = dev /\ There.copy = disk[dev.image]
  <2>1. SUFFICES ASSUME inOther PROVE There.device = dev /\ There.copy = disk[dev.image]
    OBVIOUS
  <2>2. 3 - active \in 1..2
    BY <1>2
  <2>3. There.device \in Devices(slots) /\ FreshOn(There, disk)
    BY <1>3, <2>1, <2>2 DEF Quiet, PanelsMounted, There
  <2>4. dev = There.device
    BY <1>3, <2>1, <2>3, SameDevice
  <2>5. QED BY <2>3, <2>4 DEF FreshOn
<1>6. queue \in Seq(Names) /\ queue \in Seq(sel) /\ IsInjective(queue)
  BY Queued
<1> HIDE DEF queue
<1>7. /\ t.move = move /\ t.queue = queue /\ t.at = 1 /\ t.device = dev /\ t.own = own
      /\ t.all = FALSE /\ t.none = FALSE /\ t.once = FALSE
  OBVIOUS
<1>8. t \in TransferSet
  <2>1. own \in AnyCopy \cup {NoImage} /\ dev \in [name : DeviceNames, image : Images, side : {0, 1}]
    BY <1>3, <1>4 DEF DeviceType
  <2> HIDE DEF own
  <2>2. QED BY <1>6, <2>1 DEF TransferSet
<1> HIDE DEF t
<1>9. TransferType(t)
  BY <1>3, <1>4, <1>6, <1>7, <1>8 DEF TransferType
<1>10. Target(t) = disk[dev.image] /\ (t.own = NoImage => HasLocation(There) /\ There.device = t.device)
  BY <1>4, <1>5, <1>7 DEF Target
<1>11. SetUp(t)
  BY <1>1, <1>2, <1>3, <1>7, <1>9, <1>10 DEF SetUp
<1>12. RunReady(t)
  <2>1. FreshBut(panels, disk, {Here.device.image, t.device.image})
    BY <1>3 DEF FreshBut, Quiet, TypeOK
  <2>2. hdMem.image = slots.hd /\ MachineBut(disk, {Here.device.image, t.device.image})
    BY DEF MachineBut, Quiet, TypeOK
  <2>3. QED BY <1>3, <1>10, <1>11, <2>1, <2>2 DEF RunReady
<1>13. Told(t, agreed'.carried)
  BY <1>1, <1>6, <1>7 DEF Told
<1>14. AgreedType'
  BY <1>1 DEF AgreedType
<1>15. disk' = Run(t).disk
  BY <1>1, <1>12, FinishedKeeps, <1>14 DEF Asked
<1>16. Conserves
  BY <1>7, <1>11, <1>13, <1>15, RunLoses
<1>17. IInv'
  <2>1. Quiet' => IInv'
    BY QuietIs, PTL
  <2>2. QED BY <1>1, <1>12, <1>13, <1>14, <2>1, AskedKeeps, FinishedKeeps
<1>18. QED BY <1>16, <1>17

LEMMA AnswerKeeps ==
  ASSUME IInv, NEW c \in {"yes", "no", "all", "none", "abort"}, Answer(c)
  PROVE  IInv' /\ Conserves
<1> DEFINE at == CASE c = "no" -> transfer.at + 1 [] c = "abort" -> Len(transfer.queue) + 1 [] OTHER -> transfer.at
           t == [transfer EXCEPT !.at = at, !.once = c = "yes", !.all = c = "all", !.none = c = "none"]
           given == CASE c = "yes" -> {transfer.queue[transfer.at]}
                      [] c = "all" -> {transfer.queue[i] : i \in transfer.at..Len(transfer.queue)}
                      [] OTHER     -> {}
<1>1. /\ mode = "up" /\ transfer # NoTransfer
      /\ Asked(Run(t)) \/ Finished(Run(t))
      /\ agreed' = [agreed EXCEPT !.given = {Place3(transfer.device, n) : n \in given}]
      /\ UNCHANGED <<slots, active, mode>>
  BY DEF Answer
<1>2. /\ TypeOK /\ PanelsMounted /\ DiskType(disk) /\ TransferType(transfer) /\ transfer \in TransferSet
      /\ Ends(transfer) /\ Told(transfer, agreed.carried)
  BY <1>1 DEF IInv, TypeOK, TransferType, Transferring
<1>3. at \in Nat \ {0} /\ transfer.queue \in Seq(Names) /\ transfer.at \in Nat
  BY <1>2 DEF TransferSet
<1>4. /\ t \in TransferSet /\ t.move = transfer.move /\ t.queue = transfer.queue /\ t.device = transfer.device
      /\ t.own = transfer.own /\ t.at = at
      /\ t.once = (c = "yes") /\ t.all = (c = "all") /\ t.none = (c = "none")
  <2> HIDE DEF at
  <2>1. QED BY <1>2, <1>3, ZenonT(60) DEF TransferSet
<1> HIDE DEF t
<1>5. TransferType(t)
  BY <1>2, <1>4 DEF TransferType
<1>6. PanelType(Here) /\ active \in 1..2 /\ HasLocation(Here)
  BY <1>2 DEF TypeOK, Here, Ends
<1>7. SetUp(t)
  <2>1. Target(t) = disk[t.device.image] /\ Here.device.image # t.device.image /\ Here.copy = disk[Here.device.image]
    BY <1>2, <1>4 DEF Ends, Target
  <2>2. t.once => ~t.none
    BY <1>4
  <2>3. QED BY <1>2, <1>5, <1>6, <2>1, <2>2 DEF SetUp
<1>8. UnderWay = {Here.device.image, t.device.image}
  BY <1>1, <1>4 DEF UnderWay
<1>9. RunReady(t)
  <2>1. FreshBut(panels, disk, {Here.device.image, t.device.image})
    BY <1>1, <1>2, <1>8 DEF FreshBut, TypeOK, IInv, OthersFresh
  <2>2. hdMem.image = slots.hd /\ MachineBut(disk, {Here.device.image, t.device.image})
    BY <1>2, <1>8 DEF MachineBut, TypeOK, IInv, HdFollowsFile
  <2>3. t.own = NoImage => HasLocation(There) /\ There.device = t.device
    BY <1>2, <1>4 DEF Ends
  <2>4. QED BY <1>1, <1>2, <1>7, <2>1, <2>2, <2>3 DEF RunReady
<1>10. AgreedType' /\ agreed'.carried = agreed.carried /\ agreed'.given = {Place3(t.device, n) : n \in given}
  <2> DEFINE g == {Place3(transfer.device, n) : n \in given}
  <2> HIDE DEF g
  <2>1. PICK x, y : agreed = [given |-> x, carried |-> y]
    BY DEF IInv, AgreedType
  <2>2. agreed' = [given |-> g, carried |-> y]
    BY <1>1, <2>1 DEF g
  <2>3. QED BY <1>4, <2>1, <2>2 DEF AgreedType, g
<1>11. Told(t, agreed'.carried)
  BY <1>2, <1>4, <1>10 DEF Told
<1>12. ASSUME NEW j \in DOMAIN t.queue, t.at <= j, t.all \/ (t.once /\ j = t.at)
       PROVE  Place3(t.device, t.queue[j]) \in agreed'.given
  <2>1. t.queue[j] \in given
    <3>1. CASE c = "all"
      BY <1>3, <1>4, <1>12, <3>1
    <3>2. CASE c = "yes"
      BY <1>3, <1>4, <1>12, <3>2
    <3>3. QED BY <1>4, <1>12, <3>1, <3>2
  <2>2. QED BY <1>10, <2>1
<1>13. disk' = Run(t).disk
  BY <1>1, <1>9, <1>10, FinishedKeeps DEF Asked
<1>14. Conserves
  BY <1>7, <1>11, <1>12, <1>13, RunLoses
<1>15. IInv'
  <2>1. Quiet' => IInv'
    BY QuietIs, PTL
  <2>2. QED BY <1>1, <1>9, <1>10, <1>11, <2>1, AskedKeeps, FinishedKeeps
<1>16. QED BY <1>14, <1>15

-----------------------------------------------------------------------------
(* The invariant holds from the start, is kept by every step, and says what *)
(* Commander promises; and no step loses a file.                            *)

LEMMA Starts == ASSUME Init PROVE Quiet
<1>1. DiskType(disk) /\ SlotType(slots)
  BY CommanderAssumption DEF CommanderAssumption, Init
<1>2. panels = [i \in 1..2 |-> panels[i]] /\ \A i \in 1..2 : panels[i] = NoPanel
  BY DEF Init
<1>3. HdType(hdMem) /\ hdMem.image = slots.hd /\ (hdMem # NoHd => hdMem.copy = disk[hdMem.image])
  <2>1. CASE slots.hd = NoImage
    BY <2>1 DEF Init, NoHd, HdType
  <2>2. CASE slots.hd # NoImage
    <3>1. hdMem = [image |-> slots.hd, copy |-> disk[slots.hd]]
      BY <2>2 DEF Init
    <3>2. slots.hd \in Hds /\ disk[slots.hd] \in Copies(slots.hd)
      BY <1>1, <2>2 DEF SlotType, DiskType, Images
    <3>3. QED BY <3>1, <3>2 DEF HdType
  <2>3. QED BY <2>1, <2>2
<1>4. active = 1 /\ transfer = NoTransfer /\ mode = "new" /\ AgreedType
  BY DEF Init, AgreedType
<1>5. QED BY <1>1, <1>2, <1>3, <1>4 DEF Quiet, TypeOK, PanelsMounted, PanelType, HasLocation

LEMMA QuietStep ==
  ASSUME OtherImage, Quiet, Next
  PROVE  IInv' /\ Conserves
<1>1. Quiet' => IInv'
  BY QuietIs, PTL
<1>2. CASE SwitchPanel
  BY <1>1, <1>2, SwitchKeeps
<1>3. CASE SwapPanels
  BY <1>1, <1>3, SwapKeeps
<1>4. CASE \E ns \in SUBSET Names : ToggleMarks(ns)
  BY <1>1, <1>4, ToggleKeeps
<1>5. CASE \E sel \in SUBSET Names, touch \in BOOLEAN : Delete(sel, touch)
  BY <1>1, <1>5, DeleteKeeps
<1>6. CASE \E n, to \in Names, touch \in BOOLEAN : Rename(n, to, touch)
  BY <1>1, <1>6, RenameKeeps
<1>7. CASE \E sel \in SUBSET Names, on \in BOOLEAN : Protect(sel, on)
  BY <1>1, <1>7, ProtectKeeps
<1>8. CASE Rewrite
  BY <1>1, <1>8, RewriteKeeps
<1>9. CASE InitVolume
  BY <1>1, <1>9, InitVolumeKeeps
<1>10. CASE \E f \in HostFiles : Import(f)
  BY <1>1, <1>10, ImportKeeps
<1>11. CASE \E move \in BOOLEAN, sel \in SUBSET Names, dev \in Devices(slots), touch \in BOOLEAN :
              StartTransfer(move, sel, dev, touch)
  BY <1>11, StartKeeps
<1>12. CASE \E c \in {"yes", "no", "all", "none", "abort"} : Answer(c)
  BY <1>12 DEF Answer, Quiet
<1>13. CASE \E p \in 1..2, d \in Drives, image \in TwoSided : MountTwoSided(p, d, image)
  BY <1>1, <1>13, MountTwoSidedKeeps
<1>14. CASE \E p \in 1..2, d \in Drives, s \in {0, 1}, image \in OneSided : MountOneSided(p, d, s, image)
  BY <1>1, <1>14, MountOneSidedKeeps
<1>15. CASE \E p \in 1..2, image \in Hds : MountHd(p, image)
  BY <1>1, <1>15, MountHdKeeps
<1>16. CASE \E p \in 1..2, slot \in Drives \cup {"hd"} : Unmount(p, slot)
  BY <1>1, <1>16, UnmountKeeps
<1>17. CASE \E p \in 1..2, dev \in Devices(slots) : ShowDevice(p, dev)
  BY <1>1, <1>17, ShowKeeps
<1>18. CASE Enter
  BY <1>1, <1>18, EnterKeeps
<1>19. CASE Leave
  BY <1>1, <1>19, LeaveKeeps
<1>20. CASE \E dev \in Devices(slots), f \in HostFiles, puts \in BOOLEAN : GuestWrites(dev, f, puts)
  BY <1>1, <1>20, GuestKeeps
<1>21. QED
  BY <1>2, <1>3, <1>4, <1>5, <1>6, <1>7, <1>8, <1>9, <1>10, <1>11, <1>12, <1>13, <1>14, <1>15, <1>16,
     <1>17, <1>18, <1>19, <1>20
  DEF Next

LEMMA AskingStep ==
  ASSUME IInv, transfer # NoTransfer, Next
  PROVE  IInv' /\ Conserves
<1>1. mode = "up"
  BY DEF IInv, Transferring
<1>2. ~Ready /\ ~AtVolume
  BY DEF Ready, AtVolume
<1>3. CASE \E c \in {"yes", "no", "all", "none", "abort"} : Answer(c)
  BY <1>3, AnswerKeeps
<1>4. CASE ~\E c \in {"yes", "no", "all", "none", "abort"} : Answer(c)
  <2>1. ~SwitchPanel /\ ~SwapPanels /\ ~Rewrite /\ ~InitVolume /\ ~Enter /\ ~Leave
    BY <1>1, <1>2 DEF SwitchPanel, SwapPanels, Rewrite, InitVolume, Enter, Leave
  <2>2. /\ \A ns : ~ToggleMarks(ns)
        /\ \A sel, touch : ~Delete(sel, touch)
        /\ \A n, to, touch : ~Rename(n, to, touch)
        /\ \A sel, on : ~Protect(sel, on)
        /\ \A f : ~Import(f)
    BY <1>2 DEF ToggleMarks, Delete, Rename, Protect, Import
  <2>3. \A move, sel, dev, touch : ~StartTransfer(move, sel, dev, touch)
    BY <1>2 DEF StartTransfer
  <2>4. /\ \A p, d, image : ~MountTwoSided(p, d, image)
        /\ \A p, d, s, image : ~MountOneSided(p, d, s, image)
        /\ \A p, image : ~MountHd(p, image)
        /\ \A p, slot : ~Unmount(p, slot)
        /\ \A p, dev : ~ShowDevice(p, dev)
    BY <1>2 DEF MountTwoSided, MountOneSided, MountHd, Mount, Unmount, ShowDevice
  <2>5. \A dev, f, puts : ~GuestWrites(dev, f, puts)
    BY <1>1 DEF GuestWrites
  <2>6. QED BY <1>4, <2>1, <2>2, <2>3, <2>4, <2>5 DEF Next
<1>5. QED BY <1>3, <1>4

LEMMA Keeps ==
  ASSUME OtherImage, IInv, [Next]_vars
  PROVE  IInv' /\ (Conserves \/ UNCHANGED vars)
<1>1. CASE Next /\ transfer = NoTransfer
  <2>1. Quiet
    BY <1>1, QuietIs
  <2>2. QED BY <1>1, <2>1, QuietStep
<1>2. CASE Next /\ transfer # NoTransfer
  BY <1>2, AskingStep
<1>3. CASE UNCHANGED vars
  <2>1. IInv'
    BY <1>3
    DEF vars, IInv, TypeOK, AgreedType, PanelsMounted, OthersFresh, HdFollowsFile, Transferring,
        UnderWay, Ends, Told, Target, Here, There
  <2>2. QED BY <1>3, <2>1
<1>4. QED BY <1>1, <1>2, <1>3

LEMMA Promises ==
  ASSUME IInv
  PROVE  PanelsFresh /\ PanelsMounted /\ HdFresh
<1>1. CASE transfer = NoTransfer
  <2>1. Quiet
    BY <1>1, QuietIs
  <2>2. QED BY <1>1, <2>1 DEF Quiet, PanelsFresh, HdFresh, FreshOn
<1>2. CASE transfer # NoTransfer
  <2>1. Ends(transfer) /\ PanelsMounted
    BY <1>2 DEF IInv, Transferring
  <2>2. PanelsFresh
    BY <1>2, <2>1 DEF PanelsFresh, Ends, Here
  <2>3. QED BY <1>2, <2>1, <2>2 DEF HdFresh
<1>3. QED BY <1>1, <1>2

LEMMA Invariant == ASSUME OtherImage PROVE Spec => []IInv
<1>1. Init => IInv
  BY Starts, QuietIs
<1>2. IInv /\ [Next]_vars => IInv'
  BY Keeps
<1>3. QED BY <1>1, <1>2, PTL DEF Spec

(* Whatever was typed, mounted, copied, moved or answered, a panel of the   *)
(* commander that is up has the image file as it is - in the middle of a    *)
(* transfer its two ends do - so that writing a copy whole undoes nothing.  *)
THEOREM CopiesAreFresh == ASSUME OtherImage PROVE Spec => []PanelsFresh
<1>1. IInv => PanelsFresh
  BY Promises
<1>2. QED BY Invariant, <1>1, PTL

(* A panel shows nothing but a device that is mounted, with its image, even *)
(* after the disks were changed under it.                                   *)
THEOREM ShownIsMounted == ASSUME OtherImage PROVE Spec => []PanelsMounted
<1>1. IInv => PanelsMounted
  BY Promises
<1>2. QED BY Invariant, <1>1, PTL

(* The machine's copy of the hard disk is the image file's whenever no      *)
(* transfer is under way, whoever wrote last and whatever was mounted.      *)
THEOREM MachineIsFresh == ASSUME OtherImage PROVE Spec => []HdFresh
<1>1. IInv => HdFresh
  BY Promises
<1>2. QED BY Invariant, <1>1, PTL

(* No step loses a file the user did not let go: a transfer of any length   *)
(* has a moved file on the target by the time it leaves the source, and     *)
(* writes over a file only as the user said, whatever was answered before.  *)
THEOREM FilesAreKept == ASSUME OtherImage PROVE Spec => NothingLost
<1>1. IInv /\ [Next]_vars => Conserves \/ UNCHANGED vars
  BY Keeps
<1>2. QED BY Invariant, <1>1, PTL DEF Spec, NothingLost, Conserves

=====
