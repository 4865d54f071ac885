------------------------------ MODULE Commander ------------------------------
(***************************************************************************)
(* The two-panel commander over the running machine: src/files (Mounts,     *)
(* Location, Ops, Panel, the Tui's actions) with the hooks and the key that *)
(* bring it up and down (src/cli CommanderHost, MountSync).                 *)
(*                                                                          *)
(* A Location reads its image file whole and keeps it; every change goes to *)
(* that copy and the whole copy is written back.  So one image has as many  *)
(* copies as it has devices in the panels, one more in a transfer whose     *)
(* target no panel shows, and one more in the machine when it is the HD's.  *)
(*                                                                          *)
(* A volume is the set of its files (Volume.tla is the directory behind     *)
(* it), each of one block; a date is left out.  A dialog takes every key    *)
(* while it is open, so the questions before a change are part of the       *)
(* action that makes it - but for a transfer's, between which files go.     *)
(***************************************************************************)
EXTENDS Integers, Sequences, SequencesExt, FiniteSets

CONSTANTS
  Names, Data, \* RT-11 names, and what files hold
  TwoSided, OneSided, Hds,   \* images by the slot their size allows
  NoImage,
  Drives,      \* of "A" and "B"
  HostFiles,   \* the files of the host that are brought in
  Disks,       \* bound: what the images hold at first
  Slots0,      \* bound: what is mounted at first
  Room,        \* bound: files a volume takes
  MaxChanges,  \* bound: changes of disks and slots in a behaviour
  SameImage    \* bound: whether a transfer may have both ends on one image

Images == TwoSided \cup OneSided \cup Hds
Sides(image) == IF image \in TwoSided THEN {0, 1} ELSE {0}

(* An image by side: whether it is INITIALISEd, and its files.              *)
File == [name : Names, data : Data, prot : BOOLEAN]
Volume == [dir : BOOLEAN, files : SUBSET File]
Copies(image) == [Sides(image) -> Volume]
DiskType(dk) == dk = [i \in Images |-> dk[i]] /\ \A i \in Images : dk[i] \in Copies(i)

(* A drive has a two-sided image or one a side.                             *)
DriveSlot == [ds : TwoSided \cup {NoImage}, side : [{0, 1} -> OneSided \cup {NoImage}]]
SlotType(sl) ==
  /\ sl = [x \in Drives \cup {"hd"} |-> sl[x]]
  /\ \A d \in Drives : sl[d] \in DriveSlot
  /\ sl["hd"] \in Hds \cup {NoImage}

ASSUME CommanderAssumption ==
  /\ IsFiniteSet(Names) /\ Drives \subseteq {"A", "B"}
  /\ TwoSided \cap OneSided = {}
  /\ NoImage \notin Images /\ \A i \in Images : NoImage \notin Copies(i)
  /\ HostFiles \subseteq File
  /\ \A dk \in Disks : DiskType(dk)
  /\ \A sl \in Slots0 : SlotType(sl)

VARIABLES
  disk,       \* the image files
  slots,      \* Mounts: per drive a two-sided image or one a side, and the HD's
  panels,     \* per panel the device, its copy of the image, the marked names
  active,     \* the panel with the cursor
  transfer,   \* a copy or move between two questions
  hdMem,      \* the machine's copy of the HD's image
  mode,       \* "new" before the first Ctrl+\, then "up" or "down"
  agreed,     \* history: what the user's last command lets go (given) or
              \* have elsewhere (carried), by place
  changes     \* bound: changes so far
vars == <<disk, slots, panels, active, transfer, hdMem, mode, agreed, changes>>

Change == changes < MaxChanges /\ changes' = changes + 1

NoPanel == [device |-> NoImage]
NoTransfer == [queue |-> <<>>]
NoHd == [image |-> NoImage]

-----------------------------------------------------------------------------
(* Mounts: the devices behind the slots, DZ0: DZ2: DZ1: DZ3: HD0:.          *)

Device(name, image, side) == [name |-> name, image |-> image, side |-> side]

SideDevice(sl, d, s) ==
  IF sl[d].side[s] = NoImage THEN <<>> ELSE <<Device(<<d, s>>, sl[d].side[s], 0)>>
FloppyDevices(sl, d) ==
  IF d \notin Drives THEN <<>>
  ELSE IF sl[d].ds # NoImage THEN <<Device(<<d, 0>>, sl[d].ds, 0), Device(<<d, 1>>, sl[d].ds, 1)>>
  ELSE SideDevice(sl, d, 0) \o SideDevice(sl, d, 1)
HdDevices(sl) == IF sl.hd = NoImage THEN <<>> ELSE <<Device(<<"HD", 0>>, sl.hd, 0)>>
DeviceSeq(sl) == FloppyDevices(sl, "A") \o FloppyDevices(sl, "B") \o HdDevices(sl)
Devices(sl) == ToSet(DeviceSeq(sl))

EmptyDrive == [ds |-> NoImage, side |-> [s \in {0, 1} |-> NoImage]]

-----------------------------------------------------------------------------
(* Panels and the copies they keep.                                         *)

HasLocation(p) == p # NoPanel
On(vol, n) == {f \in vol.files : f.name = n}
NamesOn(vol) == {f.name : f \in vol.files}
Shown(p) == p.copy[p.device.side]

Opened(dev, dk) == [device |-> dev, copy |-> dk[dev.image], marks |-> {}]

(* Panel::reload after Location::reload: marks whose file is gone go too.   *)
Reloaded_KeepsMarks(p, dk) == [p EXCEPT !.copy = dk[p.device.image]]                  \* mutant
Reloaded(p, dk) ==
  LET copy == dk[p.device.image]
  IN [p EXCEPT !.copy = copy, !.marks = @ \cap NamesOn(copy[p.device.side])]

(* changedImage: the panels on the images re-read them, and the machine     *)
(* takes the HD's again (CommanderHost's imageChanged).                     *)
PanelsAfter(ps, dk, images) ==
  [i \in 1..2 |-> IF HasLocation(ps[i]) /\ ps[i].device.image \in images THEN Reloaded(ps[i], dk) ELSE ps[i]]
MachineAfter_Stale(dk, images) == hdMem                                               \* mutant
MachineAfter(dk, images) ==
  IF hdMem.image \in images THEN [image |-> hdMem.image, copy |-> dk[hdMem.image]] ELSE hdMem

Changed(ps, dk, images) ==
  /\ disk' = dk
  /\ panels' = PanelsAfter(ps, dk, images)
  /\ hdMem' = MachineAfter(dk, images)

(* refreshPanels: a panel whose device has another image, or is gone, shows *)
(* nothing.                                                                 *)
Refreshed_ByName(ps, sl, dk) ==                                                       \* mutant
  [i \in 1..2 |-> IF HasLocation(ps[i]) /\ (\E d \in Devices(sl) : d.name = ps[i].device.name)
                  THEN Reloaded(ps[i], dk) ELSE NoPanel]
Refreshed(ps, sl, dk) ==
  [i \in 1..2 |-> IF HasLocation(ps[i])
                     /\ \E d \in Devices(sl) : d.name = ps[i].device.name /\ d.image = ps[i].device.image
                  THEN Reloaded(ps[i], dk) ELSE NoPanel]

Selections(p) == IF p.marks # {} THEN {p.marks} ELSE {{n} : n \in NamesOn(Shown(p))}

-----------------------------------------------------------------------------
(* The keys of a panel.                                                     *)

Here == panels[active]
There == panels[3 - active]
Ready == mode = "up" /\ transfer = NoTransfer
AtVolume == Ready /\ HasLocation(Here)

Place3(dev, n) == <<dev.image, dev.side, n>>
Agrees(given, carried) == agreed' = [given |-> given, carried |-> carried]
GivesUp(dev, ns) == Agrees({Place3(dev, n) : n \in ns}, {})

SwitchPanel ==
  /\ Ready
  /\ active' = 3 - active
  /\ GivesUp(Here, {})
  /\ UNCHANGED <<disk, slots, panels, transfer, hdMem, mode, changes>>

SwapPanels ==
  /\ Ready
  /\ panels' = [i \in 1..2 |-> panels[3 - i]]
  /\ GivesUp(Here, {})
  /\ UNCHANGED <<disk, slots, active, transfer, hdMem, mode, changes>>

(* Insert, + - and *: the marks.                                            *)
ToggleMarks(ns) ==
  /\ AtVolume
  /\ ns # {} /\ ns \subseteq NamesOn(Shown(Here))
  /\ panels' = [panels EXCEPT ![active].marks = (@ \ ns) \cup (ns \ @)]
  /\ GivesUp(Here, {})
  /\ UNCHANGED <<disk, slots, active, transfer, hdMem, mode, changes>>

(* One change of the volume in the active panel: the copy, the file written *)
(* whole, every panel on the image, the machine.                            *)
Store(ps, vol) ==
  LET dev == Here.device
  IN Changed(ps, [disk EXCEPT ![dev.image] = [Here.copy EXCEPT ![dev.side] = vol]], {dev.image})

(* Protected files are asked about, and stay when the answer is no.         *)
Delete(sel, touch) ==
  LET vol == Shown(Here)
      goes == {f \in vol.files : f.name \in sel /\ (f.prot => touch)}
  IN /\ AtVolume
     /\ sel \in Selections(Here)
     /\ vol.dir
     /\ Store([panels EXCEPT ![active].marks = {}], [vol EXCEPT !.files = @ \ goes])
     /\ GivesUp(Here.device, {f.name : f \in {g \in vol.files : g.name \in sel /\ (g.prot => touch)}})
     /\ Change
     /\ UNCHANGED <<slots, active, transfer, mode>>

Rename(n, to, touch) ==
  LET vol == Shown(Here)
  IN /\ AtVolume
     /\ {n} \in Selections(Here) /\ n # to
     /\ \A f \in On(vol, n) : f.prot => touch
     /\ On(vol, to) = {}
     /\ Store(panels, [vol EXCEPT !.files = (@ \ On(vol, n)) \cup {[f EXCEPT !.name = to] : f \in On(vol, n)}])
     /\ Agrees({}, {[from |-> Place3(Here.device, n), to |-> Place3(Here.device, to)]})
     /\ Change
     /\ UNCHANGED <<slots, active, transfer, mode>>

Protect(sel, on) ==
  LET vol == Shown(Here)
  IN /\ AtVolume
     /\ sel \in Selections(Here)
     /\ Store(panels, [vol EXCEPT !.files =
                         {IF f.name \in sel THEN [f EXCEPT !.prot = on] ELSE f : f \in @}])
     /\ GivesUp(Here.device, {})
     /\ Change
     /\ UNCHANGED <<slots, active, transfer, mode>>

(* Squeeze and Set date: the volume written back with the same files.       *)
Rewrite ==
  /\ AtVolume
  /\ Shown(Here).dir
  /\ Store(panels, Shown(Here))
  /\ GivesUp(Here.device, {})
  /\ Change
  /\ UNCHANGED <<slots, active, transfer, mode>>

InitVolume ==
  /\ AtVolume
  /\ Store(panels, [dir |-> TRUE, files |-> {}])
  /\ GivesUp(Here.device, Names)
  /\ Change
  /\ UNCHANGED <<slots, active, transfer, mode>>

(* A host file onto the volume; a name that is taken is asked about.        *)
Import(f) ==
  LET vol == Shown(Here)
      kept == vol.files \ On(vol, f.name)
  IN /\ AtVolume
     /\ vol.dir
     /\ Cardinality(kept) < Room
     /\ Store(panels, [vol EXCEPT !.files = kept \cup {f}])
     /\ GivesUp(Here.device, {f.name})
     /\ Change
     /\ UNCHANGED <<slots, active, transfer, mode>>

-----------------------------------------------------------------------------
(* Copy and move: file by file, a question at each that exists.             *)

(* One file of the queue.  w is the transfer t with the image files and the *)
(* two copies as they are by now; asks stops it.                            *)
Target(t) == IF t.own = NoImage THEN There.copy ELSE t.own

(* moveFiles / copyFiles of one file: the target's copy written back, then  *)
(* for a move the source's.                                                 *)
Carried(w) ==
  LET t == w.t
      from == Here.device
      to == t.device
      src == On(w.from[from.side], t.queue[t.at])
      there == On(w.to[to.side], t.queue[t.at])
      mayTouch == t.touch \/ there # {}
      kept == w.to[to.side].files \ there
      goes == /\ src # {}
              /\ t.move => \A f \in src : f.prot => mayTouch
              /\ w.to[to.side].dir /\ Cardinality(kept) < Room
      newTo == [w.to EXCEPT ![to.side].files = kept \cup src]
      newFrom == [w.from EXCEPT ![from.side].files = @ \ src]
      copied == [w EXCEPT !.to = newTo, !.disk[to.image] = newTo]
      moved == [copied EXCEPT !.from = newFrom, !.disk[from.image] = newFrom]
  IN [IF ~goes THEN w ELSE IF t.move THEN moved ELSE copied
        EXCEPT !.t.at = @ + 1, !.t.once = FALSE]

Step_KeepsAnswer(w) ==                                                                \* mutant
  LET t == w.t
      taken == On(w.to[t.device.side], t.queue[t.at]) # {} /\ ~t.all /\ ~t.once
  IN CASE taken /\ t.none  -> [w EXCEPT !.t.at = @ + 1]
       [] taken /\ ~t.none -> [w EXCEPT !.asks = TRUE]
       [] OTHER            -> [Carried(w) EXCEPT !.t.once = t.once]
Step(w) ==
  LET t == w.t
      taken == On(w.to[t.device.side], t.queue[t.at]) # {} /\ ~t.all /\ ~t.once
  IN CASE taken /\ t.none  -> [w EXCEPT !.t.at = @ + 1]
       [] taken /\ ~t.none -> [w EXCEPT !.asks = TRUE]
       [] OTHER            -> Carried(w)

(* continueTransfer: to the next question, or to the end and finishTransfer. *)
RunStart(t) == [t |-> t, disk |-> disk, from |-> Here.copy, to |-> Target(t), asks |-> FALSE]
Further(w) == IF w.asks \/ w.t.at > Len(w.t.queue) THEN w ELSE Step(w)
Run(t) ==
  LET w[k \in 0..Len(t.queue)] == IF k = 0 THEN RunStart(t) ELSE Further(w[k - 1])
  IN w[Len(t.queue)]

(* The panels with the copies the transfer left in them.                    *)
WithCopies(w) ==
  [i \in 1..2 |-> IF i = active THEN [panels[i] EXCEPT !.copy = w.from]
                  ELSE IF w.t.own = NoImage THEN [panels[i] EXCEPT !.copy = w.to] ELSE panels[i]]

Asked(w) ==
  /\ w.asks
  /\ transfer' = [w.t EXCEPT !.own = IF @ = NoImage THEN @ ELSE w.to]
  /\ panels' = WithCopies(w)
  /\ disk' = w.disk
  /\ UNCHANGED hdMem

Finished(w) ==
  /\ ~w.asks
  /\ transfer' = NoTransfer
  /\ Changed([WithCopies(w) EXCEPT ![active].marks = {}], w.disk, {Here.device.image, w.t.device.image})

(* F5 and F6: to another device, in the other panel or opened for this.     *)
StartTransfer(move, sel, dev, touch) ==
  LET queue == SetToSeq(sel)
      inOther == HasLocation(There) /\ There.device.name = dev.name
      t == [move |-> move, queue |-> queue, at |-> 1, device |-> dev,
            own |-> IF inOther THEN NoImage ELSE disk[dev.image],
            touch |-> touch, all |-> FALSE, none |-> FALSE, once |-> FALSE]
  IN /\ AtVolume
     /\ sel \in Selections(Here)
     /\ dev \in Devices(slots)
     /\ dev.name # Here.device.name
     /\ SameImage \/ dev.image # Here.device.image
     /\ touch => move /\ \E f \in Shown(Here).files : f.name \in sel /\ f.prot
     /\ Asked(Run(t)) \/ Finished(Run(t))
     /\ Agrees({}, IF move THEN {[from |-> Place3(Here.device, n), to |-> Place3(dev, n)] : n \in sel} ELSE {})
     /\ Change
     /\ UNCHANGED <<slots, active, mode>>

(* "Overwrite this file?"                                                   *)
Answer(c) ==
  LET t == transfer
      at == CASE c = "no" -> t.at + 1 [] c = "abort" -> Len(t.queue) + 1 [] OTHER -> t.at
      run == Run([t EXCEPT !.at = at, !.once = c = "yes", !.all = c = "all", !.none = c = "none"])
      given == CASE c = "yes" -> {t.queue[t.at]}
                 [] c = "all" -> {t.queue[i] : i \in t.at..Len(t.queue)}
                 [] OTHER     -> {}
  IN /\ mode = "up"
     /\ t # NoTransfer
     /\ Asked(run) \/ Finished(run)
     /\ agreed' = [agreed EXCEPT !.given = {Place3(t.device, n) : n \in given}]
     /\ UNCHANGED <<slots, active, mode, changes>>

-----------------------------------------------------------------------------
(* Disks in and out.                                                        *)

(* The machine follows the slots (applyMounts).                             *)
HdFollows(sl) ==
  hdMem' = IF sl.hd = hdMem.image THEN hdMem
           ELSE IF sl.hd = NoImage THEN NoHd ELSE [image |-> sl.hd, copy |-> disk[sl.hd]]

MountsChanged(sl, ps) ==
  /\ slots' = sl
  /\ panels' = ps
  /\ HdFollows(sl)
  /\ GivesUp(Here, {})
  /\ Change
  /\ UNCHANGED <<disk, transfer, mode>>

(* doMount, and the first of the image's devices in the panel that listed   *)
(* it.  An image with no directory in it takes one more yes.                *)
Mount(p, sl, image) ==
  LET first == CHOOSE i \in DOMAIN DeviceSeq(sl) :
                 /\ DeviceSeq(sl)[i].image = image
                 /\ \A j \in 1..i - 1 : DeviceSeq(sl)[j].image # image
  IN /\ Ready
     /\ active' = p
     /\ MountsChanged(sl, [Refreshed(panels, sl, disk) EXCEPT ![p] = Opened(DeviceSeq(sl)[first], disk)])

MountTwoSided(p, d, image) == Mount(p, [slots EXCEPT ![d] = [EmptyDrive EXCEPT !.ds = image]], image)
MountOneSided(p, d, s, image) == Mount(p, [slots EXCEPT ![d] = [@ EXCEPT !.ds = NoImage, !.side[s] = image]], image)
MountHd(p, image) == Mount(p, [slots EXCEPT !.hd = image], image)

Unmount(p, slot) ==
  LET sl == [slots EXCEPT ![slot] = IF slot = "hd" THEN NoImage ELSE EmptyDrive]
  IN /\ Ready
     /\ sl # slots
     /\ active' = p
     /\ MountsChanged(sl, Refreshed(panels, sl, disk))

ShowDevice(p, dev) ==
  /\ Ready
  /\ dev \in Devices(slots)
  /\ active' = p
  /\ panels' = [panels EXCEPT ![p] = Opened(dev, disk)]
  /\ GivesUp(Here, {})
  /\ UNCHANGED <<disk, slots, transfer, hdMem, mode, changes>>

(* Ctrl+\: the commander made, or its panels read again.                    *)
Enter ==
  LET devs == DeviceSeq(slots)
  IN /\ mode # "up"
     /\ mode' = "up"
     /\ IF mode = "down" THEN panels' = Refreshed(panels, slots, disk)
        ELSE panels' = [i \in 1..2 |-> IF i <= Len(devs) THEN Opened(devs[i], disk) ELSE NoPanel]
     /\ GivesUp(Here, {})
     /\ UNCHANGED <<disk, slots, active, transfer, hdMem, changes>>

Leave ==
  /\ Ready
  /\ mode' = "down"
  /\ GivesUp(Here, {})
  /\ UNCHANGED <<disk, slots, panels, active, transfer, hdMem, changes>>

(* The machine writes a file or deletes one: a floppy's image directly, the *)
(* HD's through its copy.  With the panels up it may do so as well; that is *)
(* not modelled (a panel's next change would undo it).                      *)
GuestWrites(dev, f, puts) ==
  LET now == IF dev.image = hdMem.image THEN hdMem.copy ELSE disk[dev.image]
      others == now[dev.side].files \ On(now[dev.side], f.name)
      copy == [now EXCEPT ![dev.side].files = IF puts THEN others \cup {f} ELSE others]
  IN /\ mode # "up"
     /\ dev \in Devices(slots)
     /\ now[dev.side].dir
     /\ puts => Cardinality(others) < Room
     /\ disk' = [disk EXCEPT ![dev.image] = copy]
     /\ hdMem' = IF dev.image = hdMem.image THEN [hdMem EXCEPT !.copy = copy] ELSE hdMem
     /\ GivesUp(dev, {f.name})
     /\ Change
     /\ UNCHANGED <<slots, panels, active, transfer, mode>>

Init ==
  /\ disk \in Disks
  /\ slots \in Slots0
  /\ panels = <<NoPanel, NoPanel>>
  /\ active = 1
  /\ transfer = NoTransfer
  /\ hdMem = IF slots.hd = NoImage THEN NoHd ELSE [image |-> slots.hd, copy |-> disk[slots.hd]]
  /\ mode = "new"
  /\ agreed = [given |-> {}, carried |-> {}]
  /\ changes = 0

Next ==
  \/ SwitchPanel
  \/ SwapPanels
  \/ \E ns \in SUBSET Names : ToggleMarks(ns)
  \/ \E sel \in SUBSET Names, touch \in BOOLEAN : Delete(sel, touch)
  \/ \E n, to \in Names, touch \in BOOLEAN : Rename(n, to, touch)
  \/ \E sel \in SUBSET Names, on \in BOOLEAN : Protect(sel, on)
  \/ Rewrite
  \/ InitVolume
  \/ \E f \in HostFiles : Import(f)
  \/ \E move \in BOOLEAN, sel \in SUBSET Names, dev \in Devices(slots), touch \in BOOLEAN :
       StartTransfer(move, sel, dev, touch)
  \/ \E c \in {"yes", "no", "all", "none", "abort"} : Answer(c)
  \/ \E p \in 1..2, d \in Drives, image \in TwoSided : MountTwoSided(p, d, image)
  \/ \E p \in 1..2, d \in Drives, s \in {0, 1}, image \in OneSided : MountOneSided(p, d, s, image)
  \/ \E p \in 1..2, image \in Hds : MountHd(p, image)
  \/ \E p \in 1..2, slot \in Drives \cup {"hd"} : Unmount(p, slot)
  \/ \E p \in 1..2, dev \in Devices(slots) : ShowDevice(p, dev)
  \/ Enter
  \/ Leave
  \/ \E dev \in Devices(slots), f \in HostFiles, puts \in BOOLEAN : GuestWrites(dev, f, puts)

Spec == Init /\ [][Next]_vars

-----------------------------------------------------------------------------
(* Properties.                                                              *)

(* The copy a change would write back is the image file as it is, so that   *)
(* writing it whole undoes nothing; the marks are on files that are there   *)
(* (Panel::reload).  In the middle of a transfer this is so for its two     *)
(* ends.                                                                    *)
PanelsFresh ==
  mode = "up" =>
    /\ \A i \in 1..2 : HasLocation(panels[i]) /\ (transfer = NoTransfer \/ i = active) =>
         /\ panels[i].copy = disk[panels[i].device.image]
         /\ panels[i].marks \subseteq NamesOn(Shown(panels[i])) \/ transfer # NoTransfer
    /\ transfer # NoTransfer => Target(transfer) = disk[transfer.device.image]

(* No panel shows a device that is not mounted, or another image than the   *)
(* one mounted there (refreshPanels).                                       *)
PanelsMounted ==
  \A i \in 1..2 : HasLocation(panels[i]) => panels[i].device \in Devices(slots)

(* The machine's copy of the HD is the image file's, whoever wrote last:    *)
(* "the HD keeps the image in memory: read it again" (CommanderHost).       *)
HdFresh ==
  transfer = NoTransfer =>
    /\ hdMem.image = slots.hd
    /\ hdMem # NoHd => hdMem.copy = disk[hdMem.image]

(* What was on a volume is on it after any step, unless the user's last     *)
(* command let it go, or has it elsewhere: a moved file is on the target by *)
(* the time it leaves the source, a file is written over only when the user *)
(* said so of it ("Copy, then delete the originals that copied", Ops.hpp;   *)
(* "mc's 'File exists' question per file").                                 *)
Holds(dk, place, data) == \E f \in On(dk[place[1]][place[2]], place[3]) : f.data = data
NothingLost ==
  [][\A i \in Images : disk'[i] # disk[i] =>
       \A s \in Sides(i) : \A f \in disk[i][s].files :
         \/ Holds(disk', <<i, s, f.name>>, f.data)
         \/ <<i, s, f.name>> \in agreed'.given
         \/ \E c \in agreed'.carried : c.from = <<i, s, f.name>> /\ Holds(disk', c.to, f.data)]_vars

=============================================================================
