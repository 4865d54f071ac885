------------------------------ MODULE FolderVolume ------------------------------
(***************************************************************************)
(* A host folder as an RT-11 volume (disk/src/FolderVolume.cpp, Rtfs.cpp):  *)
(* a directory made up from the folder and a list of lines, blocks that are *)
(* host files', and a guest whose directory writes are compared with the    *)
(* list and carried out on the folder.  The host changes the folder and the *)
(* saved list at any time; the volume looks at both when the guest reads    *)
(* its directory and when it has written one.                               *)
(*                                                                          *)
(* Host files are whole blocks.  The boot and home blocks, dates, the job   *)
(* words and the order of system files in an automatic list are left out;   *)
(* the directory is one segment, written and read in one transfer.          *)
(***************************************************************************)
EXTENDS Integers, Sequences, SequencesExt, FiniteSets

CONSTANTS
  Names,      \* RT-11 names
  Hosts,      \* host file names
  HostOrder,  \* the order the host lists a folder in
  Mangled,    \* for a host name, the names mangleRt11Name tries in turn
  Unmangled,  \* for a name, the host names materializeHostName tries in turn
  Block,      \* what a block may hold
  Zero,       \* a block of zeros
  Absent,     \* no host file; no block staged
  Room,       \* data blocks of the volume, numbered from 1
  Modes,      \* how the volume is opened: "descriptor", "memory" (no list
              \* given), "listed" (in memory, the list given)
  Listed,     \* the host files a given list names
  HostFiles,  \* bound: what the host puts into a file, by its name
  Enters,     \* bound: the names the guest gives its files
  Sizes,      \* bound: the lengths the guest enters files with
  Sent,       \* bound: what the guest writes into a file it makes
  Patches,    \* bound: what it writes over a block of a closed one
  Folders,    \* bound: what the folder holds at first
  MaxHost,    \* bound: changes of the folder by the host
  MaxText,    \* bound: changes of the saved list by the user
  MaxEdits    \* bound: changes of the directory by the guest

ASSUME FolderAssumption ==
  /\ Zero \in Block /\ Absent \notin Block
  /\ Room \in Nat \ {0}
  /\ Modes \subseteq {"descriptor", "memory", "listed"}
  /\ Listed \subseteq Hosts /\ HostOrder \in Seq(Hosts)
  /\ \A h \in Hosts : Mangled[h] \in Seq(Names)
  /\ \A n \in Names : Unmangled[n] \in Seq(Hosts)
  /\ \A h \in Hosts : HostFiles[h] \subseteq Seq(Block) \cup {Absent}
  /\ Folders \subseteq [Hosts -> Seq(Block) \cup {Absent}]
  /\ Sizes \subseteq Nat

VARIABLES
  mode,     \* descriptorPath_ and listedOnly_
  folder,   \* the host files, as blocks
  files,    \* desc_.files: lines of a name, a host file, protected, deleted
  text,     \* the saved descriptor, or Garbage
  edited,   \* its stamp is not the one noted
  slots,    \* slots_, by host name: first block (0: none), blocks, tentative
  scratch,  \* scratch_
  guest,    \* the guest's copy of the directory
  open,     \* the file the guest is writing
  closed,   \* history: the files the guest wrote and nobody else touched since
  touched,  \* history: the host files changed since the guest read
  count     \* changes so far, of each kind bounded

vars == <<mode, folder, files, text, edited, slots, scratch, guest, open, closed, touched, count>>
volume == <<files, text, edited, slots>>

NoSlot == [start |-> 0, blocks |-> 0, tent |-> FALSE]
Garbage == <<[name |-> "?", host |-> "?", prot |-> FALSE, deleted |-> FALSE]>>
NotRead == [read |-> FALSE, dirty |-> FALSE, entries |-> <<>>]
NoOpen == [name |-> "?", start |-> 0, len |-> 0, sent |-> <<>>, spoilt |-> FALSE]

Live(fs) == {i \in DOMAIN fs : ~fs[i].deleted}
HostsOf(fs) == {fs[i].host : i \in DOMAIN fs}
NamesOf(fs) == {fs[i].name : i \in DOMAIN fs}
Kept(seq, S) ==
  LET kept[k \in 0..Len(seq)] ==
        IF k = 0 THEN <<>> ELSE IF seq[k] \in S THEN Append(kept[k - 1], seq[k]) ELSE kept[k - 1]
  IN kept[Len(seq)]
FirstFree(seq, taken) == seq[SelectInSeq(seq, LAMBDA x : x \notin taken)]
Blocks(content) == IF content = Absent THEN 0 ELSE Len(content)

-----------------------------------------------------------------------------
(* Where files lie.                                                         *)

InPlace(sl) == {h \in Hosts : sl[h].start > 0}
End(slot) == slot.start + slot.blocks

(* The places n blocks may begin: behind the system area or behind a file.  *)
Holes(sl, n) ==
  {p \in {1} \cup {End(sl[h]) : h \in InPlace(sl)} :
     /\ p + n <= Room + 1
     /\ \A h \in InPlace(sl) : p + n <= sl[h].start \/ End(sl[h]) <= p}

(* A file not live has no place; a closed one is as long as its host file.  *)
Sized(fs, sl, fo) ==
  [h \in Hosts |-> IF ~\E i \in Live(fs) : fs[i].host = h THEN NoSlot
                   ELSE IF sl[h].tent THEN sl[h] ELSE [sl[h] EXCEPT !.blocks = Blocks(fo[h])]]

Before(fs, sl, i, j) ==
  LET a == sl[fs[i].host].start
      b == sl[fs[j].host].start
  IN a < b \/ (a = b /\ i < j)

(* A file grown into the next one, or past the end, loses its place.        *)
Evicted_SlackOne(fs, sl) ==                                                            \* mutant
  LET placed == {i \in Live(fs) : sl[fs[i].host].start > 0}
      over(i) == LET end == End(sl[fs[i].host]) - 1
                 IN end > Room + 1 \/ \E j \in placed : Before(fs, sl, i, j) /\ end > sl[fs[j].host].start
  IN [h \in Hosts |-> IF \E i \in placed : fs[i].host = h /\ over(i) THEN [sl[h] EXCEPT !.start = 0] ELSE sl[h]]
Evicted(fs, sl) ==
  LET placed == {i \in Live(fs) : sl[fs[i].host].start > 0}
      over(i) == LET end == End(sl[fs[i].host])
                 IN end > Room + 1 \/ \E j \in placed : Before(fs, sl, i, j) /\ end > sl[fs[j].host].start
  IN [h \in Hosts |-> IF \E i \in placed : fs[i].host = h /\ over(i) THEN [sl[h] EXCEPT !.start = 0] ELSE sl[h]]

(* layOut: then whoever has no place, in the order of the lines, into the   *)
(* first hole that takes it.                                                *)
Placed(sl, f) ==
  LET holes == Holes(sl, sl[f.host].blocks)
  IN IF f.deleted \/ sl[f.host].start > 0 \/ holes = {} THEN sl
     ELSE [sl EXCEPT ![f.host].start = CHOOSE p \in holes : \A q \in holes : p <= q]
LayOut_Afresh(fs, sl, fo) ==                                                           \* mutant
  LET sized == Sized(fs, [h \in Hosts |-> IF sl[h].tent THEN sl[h] ELSE NoSlot], fo)
      put[k \in 0..Len(fs)] == IF k = 0 THEN Evicted(fs, sized) ELSE Placed(put[k - 1], fs[k])
  IN put[Len(fs)]
LayOut(fs, sl, fo) ==
  LET put[k \in 0..Len(fs)] ==
        IF k = 0 THEN Evicted(fs, Sized(fs, sl, fo)) ELSE Placed(put[k - 1], fs[k])
  IN put[Len(fs)]

-----------------------------------------------------------------------------
(* rescan: the folder into the list, the list onto the volume.              *)

(* parseRtfs refuses a list that names a name twice, deleted lines too.     *)
Parses(t) == t # Garbage /\ \A i, j \in DOMAIN t : t[i].name = t[j].name => i = j

NewLine(h, taken) == [name |-> FirstFree(Mangled[h], taken), host |-> h, prot |-> FALSE, deleted |-> FALSE]

(* autoFillRtfs: what does not fit is skipped, and the next one tried.      *)
Taken(acc, h, fo) ==
  LET used == acc.used + Blocks(fo[h])
  IN IF used > Room THEN acc
     ELSE [used |-> used, lines |-> Append(acc.lines, NewLine(h, NamesOf(acc.lines)))]
AutoFill(listing, fo) ==
  LET taken[k \in 0..Len(listing)] ==
        IF k = 0 THEN [used |-> 0, lines |-> <<>>] ELSE Taken(taken[k - 1], listing[k], fo)
  IN taken[Len(listing)].lines

Listing(fs, h) == IF h \in HostsOf(fs) THEN fs ELSE Append(fs, NewLine(h, NamesOf(fs)))
Appended(fs, listing) ==
  LET lines[k \in 0..Len(listing)] == IF k = 0 THEN fs ELSE Listing(lines[k - 1], listing[k])
  IN lines[Len(listing)]

(* v: the volume's files, text, edited stamp and slots.                     *)
Rescan(v, fo) ==
  LET fs == IF v.edited /\ Parses(v.text) THEN v.text ELSE v.files
      listing == Kept(HostOrder, {h \in Hosts : fo[h] # Absent /\ (mode = "listed" => h \in HostsOf(fs))})
      there == Kept(fs, {f \in ToSet(fs) : f.host \in ToSet(listing)})
      new == IF fs = <<>> THEN AutoFill(listing, fo) ELSE Appended(there, listing)
  IN [files |-> new,
      text |-> IF mode = "descriptor" /\ new # fs THEN new ELSE v.text,
      edited |-> FALSE,
      slots |-> LayOut(new, v.slots, fo)]

Becomes(v) == /\ files' = v.files /\ text' = v.text /\ edited' = v.edited /\ slots' = v.slots
Volume == [files |-> files, text |-> text, edited |-> edited, slots |-> slots]

(* The directory as generateDirectory renders it and the guest reads it:    *)
(* an entry begins where the one before it ends, or behind a hole.          *)
Rendered(acc, fs, sl) ==
  LET i == CHOOSE x \in acc.left : \A j \in acc.left \ {x} : Before(fs, sl, x, j)
      slot == sl[fs[i].host]
      es == acc.entries
      end == IF es = <<>> THEN 1 ELSE es[Len(es)].start + es[Len(es)].len
      entry == [name |-> fs[i].name, len |-> slot.blocks, tent |-> slot.tent,
                prot |-> fs[i].prot /\ ~slot.tent, start |-> IF slot.start > end THEN slot.start ELSE end]
  IN IF acc.left = {} THEN acc ELSE [left |-> acc.left \ {i}, entries |-> Append(es, entry)]
Directory(fs, sl) ==
  LET rendered[k \in 0..Len(fs)] ==
        IF k = 0 THEN [left |-> {i \in Live(fs) : sl[fs[i].host].start > 0}, entries |-> <<>>]
        ELSE Rendered(rendered[k - 1], fs, sl)
  IN rendered[Len(fs)].entries

-----------------------------------------------------------------------------
(* reparseDirectory: the guest's entries against the lines.                 *)

(* Entry by line in three rounds: the name at its place, the name moved,    *)
(* the place under another name.  A set of <<entry, line>>.                 *)
Joined(made, es, k) ==
  LET round == 1 + ((k - 1) \div Len(es))
      e == 1 + ((k - 1) % Len(es))
      named(f) == f.name = es[e].name
      there(f) == slots[f.host].start = es[e].start
      fit == {i \in Live(files) \ {p[2] : p \in made} :
                /\ round < 3 => named(files[i])
                /\ round # 2 => there(files[i])}
  IN IF fit = {} \/ \E p \in made : p[1] = e THEN made
     ELSE made \cup {<<e, CHOOSE i \in fit : \A j \in fit : i <= j>>}
Matched(es) ==
  LET joined[k \in 0..3 * Len(es)] == IF k = 0 THEN {} ELSE Joined(joined[k - 1], es, k)
  IN joined[3 * Len(es)]

(* What a host file becomes when its entry is adopted: a file closed has    *)
(* the length closed at, another permanent one is cut to its entry.         *)
Resized(content, n) == [k \in 1..n |-> IF k <= Len(content) THEN content[k] ELSE Zero]
Fitted_Always(content, slot, e) ==                                                     \* mutant
  IF e.tent \/ content = Absent THEN content ELSE Resized(content, slot.blocks)
Fitted(content, slot, e) ==
  IF e.tent \/ content = Absent THEN content
  ELSE IF slot.tent \/ Len(content) > e.len THEN Resized(content, e.len) ELSE content

SlotOf(e) == [start |-> e.start, blocks |-> e.len, tent |-> e.tent]

(* w: the lines, folder, slots and scratch as they are by now.              *)
Adopted(w, es, matched) ==
  LET by(h) == {p \in matched : w.files[p[2]].host = h}
      entry(h) == es[(CHOOSE p \in by(h) : TRUE)[1]]
      line(i) == {p \in matched : p[2] = i}
  IN [w EXCEPT
        !.folder = [h \in Hosts |-> IF by(h) = {} THEN @[h] ELSE Fitted(@[h], w.slots[h], entry(h))],
        !.slots = [h \in Hosts |-> IF by(h) = {} THEN @[h] ELSE SlotOf(entry(h))],
        !.files = [i \in DOMAIN @ |-> IF line(i) = {} THEN @[i]
                     ELSE LET e == es[(CHOOSE p \in line(i) : TRUE)[1]]
                          IN [@[i] EXCEPT !.name = e.name, !.prot = e.prot]]]

(* createGuestFile: a closed file has its whole length, one being written   *)
(* what was staged so far.                                                  *)
Created(w, e) ==
  LET taken == {h \in Hosts : w.folder[h] # Absent /\ (mode = "listed" => h \in HostsOf(w.files))}
      host == FirstFree(Unmangled[e.name], taken)
      staged == {k \in 1..e.len : w.scratch[e.start + k - 1] # Absent}
      size == IF ~e.tent THEN e.len ELSE IF staged = {} THEN 0 ELSE CHOOSE k \in staged : \A j \in staged : j <= k
  IN [w EXCEPT
        !.created = Append(@, [name |-> e.name, host |-> host, prot |-> e.prot, deleted |-> FALSE]),
        !.folder[host] = [k \in 1..size |-> IF k \in staged THEN w.scratch[e.start + k - 1] ELSE Zero],
        !.slots[host] = SlotOf(e),
        !.scratch = [b \in 1..Room |-> IF b \in e.start..(e.start + size - 1) THEN Absent ELSE @[b]]]

(* dropGoneFiles in memory: the host file is removed, and a closed file of  *)
(* the same name takes its host name over.                                  *)
Dropped(w, old) ==
  LET takes(f) == f.name = old.name /\ f.host # old.host /\ ~f.deleted /\ ~w.slots[f.host].tent
                  /\ w.folder[f.host] # Absent
      all == w.files \o w.created
      heirs == {i \in DOMAIN all : takes(all[i])}
      heir == CHOOSE i \in heirs : \A j \in heirs : i <= j
      from == all[heir].host
      renamed(fs, off) == [i \in DOMAIN fs |-> IF i + off = heir THEN [fs[i] EXCEPT !.host = old.host] ELSE fs[i]]
  IN IF heirs = {} THEN [w EXCEPT !.folder[old.host] = Absent, !.slots[old.host] = NoSlot]
     ELSE [w EXCEPT !.folder = [@ EXCEPT ![old.host] = w.folder[from], ![from] = Absent],
                    !.slots = [@ EXCEPT ![old.host] = w.slots[from], ![from] = NoSlot],
                    !.files = renamed(@, 0), !.created = renamed(@, Len(w.files))]

Gone_Removed(w, lines) ==                                                              \* mutant
  [w EXCEPT !.files = Kept(@, ToSet(@) \ lines),
            !.folder = [h \in Hosts |-> IF h \in {f.host : f \in lines} THEN Absent ELSE @[h]],
            !.slots = [h \in Hosts |-> IF h \in {f.host : f \in lines} THEN NoSlot ELSE @[h]]]
Gone(w, lines) ==
  LET old == Kept(w.files, lines)
      dropped[k \in 0..Len(old)] ==
        IF k = 0 THEN [w EXCEPT !.files = Kept(@, ToSet(@) \ lines)] ELSE Dropped(dropped[k - 1], old[k])
  IN IF mode # "descriptor" THEN dropped[Len(old)]
     ELSE [w EXCEPT !.files =
             [i \in DOMAIN @ |-> IF @[i] \in lines THEN [@[i] EXCEPT !.deleted = TRUE] ELSE @[i]]]

(* The folder, lines, slots and scratch after the entries es landed, and    *)
(* before the lines are gone whose entries did not.                         *)
Landed(es, matched) ==
  LET w == [files |-> files, created |-> <<>>, folder |-> folder, slots |-> slots, scratch |-> scratch]
      new == Kept(es, ToSet(es) \ {es[p[1]] : p \in matched})
      made[k \in 0..Len(new)] == IF k = 0 THEN Adopted(w, es, matched) ELSE Created(made[k - 1], new[k])
  IN made[Len(new)]

-----------------------------------------------------------------------------
(* The guest.  Its monitor reads the directory, changes its copy and writes *)
(* it, before anybody reads the directory again.                            *)

Counted(kind, bound) == count[kind] < bound /\ count' = [count EXCEPT ![kind] = @ + 1]

ReadDirectory ==
  /\ ~guest.dirty
  /\ LET v == Rescan(Volume, folder)
     IN /\ Becomes(v)
        /\ guest' = [read |-> TRUE, dirty |-> FALSE, entries |-> Directory(v.files, v.slots)]
  /\ touched' = {}
  /\ UNCHANGED <<mode, folder, scratch, open, closed, count>>

Edited(es) == guest' = [guest EXCEPT !.dirty = TRUE, !.entries = es]
Editing == guest.read /\ ~guest.dirty /\ Counted("edits", MaxEdits)
Closed(n) == {k \in DOMAIN guest.entries : guest.entries[k].name = n /\ ~guest.entries[k].tent}
Without(es, n) == Kept(es, {e \in ToSet(es) : e.name # n \/ e.tent})
Others(n) == {c \in closed : c.name # n}

(* A name the volume has a file for and no place: the guest does not see it *)
(* and may use it again, and the two are taken for one.                     *)
Hidden(n) == \E i \in Live(files) : files[i].name = n /\ slots[files[i].host].start = 0

(* .ENTER: a tentative entry in an unused area.                             *)
Enter(n, len) ==
  LET es == guest.entries
      ends == {1} \cup {es[k].start + es[k].len : k \in DOMAIN es}
      free(p) == p + len <= Room + 1 /\ \A k \in DOMAIN es : p + len <= es[k].start \/ es[k].start + es[k].len <= p
  IN /\ Editing
     /\ open = NoOpen
     /\ \E p \in {q \in ends : free(q)} :
          /\ Edited(Kept(es, {x \in ToSet(es) : x.start + x.len <= p})
                     \o <<[name |-> n, start |-> p, len |-> len, tent |-> TRUE, prot |-> FALSE]>>
                     \o Kept(es, {x \in ToSet(es) : x.start + x.len > p}))
          /\ open' = [name |-> n, start |-> p, len |-> len, sent |-> <<>>, spoilt |-> FALSE]
     /\ UNCHANGED <<volume, mode, folder, scratch, closed, touched>>

(* .CLOSE: the entry permanent, as long as what was written; a file of the  *)
(* name that was there is gone.  A name that is new may be entered and      *)
(* closed in one write; of a name that is there the monitor's entry lands   *)
(* first.                                                                   *)
Close ==
  LET mine(e) == e.tent /\ e.name = open.name /\ e.start = open.start
      left == Without(guest.entries, open.name)
  IN /\ guest.read
     /\ open # NoOpen /\ open.sent # <<>>
     /\ \E k \in DOMAIN left : mine(left[k])
     /\ guest.dirty => Closed(open.name) = {} /\ ~\E h \in InPlace(slots) : slots[h].tent
     /\ Edited([k \in DOMAIN left |->
                  IF mine(left[k]) THEN [left[k] EXCEPT !.tent = FALSE, !.len = Len(open.sent)] ELSE left[k]])
     /\ closed' = Others(open.name) \cup
          (IF open.spoilt \/ Hidden(open.name) THEN {} ELSE {[name |-> open.name, start |-> open.start, data |-> open.sent]})
     /\ open' = NoOpen
     /\ UNCHANGED <<volume, mode, folder, scratch, touched, count>>

Delete(n) ==
  /\ Editing
  /\ Closed(n) # {}
  /\ Edited(Without(guest.entries, n))
  /\ closed' = Others(n)
  /\ UNCHANGED <<volume, mode, folder, scratch, open, touched>>

Rename(n, to) ==
  /\ Editing
  /\ Closed(n) # {} /\ Closed(to) = {}
  /\ Edited([k \in DOMAIN guest.entries |->
               IF k \in Closed(n) THEN [guest.entries[k] EXCEPT !.name = to] ELSE guest.entries[k]])
  /\ closed' = {IF c.name = n THEN [c EXCEPT !.name = to] ELSE c :
                  c \in {d \in closed : d.name = n => ~Hidden(to)}}
  /\ UNCHANGED <<volume, mode, folder, scratch, open, touched>>

Protect(n) ==
  /\ Editing
  /\ Closed(n) # {}
  /\ Edited([k \in DOMAIN guest.entries |->
               IF k \in Closed(n) THEN [guest.entries[k] EXCEPT !.prot = ~@] ELSE guest.entries[k]])
  /\ UNCHANGED <<volume, mode, folder, scratch, open, closed, touched>>

(* writeRange on the directory: compared, saved over whatever the user made *)
(* of the list, and read again with the folder.  Bound: there are host      *)
(* names enough for the guest's new files.                                  *)
WriteDirectory ==
  LET matched == Matched(guest.entries)
      landed == Landed(guest.entries, matched)
      done == Gone(landed, {files[i] : i \in Live(files) \ {p[2] : p \in matched}})
      lines == done.files \o done.created
      saved == [files |-> lines, text |-> IF mode = "descriptor" THEN lines ELSE text,
                edited |-> FALSE, slots |-> done.slots]
  IN /\ guest.dirty
     /\ HostsOf(landed.created) \subseteq Hosts
     /\ folder' = done.folder
     /\ scratch' = done.scratch
     /\ Becomes(Rescan(saved, done.folder))
     /\ guest' = NotRead
     /\ UNCHANGED <<mode, open, closed, touched, count>>

(* writeRange on a data block: its host file, or the scratch.               *)
Put(content, k, v) ==
  [j \in 1..(IF k > Len(content) THEN k ELSE Len(content)) |->
     IF j = k THEN v ELSE IF j <= Len(content) THEN content[j] ELSE Zero]
WriteBlock(b, v) ==
  LET at == {h \in InPlace(slots) : b \in slots[h].start..(End(slots[h]) - 1)}
      h == CHOOSE x \in at : TRUE
  IN IF at = {} THEN scratch' = [scratch EXCEPT ![b] = v] /\ UNCHANGED folder
     ELSE /\ folder' = [folder EXCEPT ![h] = IF @ = Absent THEN @ ELSE Put(@, b - slots[h].start + 1, v)]
          /\ UNCHANGED scratch

(* The next block of the file being written, before or after its entry is   *)
(* on the volume; a block of a closed file in place.                        *)
WriteNext(v) ==
  /\ open # NoOpen /\ Len(open.sent) < open.len
  /\ WriteBlock(open.start + Len(open.sent), v)
  /\ open' = [open EXCEPT !.sent = Append(@, v)]
  /\ UNCHANGED <<volume, mode, guest, closed, touched, count>>

WriteInPlace(c, k, v) ==
  /\ ~guest.dirty
  /\ c.data[k] # v
  /\ Counted("edits", MaxEdits)
  /\ WriteBlock(c.start + k - 1, v)
  /\ closed' = (closed \ {c}) \cup {[c EXCEPT !.data[k] = v]}
  /\ UNCHANGED <<volume, mode, guest, open, touched>>

-----------------------------------------------------------------------------
(* The host, the user and the mounting program.                             *)

(* Fitting is the user's responsibility (docs/folder-device.md).            *)
Fits(fo) ==
  LET all == FoldSet(LAMBDA h, n : n + Blocks(fo[h]), 0, Hosts)
  IN all <= Room

(* Bound: a file goes only while the guest has no directory in hand.  (A    *)
(* file gone by the time the guest's new entry of its name lands leaves two *)
(* lines for one host file.)                                                *)
HostChanges(h, content) ==
  /\ content # folder[h]
  /\ content = Absent => ~guest.read
  /\ Counted("host", MaxHost)
  /\ folder' = [folder EXCEPT ![h] = content]
  /\ Fits(folder')
  /\ touched' = touched \cup {h}
  /\ closed' = {c \in closed : slots[h].start # c.start}
  /\ open' = IF open # NoOpen /\ slots[h].start = open.start THEN [open EXCEPT !.spoilt = TRUE] ELSE open
  /\ UNCHANGED <<volume, mode, scratch, guest>>

(* A line taken back or out by hand, or a file the parser refuses.          *)
UserEdits(t) ==
  /\ mode = "descriptor"
  /\ Counted("text", MaxText)
  /\ text' = t
  /\ edited' = TRUE
  /\ closed' = {c \in closed : \E i \in Live(t) : t[i].name = c.name}
  /\ UNCHANGED <<mode, folder, files, slots, scratch, guest, open, touched>>
Flipped(i) == [text EXCEPT ![i].deleted = ~@]

(* admit: at a program's look-up, when no directory is half-way changed.    *)
Admit(n) ==
  LET listing == Kept(HostOrder, {h \in Hosts : folder[h] # Absent /\ Mangled[h][1] = n /\ h \notin HostsOf(files)})
      line == [name |-> n, host |-> listing[1], prot |-> FALSE, deleted |-> FALSE]
      with == Rescan([Volume EXCEPT !.files = Append(@, line)], folder)
      back == Rescan([Volume EXCEPT !.files = SubSeq(with.files, 1, Len(with.files) - 1), !.slots = with.slots], folder)
  IN /\ mode = "listed"
     /\ ~guest.read
     /\ ~\E i \in Live(files) : files[i].name = n
     /\ listing # <<>>
     /\ Becomes(IF with.slots[listing[1]].start > 0 THEN with ELSE back)
     /\ UNCHANGED <<mode, folder, scratch, guest, open, closed, touched, count>>

(* The volume as it is opened: from the saved list, an empty one or a given *)
(* one.                                                                     *)
Given == Appended(<<>>, Kept(HostOrder, {h \in Listed : folder[h] # Absent}))
Opened(fo, t) ==
  Rescan([files |-> CASE mode = "descriptor" -> t [] mode = "listed" -> Given [] OTHER -> <<>>,
          text |-> t, edited |-> FALSE, slots |-> [h \in Hosts |-> NoSlot]], fo)

(* The volume closed - in memory, with the files never closed - and opened  *)
(* again, the guest started afresh.                                         *)
Remount ==
  LET fo == [h \in Hosts |-> IF mode # "descriptor" /\ slots[h].tent THEN Absent ELSE folder[h]]
      v == Opened(fo, text)
      start(n) == {i \in Live(v.files) : v.files[i].name = n}
  IN /\ mode = "descriptor" => Parses(text)
     /\ Counted("edits", MaxEdits)
     /\ folder' = fo
     /\ Becomes(v)
     /\ scratch' = [b \in 1..Room |-> Absent]
     /\ guest' = NotRead
     /\ open' = NoOpen
     /\ closed' = IF mode # "descriptor" \/ guest.dirty THEN {}
                  ELSE {[c EXCEPT !.start = LET is == start(c.name)
                                            IN IF is = {} THEN 0 ELSE v.slots[v.files[CHOOSE i \in is : TRUE].host].start] :
                          c \in closed}
     /\ touched' = {}
     /\ UNCHANGED mode

Init ==
  /\ mode \in Modes
  /\ folder \in Folders
  /\ Fits(folder)
  /\ LET v == Opened(folder, <<>>)
     IN files = v.files /\ text = v.text /\ edited = v.edited /\ slots = v.slots
  /\ scratch = [b \in 1..Room |-> Absent]
  /\ guest = NotRead
  /\ open = NoOpen
  /\ closed = {}
  /\ touched = {}
  /\ count = [host |-> 0, text |-> 0, edits |-> 0]

Next ==
  \/ ReadDirectory
  \/ \E n \in Enters, len \in Sizes : Enter(n, len)
  \/ Close
  \/ \E n \in Names : Delete(n)
  \/ \E n \in Names, to \in Enters : Rename(n, to)
  \/ \E n \in Names : Protect(n)
  \/ WriteDirectory
  \/ \E v \in Sent : WriteNext(v)
  \/ \E c \in closed, v \in Patches : \E k \in DOMAIN c.data : WriteInPlace(c, k, v)
  \/ \E h \in Hosts : \E content \in HostFiles[h] : HostChanges(h, content)
  \/ UserEdits(Garbage)
  \/ \E i \in DOMAIN text : text # Garbage /\ UserEdits(Flipped(i))
  \/ \E n \in Names : Admit(n)
  \/ Remount

Spec == Init /\ [][Next]_vars

-----------------------------------------------------------------------------
(* Properties.                                                              *)

(* No block is two files', and none lies beyond the volume: a write goes to *)
(* one host file (layOut, extentAt).                                        *)
Disjoint ==
  /\ \A h \in InPlace(slots) : End(slots[h]) <= Room + 1
  /\ \A g, h \in InPlace(slots) :
       g # h => (slots[g].start..(End(slots[g]) - 1)) \cap (slots[h].start..(End(slots[h]) - 1)) = {}

(* What the guest wrote into a file and closed is what its blocks read as,  *)
(* under the name and at the place the guest knows, until the host or the   *)
(* guest changes it - staged before its entry landed or written through     *)
(* afterwards, whatever the host did to other files, and after the volume   *)
(* was opened again from the saved list.  (Not of a name Hidden when it was *)
(* given.)                                                                  *)
ReadsBack ==
  ~guest.dirty =>
    \A c \in closed : \E i \in Live(files) :
      LET h == files[i].host
      IN /\ files[i].name = c.name
         /\ slots[h] = [start |-> c.start, blocks |-> Len(c.data), tent |-> FALSE]
         /\ folder[h] = c.data

(* A directory write leaves alone the files whose entries it does not       *)
(* change: their host files, their places.  (A host file grown since the    *)
(* guest read is cut back to its entry; the property is about the others.)  *)
(* With a descriptor a closed file the guest deleted keeps its host file.   *)
Bystanders ==
  [][guest.dirty /\ ~guest'.dirty /\ guest'.entries = <<>> /\ count' = count =>
       \A i \in Live(files) :
         LET h == files[i].host
             same(e) == e.name = files[i].name /\ SlotOf(e) = slots[h]
         IN folder[h] # Absent /\ slots[h].start > 0 /\ (slots[h].tent \/ Len(folder[h]) = slots[h].blocks) =>
              /\ (\E k \in DOMAIN guest.entries : same(guest.entries[k])) =>
                    folder'[h] = folder[h] /\ slots'[h] = slots[h]
              /\ mode = "descriptor" /\ ~slots[h].tent /\ (\A k \in DOMAIN guest.entries : guest.entries[k].start # slots[h].start) =>
                    folder'[h] = folder[h]]_vars

(* "Ends with a rescan, which rebuilds the directory image - now the same   *)
(* layout the guest wrote" (reparseDirectory), unless the host changed the  *)
(* folder since the guest read it.                                          *)
AsWritten ==
  [][guest.dirty /\ ~guest'.dirty /\ count' = count /\ touched = {} =>
       LET shown == Directory(files', slots')
       IN \A k \in DOMAIN guest.entries : guest.entries[k] \in ToSet(shown)]_vars

(* "A file keeps the start block it has" (layOut): nothing but the guest's  *)
(* own directory moves a file that still fits where it is.  (Except a file  *)
(* an empty one shares its start with: when that grows, the code may move   *)
(* either.)                                                                 *)
FilesStay ==
  [][~guest.dirty /\ count'.edits = count.edits =>
       \A h \in Hosts :
         slots[h].start > 0 /\ slots'[h].start # slots[h].start =>
            \/ slots'[h] = NoSlot
            \/ Blocks(folder'[h]) > slots[h].blocks
            \/ \E g \in Hosts \ {h} : slots[g].start = slots[h].start]_vars

(* In memory a file written over stays in the host file it was in, so that  *)
(* the folder ends with the files it began with ("that one takes the host   *)
(* name the old one had").                                                  *)
KeepsHostName ==
  [][guest.dirty /\ ~guest'.dirty /\ count' = count /\ mode # "descriptor" /\ touched = {} =>
       \A i \in Live(files), j \in Live(files') :
         LET was == files[i].host
             is == files'[j].host
         IN files[i].name = files'[j].name /\ slots[was].start > 0 /\ ~slots[was].tent /\ ~slots'[is].tent => was = is]_vars

(* "parse(serialize(d)) reproduces d exactly" (Rtfs.hpp): what the volume   *)
(* saved, with no file of the guest's half made, can be opened again.       *)
Remountable ==
  mode = "descriptor" /\ ~edited /\ open = NoOpen /\ ~guest.dirty => Parses(text)

=============================================================================
