-------------------------------- MODULE Volume --------------------------------
(***************************************************************************)
(* An RT-11 volume as disk/src/Build.cpp changes it and disk/src/           *)
(* Directory.cpp reads it: directory segments chained in the order of the   *)
(* blocks they describe, each entry a file or an unused area, an entry's    *)
(* blocks following those of the entry before it.  One action per call; a   *)
(* call that throws leaves the volume as it was.                            *)
(*                                                                          *)
(* A name is a value, a file's bytes are blocks, the date and the job word  *)
(* of an entry are left out.  What the size of an entry decides - which     *)
(* entries and which end marker fit a segment, for the writers and for the  *)
(* parser - keeps the code's arithmetic.                                    *)
(***************************************************************************)
EXTENDS Integers, Sequences, SequencesExt, FiniteSets

CONSTANTS
  Names,       \* proper 6.3 names
  NoName,      \* " EMPTY.FIL", the name of free space that was no file's
  Block,       \* what a block may hold
  Contents,    \* what files may be put, a set of sequences of blocks
  Total,       \* directory segments INIT reserves, 1..31
  EntrySize,   \* 14 and the extra bytes
  SegBytes,    \* bytes of a segment, 1024
  DataBlocks,  \* blocks after the directory at first
  Linear,      \* an HD or logical-disk container, which can grow
  MaxBlocks,   \* bound: blocks after growth
  Growths,     \* bound: how many blocks growLinear is asked for
  Fences,      \* bound: blocks endFreeSpaceAt may be asked for
  PutAs,       \* bound: whether files are put protected, a set of BOOLEANs
  Zero,        \* what the blocks of a new container hold
  Everywhere   \* bound: whether undelete is asked of a volume of several
               \* segments, whose names it looks for in the first alone

ASSUME LayoutAssumption ==
  /\ Total \in 1..31
  /\ EntrySize \in Nat /\ EntrySize >= 14      \* seven words and any extra
  /\ SegBytes \in Nat /\ DataBlocks \in Nat
  /\ 10 + 3 * EntrySize <= SegBytes
  /\ NoName \notin Names
  /\ Zero \in Block /\ Contents \subseteq Seq(Block)
  /\ Growths \subseteq Nat /\ PutAs \subseteq BOOLEAN

VARIABLES
  segs,       \* the segments by number: next, start, entries
  highest,    \* the highest segment in use
  blocks,     \* what the data blocks hold
  deleted,    \* history: <<name, start, blocks>> of the files removed
  asked       \* history: the last request and whether it was granted

vars == <<segs, highest, blocks, deleted, asked>>

DataStart == 6 + 2 * Total       \* kDirLbn and two blocks a segment
Size == DataStart + Len(blocks)

Entry == [file : BOOLEAN, prot : BOOLEAN, name : Names \cup {NoName}, len : Nat]
Segment == [next : 0..Total, start : Nat, entries : Seq(Entry)]

Area(name, len) == [file |-> FALSE, prot |-> FALSE, name |-> name, len |-> len]
Free(len) == Area(NoName, len)

-----------------------------------------------------------------------------
(* Reading: where entries lie, the chain, what the parser sees.             *)

(* Offset of the k-th entry of a segment, and whether one fits there.       *)
At(k) == 10 + (k - 1) * EntrySize
FitsAt(k) == At(k) + EntrySize <= SegBytes

Lengths(es) ==
  LET sum[k \in 0..Len(es)] == IF k = 0 THEN 0 ELSE sum[k - 1] + es[k].len
  IN sum[Len(es)]
StartOf(seg, k) == seg.start + Lengths(SubSeq(seg.entries, 1, k - 1))

(* The numbers of the segments, the first one first.                        *)
Followed(chain) ==
  LET next == segs[chain[Len(chain)]].next
  IN IF next = 0 THEN chain ELSE Append(chain, next)
Chain ==
  LET upTo[i \in 1..Total] == IF i = 1 THEN <<1>> ELSE Followed(upTo[i - 1])
  IN upTo[Total]

(* parseSegment wants room for a whole entry at the end marker.             *)
Parses(s) == FitsAt(Len(segs[s].entries) + 1)

(* What parseDirectory reports: the segments of the chain, by their places  *)
(* in it, up to one that does not parse.                                    *)
Reported(chain) == {i \in DOMAIN chain : \A j \in 1..i : Parses(chain[j])}

BlocksAt(start, len) == SubSeq(blocks, start - DataStart + 1, start - DataStart + len)

(* Entries are found as <<i, k>>, the k-th of the chain's i-th segment.     *)
First(found) ==
  CHOOSE x \in found : \A y \in found : x[1] < y[1] \/ (x[1] = y[1] /\ x[2] <= y[2])

(* Directory::find takes the first file of the name.                        *)
FilesNamed(n) ==
  LET chain == Chain
  IN UNION {{<<i, k>> : k \in {j \in DOMAIN segs[chain[i]].entries :
                                LET e == segs[chain[i]].entries[j] IN e.file /\ e.name = n}} :
              i \in Reported(chain)}
Find(n) == segs[Chain[First(FilesNamed(n))[1]]].entries[First(FilesNamed(n))[2]]

(* The entry removeFile and mutatePermanentEntry look for: the first        *)
(* segment's alone.                                                         *)
FindFirst(n) == SelectInSeq(segs[1].entries, LAMBDA e : e.file /\ e.name = n)

-----------------------------------------------------------------------------
(* Putting a file.                                                          *)

(* findSlot: first fit along the chain.                                     *)
Slots(dir, chain, n) ==
  UNION {{<<i, k>> : k \in {j \in DOMAIN dir[chain[i]].entries :
                              LET e == dir[chain[i]].entries[j] IN ~e.file /\ e.len >= n}} :
           i \in DOMAIN chain}

(* What the write needs of the segment: the rest of the area as an entry of *)
(* its own, and the entries after it with the end marker the loop finds.    *)
Needed_NoMarker(es, k, n) ==                                                          \* mutant
  At(Len(es)) + EntrySize * (IF n < es[k].len THEN 2 ELSE 1)
Needed(es, k, n) ==
  LET residual == n < es[k].len
      last == Len(es)
      marker == IF FitsAt(last + 1) THEN 2 ELSE 0
  IN At(k) + EntrySize * (IF residual THEN 2 ELSE 1)
       + (IF k = last THEN EntrySize
          ELSE IF residual THEN (last - k) * EntrySize + marker ELSE 0)

Replace(es, k, with) == SubSeq(es, 1, k - 1) \o with \o SubSeq(es, k + 1, Len(es))

Residue_KeepsName(e, n) == IF n < e.len THEN <<Area(e.name, e.len - n)>> ELSE <<>>   \* mutant
Residue(e, n) == IF n < e.len THEN <<Free(e.len - n)>> ELSE <<>>

(* splitSegment: the later half of the entries to the next unused segment.  *)
MovedStart_OffByOne(seg, half) == StartOf(seg, half)                                 \* mutant
MovedStart(seg, half) == StartOf(seg, half + 1)

Half(es) == Len(es) \div 2
CanSplit(dir, s) == highest < Total /\ Len(dir[s].entries) >= 2
Split(dir, s) ==
  LET es == dir[s].entries
      half == Half(es)
  IN [dir EXCEPT
        ![s] = [next |-> highest + 1, start |-> @.start, entries |-> SubSeq(es, 1, half)],
        ![highest + 1] = [next |-> dir[s].next, start |-> MovedStart(dir[s], half),
                          entries |-> SubSeq(es, half + 1, Len(es))]]

(* The file over the k-th entry of segment s, its blocks over the area's.   *)
Fill(dir, s, k, file, data) ==
  LET start == StartOf(dir[s], k)
      into(b) == b + DataStart - start
  IN /\ segs' = [dir EXCEPT ![s].entries = Replace(@, k, <<file>> \o Residue(@[k], Len(data)))]
     /\ blocks' = [b \in DOMAIN blocks |-> IF into(b) \in DOMAIN data THEN data[into(b)] ELSE blocks[b]]

(* putNewFile, in the directory removeFile may have left: the slot, a split *)
(* when its segment is full, and after a split the same slot again, which   *)
(* now has room.                                                            *)
PutNew(dir, file, data) ==
  LET chain == Chain
      slots == Slots(dir, chain, Len(data))
      slot == First(slots)
      s == chain[slot[1]]
      k == slot[2]
      half == Half(dir[s].entries)
  IN /\ slots # {}
     /\ IF Needed(dir[s].entries, k, Len(data)) <= SegBytes
        THEN Fill(dir, s, k, file, data) /\ UNCHANGED highest
        ELSE /\ CanSplit(dir, s)
             /\ highest' = highest + 1
             /\ IF k <= half THEN Fill(Split(dir, s), s, k, file, data)
                             ELSE Fill(Split(dir, s), highest + 1, k - half, file, data)

(* removeFile in the first segment: the entry's status alone flips, and the *)
(* run of unused areas it is now part of becomes one, under the name of the *)
(* earliest.                                                                *)
Merged(run) == Area(Head(run).name, Lengths(run))

Removed(k) ==
  LET es == [segs[1].entries EXCEPT ![k] = Area(@.name, @.len)]
      free(i, j) == \A x \in i..j : ~es[x].file
      first == CHOOSE i \in 1..k : free(i, k) /\ (i = 1 \/ es[i - 1].file)
      last == CHOOSE j \in k..Len(es) : free(k, j) /\ (j = Len(es) \/ es[j + 1].file)
  IN [segs EXCEPT ![1].entries = SubSeq(es, 1, first - 1) \o <<Merged(SubSeq(es, first, last))>>
                                   \o SubSeq(es, last + 1, Len(es))]

-----------------------------------------------------------------------------
(* The calls.                                                               *)

NoRequest == [op |-> "none", name |-> NoName, to |-> NoName, data |-> <<>>, prot |-> FALSE]

(* History: the blocks of the file at entry k are those of a deleted file   *)
(* of its name, for as long as an unused area of the name begins there.  An *)
(* empty file may have been deleted at the same block: both areas are left. *)
Forget(ds) ==
  {d \in ds : \E s \in 1..Total : \E k \in DOMAIN segs'[s].entries :
     segs'[s].entries[k] = Area(d[1], segs'[s].entries[k].len) /\ StartOf(segs'[s], k) = d[2]}
Remember(k) ==
  LET e == segs[1].entries[k]
      start == StartOf(segs[1], k)
  IN deleted \cup {<<e.name, start, BlocksAt(start, e.len)>>}

PutFile(n, data, prot) ==
  /\ LET k == FindFirst(n)
         file == [file |-> TRUE, prot |-> prot, name |-> n, len |-> Len(data)]
     IN IF FilesNamed(n) = {}
        THEN PutNew(segs, file, data) /\ deleted' = Forget(deleted)
        ELSE /\ ~Find(n).prot
             /\ k # 0
             /\ PutNew(Removed(k), file, data)
             /\ deleted' = Forget(Remember(k))
  /\ asked' = [NoRequest EXCEPT !.op = "put", !.name = n, !.data = data, !.prot = prot]

RemoveFile(n) ==
  /\ FindFirst(n) # 0
  /\ segs' = Removed(FindFirst(n))
  /\ deleted' = Forget(Remember(FindFirst(n)))
  /\ asked' = [NoRequest EXCEPT !.op = "remove", !.name = n]
  /\ UNCHANGED <<highest, blocks>>

(* mutatePermanentEntry: the file's entry as renameFile and setProtected    *)
(* change it.                                                               *)
Permanent(n) == segs[1].entries[FindFirst(n)]
Mutate(n, changed) ==
  /\ FindFirst(n) # 0
  /\ segs' = [segs EXCEPT ![1].entries[FindFirst(n)] = changed]
  /\ UNCHANGED <<highest, blocks, deleted>>

RenameFile_Over(n, to) ==                                                             \* mutant
  /\ Mutate(n, [Permanent(n) EXCEPT !.name = to])
  /\ asked' = [NoRequest EXCEPT !.op = "rename", !.name = n, !.to = to]
RenameFile(n, to) ==
  /\ Mutate(n, [Permanent(n) EXCEPT !.name = to])
  /\ FilesNamed(to) = {}
  /\ asked' = [NoRequest EXCEPT !.op = "rename", !.name = n, !.to = to]

SetProtected(n, on) ==
  /\ Mutate(n, [Permanent(n) EXCEPT !.prot = on])
  /\ asked' = [NoRequest EXCEPT !.op = "protect", !.name = n, !.prot = on]

(* undeleteEntry: the entry at an ordinal of the first segment, under the   *)
(* name it kept or a new one.                                               *)
UndeleteEntry(k, newName) ==
  LET e == segs[1].entries[k]
      under == IF newName = NoName THEN e.name ELSE newName
      start == StartOf(segs[1], k)
  IN /\ ~e.file /\ e.len # 0
     /\ under # NoName
     /\ FindFirst(under) = 0
     /\ segs' = [segs EXCEPT ![1].entries[k] = [file |-> TRUE, prot |-> FALSE, name |-> under, len |-> e.len]]
     /\ deleted' = Forget(deleted)
     /\ asked' = [NoRequest EXCEPT !.op = "undelete", !.name = under, !.data = BlocksAt(start, e.len)]
     /\ UNCHANGED <<highest, blocks>>

(* squeeze: the files to the front, block by block and in ascending order,  *)
(* then one area of all that is left.  A directory too full for that area   *)
(* is found out when the blocks have moved already.                         *)
FilesIn(es) ==
  LET upTo[k \in 0..Len(es)] ==
        IF k = 0 THEN <<>> ELSE upTo[k - 1] \o (IF es[k].file THEN <<es[k]>> ELSE <<>>)
  IN upTo[Len(es)]
Perms == FilesIn(segs[1].entries)

Moves(es, k) ==
  LET to == Lengths(FilesIn(SubSeq(es, 1, k - 1)))
      from == Lengths(SubSeq(es, 1, k - 1))
  IN [i \in 1..(IF es[k].file THEN es[k].len ELSE 0) |-> <<to + i, from + i>>]
SqueezeMoves ==
  LET es == segs[1].entries
      upTo[k \in 0..Len(es)] == IF k = 0 THEN <<>> ELSE upTo[k - 1] \o Moves(es, k)
  IN upTo[Len(es)]

Moved_Descending(moves) ==                                                            \* mutant
  LET after[i \in 1..Len(moves) + 1] ==
        IF i > Len(moves) THEN blocks
        ELSE [after[i + 1] EXCEPT ![moves[i][1]] = after[i + 1][moves[i][2]]]
  IN after[1]
Moved(moves) ==
  LET after[i \in 0..Len(moves)] ==
        IF i = 0 THEN blocks ELSE [after[i - 1] EXCEPT ![moves[i][1]] = after[i - 1][moves[i][2]]]
  IN after[Len(moves)]

Squeeze ==
  /\ highest = 1
  /\ blocks' = Moved(SqueezeMoves)
  /\ IF At(Len(Perms) + 1) + EntrySize + 2 <= SegBytes
     THEN segs' = [segs EXCEPT ![1].entries =
                     Append(Perms, Free(Lengths(@) - Lengths(Perms)))]
     ELSE UNCHANGED segs
  /\ deleted' = Forget(deleted)
  /\ asked' = NoRequest
  /\ UNCHANGED highest

(* growLinear, at the last segment of the chain.                            *)
GrowLinear(n) ==
  LET s == Chain[Len(Chain)]
      es == segs[s].entries
  IN /\ Linear
     /\ Len(blocks) + n <= MaxBlocks
     /\ IF es # <<>> /\ ~es[Len(es)].file
        THEN segs' = [segs EXCEPT ![s].entries[Len(es)].len = @ + n]
        ELSE /\ At(Len(es) + 1) + EntrySize + 2 <= SegBytes
             /\ segs' = [segs EXCEPT ![s].entries = Append(@, Free(n))]
     /\ blocks' = blocks \o [i \in 1..n |-> Zero]
     /\ asked' = NoRequest
     /\ UNCHANGED <<highest, deleted>>

CanEnd(start, len, lbn) == lbn \in start..(start + len)

(* endFreeSpaceAt: the area that ends the volume now ends at block lbn.     *)
EndFreeSpaceAt(lbn) ==
  LET s == Chain[Len(Chain)]
      k == Len(segs[s].entries)
      start == StartOf(segs[s], k)
  IN /\ k # 0
     /\ ~segs[s].entries[k].file
     /\ CanEnd(start, segs[s].entries[k].len, lbn)
     /\ segs' = [segs EXCEPT ![s].entries[k].len = lbn - start]
     /\ asked' = NoRequest
     /\ UNCHANGED <<highest, blocks, deleted>>

(* initVolume: an empty first segment; the others stay as they were until a *)
(* split takes them.                                                        *)
Blank == [next |-> 0, start |-> 0, entries |-> <<>>]
Fresh(n) == [s \in 1..Total |->
               IF s = 1 THEN [next |-> 0, start |-> DataStart, entries |-> <<Free(n)>>] ELSE Blank]

InitVolume ==
  /\ segs' = Fresh(Len(blocks))
  /\ highest' = 1
  /\ deleted' = {}
  /\ asked' = [NoRequest EXCEPT !.op = "init"]
  /\ UNCHANGED blocks

Init ==
  /\ segs = Fresh(DataBlocks)
  /\ highest = 1
  /\ blocks = [b \in 1..DataBlocks |-> Zero]
  /\ deleted = {}
  /\ asked = [NoRequest EXCEPT !.op = "init"]

Next ==
  \/ \E n \in Names, data \in Contents, prot \in PutAs : PutFile(n, data, prot)
  \/ \E n \in Names : RemoveFile(n)
  \/ \E n, to \in Names : RenameFile(n, to)
  \/ \E n \in Names, on \in BOOLEAN : SetProtected(n, on)
  \/ /\ Everywhere \/ highest = 1
     /\ \E k \in DOMAIN segs[1].entries, new \in Names \cup {NoName} : UndeleteEntry(k, new)
  \/ Squeeze
  \/ \E n \in Growths : GrowLinear(n)
  \/ \E lbn \in Fences : EndFreeSpaceAt(lbn)
  \/ InitVolume

Spec == Init /\ [][Next]_vars

-----------------------------------------------------------------------------
(* Properties.                                                              *)

(* The entries of the chain tile the volume: each segment begins where the  *)
(* one before it in the chain ends (splitSegment's movedStart), the first   *)
(* at the first data block, and the last area does not run past the image,  *)
(* so that no two files share a block.                                      *)
Tiled ==
  LET chain == Chain
      ends(s) == segs[s].start + Lengths(segs[s].entries)
  IN /\ segs \in [1..Total -> Segment]
     /\ segs[1].start = DataStart
     /\ \A i \in 1..Len(chain) - 1 : segs[chain[i + 1]].start = ends(chain[i])
     /\ ends(chain[Len(chain)]) <= Size
     /\ Len(chain) = highest

(* No two files have one name, in whatever segments they are.               *)
NamesUnique == \A n \in Names : \A x, y \in FilesNamed(n) : x = y

(* What the writers leave, the parser reads: every segment of the chain     *)
(* ends with a marker where parseSegment looks for it ("A well-formed       *)
(* segment ends with an end-of-segment entry", disk/src/Directory.cpp).     *)
ReadsBack == \A i \in DOMAIN Chain : Parses(Chain[i])

(* An unused area that carries a deleted file's name still begins with that *)
(* file's blocks: "The data is whole unless something was put over the area *)
(* since - which leaves the sentinel name on what remains of it"            *)
(* (undeleteEntry).  A fence may cut its end off.                           *)
DeletedWhole ==
  \A s \in 1..Total : \A k \in DOMAIN segs[s].entries :
    LET e == segs[s].entries[k]
        start == StartOf(segs[s], k)
    IN ~e.file /\ e.name # NoName =>
         \E d \in deleted :
           /\ d[1] = e.name /\ d[2] = start
           /\ IsPrefix(BlocksAt(start, e.len), d[3]) \/ IsPrefix(d[3], BlocksAt(start, e.len))

(* Through splits, squeezes and growth the volume is a set of files changed *)
(* as asked, of those a parse reports: of the chain up to a segment that    *)
(* does not parse.                                                          *)
FilesOf(seg) ==
  {[name |-> seg.entries[k].name, prot |-> seg.entries[k].prot,
    data |-> BlocksAt(StartOf(seg, k), seg.entries[k].len)] :
     k \in {j \in DOMAIN seg.entries : seg.entries[j].file}}
Readable == UNION {{c[i] : i \in Reported(c)} : c \in {Chain}}
Files == UNION {FilesOf(segs[s]) : s \in Readable}

Store == INSTANCE FileStore WITH files <- Files
ImplementsFileStore == Store!Spec

=============================================================================
