----------------------------- MODULE MCCommander -----------------------------
(* Commander with one image of each size.                                   *)
EXTENDS Commander

MCFile(n, d, p) == [name |-> n, data |-> d, prot |-> p]
MCVolume(fs) == [dir |-> TRUE, files |-> fs]
MCHostFiles == {MCFile("A", "h", FALSE)}
MCDisks ==
  {[i \in Images |->
      CASE i = "two.dsk" -> [s \in {0, 1} |->
             IF s = 0 THEN MCVolume({MCFile("B", "y", TRUE)}) ELSE MCVolume({})]
        [] i = "one.dsk" -> [s \in {0} |-> [dir |-> FALSE, files |-> {}]]
        [] OTHER         -> [s \in {0} |-> MCVolume({MCFile("B", "w", FALSE)})]]}
MCSlots ==
  {[A |-> [EmptyDrive EXCEPT !.ds = "two.dsk"], hd |-> "hd.img"]}

View == <<disk, slots, panels, active, transfer, hdMem, mode, changes>>
==============================================================================
