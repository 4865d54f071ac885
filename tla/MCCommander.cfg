SPECIFICATION Spec
CONSTANTS
  Names = {"A", "B"}
  Data = {"h", "w", "y"}
  TwoSided = {"two.dsk"}
  OneSided = {"one.dsk"}
  Hds = {"hd.img"}
  NoImage = NoImage
  Drives = {"A"}
  HostFiles <- MCHostFiles
  Disks <- MCDisks
  Slots0 <- MCSlots
  Room = 2
  MaxChanges = 3
  SameImage = FALSE
VIEW View
INVARIANTS  PanelsMounted HdFresh
 
