CONSTANTS
  Names = {"X", "X2", "X3", "Y", "S1", "S2", "S3"}
  Hosts = {"x", "x-2", "s1", "s2"}
  HostOrder <- McHostOrder
  Mangled <- McMangled
  Unmangled <- McUnmangled
  Block = {"0", "p", "q", "r", "g", "h"}
  Zero = "0"
  Absent = Absent
  Room = 4
  Modes = {"descriptor"}
  Listed = {"x"}
  HostFiles <- McHostFiles
  Folders <- McFolders
  Enters = {"X", "Y"}
  Sizes = {2}
  Sent = {"g"}
  Patches = {"h"}
  MaxHost = 0
  MaxText = 0
  MaxEdits = 2
SPECIFICATION Spec
INVARIANT Remountable
CHECK_DEADLOCK FALSE
