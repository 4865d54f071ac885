SPECIFICATION Spec
CONSTANTS
  Tracks = 2
  Sectors = 2
  SectorSize = 2
  TrackBytes = 2
  StarveTicks = 3
  Commands <- MCCommands
  RegValues = {1}
  DataValues = {1}
  Selects <- MCSelects
  Mounts = {0}
  Kinds = {"image"}
INVARIANTS TypeOK LinesAgree IndexesInBounds
PROPERTY OneSectorAtATime
CONSTRAINT OneSectorUsed
VIEW Live
