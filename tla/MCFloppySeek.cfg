SPECIFICATION DriverSpec
CONSTANTS
  Tracks = 2
  Sectors = 2
  SectorSize = 2
  TrackBytes = 12
  StarveTicks = 3
  Commands = {}
  RegValues = {}
  DataValues = {}
  Selects = {}
  Mounts = {0}
  Kinds = {"backend"}
  Jobs <- MCJobs
  NoJob = NoJob
  MaxJobs = 2
INVARIANT SeekTracksHead
