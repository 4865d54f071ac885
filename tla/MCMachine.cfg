CONSTANTS
  HD_BLOCK_SIZE = 4
  RAMDISK_PAGE_SIZE = 4
  Guests <- MCGuests
  Answer <- MCAnswer
  Blank <- MCBlank
  ReadBus <- BoardRead
  WriteBus <- BoardWrite
  RequestVector <- LineVector
SPECIFICATION Spec
INVARIANTS Computes LatchCoherent FileTrue 
PROPERTY Ends
CHECK_DEADLOCK FALSE
