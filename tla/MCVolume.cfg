SPECIFICATION Spec
CONSTANTS
  Names = {A, B, C}
  NoName = NoName
  Block <- MCBlock
  Contents <- MCContents
  Total = 3
  EntrySize = 26
  SegBytes = 88
  DataBlocks = 3
  Linear = TRUE
  MaxBlocks = 4
  Growths = {1}
  Fences <- MCFences
  PutAs = {FALSE}
  Zero = "0"
  Everywhere = FALSE
  A = A
  B = B
  C = C
SYMMETRY Symmetry
VIEW View
INVARIANTS Tiled   DeletedWhole
PROPERTY ImplementsFileStore
