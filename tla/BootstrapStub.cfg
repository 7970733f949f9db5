SPECIFICATION FairSpec
CONSTANTS
  SplSize = 3
  UbootSize = 3
  Align = 2
  Window = 7
  Chunk = 2
  BulkTries = 3
  VendorTries = 2
  MaxRuns = 3
INVARIANTS
  NoStubOnT10
CHECK_DEADLOCK FALSE
