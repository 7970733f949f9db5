SPECIFICATION FairSpec
CONSTANTS
  SplSize = 3
  UbootSize = 3
  Align = 2
  Window = 7
  Chunk = 2
  BulkTries = 3
  VendorTries = 2
  MaxRuns = 3
INVARIANTS
  TypeOK
  SentIsStored
  RomSurvives
  CleanBootSucceeds
PROPERTIES
  BootReturns
CHECK_DEADLOCK FALSE
