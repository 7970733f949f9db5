SPECIFICATION FairSpec
CONSTANTS
  Alts <- MCAlts
  EraseAlt = 2
  FlashBlocks = 3
  BlockModulus = 4
  BlockBytes = 2
  TailBytes <- MCTailBytes
  Sizes = {0, 3, 5, 6, 7}
  IdleTries = 3
  MaxPolls = 1
  WriteGrace = 0
  EraseGrace = 0
  MaxCrashes = 1
INVARIANTS
  TypeOK
  ReadIsExact
  VerdictIsRight
  CleanUploadAnswers
PROPERTIES
  UploadReturns
CHECK_DEADLOCK FALSE
