SPECIFICATION FairSpec
CONSTANTS
  Alts <- MCAlts
  EraseAlt = 1
  FlashBlocks = 3
  BlockModulus = 3
  BlockBytes = 1
  TailBytes <- MCTailBytes
  NBlocks = 2
  IdleTries = 3
  MaxPolls = 3
  WriteGrace = 1
  EraseGrace = 2
  MaxCrashes = 1
INVARIANTS
  TypeOK
  SuccessMeansFlashed
  BlocksInPlace
  CleanWriteSucceeds
PROPERTIES
  WritesOnlyTarget
  WriteIsAtomicToCaller
  RetryOnlyBeforeProgress
  WriteReturns
CHECK_DEADLOCK FALSE
