SPECIFICATION Spec
CONSTANTS
  Alts <- MCAlts
  EraseAlt = 1
  FlashBlocks = 6
  BlockModulus = 2
  BlockBytes = 1
  TailBytes <- MCTailBytes
  NBlocks = 3
  IdleTries = 3
  MaxPolls = 3
  WriteGrace = 1
  EraseGrace = 2
  MaxCrashes = 0
PROPERTY
  RetryOnlyBeforeProgress
CHECK_DEADLOCK FALSE
