SPECIFICATION Spec
CONSTANTS
  Alts <- MCAlts
  EraseAlt = 1
  FlashBlocks = 2
  BlockModulus = 3
  BlockBytes = 1
  TailBytes <- MCTailBytes
  IdleTries = 3
  MaxPolls = 3
  WriteGrace = 1
  EraseGrace = 2
  MaxCrashes = 1
INVARIANT
  SuccessMeansErased
CHECK_DEADLOCK FALSE
