SPECIFICATION FairSpec
CONSTANTS
  Clients = {c1, c2}
  None = None
  MaxFrames = 2
  Requests <- MCRequests
INVARIANT
  TypeOK
  StopsAtFailure
  ExitZeroMeansDone
  SessionIsAtomic
PROPERTY
  VerifiedIsStored
  SessionReturns
CHECK_DEADLOCK FALSE
