CONSTANTS
  own = own
  near = near
  far = far
  None = None
  LocalBoards = {own}
  DaemonBoards <- MCDaemonBoards
  SocOf <- MCSocOf
  MagicOf <- MCMagicOf
  Images <- MCImages
  Assets <- MCAssets
  Forms <- MCForms
  Found <- MCFound
  Kept <- MCKept
  MaxJobs = 2
  MaxClicks = 4
  MaxPolls = 1
  Faults = TRUE
SPECIFICATION Spec
INVARIANTS
  TypeOK
  OneCallAtATime
  BusyHasOwner
PROPERTIES
  WriteDoneIsWhatWasAsked
  PageComesBack
CHECK_DEADLOCK FALSE
