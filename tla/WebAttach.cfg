CONSTANTS
  own = own
  near = near
  far = far
  None = None
  LocalBoards = {own}
  DaemonBoards <- MCNoBoards
  SocOf <- MCSocOf
  MagicOf <- MCMagicOf
  Images <- MCImages
  Assets <- MCAssets
  Forms <- MCForms
  Found <- MCPutAway
  Kept <- MCKept
  MaxJobs = 1
  MaxClicks = 2
  MaxPolls = 1
  Faults = FALSE
SPECIFICATION Spec
INVARIANTS
  LoaderFitsSoc
CHECK_DEADLOCK FALSE
