CONSTANTS
  rom = rom
  gadget = gadget
  mouse = mouse
  NoDevice = NoDevice
  Devices = {rom, gadget, mouse}
  Ours = {rom, gadget}
  IsDfu = {gadget}
  MaxCalls = 5
  MaxAttempts = 1
SPECIFICATION Spec
INVARIANTS
  TypeOK
PROPERTIES
  UsesWhatWasOpened
  
  CallsReturn
CHECK_DEADLOCK FALSE
