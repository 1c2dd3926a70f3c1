SPECIFICATION Spec
CONSTANTS
  factory = factory
  good = good
  mute = mute
  crashing = crashing
  dead = dead
  Blank = Blank
  Factory = factory
  Image = {factory, mute, crashing, dead}
  Fault <- MCFault
  Window = 2
  MaxTries = 3
  Chunks = 2
  RequestOnTrial = TRUE
  PowerLossAt <- AllPoints
  MaxRequests = 2
  MaxPowerLoss = 2
  MaxFlashFails = 2
INVARIANTS
  TypeOK
  BootTargetBootable
  QuietOnlyWhileUpdating
  WorkingImageKept
  RollbackSettles
PROPERTY CommitsOnlyVerified
