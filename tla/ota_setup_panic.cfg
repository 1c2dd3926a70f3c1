SPECIFICATION Spec
CONSTANTS
  factory = factory
  good = good
  mute = mute
  crashing = crashing
  dead = dead
  Blank = Blank
  Factory = factory
  Image = {factory, dead}
  Fault <- MCFault
  Window = 2
  MaxTries = 3
  Chunks = 2
  RequestOnTrial = FALSE
  PowerLossAt = {}
  MaxRequests = 1
  MaxPowerLoss = 0
  MaxFlashFails = 0
PROPERTY EarlyPanicReverted
