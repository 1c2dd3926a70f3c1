SPECIFICATION Spec
CONSTANTS
  factory = factory
  good = good
  mute = mute
  crashing = crashing
  dead = dead
  Blank = Blank
  Factory = factory
  Image = {factory, good, mute, crashing}
  Fault <- MCFault
  Window = 2
  MaxTries = 3
  Chunks = 2
  RequestOnTrial = FALSE
  PowerLossAt <- SafePoints
  MaxRequests = 2
  MaxPowerLoss = 2
  MaxFlashFails = 0
INVARIANTS
  OnTrialUntilProven
  FullAllowance
PROPERTIES
  ImplementsTrial
  SettlesOnProven
  DecidesTrials
