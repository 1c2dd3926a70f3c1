SPECIFICATION Spec
CONSTANTS
  a = a
  b = b
  Ctl = {a, b}
  Role <- MCRole
  Enabled = {TRUE}
  HbMin = 1
  HbMax = 1
  Timeout = 2
  Grace = 3
  Hello = 3
  MaxPass = 1
  MaxUpdate = 0
  Width = 5
  Wraps = TRUE
  MaxCrashes = 0
  MaxLost = 0
  MaxUpdates = 0
  MaxOutages = 0
PROPERTY DeadMeansSilent
