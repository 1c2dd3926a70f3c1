SPECIFICATION Spec
CONSTANTS
  a = a
  b = b
  Ctl = {a, b}
  Role <- MCRole
  Enabled = {TRUE}
  HbMin = 2
  HbMax = 3
  Timeout = 3
  Grace = 2
  Hello = 2
  MaxPass = 1
  MaxUpdate = 0
  Width = 6
  Wraps = FALSE
  MaxCrashes = 1
  MaxLost = 1
  MaxUpdates = 0
  MaxOutages = 1
PROPERTIES
  TakeoverHappens
  FailbackHappens
