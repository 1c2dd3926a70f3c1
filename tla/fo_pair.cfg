SPECIFICATION Spec
CONSTANTS
  a = a
  b = b
  Ctl = {a, b}
  Role <- MCRole
  Enabled = {TRUE, FALSE}
  HbMin = 2
  HbMax = 3
  Timeout = 6
  Grace = 7
  Hello = 7
  MaxPass = 1
  MaxUpdate = 2
  Width = 11
  Wraps = FALSE
  MaxCrashes = 1
  MaxLost = 1
  MaxUpdates = 1
  MaxOutages = 0
INVARIANTS
  TypeOK
  StandbyVerdict
  NoSilenceWithoutFailure
  TakeoverAnnounced
  ShortOverlap
  ShortGap
PROPERTIES
  DeadMeansSilentOrOvertaken
  RestoredMeansHeard
