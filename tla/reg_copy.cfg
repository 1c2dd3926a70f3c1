SPECIFICATION Spec
CONSTANTS
  Mac = {m1, m2}
  Row = {r1}
  Unknown = Unknown
  TTL = 2
  Cooldown = 1
  MaxQuery = 1
  MaxChanges = 1
  MaxFailures = 1
  MaxRestarts = 1
INVARIANTS
  TypeOK
  StaleBound
  RecognisedInTime
PROPERTIES
  QueriesSpaced
  EventuallyRight
