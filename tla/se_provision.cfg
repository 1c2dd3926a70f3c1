SPECIFICATION Spec
CHECK_DEADLOCK FALSE
CONSTANTS
  Rows <- MCRows
  MaxHellos = 1
  MaxInbox = 2
  MaxFaults = 3
INVARIANTS
  TypeOK
  OnlyOffered
  TelemetryGranted
PROPERTIES
  GetsConfigured
  AsksUntilConfigured
  RejectionReported
  StrangersRecorded
