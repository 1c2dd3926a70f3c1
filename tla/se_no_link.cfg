SPECIFICATION Spec
CHECK_DEADLOCK FALSE
CONSTANTS
  Rows <- Unplugged
  MaxHellos = 1
  MaxInbox = 1
  MaxFaults = 1
PROPERTY EveryBoardAsks
