CONSTANTS
  Lines = {"auth", "eof"}
  MaxLines = 1
  MaxIds = 2
  Notices = {"BYE"}
  ConfirmsClosing = FALSE
  MaxRetrans = 2
  MaxPending = 4
  Interruptible = FALSE
  IoErrors = FALSE
  ClosedWindows = {"push", "pushCount", "pushSlot", "storeId", "local", "overlong"}
SPECIFICATION FairSpec
PROPERTIES
  StopEnds
  RetriesEnd
CHECK_DEADLOCK FALSE
