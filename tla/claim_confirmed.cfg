CONSTANTS
  Lines = {"auth"}
  MaxLines = 1
  MaxIds = 2
  Notices = {}
  ConfirmsClosing = FALSE
  MaxRetrans = 2
  MaxPending = 4
  Interruptible = FALSE
  IoErrors = FALSE
  ClosedWindows = {"push", "pushCount", "pushSlot", "storeId", "local", "overlong"}
SPECIFICATION FairSpec
PROPERTIES
  ConfirmationIsSignalled
CHECK_DEADLOCK FALSE
