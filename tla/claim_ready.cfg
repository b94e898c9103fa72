CONSTANTS
  Lines = {"auth", "msg"}
  MaxLines = 2
  MaxIds = 2
  Notices = {}
  ConfirmsClosing = FALSE
  MaxRetrans = 2
  MaxPending = 4
  Interruptible = FALSE
  IoErrors = FALSE
  ClosedWindows = {"load", "dec", "storeId", "settled"}
SPECIFICATION Spec
INVARIANTS
  ReadyWhenDelivered
CHECK_DEADLOCK FALSE
