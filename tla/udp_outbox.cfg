CONSTANTS
  Lines = {"auth", "msg"}
  MaxLines = 3
  MaxIds = 3
  Notices = {}
  ConfirmsClosing = FALSE
  MaxRetrans = 2
  MaxPending = 4
  Interruptible = FALSE
  IoErrors = TRUE
  ClosedWindows = {"push", "pushCount", "pushSlot", "storeId", "load", "dec", "flag", "search", "script", "unlock", "giveUp", "quit", "loadBye", "sendBye", "teardown"}
SPECIFICATION Spec
INVARIANTS
  QueueBound
PROPERTIES
  ImplementsOutbox
CHECK_DEADLOCK FALSE
