CONSTANTS
  Lines = {"auth", "msg", "eof", "readError"}
  MaxLines = 2
  MaxIds = 2
  Notices = {}
  ConfirmsClosing = FALSE
  MaxRetrans = 1
  MaxPending = 4
  Interruptible = TRUE
  IoErrors = FALSE
  ClosedWindows = {"push", "pushCount", "pushSlot", "storeId", "local", "overlong", "load", "dec", "flag", "search", "reset", "settled", "peek", "giveUp", "sendBye"}
SPECIFICATION Spec
INVARIANTS
  QueueBound
  ByeUnlessCancelled
CHECK_DEADLOCK FALSE
