CONSTANTS
  Lines = {"auth"}
  MaxLines = 1
  MaxIds = 2
  Notices = {"BADMSG", "ERR", "BYE", "JUNK"}
  ConfirmsClosing = TRUE
  MaxRetrans = 1
  MaxPending = 4
  Interruptible = FALSE
  IoErrors = FALSE
  ClosedWindows = {}
SPECIFICATION Spec
INVARIANTS
  Announced
CHECK_DEADLOCK FALSE
