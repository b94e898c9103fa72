CONSTANTS
  Lines = {"auth"}
  MaxLines = 1
  MaxIds = 2
  Notices = {}
  ConfirmsClosing = FALSE
  MaxRetrans = 2
  MaxPending = 4
  Interruptible = TRUE
  IoErrors = FALSE
  ClosedWindows = {}
SPECIFICATION Spec
INVARIANTS
  IdsAreUnique
CHECK_DEADLOCK FALSE
