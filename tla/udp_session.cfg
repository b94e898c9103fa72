CONSTANTS
  Lines = {"auth", "badAuth", "longAuth", "join", "badJoin", "rename", "badRename", "help", "unknown", "msg", "longMsg", "empty"}
  MaxLines = 2
  MaxIds = 3
  Notices = {}
  ConfirmsClosing = FALSE
  MaxRetrans = 2
  MaxPending = 4
  Interruptible = FALSE
  IoErrors = FALSE
  ClosedWindows = {}
SPECIFICATION Spec
INVARIANTS
  TypeOK
  AuthGate
  SessionPort
  QueueBound
CHECK_DEADLOCK FALSE
