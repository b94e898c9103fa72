CONSTANTS
  MaxName = 2
  Buffer = 8
  SizeSpace = 1073741824
  MaxContent = 3
  MaxSecret = 2
  MaxLine = 13
  PointerSize = 3
  Chars = {"x", "IS", "SP", "ctl"}
  Bytes = {"x", "nul", "ctl"}
  Args = {"-t", "-s", "-r", "-h", "tcp", "udp", "300"}
  MaxTyped = 3
  MaxBytes = 7
  MaxArgs = 6
SPECIFICATION Spec
INVARIANTS
  UdpShownAsSent
  StaleNeverShown
  TcpShownAsSent
  FieldsApart
  ArgumentsAgree
CHECK_DEADLOCK FALSE
