CONSTANTS
  MaxName = 3
  Buffer = 8
  SizeSpace = 1073741824
  MaxContent = 3
  MaxSecret = 2
  MaxLine = 12
  PointerSize = 2
  Chars = {"x", "IS", "SP", "ctl"}
  Bytes = {"x", "nul", "ctl"}
  Args = {"-t", "-s", "-r", "-h", "tcp", "udp", "300"}
  MaxTyped = 3
  MaxBytes = 0
  MaxArgs = 0
SPECIFICATION Spec
INVARIANTS
  NewNameIsUsed
CHECK_DEADLOCK FALSE
