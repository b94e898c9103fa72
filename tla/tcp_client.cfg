CONSTANTS
  Lines = {"auth", "badAuth", "join", "badJoin", "badRename", "msg", "eof"}
  MaxLines = 3
  Notices = {"MSG", "BADMSG", "BYE", "JUNK"}
  MaxNotices = 1
SPECIFICATION FairSpec
INVARIANTS
  TcpTypeOK
  TcpGate
  EndsWithBye
  NoVerdictLeftOver
PROPERTIES
  ImplementsDialogue
  AnswerReturns
CHECK_DEADLOCK FALSE
