------------------------------ MODULE TcpClient ------------------------------
(***************************************************************************)
(* The TCP client: its main thread, its listener and its signal handler,   *)
(* with the server at the far end.                                         *)
(***************************************************************************)
EXTENDS TcpServer

Init ==
  /\ AUTH_FLAG = FALSE /\ t_result_auth_flag = FALSE
  /\ join_cond = FALSE /\ t_reply = FALSE
  /\ rename_cond = FALSE /\ t_msg_condition = FALSE
  /\ current_command = "" /\ dname = "bad"
  /\ pc = [main |-> "connect", lst |-> "off", sig |-> "idle"]
  /\ line = "help" /\ lines_read = 0 /\ waits = <<>>
  /\ got = "none" /\ script = <<>>
  /\ socket = "open" /\ exit = "none"
  /\ sent = <<>> /\ stream = <<>> /\ half = FALSE
  /\ served = 0 /\ accepted = FALSE /\ notices = 0 /\ closed = FALSE
  /\ lost = FALSE

\* Ctrl-C.  t_sigint_holder says BYE on whichever thread it interrupts, and
\* ends the process; it is installed before the first line is read.
SigArrives(t) ==
  /\ At("sig", "idle") /\ pc.main # "connect" /\ pc[t] # "ended"
  /\ Go("sig", t) /\ Send("BYE")
  /\ UNCHANGED <<verdictVars, mainVars, lstVars, linkVars, serverVars>>

SigExits == pc.sig # "idle" /\ Ending("done")

Next ==
  \/ Running("main") /\ MainNext
  \/ Running("lst") /\ LstNext
  \/ exit = "none" /\ \E t \in {"main", "lst"} : SigArrives(t)
  \/ exit = "none" /\ SigExits
  \/ exit = "none" /\ SrvNext

Spec == Init /\ [][Next]_tcpVars

\* Both threads run when they can, what is in the stream is received, and a
\* handler that has begun ends.  Nothing is assumed of the user, the server,
\* the arrival of a signal, spurious wakeups and failing calls.
FairSpec ==
  /\ Spec
  /\ WF_tcpVars(Running("main") /\ MainRun)
  /\ WF_tcpVars(Running("lst") /\ LstRun)
  /\ WF_tcpVars(exit = "none" /\ SigExits)

-----------------------------------------------------------------------------
FlagType ==
  /\ AUTH_FLAG \in BOOLEAN /\ t_result_auth_flag \in BOOLEAN
  /\ join_cond \in BOOLEAN /\ t_reply \in BOOLEAN
  /\ rename_cond \in BOOLEAN /\ t_msg_condition \in BOOLEAN
  /\ half \in BOOLEAN /\ closed \in BOOLEAN
  /\ lost \in BOOLEAN /\ accepted \in BOOLEAN

ThreadType ==
  /\ current_command \in Commands /\ dname \in {"good", "bad"}
  /\ line \in LineKinds /\ lines_read \in 0 .. MaxLines
  /\ waits \in Seq(Conditions)
  /\ got \in Incoming \cup {"none"} /\ script \in Seq(Farewells)

LinkType ==
  /\ socket \in {"open", "shut", "closed"}
  /\ exit \in {"none", "done", "failed", "sigpipe"}
  /\ sent \in Seq(Outgoing) /\ stream \in Seq(Incoming)
  /\ served \in 0 .. Len(sent) /\ notices \in 0 .. MaxNotices

ControlType ==
  /\ pc \in Labels
  /\ pc.main \in {"test", "park", "sleep"} => waits # <<>>
  /\ pc.lst = "handle" => got # "none"
  /\ exit = "none" /\ pc.lst = "script" => script # <<>>

\* Every variable holds a value the code can give it; who waits has something
\* to wait for, who handles a line has one, and who takes leave has something
\* left to do.
TcpTypeOK == FlagType /\ ThreadType /\ LinkType /\ ControlType

Said(m) == \E i \in 1 .. Len(sent) : sent[i] = m

\* A client that the server has not left ends with a BYE, whoever ends it
\* (the user, a signal, a message of the server; TCP.c:52, 85, 339-370), even
\* when two of them end it at once and one has shut the connection already.
EndsWithBye ==
  exit \in {"done", "sigpipe"} /\ ~closed => Said("BYE")

\* When the next line is read no verdict is left over that the next /join or
\* /auth would take for its own (TCP.c:107-124), although the flags are set
\* and reset without a lock.
NoVerdictLeftOver ==
  pc.main \in {"read", "handle"} =>
    ~t_result_auth_flag /\ ~join_cond /\ ~t_reply

\* Nothing but AUTH is sent, and the client does not take itself for verified
\* (TCP.c:95, 266), before the server has accepted an AUTH, however the stream
\* is cut.
TcpGate ==
  /\ AUTH_FLAG => accepted
  /\ Said("JOIN") \/ Said("MSG") => accepted

-----------------------------------------------------------------------------
Awaiting == /\ pc.main \in {"test", "park", "sleep"}
            /\ line \in {"auth", "join"}
            /\ Head(waits) \in {"auth", "join"}

\* The answer to a request lets the main thread go on, or ends the process
\* when it arrives in pieces, unless it came between the test and the sleep or
\* was received behind another line (TCP.c:107-124, 172, 256-300).
AnswerReturns ==
  Awaiting /\ ~Unserved ~>
    ~Awaiting \/ lost \/ exit # "none"

=============================================================================
