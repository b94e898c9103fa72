------------------------------ MODULE TcpState ------------------------------
(***************************************************************************)
(* The globals of TCP.c, the control state of its two threads and of its   *)
(* signal handler, and the connection.  The module of each thread extends  *)
(* this one.                                                               *)
(***************************************************************************)
EXTENDS Naturals, Sequences

CONSTANTS
  Lines,       \* the kinds of input line the user may type
  MaxLines,    \* bound: how many lines are read in a behaviour
  Notices,     \* the kinds of line the server sends on its own
  MaxNotices   \* bound: how many of them it sends

AuthLines   == {"auth", "badAuth"}
JoinLines   == {"join", "badJoin"}
RenameLines == {"rename", "badRename", "noRename"}
LineKinds   == AuthLines \cup JoinLines \cup RenameLines
                 \cup {"help", "unknown", "msg", "eof"}
Replies     == {"OK", "NOK"}
NoticeKinds == {"MSG", "BADMSG", "ERR", "BADERR", "BYE", "JUNK"}
Incoming    == Replies \cup NoticeKinds \cup {"BADREPLY"}
Requests    == {"AUTH", "JOIN"}
Outgoing    == Requests \cup {"MSG", "ERR", "BYE"}
Commands    == {"", "/auth", "/join", "/rename", "/help", "Unknown"}
Conditions  == {"auth", "join", "rename", "msg"}
Farewells   == {"ERR", "BYE", "shut", "close", "exit"}
Labels == [main : {"connect", "read", "handle", "test", "park", "sleep", "bye",
                   "leave"},
           lst : {"off", "recv", "handle", "script", "ended"},
           sig : {"idle", "main", "lst"}]

ASSUME TcpConstants ==
  /\ Lines \subseteq LineKinds /\ MaxLines \in Nat
  /\ Notices \subseteq NoticeKinds /\ MaxNotices \in Nat

VARIABLES
  AUTH_FLAG, t_result_auth_flag, join_cond, t_reply, rename_cond,
  t_msg_condition, current_command,
  dname,       \* "good" when its first seven characters are a valid name
  pc,          \* where each thread is; the thread the signal handler runs on
  line,        \* the input line, and how many have been read
  lines_read,
  waits,       \* the conditions the main thread has still to wait for
  got,         \* the line handle_server_message works on, "none" between two
  script,      \* what the listener has still to do before it exits
  socket,      \* t_sockfd: "open", "shut" or "closed"
  exit,        \* "none" while the process runs, else why it ended

  sent,        \* what the client has sent, in order
  stream,      \* lines from the server, not received yet
  half,        \* the first of them has been received in part
  served,      \* the message in sent that the server has answered last
  accepted,    \* has it accepted an AUTH?
  notices,     \* lines it has sent on its own
  closed,      \* has it closed the connection?
  lost         \* history: a REPLY was received behind another line, or came
               \* between the main thread's test and its sleep

verdictVars == <<AUTH_FLAG, t_result_auth_flag, join_cond, t_reply>>
mainVars    == <<rename_cond, t_msg_condition, current_command, dname, line,
                 lines_read, waits>>
lstVars     == <<got, script, socket>>
linkVars    == <<stream, half, lost>>
serverVars  == <<served, accepted, notices, closed>>
tcpVars     == <<verdictVars, mainVars, lstVars, linkVars, serverVars, pc, exit,
                 sent>>

At(t, label) == pc[t] = label
Go(t, label) == pc' = [pc EXCEPT ![t] = label]

\* send on t_sockfd; the result is never looked at.  A connection one side has
\* shut raises SIGPIPE, which is not handled; the bytes that still leave after
\* the server has closed are lost with it.
Send(m) ==
  \/ socket = "open" /\ sent' = Append(sent, m) /\ UNCHANGED exit
  \/ socket = "closed" /\ UNCHANGED <<sent, exit>>
  \/ /\ socket = "shut" \/ (socket = "open" /\ closed)
     /\ exit' = "sigpipe" /\ UNCHANGED sent

\* The signal handler does not run on thread t.
Running(t) == exit = "none" /\ pc.sig # t

=============================================================================
