------------------------------ MODULE UdpClient ------------------------------
(***************************************************************************)
(* The UDP client: its command, send and receive threads, the signal       *)
(* handler and the main thread, with the server at the far end.            *)
(***************************************************************************)
EXTENDS UdpCommandThread, UdpSendThread, UdpReceiveThread, UdpLifecycle,
        UdpServer

Init ==
  /\ pending_messages = [i \in 0 .. MaxPending - 1 |-> Blank]
  /\ pending_messages_count = 0
  /\ confirmation_received = TRUE
  /\ have_sent = FALSE
  /\ quit = FALSE
  /\ quit_requested = FALSE
  /\ receive_thread_active = TRUE
  /\ AUTH_VER = FALSE
  /\ result_auth_flag = FALSE
  /\ u_current_command = ""
  /\ u_dname = 0
  /\ server_port = "initial"
  /\ last_message_id = 0
  /\ mutex = "free"
  /\ pc = [t \in Threads |-> IF t = "sig" THEN "idle" ELSE "test"]
  /\ draft = [t \in Threads |-> Blank]
  /\ slot = [t \in Threads |-> 0]
  /\ line = "empty"
  /\ lines_read = 0
  /\ submitted = <<>>
  /\ retransmission_count = 0
  /\ response = NoResponse
  /\ script = <<>>
  /\ cancelled = {}
  /\ exited = FALSE
  /\ toServer = {}
  /\ toClient = {}
  /\ served = <<>>
  /\ accepted = FALSE

\* No other thread is inside a window that the run has closed.
Uninterrupted(t) == \A u \in Threads \ {t} : pc[u] \notin ClosedWindows

CmdStep  == ~exited /\ Uninterrupted("cmd") /\ CmdNext
SndStep  == ~exited /\ Uninterrupted("snd") /\ SndNext
RcvStep  == ~exited /\ Uninterrupted("rcv") /\ RcvNext
SigStep  == ~exited /\ Uninterrupted("sig") /\ (SigArrives \/ SigRun)
LifeStep == ~exited /\ LifeRun
SrvStep  == ~exited /\ SrvNext

Next == CmdStep \/ SndStep \/ RcvStep \/ SigStep \/ LifeStep \/ SrvStep

Spec == Init /\ [][Next]_vars

\* Every thread that can run does run.  Nothing is assumed of the user, of
\* the arrival of a signal, of the network and the server, of spurious wakeups
\* or of failing calls.
Fairness ==
  /\ WF_vars(~exited /\ Uninterrupted("cmd") /\ CmdRun)
  /\ WF_vars(SndStep)
  /\ WF_vars(~exited /\ Uninterrupted("rcv") /\ RcvRun)
  /\ WF_vars(~exited /\ Uninterrupted("sig") /\ SigRun)
  /\ WF_vars(LifeStep)

FairSpec == Spec /\ Fairness

-----------------------------------------------------------------------------
\* The globals of UDP.c.
MemoryType ==
  /\ pending_messages \in [0 .. MaxPending - 1 -> Message]
  /\ pending_messages_count \in Nat
  /\ confirmation_received \in BOOLEAN /\ have_sent \in BOOLEAN
  /\ quit \in BOOLEAN /\ quit_requested \in BOOLEAN
  /\ receive_thread_active \in BOOLEAN
  /\ AUTH_VER \in BOOLEAN /\ result_auth_flag \in BOOLEAN
  /\ server_port \in Ports
  /\ u_current_command \in Commands
  /\ u_dname \in 0 .. MaxLines
  /\ last_message_id \in MessageIds
  /\ mutex \in {"free", "cmd", "snd", "rcv", "gone"}

\* The threads and their locals.
ThreadType ==
  /\ pc \in [Threads -> Labels]
  /\ draft \in [Threads -> Message]
  /\ slot \in [Threads -> Nat]
  /\ line \in LineKinds
  /\ lines_read \in 0 .. MaxLines
  /\ retransmission_count \in Nat
  /\ response \in Response
  /\ script \in Seq(Effects)
  /\ cancelled \subseteq Threads
  /\ exited \in BOOLEAN

\* The network, the server and the history of what was queued.
NetworkType ==
  /\ toServer \subseteq Datagram
  /\ toClient \subseteq Response
  /\ served \in Seq(Message)
  /\ accepted \in BOOLEAN
  /\ submitted \in Seq(Message)

\* Every variable holds a value the code can give it.
TypeOK == MemoryType /\ ThreadType /\ NetworkType

-----------------------------------------------------------------------------
\* Some thread has begun to end the session.  The send thread decides to give
\* up two steps before it sets quit; the signal handler and the receive thread
\* draw an id and send before they set their flag.
EndBegun ==
  \/ quit \/ quit_requested
  \/ pc["snd"] \in {"giveUp", "quit"}
  \/ pc["sig"] # "idle"
  \/ pc["rcv"] = "script" /\ response.type \in Closing

SaidBye == \E d \in toServer : d.msg.type = "BYE"

\* Before the server has accepted an AUTH the client neither takes itself for
\* verified nor lets a JOIN or a MSG out (UDP.c:480), however late, often or
\* out of order the replies arrive.
AuthGate ==
  /\ AUTH_VER => accepted
  /\ \A d \in toServer : d.msg.type \in {"JOIN", "MSG"} => accepted

\* The first JOIN or MSG already goes to the port the server chose for the
\* session: the receive thread stores the port before the flag that lets the
\* command thread on (UDP.c:260-261), and no lock orders the two.
SessionPort ==
  \A d \in toServer : d.msg.type \in {"JOIN", "MSG"} => d.to = "session"

\* Stop-and-wait, and an array that cannot overflow (UDP.c:34, 99): while the
\* session lasts at most one message is pending, and its end adds at most three
\* more (a line typed meanwhile and two BYEs), although the writers load and
\* store the count separately and partly without the mutex (UDP.c:242, 529,
\* 717, 761, 810, 876) and have_sent alone spaces out the pushes.
QueueBound == pending_messages_count <= IF EndBegun THEN 4 ELSE 1

\* A process that ends on the user's wish has said BYE, unless the send thread
\* cancelled the command thread on its way there, or recvfrom failed under it
\* (UDP.c:515-526, 200-204, 891).
ByeUnlessCancelled ==
  exited /\ quit_requested =>
    \/ SaidBye
    \/ "cmd" \in cancelled
    \/ IoErrors /\ pc["cmd"] # "dead"

\* The stop flag goes up silently in two cases only, an overlong line and
\* giving up: otherwise a BYE or an ERR has left before (UDP.c:305-309,
\* 318-319, 392-398, 425-443).
Announced ==
  quit /\ Lines \cap {"longAuth", "longMsg"} = {}
       /\ retransmission_count < MaxRetrans
    => \E d \in toServer : d.msg.type \in {"BYE", "ERR"}

-----------------------------------------------------------------------------
\* The receive thread was cancelled inside a sendto and holds the mutex for
\* good.
Orphaned == mutex = "rcv" /\ pc["rcv"] = "dead"

\* Once the session is to end the process does end, whatever the three threads
\* are doing to each other (UDP.c:461, 829, 891-895), unless the mutex is lost.
StopEnds == quit \/ quit_requested ~> exited \/ Orphaned

\* No message is transmitted for ever: it is settled, or given up, or it has
\* left the queue (UDP.c:829-888).
RetriesEnd ==
  pc["snd"] = "reset" ~> \/ pc["snd"] \in {"settled", "giveUp", "cancel"}
                         \/ pending_messages_count = 0
                         \/ exited

=============================================================================
