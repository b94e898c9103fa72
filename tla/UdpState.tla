------------------------------ MODULE UdpState ------------------------------
(***************************************************************************)
(* The memory that the threads of the UDP client share (the globals of     *)
(* UDP.c), the control state of each thread, and the two directions of the *)
(* network.  The module of each thread extends this one.                   *)
(*                                                                         *)
(* A thread is at a label, pc[t]; one action runs it from one access of    *)
(* shared memory (or one blocking call) to the next.  Steps of different   *)
(* threads interleave freely, except at the labels of ClosedWindows.       *)
(***************************************************************************)
EXTENDS Naturals, Sequences, FiniteSets

CONSTANTS
  Lines,          \* the kinds of input line the user may type
  MaxLines,       \* bound: how many lines are read in a behaviour
  MaxIds,         \* bound: message ids drawn before the server goes quiet
  Notices,        \* the kinds of message the server sends on its own
  ConfirmsClosing, \* does the server confirm BYE and ERR?
  MaxRetrans,     \* global_max_retrans, option -r
  MaxPending,     \* slots in pending_messages: MAX_PENDING_MESSAGES
  Interruptible,  \* may SIGINT, SIGTERM or SIGQUIT arrive (at most once)?
  IoErrors,       \* may sendto and recvfrom fail?
  ClosedWindows   \* labels at which no other thread runs ({} = the program)

Threads == {"cmd", "snd", "rcv", "sig"}

LineKinds == {"auth", "badAuth", "longAuth", "join", "badJoin", "rename",
              "badRename", "help", "unknown", "msg", "longMsg", "empty",
              "eof", "readError"}
NoticeKinds == {"MSG", "BADMSG", "ERR", "BYE", "JUNK"}
UserTypes   == {"AUTH", "JOIN", "MSG"}
ClientTypes == UserTypes \cup {"BYE", "ERR", "CONFIRM", "BLANK"}
Commands    == {"", "/auth", "/join", "/rename", "/help"}
Ports       == {"initial", "session"}

CmdLabels == {"test", "read", "local", "overlong", "loadId", "storeId",
              "push", "pushCount", "pushSlot", "authTest", "authPark",
              "authSleep", "slash", "msgTest", "msgPark", "msgSleep",
              "loadBye", "send", "lock", "unlock", "teardown", "drain",
              "dead"}
SndLabels == {"test", "peek", "send", "reset", "sleep", "settled", "giveUp",
              "quit", "loadBye", "storeId", "sendBye", "lock", "push",
              "pushCount", "pushSlot", "unlock", "cancel", "dead"}
RcvLabels == {"test", "recv", "lock", "search", "load", "dec", "flag",
              "script", "unlock", "dead"}
SigLabels == {"idle", "storeId", "send", "set", "dead"}
Labels    == CmdLabels \cup SndLabels \cup RcvLabels \cup SigLabels

ASSUME ConstantsAssumption ==
  /\ Lines \subseteq LineKinds
  /\ MaxLines \in Nat
  /\ MaxIds \in Nat
  /\ Notices \subseteq NoticeKinds
  /\ ConfirmsClosing \in BOOLEAN
  /\ MaxRetrans \in 0..255
  /\ MaxPending \in Nat /\ MaxPending >= 4
  /\ Interruptible \in BOOLEAN
  /\ IoErrors \in BOOLEAN
  /\ ClosedWindows \subseteq Labels

-----------------------------------------------------------------------------

VARIABLES
  pending_messages,        \* the array behind the queue, stale slots included
  pending_messages_count,
  confirmation_received,
  have_sent,
  quit,
  quit_requested,
  receive_thread_active,
  AUTH_VER,
  result_auth_flag,
  u_current_command,
  u_dname,                 \* the line that set the display name, 0 if none
  server_port,             \* server_addr.sin_port
  last_message_id,         \* the static of generate_message_id
  mutex,                   \* who holds it; "gone" once destroyed

  pc,                      \* where each thread is
  draft,                   \* the message each thread composes or sends
  slot,                    \* the value of the count each thread has loaded
  line,                    \* the line process_commands is working on
  lines_read,
  submitted,               \* history: the user messages queued, in order
  retransmission_count,
  response,                \* the datagram process_server_response works on
  script,                  \* the effects it still has to perform
  cancelled,               \* threads with a cancellation request pending
  exited,                  \* the process is over

  toServer,                \* datagrams the client has sent
  toClient,                \* datagrams the server has sent
  served,                  \* user messages, in the order first received
  accepted                 \* has the server accepted an AUTH?

queueVars  == <<pending_messages, pending_messages_count>>
flagVars   == <<confirmation_received, have_sent>>
stopVars   == <<quit, quit_requested, receive_thread_active>>
authVars   == <<AUTH_VER, result_auth_flag, server_port>>
userVars   == <<u_current_command, u_dname, submitted>>
localVars  == <<line, lines_read, retransmission_count>>
rcvVars    == <<response, script>>
lifeVars   == <<cancelled, exited>>
serverVars == <<toClient, served, accepted>>

vars == <<queueVars, flagVars, stopVars, authVars, userVars, last_message_id,
          mutex, pc, draft, slot, localVars, rcvVars, lifeVars, toServer,
          serverVars>>

-----------------------------------------------------------------------------
(* Messages.  body is the number of the input line a message carries, name *)
(* the line that set the display name in it.                               *)

IdSpace    == 65536
MessageIds == 0 .. IdSpace - 1
NextId(i)  == (i + 1) % IdSpace

Message == [type : ClientTypes, id : MessageIds,
            body : 0 .. MaxLines, name : 0 .. MaxLines]
Datagram == [msg : Message, to : Ports]
Response == [type : NoticeKinds \cup {"CONFIRM", "REPLY"},
             id : MessageIds, ok : BOOLEAN]

\* A slot of the zero-initialised array.
Blank == [type |-> "BLANK", id |-> 0, body |-> 0, name |-> 0]
Control(type, id) == [type |-> type, id |-> id, body |-> 0, name |-> 0]
NoResponse == [type |-> "CONFIRM", id |-> 0, ok |-> FALSE]

\* The effects process_server_response performs for a datagram, in order.
Effects == {"port", "verify", "refuse", "confirm", "loadErr", "loadBye",
            "storeId", "send", "quit"}

-----------------------------------------------------------------------------
(* Control flow of a thread, the mutex and the network.                    *)

Step(t, from, to) == pc[t] = from /\ pc' = [pc EXCEPT ![t] = to]

Transmit(m) == toServer' = toServer \cup {[msg |-> m, to |-> server_port]}

\* pthread_mutex_lock returns EINVAL at once on a destroyed mutex.
Acquire(t) == /\ mutex \in {"free", "gone"}
              /\ mutex' = IF mutex = "free" THEN t ELSE mutex
Release(t) == mutex' = IF mutex = t THEN "free" ELSE mutex

\* generate_message_id loads the counter in one step, stores it in the next.
LoadId(t, m)  == draft' = [draft EXCEPT ![t] = [m EXCEPT !.id = last_message_id]]
StoreId(t)    == last_message_id' = NextId(draft[t].id)

\* The thread is done with the message it had: a local out of scope.
Discard(t) == draft' = [draft EXCEPT ![t] = Blank]

\* pending_messages[pending_messages_count++] = m, in the order gcc compiles
\* it to: load the count, store the count plus one, fill the slot.
LoadCount(t)  == slot' = [slot EXCEPT ![t] = pending_messages_count]
StoreCount(t) == pending_messages_count' = slot[t] + 1
FillSlot(t)   == /\ pending_messages' = [pending_messages EXCEPT ![slot[t]] = draft[t]]
                 /\ Discard(t)
                 /\ slot' = [slot EXCEPT ![t] = 0]

\* pthread_cond_signal wakes the command thread only if it already sleeps.
Signalled(park, to) == IF pc["cmd"] = park THEN [pc EXCEPT !["cmd"] = to] ELSE pc

\* The labels at which a thread with a cancellation request pending dies:
\* read, pthread_cond_wait, sendto, recvfrom.
CancellationPoint(t) ==
  \/ t = "cmd" /\ pc[t] \in {"read", "authPark", "authSleep", "msgPark",
                             "msgSleep", "send"}
  \/ t = "rcv" /\ \/ pc[t] = "recv"
                  \/ /\ pc[t] = "script"
                     /\ script # <<>> /\ Head(script) \in {"confirm", "send"}

=============================================================================
