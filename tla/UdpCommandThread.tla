-------------------------- MODULE UdpCommandThread --------------------------
(***************************************************************************)
(* The command thread of the UDP client: process_commands, which reads     *)
(* stdin, u_handle_command and the u_send_* functions it calls.            *)
(***************************************************************************)
EXTENDS UdpState

AuthLines == {"auth", "badAuth", "longAuth"}
MessageOf == [auth |-> "AUTH", join |-> "JOIN", msg |-> "MSG"]
Queued    == DOMAIN MessageOf

\* What u_handle_command writes to u_current_command, if anything.
CommandOf(k) ==
  CASE k \in AuthLines               -> "/auth"
    [] k \in {"join", "badJoin"}     -> "/join"
    [] k \in {"rename", "badRename"} -> "/rename"
    [] k = "help"                    -> "/help"
    [] OTHER                         -> u_current_command

\* Where the thread goes with a line it accepts: to compose a message, to
\* complain about its length, or to act locally.
Handler(k) == CASE k \in Queued                  -> "loadId"
                [] k \in {"longAuth", "longMsg"} -> "overlong"
                [] OTHER                         -> "local"

\* Mutant: the client does not ask whether it is verified.
RejectedLate(k) == k = "empty" \/ (AUTH_VER /\ k \in AuthLines)

\* Lines process_commands drops: empty ones, anything but /auth before the
\* client is verified, /auth afterwards.
Rejected(k) == \/ k = "empty"
               \/ ~AUTH_VER /\ k \notin AuthLines
               \/ AUTH_VER /\ k \in AuthLines

\* Behind the loop: BYE if the user asked to quit, then the end.
AfterLoop == IF quit_requested THEN "loadBye" ELSE "teardown"

cmdElsewhere == <<confirmation_received, AUTH_VER, server_port,
                  retransmission_count, rcvVars, serverVars>>

-----------------------------------------------------------------------------
(* The loop: test the stop flags, read a line, decide what to do with it.  *)

CmdTest ==
  /\ Step("cmd", "test", IF quit \/ quit_requested THEN AfterLoop ELSE "read")
  /\ UNCHANGED <<cmdElsewhere, have_sent, stopVars, result_auth_flag, lifeVars,
                 queueVars, userVars, last_message_id, mutex, draft, slot,
                 line, lines_read, toServer>>

CmdRead ==
  /\ "cmd" \notin cancelled
  /\ lines_read < MaxLines
  /\ lines_read' = lines_read + 1
  /\ \E k \in Lines \ {"eof", "readError"} :
       IF Rejected(k)
       THEN Step("cmd", "read", "test") /\ UNCHANGED <<line, u_current_command>>
       ELSE /\ Step("cmd", "read", Handler(k))
            /\ line' = k
            /\ u_current_command' = CommandOf(k)
  /\ UNCHANGED <<cmdElsewhere, have_sent, stopVars, result_auth_flag, lifeVars,
                 queueVars, u_dname, submitted, last_message_id, mutex, draft,
                 slot, toServer>>

\* Mutant: the end of file ends the session without a BYE.
CmdEofSilent ==
  /\ "eof" \in Lines /\ "cmd" \notin cancelled
  /\ Step("cmd", "read", "teardown")
  /\ quit_requested' = TRUE
  /\ UNCHANGED <<cmdElsewhere, have_sent, quit, receive_thread_active,
                 result_auth_flag, lifeVars, queueVars, userVars,
                 last_message_id, mutex, draft, slot, line, lines_read,
                 toServer>>

\* fgets returns NULL: only the end of file counts as a request to quit.
CmdEof ==
  /\ "eof" \in Lines /\ "cmd" \notin cancelled
  /\ Step("cmd", "read", "loadBye")
  /\ quit_requested' = TRUE
  /\ UNCHANGED <<cmdElsewhere, have_sent, quit, receive_thread_active,
                 result_auth_flag, lifeVars, queueVars, userVars,
                 last_message_id, mutex, draft, slot, line, lines_read,
                 toServer>>

CmdReadError ==
  /\ "readError" \in Lines /\ "cmd" \notin cancelled
  /\ Step("cmd", "read", AfterLoop)
  /\ UNCHANGED <<cmdElsewhere, have_sent, stopVars, result_auth_flag, lifeVars,
                 queueVars, userVars, last_message_id, mutex, draft, slot,
                 line, lines_read, toServer>>

\* A field or a message that is too long makes the client quit.
CmdOverlong ==
  /\ Step("cmd", "overlong", IF line = "longAuth" THEN "authTest" ELSE "msgTest")
  /\ quit' = TRUE
  /\ line' = "empty"
  /\ UNCHANGED <<cmdElsewhere, have_sent, quit_requested,
                 receive_thread_active, result_auth_flag, lifeVars, queueVars,
                 userVars, last_message_id, mutex, draft, slot, lines_read,
                 toServer>>

\* Commands that send nothing release the thread themselves.  process_commands
\* waits for a verdict after every /auth, a malformed one included.
CmdLocal ==
  /\ Step("cmd", "local", IF line \in AuthLines THEN "authTest" ELSE "slash")
  /\ have_sent' = TRUE
  /\ u_dname' = IF line = "rename" THEN lines_read ELSE u_dname
  /\ line' = "empty"
  /\ UNCHANGED <<cmdElsewhere, stopVars, result_auth_flag, lifeVars, queueVars,
                 u_current_command, submitted, last_message_id, mutex, draft,
                 slot, lines_read, toServer>>

-----------------------------------------------------------------------------
(* u_send_auth_message, u_send_join_message, u_send_message.               *)

CmdLoadId ==
  /\ Step("cmd", "loadId", "storeId")
  /\ LoadId("cmd", [type |-> MessageOf[line], id |-> 0, body |-> lines_read,
                    name |-> IF line = "auth" THEN lines_read ELSE u_dname])
  /\ line' = "empty"
  /\ UNCHANGED <<cmdElsewhere, have_sent, stopVars, result_auth_flag, lifeVars,
                 queueVars, userVars, last_message_id, mutex, slot, lines_read,
                 toServer>>

\* Shared with the BYE below, which is sent at once and then queued.
CmdStoreId ==
  /\ Step("cmd", "storeId", IF draft["cmd"].type = "BYE" THEN "send" ELSE "push")
  /\ StoreId("cmd")
  /\ UNCHANGED <<cmdElsewhere, have_sent, stopVars, result_auth_flag, lifeVars,
                 queueVars, userVars, mutex, draft, slot, line, lines_read,
                 toServer>>

CmdLoadCount ==
  /\ Step("cmd", "push", "pushCount")
  /\ LoadCount("cmd")
  /\ UNCHANGED <<cmdElsewhere, have_sent, stopVars, result_auth_flag, lifeVars,
                 queueVars, userVars, last_message_id, mutex, draft, line,
                 lines_read, toServer>>

CmdStoreCount ==
  /\ Step("cmd", "pushCount", "pushSlot")
  /\ StoreCount("cmd")
  /\ UNCHANGED <<cmdElsewhere, have_sent, stopVars, result_auth_flag, lifeVars,
                 pending_messages, userVars, last_message_id, mutex, draft,
                 slot, line, lines_read, toServer>>

CmdFillSlot ==
  /\ Step("cmd", "pushSlot", CASE draft["cmd"].type = "AUTH" -> "authTest"
                               [] draft["cmd"].type = "JOIN" -> "slash"
                               [] draft["cmd"].type = "BYE"  -> "unlock"
                               [] OTHER                      -> "msgTest")
  /\ FillSlot("cmd")
  /\ u_dname' = IF draft["cmd"].type = "AUTH" THEN draft["cmd"].name ELSE u_dname
  /\ submitted' = IF draft["cmd"].type \in UserTypes
                  THEN Append(submitted, draft["cmd"]) ELSE submitted
  /\ UNCHANGED <<cmdElsewhere, have_sent, stopVars, result_auth_flag, lifeVars,
                 pending_messages_count, u_current_command, last_message_id,
                 mutex, line, lines_read, toServer>>

-----------------------------------------------------------------------------
(* Waiting for the verdict on an /auth and for the send thread.  Between   *)
(* the test of the flag and pthread_cond_wait ("authPark", "msgPark") a    *)
(* signal wakes nobody: the signalling threads do not take the mutex.      *)

CmdAuthTest ==
  /\ IF AUTH_VER \/ result_auth_flag
     THEN Step("cmd", "authTest", "slash") /\ result_auth_flag' = FALSE
     ELSE Step("cmd", "authTest", "authPark") /\ UNCHANGED result_auth_flag
  /\ UNCHANGED <<cmdElsewhere, have_sent, stopVars, lifeVars, queueVars,
                 userVars, last_message_id, mutex, draft, slot, line,
                 lines_read, toServer>>

CmdSlash ==
  /\ Step("cmd", "slash", IF quit THEN AfterLoop ELSE "msgTest")
  /\ UNCHANGED <<cmdElsewhere, have_sent, stopVars, result_auth_flag, lifeVars,
                 queueVars, userVars, last_message_id, mutex, draft, slot,
                 line, lines_read, toServer>>

\* Mutants: a verified client waits for nothing; have_sent stays up for the
\* next message.
CmdMsgTestVerified ==
  /\ IF have_sent \/ AUTH_VER
     THEN Step("cmd", "msgTest", "test") /\ have_sent' = FALSE
     ELSE Step("cmd", "msgTest", "msgPark") /\ UNCHANGED have_sent
  /\ UNCHANGED <<cmdElsewhere, stopVars, result_auth_flag, lifeVars, queueVars,
                 userVars, last_message_id, mutex, draft, slot, line,
                 lines_read, toServer>>

CmdMsgTestSticky ==
  /\ Step("cmd", "msgTest", IF have_sent THEN "test" ELSE "msgPark")
  /\ UNCHANGED <<cmdElsewhere, have_sent, stopVars, result_auth_flag, lifeVars,
                 queueVars, userVars, last_message_id, mutex, draft, slot,
                 line, lines_read, toServer>>

CmdMsgTest ==
  /\ IF have_sent
     THEN Step("cmd", "msgTest", "test") /\ have_sent' = FALSE
     ELSE Step("cmd", "msgTest", "msgPark") /\ UNCHANGED have_sent
  /\ UNCHANGED <<cmdElsewhere, stopVars, result_auth_flag, lifeVars, queueVars,
                 userVars, last_message_id, mutex, draft, slot, line,
                 lines_read, toServer>>

CmdSleep ==
  /\ "cmd" \notin cancelled
  /\ \/ Step("cmd", "authPark", "authSleep")
     \/ Step("cmd", "msgPark", "msgSleep")
  /\ UNCHANGED <<cmdElsewhere, have_sent, stopVars, result_auth_flag, lifeVars,
                 queueVars, userVars, last_message_id, mutex, draft, slot,
                 line, lines_read, toServer>>

\* pthread_cond_wait may return without a signal.
CmdSpuriousWakeup ==
  /\ "cmd" \notin cancelled
  /\ \/ Step("cmd", "authSleep", "authTest")
     \/ Step("cmd", "msgSleep", "msgTest")
  /\ UNCHANGED <<cmdElsewhere, have_sent, stopVars, result_auth_flag, lifeVars,
                 queueVars, userVars, last_message_id, mutex, draft, slot,
                 line, lines_read, toServer>>

-----------------------------------------------------------------------------
(* After the loop.                                                         *)

CmdLoadBye ==
  /\ Step("cmd", "loadBye", "storeId")
  /\ LoadId("cmd", Control("BYE", 0))
  /\ UNCHANGED <<cmdElsewhere, have_sent, stopVars, result_auth_flag, lifeVars,
                 queueVars, userVars, last_message_id, mutex, slot, line,
                 lines_read, toServer>>

CmdSendBye ==
  /\ "cmd" \notin cancelled
  /\ Step("cmd", "send", "lock")
  /\ Transmit(draft["cmd"])
  /\ UNCHANGED <<cmdElsewhere, have_sent, stopVars, result_auth_flag, lifeVars,
                 queueVars, userVars, last_message_id, mutex, draft, slot,
                 line, lines_read>>

CmdLock ==
  /\ Step("cmd", "lock", "push")
  /\ Acquire("cmd")
  /\ UNCHANGED <<cmdElsewhere, have_sent, stopVars, result_auth_flag, lifeVars,
                 queueVars, userVars, last_message_id, draft, slot, line,
                 lines_read, toServer>>

CmdUnlock ==
  /\ Step("cmd", "unlock", "teardown")
  /\ Release("cmd")
  /\ UNCHANGED <<cmdElsewhere, have_sent, stopVars, result_auth_flag, lifeVars,
                 queueVars, userVars, last_message_id, draft, slot, line,
                 lines_read, toServer>>

\* pthread_mutex_destroy leaves a mutex alone that is held (EBUSY).
CmdTeardown ==
  /\ Step("cmd", "teardown", "drain")
  /\ receive_thread_active' = FALSE
  /\ mutex' = IF mutex = "free" THEN "gone" ELSE mutex
  /\ UNCHANGED <<cmdElsewhere, have_sent, quit, quit_requested,
                 result_auth_flag, lifeVars, queueVars, userVars,
                 last_message_id, draft, slot, line, lines_read, toServer>>

\* Lock and unlock once more, cancel the other threads, exit(EXIT_SUCCESS).
CmdExit ==
  /\ Step("cmd", "drain", "dead")
  /\ mutex \in {"free", "gone"}
  /\ exited' = TRUE
  /\ cancelled' = cancelled \cup {"rcv", "snd"}
  /\ UNCHANGED <<cmdElsewhere, have_sent, stopVars, result_auth_flag,
                 queueVars, userVars, last_message_id, mutex, draft, slot,
                 line, lines_read, toServer>>

\* Steps the user has no part in, and all steps.
CmdRun ==
  \/ CmdTest \/ CmdOverlong \/ CmdLocal \/ CmdLoadId \/ CmdStoreId
  \/ CmdLoadCount \/ CmdStoreCount \/ CmdFillSlot \/ CmdAuthTest \/ CmdSlash
  \/ CmdMsgTest \/ CmdSleep \/ CmdLoadBye \/ CmdSendBye \/ CmdLock
  \/ CmdUnlock \/ CmdTeardown \/ CmdExit
CmdNext == CmdRun \/ CmdRead \/ CmdEof \/ CmdReadError \/ CmdSpuriousWakeup

=============================================================================
