-------------------------- MODULE UdpReceiveThread --------------------------
(***************************************************************************)
(* The receive thread of the UDP client: receive_messages and, with the    *)
(* mutex held, process_server_response.  A datagram of toClient is         *)
(* received any number of times, in any order, or never.                   *)
(***************************************************************************)
EXTENDS UdpState

Closing == {"BADMSG", "ERR", "BYE", "JUNK"}

\* Mutants: the verdict before the port, the stop flag before the BYE.
OnVerdictEarly(ok) == <<IF ok THEN "verify" ELSE "refuse", "port", "confirm">>
OnCloseEarly       == <<"confirm", "quit", "loadBye", "storeId", "send">>

\* A verdict is noted after the port it came from; the stop flag goes up last.
OnVerdict(ok) == <<"port", IF ok THEN "verify" ELSE "refuse", "confirm">>
OnClose       == <<"confirm", "loadBye", "storeId", "send", "quit">>

\* What process_server_response does for a datagram, effect by effect.
Script(d) ==
  CASE d.type = "REPLY" /\ u_current_command = "/auth" -> OnVerdict(d.ok)
    [] d.type \in {"ERR", "BYE"} -> OnClose
    [] d.type = "BADMSG" ->
         <<"confirm", "loadErr", "storeId", "send", "quit">>
    [] d.type = "JUNK" ->
         <<"loadErr", "storeId", "send", "loadBye", "storeId", "send", "quit">>
    [] OTHER -> <<"confirm">>

rcvElsewhere == <<pending_messages, have_sent, quit_requested,
                  receive_thread_active, userVars, localVars, cancelled,
                  serverVars>>

RcvTest ==
  /\ Step("rcv", "test", IF receive_thread_active THEN "recv" ELSE "dead")
  /\ UNCHANGED <<rcvElsewhere, pending_messages_count, confirmation_received,
                 quit, authVars, last_message_id, mutex, draft, slot, rcvVars,
                 exited, toServer>>

RcvReceive ==
  /\ Step("rcv", "recv", "lock")
  /\ "rcv" \notin cancelled
  /\ \E d \in toClient : /\ d.type \in Closing => last_message_id < MaxIds
                         /\ response' = d
  /\ UNCHANGED <<rcvElsewhere, pending_messages_count, confirmation_received,
                 quit, authVars, last_message_id, mutex, draft, slot, script,
                 exited, toServer>>

\* recvfrom fails: exit(EXIT_FAILURE).
RcvFails ==
  /\ Step("rcv", "recv", "dead")
  /\ IoErrors
  /\ "rcv" \notin cancelled
  /\ exited' = TRUE
  /\ UNCHANGED <<rcvElsewhere, pending_messages_count, confirmation_received,
                 quit, authVars, last_message_id, mutex, draft, slot, rcvVars,
                 toServer>>

RcvLock ==
  /\ Acquire("rcv")
  /\ IF response.type = "CONFIRM"
     THEN Step("rcv", "lock", "search") /\ UNCHANGED script
     ELSE Step("rcv", "lock", "script") /\ script' = Script(response)
  /\ UNCHANGED <<rcvElsewhere, pending_messages_count, confirmation_received,
                 quit, authVars, last_message_id, draft, slot, response,
                 exited, toServer>>

-----------------------------------------------------------------------------
(* CONFIRM: take the first pending message with that id out of the queue,  *)
(* then tell the send thread.  The queue's other users do not hold the     *)
(* mutex, so the removal is no atomic step.                                *)

Pending == {i \in 0 .. MaxPending - 1 : i < pending_messages_count}
Matches == {i \in Pending : pending_messages[i].id = response.id}
First   == CHOOSE i \in Matches : \A j \in Matches : i <= j

\* Close the gap at i: the last slot keeps its old content.
ShiftDown(i) ==
  [j \in 0 .. MaxPending - 1 |->
     IF i <= j /\ j + 1 \in Pending THEN pending_messages[j + 1]
                                    ELSE pending_messages[j]]

\* Mutant: a CONFIRM that matches nothing is counted all the same.
RcvSearchAnyway ==
  /\ Step("rcv", "search", "load")
  /\ pending_messages' = IF Matches = {} THEN pending_messages ELSE ShiftDown(First)
  /\ UNCHANGED <<have_sent, quit_requested, receive_thread_active, userVars,
                 localVars, cancelled, serverVars, pending_messages_count,
                 confirmation_received, quit, authVars, last_message_id,
                 mutex, draft, slot, rcvVars, exited, toServer>>

RcvSearch ==
  /\ IF Matches = {}
     THEN Step("rcv", "search", "unlock") /\ UNCHANGED pending_messages
     ELSE /\ pending_messages' = ShiftDown(First)
          /\ Step("rcv", "search", "load")
  /\ UNCHANGED <<have_sent, quit_requested, receive_thread_active, userVars,
                 localVars, cancelled, serverVars, pending_messages_count,
                 confirmation_received, quit, authVars, last_message_id,
                 mutex, draft, slot, rcvVars, exited, toServer>>

RcvLoadCount ==
  /\ Step("rcv", "load", "dec")
  /\ LoadCount("rcv")
  /\ UNCHANGED <<rcvElsewhere, pending_messages_count, confirmation_received,
                 quit, authVars, last_message_id, mutex, draft, rcvVars,
                 exited, toServer>>

\* Mutant: the message leaves the array but still counts.
RcvDecLost ==
  /\ Step("rcv", "dec", "flag")
  /\ slot' = [slot EXCEPT !["rcv"] = 0]
  /\ UNCHANGED <<rcvElsewhere, pending_messages_count, confirmation_received,
                 quit, authVars, last_message_id, mutex, draft, rcvVars,
                 exited, toServer>>

RcvDec ==
  /\ Step("rcv", "dec", "flag")
  /\ pending_messages_count' = slot["rcv"] - 1
  /\ slot' = [slot EXCEPT !["rcv"] = 0]
  /\ UNCHANGED <<rcvElsewhere, confirmation_received, quit, authVars,
                 last_message_id, mutex, draft, rcvVars, exited, toServer>>

RcvFlag ==
  /\ Step("rcv", "flag", "unlock")
  /\ confirmation_received' = TRUE
  /\ UNCHANGED <<rcvElsewhere, pending_messages_count, quit, authVars,
                 last_message_id, mutex, draft, slot, rcvVars, exited,
                 toServer>>

-----------------------------------------------------------------------------
(* The effects of the other datagrams, in the order of the script.         *)

Perform(e, pcAfter) ==
  /\ pc["rcv"] = "script"
  /\ script # <<>>
  /\ Head(script) = e
  /\ script' = Tail(script)
  /\ pc' = [pcAfter EXCEPT !["rcv"] = IF Tail(script) = <<>> THEN "unlock"
                                                             ELSE "script"]

\* Later datagrams go to the port the REPLY came from.
RcvPort ==
  /\ Perform("port", pc)
  /\ server_port' = "session"
  /\ UNCHANGED <<rcvElsewhere, pending_messages_count, confirmation_received,
                 quit, AUTH_VER, result_auth_flag, last_message_id, mutex,
                 draft, slot, response, exited, toServer>>

RcvVerify ==
  /\ Perform("verify", Signalled("authSleep", "authTest"))
  /\ AUTH_VER' = TRUE
  /\ UNCHANGED <<rcvElsewhere, pending_messages_count, confirmation_received,
                 quit, result_auth_flag, server_port, last_message_id, mutex,
                 draft, slot, response, exited, toServer>>

RcvRefuse ==
  /\ Perform("refuse", Signalled("authSleep", "authTest"))
  /\ result_auth_flag' = TRUE
  /\ UNCHANGED <<rcvElsewhere, pending_messages_count, confirmation_received,
                 quit, AUTH_VER, server_port, last_message_id, mutex,
                 draft, slot, response, exited, toServer>>

RcvConfirm ==
  /\ Perform("confirm", pc)
  /\ "rcv" \notin cancelled
  /\ Transmit(Control("CONFIRM", response.id))
  /\ UNCHANGED <<rcvElsewhere, pending_messages_count, confirmation_received,
                 quit, authVars, last_message_id, mutex, draft, slot,
                 response, exited>>

RcvLoadId ==
  /\ \/ LoadId("rcv", Control("ERR", 0)) /\ Perform("loadErr", pc)
     \/ LoadId("rcv", Control("BYE", 0)) /\ Perform("loadBye", pc)
  /\ UNCHANGED <<rcvElsewhere, pending_messages_count, confirmation_received,
                 quit, authVars, last_message_id, mutex, slot, response,
                 exited, toServer>>

RcvStoreId ==
  /\ Perform("storeId", pc)
  /\ StoreId("rcv")
  /\ UNCHANGED <<rcvElsewhere, pending_messages_count, confirmation_received,
                 quit, authVars, mutex, draft, slot, response, exited,
                 toServer>>

RcvSend ==
  /\ Perform("send", pc)
  /\ "rcv" \notin cancelled
  /\ Transmit(draft["rcv"])
  /\ Discard("rcv")
  /\ UNCHANGED <<rcvElsewhere, pending_messages_count, confirmation_received,
                 quit, authVars, last_message_id, mutex, slot, response,
                 exited>>

RcvQuit ==
  /\ Perform("quit", pc)
  /\ quit' = TRUE
  /\ UNCHANGED <<rcvElsewhere, pending_messages_count, confirmation_received,
                 authVars, last_message_id, mutex, draft, slot, response,
                 exited, toServer>>

RcvUnlock ==
  /\ Step("rcv", "unlock", "test")
  /\ Release("rcv")
  /\ response' = NoResponse
  /\ UNCHANGED <<rcvElsewhere, pending_messages_count, confirmation_received,
                 quit, authVars, last_message_id, draft, slot, script, exited,
                 toServer>>

\* Steps that do not wait for the network, and all steps.
RcvRun ==
  \/ RcvTest \/ RcvLock \/ RcvSearch \/ RcvLoadCount \/ RcvDec \/ RcvFlag
  \/ RcvPort \/ RcvVerify \/ RcvRefuse \/ RcvConfirm \/ RcvLoadId \/ RcvStoreId
  \/ RcvSend \/ RcvQuit \/ RcvUnlock
RcvNext == RcvRun \/ RcvReceive \/ RcvFails

=============================================================================
