---------------------------- MODULE UdpSendThread ----------------------------
(***************************************************************************)
(* The send thread of the UDP client, send_message_thread: stop-and-wait   *)
(* transmission of the head of the queue, retransmission after a timeout,  *)
(* and giving up after MaxRetrans transmissions.                           *)
(***************************************************************************)
EXTENDS UdpState

sndElsewhere == <<authVars, userVars, line, lines_read, rcvVars, exited,
                  serverVars>>

\* Mutant: the thread does not see that the server ended the session.
SndTestDeaf ==
  /\ Step("snd", "test", IF quit_requested THEN "cancel" ELSE "peek")
  /\ UNCHANGED <<sndElsewhere, queueVars, flagVars, stopVars, last_message_id,
                 mutex, draft, slot, retransmission_count, cancelled, toServer>>

SndTest ==
  /\ Step("snd", "test", IF quit \/ quit_requested THEN "cancel" ELSE "peek")
  /\ UNCHANGED <<sndElsewhere, queueVars, flagVars, stopVars, last_message_id,
                 mutex, draft, slot, retransmission_count, cancelled, toServer>>

\* pending_messages_count > 0 and the copy of slot 0; a nap if there is none.
SndPeek ==
  /\ IF pending_messages_count > 0
     THEN /\ draft' = [draft EXCEPT !["snd"] = pending_messages[0]]
          /\ Step("snd", "peek", "send")
     ELSE Step("snd", "peek", "test") /\ UNCHANGED draft
  /\ UNCHANGED <<sndElsewhere, queueVars, flagVars, stopVars, last_message_id,
                 mutex, slot, retransmission_count, cancelled, toServer>>

SndSend ==
  /\ Step("snd", "send", "reset")
  /\ Transmit(draft["snd"])
  /\ Discard("snd")
  /\ UNCHANGED <<sndElsewhere, queueVars, flagVars, stopVars, last_message_id,
                 mutex, slot, retransmission_count, cancelled>>

\* sendto fails: the thread returns, and nobody sends from then on.
SndSendFails ==
  /\ Step("snd", "send", "dead")
  /\ IoErrors
  /\ UNCHANGED <<sndElsewhere, queueVars, flagVars, stopVars, last_message_id,
                 mutex, draft, slot, retransmission_count, cancelled, toServer>>

\* Mutant: a confirmation of the message before passes for this one's.
SndResetForgotten ==
  /\ Step("snd", "reset", "sleep")
  /\ UNCHANGED <<sndElsewhere, queueVars, flagVars, stopVars, last_message_id,
                 mutex, draft, slot, retransmission_count, cancelled, toServer>>

\* The flag is cleared after the datagram has left.
SndReset ==
  /\ Step("snd", "reset", "sleep")
  /\ confirmation_received' = FALSE
  /\ UNCHANGED <<sndElsewhere, queueVars, have_sent, stopVars,
                 last_message_id, mutex, draft, slot, retransmission_count,
                 cancelled, toServer>>

GiveUp(n) == n >= MaxRetrans

\* Mutant: failures are not counted.
SndWakeUncounted ==
  /\ Step("snd", "sleep", IF confirmation_received THEN "settled" ELSE "test")
  /\ UNCHANGED <<sndElsewhere, queueVars, flagVars, stopVars, last_message_id,
                 mutex, draft, slot, retransmission_count, cancelled, toServer>>

\* The timeout is over: was the message confirmed meanwhile?
SndWake ==
  LET failures == retransmission_count + 1 IN
  /\ IF confirmation_received
     THEN Step("snd", "sleep", "settled") /\ UNCHANGED retransmission_count
     ELSE /\ retransmission_count' = failures
          /\ Step("snd", "sleep", IF GiveUp(failures) THEN "giveUp" ELSE "test")
  /\ UNCHANGED <<sndElsewhere, queueVars, flagVars, stopVars, last_message_id,
                 mutex, draft, slot, cancelled, toServer>>

\* Release the command thread: the flag, then the signal.
SndSettled ==
  /\ pc["snd"] = "settled"
  /\ have_sent' = TRUE
  /\ retransmission_count' = 0
  /\ pc' = [Signalled("msgSleep", "msgTest") EXCEPT !["snd"] = "test"]
  /\ UNCHANGED <<sndElsewhere, queueVars, confirmation_received, stopVars,
                 last_message_id, mutex, draft, slot, cancelled, toServer>>

-----------------------------------------------------------------------------
(* Giving up: release the command thread, stop, say BYE, queue the BYE.    *)

SndGiveUp ==
  /\ pc["snd"] = "giveUp"
  /\ have_sent' = TRUE
  /\ pc' = [Signalled("msgSleep", "msgTest") EXCEPT !["snd"] = "quit"]
  /\ UNCHANGED <<sndElsewhere, queueVars, confirmation_received, stopVars,
                 last_message_id, mutex, draft, slot, retransmission_count,
                 cancelled, toServer>>

SndQuit ==
  /\ Step("snd", "quit", "loadBye")
  /\ quit' = TRUE
  /\ receive_thread_active' = FALSE
  /\ UNCHANGED <<sndElsewhere, queueVars, flagVars, quit_requested,
                 last_message_id, mutex, draft, slot, retransmission_count,
                 cancelled, toServer>>

SndLoadBye ==
  /\ Step("snd", "loadBye", "storeId")
  /\ LoadId("snd", Control("BYE", 0))
  /\ UNCHANGED <<sndElsewhere, queueVars, flagVars, stopVars, last_message_id,
                 mutex, slot, retransmission_count, cancelled, toServer>>

SndStoreId ==
  /\ Step("snd", "storeId", "sendBye")
  /\ StoreId("snd")
  /\ UNCHANGED <<sndElsewhere, queueVars, flagVars, stopVars, mutex, draft,
                 slot, retransmission_count, cancelled, toServer>>

SndSendBye ==
  /\ Step("snd", "sendBye", "lock")
  /\ Transmit(draft["snd"])
  /\ UNCHANGED <<sndElsewhere, queueVars, flagVars, stopVars, last_message_id,
                 mutex, draft, slot, retransmission_count, cancelled>>

SndLock ==
  /\ Step("snd", "lock", "push")
  /\ Acquire("snd")
  /\ UNCHANGED <<sndElsewhere, queueVars, flagVars, stopVars, last_message_id,
                 draft, slot, retransmission_count, cancelled, toServer>>

SndLoadCount ==
  /\ Step("snd", "push", "pushCount")
  /\ LoadCount("snd")
  /\ UNCHANGED <<sndElsewhere, queueVars, flagVars, stopVars, last_message_id,
                 mutex, draft, retransmission_count, cancelled, toServer>>

SndStoreCount ==
  /\ Step("snd", "pushCount", "pushSlot")
  /\ StoreCount("snd")
  /\ UNCHANGED <<sndElsewhere, pending_messages, flagVars, stopVars,
                 last_message_id, mutex, draft, slot, retransmission_count,
                 cancelled, toServer>>

SndFillSlot ==
  /\ Step("snd", "pushSlot", "unlock")
  /\ FillSlot("snd")
  /\ UNCHANGED <<sndElsewhere, pending_messages_count, flagVars, stopVars,
                 last_message_id, mutex, retransmission_count, cancelled,
                 toServer>>

SndUnlock ==
  /\ Step("snd", "unlock", "cancel")
  /\ Release("snd")
  /\ UNCHANGED <<sndElsewhere, queueVars, flagVars, stopVars, last_message_id,
                 draft, slot, retransmission_count, cancelled, toServer>>

\* The thread cancels the other two and itself; the close() that follows is a
\* cancellation point, so it dies there and exit() is not reached.
SndCancel ==
  /\ Step("snd", "cancel", "dead")
  /\ cancelled' = cancelled \cup {"cmd", "rcv", "snd"}
  /\ UNCHANGED <<sndElsewhere, queueVars, flagVars, stopVars, last_message_id,
                 mutex, draft, slot, retransmission_count, toServer>>

SndNext ==
  \/ SndTest \/ SndPeek \/ SndSend \/ SndSendFails \/ SndReset \/ SndWake
  \/ SndSettled \/ SndGiveUp \/ SndQuit \/ SndLoadBye \/ SndStoreId
  \/ SndSendBye \/ SndLock \/ SndLoadCount \/ SndStoreCount \/ SndFillSlot
  \/ SndUnlock \/ SndCancel

=============================================================================
