---------------------------- MODULE UdpLifecycle ----------------------------
(***************************************************************************)
(* What ends the threads of the UDP client from outside: the signal        *)
(* handler, which runs on the main thread ("sig"), the main thread's       *)
(* pthread_joins, and cancellation taking effect.                          *)
(***************************************************************************)
EXTENDS UdpState

sigElsewhere == <<queueVars, flagVars, quit, receive_thread_active, authVars,
                  userVars, mutex, slot, localVars, rcvVars, cancelled,
                  serverVars>>

SigArrives ==
  /\ Step("sig", "idle", "storeId")
  /\ Interruptible
  /\ LoadId("sig", Control("BYE", 0))
  /\ UNCHANGED <<sigElsewhere, quit_requested, last_message_id, exited, toServer>>

SigStoreId ==
  /\ Step("sig", "storeId", "send")
  /\ StoreId("sig")
  /\ UNCHANGED <<sigElsewhere, quit_requested, draft, exited, toServer>>

SigSend ==
  /\ Step("sig", "send", "set")
  /\ Transmit(draft["sig"])
  /\ Discard("sig")
  /\ UNCHANGED <<sigElsewhere, quit_requested, last_message_id, exited>>

SigSet ==
  /\ Step("sig", "set", "dead")
  /\ quit_requested' = TRUE
  /\ UNCHANGED <<sigElsewhere, last_message_id, draft, exited, toServer>>

\* The three pthread_join calls return; so do connect_to_server_udp and main.
MainJoins ==
  /\ pc["sig"] \in {"idle", "dead"}
  /\ \A t \in {"cmd", "snd", "rcv"} : pc[t] = "dead"
  /\ exited' = TRUE
  /\ UNCHANGED <<sigElsewhere, quit_requested, last_message_id, draft, pc,
                 toServer>>

\* A cancelled thread dies where it is; it keeps the mutex if it holds it.
CancelDies(t) ==
  /\ t \in cancelled
  /\ CancellationPoint(t)
  /\ pc' = [pc EXCEPT ![t] = "dead"]
  /\ UNCHANGED <<sigElsewhere, quit_requested, last_message_id, draft, exited,
                 toServer>>

SigRun  == SigStoreId \/ SigSend \/ SigSet
LifeRun == MainJoins \/ CancelDies("cmd") \/ CancelDies("rcv")

=============================================================================
