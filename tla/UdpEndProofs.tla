---------------------------- MODULE UdpEndProofs ----------------------------
(***************************************************************************)
(* The end of the UDP client: it is announced, and a user who asks for it  *)
(* has a BYE sent.                                                         *)
(***************************************************************************)
EXTENDS UdpTypeProofs

USE ConstantsAssumption DEF Threads

-----------------------------------------------------------------------------
(* What a step of one thread leaves alone in the others.                   *)

\* A thread that composes leaves the drafts of the others alone.
LEMMA DraftFrame ==
  ASSUME TypeInv, NEW t \in Threads, NEW u \in Threads \ {t}, NEW m,
         draft' = [draft EXCEPT ![t] = m]
  PROVE  draft'[u] = draft[u]
  BY DEF TypeInv, TypeOK, ThreadType

\* The command thread works on its own draft and label.
LEMMA CmdFrame ==
  ASSUME TypeInv, CmdNext, NEW u \in Threads \ {"cmd"}
  PROVE  /\ draft'[u] = draft[u] /\ pc'[u] = pc[u]
         /\ UNCHANGED <<response, script, retransmission_count>>
         /\ toServer \subseteq toServer'
<1>1. UNCHANGED <<response, script, retransmission_count>>
  BY Zenon DEF CmdNext, CmdRun, cmdElsewhere, rcvVars, CmdTest, CmdOverlong,
     CmdLocal, CmdLoadId, CmdStoreId, CmdLoadCount, CmdStoreCount, CmdFillSlot,
     CmdAuthTest, CmdSlash, CmdMsgTest, CmdSleep, CmdLoadBye, CmdSendBye,
     CmdLock, CmdUnlock, CmdTeardown, CmdExit, CmdRead, CmdEof, CmdReadError,
     CmdSpuriousWakeup
<1>2. UNCHANGED draft \/ \E m : draft' = [draft EXCEPT !["cmd"] = m]
  BY Zenon DEF CmdNext, CmdRun, CmdTest, CmdOverlong, CmdLocal, CmdLoadId,
     CmdStoreId, CmdLoadCount, CmdStoreCount, CmdFillSlot, FillSlot, Discard,
     LoadId, CmdAuthTest, CmdSlash, CmdMsgTest, CmdSleep, CmdLoadBye,
     CmdSendBye, CmdLock, CmdUnlock, CmdTeardown, CmdExit, CmdRead, CmdEof,
     CmdReadError, CmdSpuriousWakeup
<1>3. \E l : pc' = [pc EXCEPT !["cmd"] = l]
  BY Zenon DEF CmdNext, CmdRun, Step, CmdTest, CmdOverlong, CmdLocal,
     CmdLoadId, CmdStoreId, CmdLoadCount, CmdStoreCount, CmdFillSlot,
     CmdAuthTest, CmdSlash, CmdMsgTest, CmdSleep, CmdLoadBye, CmdSendBye,
     CmdLock, CmdUnlock, CmdTeardown, CmdExit, CmdRead, CmdEof, CmdReadError,
     CmdSpuriousWakeup
<1>4. UNCHANGED toServer \/ \E m : Transmit(m)
  BY Zenon DEF CmdNext, CmdRun, CmdTest, CmdOverlong, CmdLocal, CmdLoadId,
     CmdStoreId, CmdLoadCount, CmdStoreCount, CmdFillSlot, CmdAuthTest,
     CmdSlash, CmdMsgTest, CmdSleep, CmdLoadBye, CmdSendBye, CmdLock,
     CmdUnlock, CmdTeardown, CmdExit, CmdRead, CmdEof, CmdReadError,
     CmdSpuriousWakeup
<1>. QED
  BY <1>1, <1>2, <1>3, <1>4, DraftFrame DEF Transmit, TypeInv, TypeOK, ThreadType

\* The send thread works on its own draft and label; its signals move the
\* command thread out of its sleep.
LEMMA SndFrame ==
  ASSUME TypeInv, SndNext, NEW u \in Threads \ {"snd"}
  PROVE  /\ draft'[u] = draft[u]
         /\ \/ pc'[u] = pc[u]
            \/ u = "cmd" /\ pc[u] = "msgSleep" /\ pc'[u] = "msgTest"
         /\ UNCHANGED <<response, script, line, lines_read, submitted,
                         quit_requested, exited>>
         /\ cancelled \subseteq cancelled' /\ toServer \subseteq toServer'
<1>1. UNCHANGED <<response, script, line, lines_read, submitted, quit_requested,
                  exited>>
  BY Zenon DEF SndNext, sndElsewhere, stopVars, userVars, rcvVars, SndTest, SndPeek,
     SndSend, SndSendFails, SndReset, SndWake, SndSettled, SndGiveUp, SndQuit,
     SndLoadBye, SndStoreId, SndSendBye, SndLock, SndLoadCount, SndStoreCount,
     SndFillSlot, SndUnlock, SndCancel
<1>2. UNCHANGED draft \/ \E m : draft' = [draft EXCEPT !["snd"] = m]
  BY Zenon DEF FillSlot, Discard, LoadId,
     SndNext, sndElsewhere, stopVars, userVars, rcvVars, SndTest, SndPeek,
     SndSend, SndSendFails, SndReset, SndWake, SndSettled, SndGiveUp, SndQuit,
     SndLoadBye, SndStoreId, SndSendBye, SndLock, SndLoadCount, SndStoreCount,
     SndFillSlot, SndUnlock, SndCancel
<1>3. \/ \E l : pc' = [pc EXCEPT !["snd"] = l]
      \/ \E l : pc' = [Signalled("msgSleep", "msgTest") EXCEPT !["snd"] = l]
  BY Zenon DEF Step,
     SndNext, sndElsewhere, stopVars, userVars, rcvVars, SndTest, SndPeek,
     SndSend, SndSendFails, SndReset, SndWake, SndSettled, SndGiveUp, SndQuit,
     SndLoadBye, SndStoreId, SndSendBye, SndLock, SndLoadCount, SndStoreCount,
     SndFillSlot, SndUnlock, SndCancel
<1>4. UNCHANGED toServer \/ \E m : Transmit(m)
  BY Zenon DEF SndNext, sndElsewhere, stopVars, userVars, rcvVars, SndTest, SndPeek,
     SndSend, SndSendFails, SndReset, SndWake, SndSettled, SndGiveUp, SndQuit,
     SndLoadBye, SndStoreId, SndSendBye, SndLock, SndLoadCount, SndStoreCount,
     SndFillSlot, SndUnlock, SndCancel
<1>5. UNCHANGED cancelled \/ cancelled' = cancelled \cup {"cmd", "rcv", "snd"}
  BY Zenon DEF SndNext, sndElsewhere, stopVars, userVars, rcvVars, SndTest, SndPeek,
     SndSend, SndSendFails, SndReset, SndWake, SndSettled, SndGiveUp, SndQuit,
     SndLoadBye, SndStoreId, SndSendBye, SndLock, SndLoadCount, SndStoreCount,
     SndFillSlot, SndUnlock, SndCancel
<1>. QED
  BY <1>1, <1>2, <1>3, <1>4, <1>5, DraftFrame
     DEF Transmit, Signalled, TypeInv, TypeOK, ThreadType

\* The receive thread works on its own draft and label; its signals move the
\* command thread out of its sleep.
LEMMA RcvFrame ==
  ASSUME TypeInv, RcvNext, NEW u \in Threads \ {"rcv"}
  PROVE  /\ draft'[u] = draft[u]
         /\ \/ pc'[u] = pc[u]
            \/ u = "cmd" /\ pc[u] = "authSleep" /\ pc'[u] = "authTest"
         /\ UNCHANGED <<line, lines_read, retransmission_count, submitted,
                         have_sent, quit_requested, cancelled>>
         /\ toServer \subseteq toServer'
<1>1. UNCHANGED <<line, lines_read, retransmission_count, submitted, have_sent,
                  quit_requested, cancelled>>
  BY Zenon DEF userVars,
     RcvNext, RcvRun, rcvElsewhere, localVars, rcvVars, RcvTest, RcvReceive,
     RcvFails, RcvLock, RcvSearch, RcvLoadCount, RcvDec, RcvFlag, RcvPort,
     RcvVerify, RcvRefuse, RcvConfirm, RcvLoadId, RcvStoreId, RcvSend, RcvQuit,
     RcvUnlock
<1>2. UNCHANGED draft \/ \E m : draft' = [draft EXCEPT !["rcv"] = m]
  BY Zenon DEF Discard, LoadId,
     RcvNext, RcvRun, rcvElsewhere, localVars, rcvVars, RcvTest, RcvReceive,
     RcvFails, RcvLock, RcvSearch, RcvLoadCount, RcvDec, RcvFlag, RcvPort,
     RcvVerify, RcvRefuse, RcvConfirm, RcvLoadId, RcvStoreId, RcvSend, RcvQuit,
     RcvUnlock
<1>3. \/ \E l : pc' = [pc EXCEPT !["rcv"] = l]
      \/ \E l : pc' = [Signalled("authSleep", "authTest") EXCEPT !["rcv"] = l]
  BY Zenon DEF Step, Perform,
     RcvNext, RcvRun, rcvElsewhere, localVars, rcvVars, RcvTest, RcvReceive,
     RcvFails, RcvLock, RcvSearch, RcvLoadCount, RcvDec, RcvFlag, RcvPort,
     RcvVerify, RcvRefuse, RcvConfirm, RcvLoadId, RcvStoreId, RcvSend, RcvQuit,
     RcvUnlock
<1>4. UNCHANGED toServer \/ \E m : Transmit(m)
  BY Zenon DEF RcvNext, RcvRun, rcvElsewhere, localVars, rcvVars, RcvTest, RcvReceive,
     RcvFails, RcvLock, RcvSearch, RcvLoadCount, RcvDec, RcvFlag, RcvPort,
     RcvVerify, RcvRefuse, RcvConfirm, RcvLoadId, RcvStoreId, RcvSend, RcvQuit,
     RcvUnlock
<1>. QED
  BY <1>1, <1>2, <1>3, <1>4, DraftFrame
     DEF Transmit, Signalled, TypeInv, TypeOK, ThreadType

\* The signal handler works on its own draft and label.
LEMMA SigFrame ==
  ASSUME TypeInv, SigArrives \/ SigRun, NEW u \in Threads \ {"sig"}
  PROVE  /\ draft'[u] = draft[u] /\ pc'[u] = pc[u]
         /\ UNCHANGED <<queueVars, flagVars, slot, quit, localVars, rcvVars,
                         cancelled, exited, submitted>>
         /\ toServer \subseteq toServer'
<1>1. UNCHANGED <<queueVars, flagVars, slot, quit, localVars, rcvVars, cancelled,
                  exited, submitted>>
  BY Zenon DEF SigRun, SigArrives, SigStoreId, SigSend, SigSet, sigElsewhere,
     userVars
<1>2. UNCHANGED draft \/ \E m : draft' = [draft EXCEPT !["sig"] = m]
  BY Zenon DEF SigRun, SigArrives, SigStoreId, SigSend, SigSet, LoadId, Discard
<1>3. \E l : pc' = [pc EXCEPT !["sig"] = l]
  BY Zenon DEF SigRun, SigArrives, SigStoreId, SigSend, SigSet, Step
<1>4. UNCHANGED toServer \/ \E m : Transmit(m)
  BY Zenon DEF SigRun, SigArrives, SigStoreId, SigSend, SigSet
<1>. QED
  BY <1>1, <1>2, <1>3, <1>4, DraftFrame DEF Transmit, TypeInv, TypeOK, ThreadType

clientVars == <<queueVars, flagVars, stopVars, userVars, localVars, rcvVars,
                draft, slot, toServer, cancelled>>

\* pthread_join and cancellation end threads and the process, no more.
LEMMA LifeFrame ==
  ASSUME TypeInv, LifeRun
  PROVE  /\ UNCHANGED clientVars
         /\ \/ /\ pc' = pc /\ exited' = TRUE
               /\ \A t \in {"cmd", "snd", "rcv"} : pc[t] = "dead"
            \/ /\ UNCHANGED exited
               /\ \E t \in {"cmd", "rcv"} :
                    /\ t \in cancelled /\ CancellationPoint(t)
                    /\ pc' = [pc EXCEPT ![t] = "dead"]
<1>1. UNCHANGED clientVars
  BY Zenon DEF LifeRun, MainJoins, CancelDies, sigElsewhere, clientVars,
     stopVars, queueVars, flagVars, userVars, localVars, rcvVars
<1>. QED
  BY <1>1 DEF LifeRun, MainJoins, CancelDies

\* The server changes nothing of the client.
LEMMA SrvFrame ==
  ASSUME SrvNext \/ UNCHANGED vars
  PROVE  UNCHANGED <<clientVars, pc, exited>>
  BY Zenon DEF SrvNext, SrvConfirm, SrvServe, SrvNotify, srvElsewhere, vars,
     clientVars, queueVars, flagVars, stopVars, userVars, localVars, rcvVars,
     lifeVars

-----------------------------------------------------------------------------
(* A user who asks for the end has a BYE sent.                             *)

\* The command thread is on its way to send a BYE.
ByeComing ==
  \/ pc["cmd"] \in {"loadBye", "send"}
  \/ pc["cmd"] = "storeId" /\ draft["cmd"].type = "BYE"

\* The handler sets quit_requested behind its BYE, the command thread before
\* it; what the two send is a BYE.
ByeInv ==
  /\ pc["cmd"] = "send" => draft["cmd"].type = "BYE"
  /\ pc["sig"] \in {"storeId", "send"} => draft["sig"].type = "BYE"
  /\ pc["sig"] \in {"set", "dead"} => SaidBye
  /\ quit_requested => \/ SaidBye
                       \/ ByeComing
                       \/ pc["cmd"] = "dead" /\ "cmd" \in cancelled
  /\ exited => pc["cmd"] = "dead" \/ IoErrors

\* What is on the network to the server stays there.
LEMMA SaidByeStays ==
  ASSUME SaidBye, toServer \subseteq toServer'
  PROVE  SaidBye'
  BY DEF SaidBye

\* Sending a BYE says it.
LEMMA TransmitSays ==
  ASSUME NEW m, m.type = "BYE", Transmit(m)
  PROVE  SaidBye'
<1>. DEFINE d == [msg |-> m, to |-> server_port]
<1>1. d \in toServer' /\ d.msg.type = "BYE"
  BY DEF Transmit
<1>. QED
  BY <1>1 DEF SaidBye

\* A BYE keeps its type when its id is filled in.
LEMMA LoadByeType ==
  ASSUME TypeInv, NEW t \in Threads, LoadId(t, Control("BYE", 0))
  PROVE  draft'[t].type = "BYE"
  BY DEF LoadId, Control, TypeInv, TypeOK, ThreadType

LEMMA CmdBye ==
  ASSUME TypeInv, ByeInv, ~exited, CmdNext
  PROVE  ByeInv'
<1>1. /\ pc'["sig"] = pc["sig"] /\ draft'["sig"] = draft["sig"]
      /\ toServer \subseteq toServer'
  BY CmdFrame
<1>2. /\ pc \in [Threads -> Labels] /\ draft \in [Threads -> Message]
      /\ quit_requested \in BOOLEAN
  BY Zenon DEF TypeInv, TypeOK, ThreadType, MemoryType
<1>3. SaidBye => SaidBye'
  BY <1>1, SaidByeStays
<1>4. CASE CmdEof
  <2>1. pc'["cmd"] = "loadBye" /\ UNCHANGED exited
    BY <1>2, <1>4 DEF CmdEof, Step, lifeVars
  <2>. QED
    BY <1>1, <1>3, <2>1 DEF ByeInv, ByeComing
<1>5. CASE CmdLoadBye
  <2>1. /\ pc'["cmd"] = "storeId" /\ draft'["cmd"].type = "BYE"
        /\ UNCHANGED exited
    BY <1>2, <1>5, LoadByeType DEF CmdLoadBye, Step, lifeVars
  <2>. QED
    BY <1>1, <1>3, <2>1 DEF ByeInv, ByeComing
<1>6. CASE CmdStoreId
  <2>1. /\ pc["cmd"] = "storeId" /\ UNCHANGED <<exited, quit_requested, draft>>
        /\ pc'["cmd"] = IF draft["cmd"].type = "BYE" THEN "send" ELSE "push"
    BY <1>2, <1>6 DEF CmdStoreId, Step, lifeVars, stopVars
  <2>. QED
    BY <1>1, <1>3, <2>1 DEF ByeInv, ByeComing
<1>7. CASE CmdSendBye
  <2>1. /\ Transmit(draft["cmd"]) /\ pc["cmd"] = "send" /\ pc'["cmd"] = "lock"
        /\ UNCHANGED exited
    BY <1>2, <1>7 DEF CmdSendBye, Step, lifeVars
  <2>2. SaidBye'
    BY <2>1, TransmitSays DEF ByeInv
  <2>. QED
    BY <1>1, <2>1, <2>2 DEF ByeInv
<1>8. CASE CmdExit
  <2>1. /\ pc["cmd"] = "drain" /\ pc'["cmd"] = "dead" /\ UNCHANGED quit_requested
    BY <1>2, <1>8 DEF CmdExit, Step, stopVars
  <2>. QED
    BY <1>1, <1>3, <2>1 DEF ByeInv, ByeComing
<1>9. CASE ~CmdEof /\ ~CmdLoadBye /\ ~CmdStoreId /\ ~CmdSendBye /\ ~CmdExit
  <2>1. /\ pc["cmd"] \notin {"loadBye", "send", "storeId", "dead"}
        /\ pc'["cmd"] # "send"
    BY <1>2, <1>9 DEF CmdNext, CmdRun, Step, CmdTest, CmdOverlong, CmdLocal,
       CmdLoadId, CmdLoadCount, CmdStoreCount, CmdFillSlot, CmdAuthTest,
       CmdSlash, CmdMsgTest, CmdSleep, CmdLock, CmdUnlock, CmdTeardown,
       CmdRead, CmdReadError, CmdSpuriousWakeup, AfterLoop, Handler
  <2>2. UNCHANGED <<exited, quit_requested>>
    BY <1>9, Zenon DEF CmdNext, CmdRun, stopVars, lifeVars, CmdTest,
       CmdOverlong, CmdLocal, CmdLoadId, CmdLoadCount, CmdStoreCount,
       CmdFillSlot, CmdAuthTest, CmdSlash, CmdMsgTest, CmdSleep, CmdLock,
       CmdUnlock, CmdTeardown, CmdRead, CmdReadError, CmdSpuriousWakeup
  <2>. QED
    BY <1>1, <1>3, <2>1, <2>2 DEF ByeInv, ByeComing
<1>. QED
  BY <1>4, <1>5, <1>6, <1>7, <1>8, <1>9

\* A step that leaves the labels, the drafts and the end to the command thread
\* and the handler.
LEMMA ByeStutter ==
  ASSUME TypeInv, ByeInv, toServer \subseteq toServer',
         cancelled \subseteq cancelled',
         UNCHANGED quit_requested,
         draft'["cmd"] = draft["cmd"], draft'["sig"] = draft["sig"],
         \/ pc'["cmd"] = pc["cmd"]
         \/ /\ pc["cmd"] \in {"authSleep", "msgSleep"}
            /\ pc'["cmd"] \in {"authTest", "msgTest"},
         pc'["sig"] = pc["sig"],
         exited' => exited \/ IoErrors
  PROVE  ByeInv'
<1>1. SaidBye => SaidBye'
  BY SaidByeStays
<1>. QED
  BY <1>1 DEF ByeInv, ByeComing

LEMMA SigBye ==
  ASSUME TypeInv, ByeInv, SigArrives \/ SigRun
  PROVE  ByeInv'
<1>1. /\ pc'["cmd"] = pc["cmd"] /\ draft'["cmd"] = draft["cmd"]
      /\ UNCHANGED <<cancelled, exited>> /\ toServer \subseteq toServer'
  BY SigFrame
<1>2. pc \in [Threads -> Labels] /\ draft \in [Threads -> Message]
  BY Zenon DEF TypeInv, TypeOK, ThreadType
<1>3. SaidBye => SaidBye'
  BY <1>1, SaidByeStays
<1>4. CASE SigArrives
  <2>1. /\ pc'["sig"] = "storeId" /\ draft'["sig"].type = "BYE"
        /\ UNCHANGED quit_requested
    BY <1>2, <1>4, LoadByeType DEF SigArrives, Step
  <2>. QED
    BY <1>1, <1>3, <2>1 DEF ByeInv, ByeComing
<1>5. CASE SigStoreId
  <2>1. /\ pc["sig"] = "storeId" /\ pc'["sig"] = "send"
        /\ UNCHANGED <<draft, quit_requested>>
    BY <1>2, <1>5 DEF SigStoreId, Step
  <2>. QED
    BY <1>1, <1>3, <2>1 DEF ByeInv, ByeComing
<1>6. CASE SigSend
  <2>1. Transmit(draft["sig"]) /\ pc["sig"] = "send" /\ pc'["sig"] = "set"
    BY <1>2, <1>6 DEF SigSend, Step
  <2>2. SaidBye'
    BY <2>1, TransmitSays DEF ByeInv
  <2>. QED
    BY <1>1, <2>1, <2>2 DEF ByeInv
<1>7. CASE SigSet
  <2>1. pc["sig"] = "set" /\ pc'["sig"] = "dead"
    BY <1>2, <1>7 DEF SigSet, Step
  <2>. QED
    BY <1>1, <1>3, <2>1 DEF ByeInv
<1>. QED
  BY <1>4, <1>5, <1>6, <1>7 DEF SigRun

LEMMA NextBye ==
  ASSUME TypeInv, ByeInv, [Next]_vars
  PROVE  ByeInv'
<1>1. CASE CmdStep
  BY <1>1, CmdBye DEF CmdStep
<1>2. CASE SndStep
  <2>1. SndNext
    BY <1>2 DEF SndStep
  <2>. QED
    BY <2>1, SndFrame, ByeStutter
<1>3. CASE RcvStep
  <2>1. RcvNext
    BY <1>3 DEF RcvStep
  <2>2. UNCHANGED exited \/ IoErrors
    BY <2>1, Zenon DEF RcvNext, RcvRun, rcvVars, RcvTest, RcvReceive, RcvFails,
       RcvLock, RcvSearch, RcvLoadCount, RcvDec, RcvFlag, RcvPort, RcvVerify,
       RcvRefuse, RcvConfirm, RcvLoadId, RcvStoreId, RcvSend, RcvQuit, RcvUnlock
  <2>. QED
    BY <2>1, <2>2, RcvFrame, ByeStutter
<1>4. CASE SigStep
  BY <1>4, SigBye DEF SigStep
<1>5. CASE LifeStep
  <2>1. LifeRun
    BY <1>5 DEF LifeStep
  <2>2. UNCHANGED <<draft, toServer, cancelled, quit_requested>>
    BY <2>1, LifeFrame DEF clientVars, stopVars
  <2>3. SaidBye => SaidBye'
    BY <2>2, SaidByeStays
  <2>4. CASE UNCHANGED pc /\ \A t \in {"cmd", "snd", "rcv"} : pc[t] = "dead"
    BY <2>2, <2>3, <2>4 DEF ByeInv, ByeComing
  <2>5. CASE /\ UNCHANGED exited
             /\ \E t \in {"cmd", "rcv"} :
                  /\ t \in cancelled /\ CancellationPoint(t)
                  /\ pc' = [pc EXCEPT ![t] = "dead"]
    <3>1. pc \in [Threads -> Labels]
      BY DEF TypeInv, TypeOK, ThreadType
    <3>2. \/ pc'["cmd"] = pc["cmd"] /\ pc'["sig"] = pc["sig"]
          \/ pc'["cmd"] = "dead" /\ "cmd" \in cancelled /\ pc'["sig"] = pc["sig"]
      BY <2>5, <3>1
    <3>. QED
      BY <2>2, <2>3, <2>5, <3>2 DEF ByeInv, ByeComing
  <2>. QED
    BY <2>1, <2>4, <2>5, LifeFrame
<1>6. CASE SrvStep \/ UNCHANGED vars
  <2>1. UNCHANGED <<clientVars, pc, exited>>
    BY <1>6, SrvFrame DEF SrvStep
  <2>. QED
    BY <2>1, ByeStutter DEF clientVars, stopVars
<1>. QED
  BY <1>1, <1>2, <1>3, <1>4, <1>5, <1>6 DEF Next

\* A process that ends on the user's wish has said BYE (UDP.c:515-526), unless
\* the send thread cancelled the command thread on its way there (UDP.c:891),
\* or recvfrom failed under it (UDP.c:200-204).
THEOREM ByeSaid == Spec => []ByeUnlessCancelled
<1>1. Init => ByeInv
  <2>. SUFFICES ASSUME Init PROVE ByeInv
    OBVIOUS
  <2>1. pc["cmd"] = "test" /\ pc["sig"] = "idle"
    BY DEF Init
  <2>2. ~quit_requested /\ ~exited
    BY Zenon DEF Init
  <2>. QED
    BY <2>1, <2>2 DEF ByeInv
<1>2. TypeInv /\ ByeInv /\ [Next]_vars => ByeInv'
  BY NextBye
<1>3. ByeInv => ByeUnlessCancelled
  BY DEF ByeInv, ByeUnlessCancelled, ByeComing
<1>. QED
  BY <1>1, <1>2, <1>3, TypeInvariant, PTL DEF Spec

-----------------------------------------------------------------------------
(* The stop flag does not go up silently.                                  *)

Told == \E d \in toServer : d.msg.type \in {"BYE", "ERR"}
TooLong == Lines \cap {"longAuth", "longMsg"} # {}

\* The send thread has given up for good and set the stop flag.
Stopping == {"loadBye", "storeId", "sendBye", "lock", "push", "pushCount",
             "pushSlot", "unlock", "cancel", "dead"}

\* The i-th effect, if it is to send, finds an ERR or a BYE in the draft.
Composed(i) ==
  \/ draft["rcv"].type \in {"BYE", "ERR"}
  \/ \E k \in 1 .. i - 1 : script[k] \in {"loadErr", "loadBye"}

\* What the receive thread is still to perform sends only what is composed,
\* and sends before it stops.
ScriptTells ==
  /\ \A i \in 1 .. Len(script) : script[i] = "send" => Composed(i)
  /\ \A i \in 1 .. Len(script) : script[i] = "quit" =>
       \E j \in 1 .. i - 1 : script[j] = "send"

\* Each of the three writers of quit is accounted for.
AnnounceInv ==
  /\ pc["cmd"] = "overlong" => TooLong
  /\ pc["snd"] \in {"giveUp", "quit"} => retransmission_count >= MaxRetrans
  /\ Told \/ ScriptTells
  /\ quit => \/ Told
             \/ TooLong
             \/ pc["snd"] \in Stopping /\ retransmission_count >= MaxRetrans

LEMMA ToldStays ==
  ASSUME Told, toServer \subseteq toServer'
  PROVE  Told'
  BY DEF Told

\* Sending an ERR or a BYE tells the server.
LEMMA TransmitTells ==
  ASSUME NEW m, m.type \in {"BYE", "ERR"}, Transmit(m)
  PROVE  Told'
<1>. DEFINE d == [msg |-> m, to |-> server_port]
<1>1. d \in toServer' /\ d.msg.type \in {"BYE", "ERR"}
  BY DEF Transmit
<1>. QED
  BY <1>1 DEF Told

\* Performing an effect takes it off the front of the script.
LEMMA PerformShifts ==
  ASSUME TypeInv, NEW e, NEW p, Perform(e, p)
  PROVE  /\ Len(script) \in Nat /\ Len(script) >= 1 /\ script[1] = e
         /\ Len(script') = Len(script) - 1
         /\ \A i \in 1 .. Len(script') : script'[i] = script[i + 1]
<1>1. script \in Seq(Effects) /\ script # <<>> /\ Head(script) = e /\ script' = Tail(script)
  BY DEF TypeInv, TypeOK, ThreadType, Perform
<1>2. Len(script) >= 1 /\ script[1] = e /\ Len(Tail(script)) = Len(script) - 1
  BY <1>1
<1>3. \A i \in 1 .. Len(Tail(script)) : Tail(script)[i] = script[i + 1]
  BY <1>1, <1>2
<1>. QED
  BY <1>1, <1>2, <1>3

\* Behind an effect that neither composes nor sends the rest still tells.
LEMMA PerformTells ==
  ASSUME TypeInv, ScriptTells, NEW e \in {"port", "verify", "refuse", "confirm",
         "storeId"}, NEW p, Perform(e, p), draft'["rcv"] = draft["rcv"]
  PROVE  ScriptTells'
<1>1. /\ Len(script) \in Nat /\ Len(script) >= 1 /\ script[1] = e
      /\ Len(script') = Len(script) - 1
      /\ \A i \in 1 .. Len(script') : script'[i] = script[i + 1]
  BY PerformShifts
<1>2. ASSUME NEW i \in 1 .. Len(script'), script'[i] = "send"
      PROVE  \/ draft'["rcv"].type \in {"BYE", "ERR"}
             \/ \E k \in 1 .. i - 1 : script'[k] \in {"loadErr", "loadBye"}
  <2>1. i + 1 \in 1 .. Len(script) /\ script[i + 1] = "send"
    BY <1>1, <1>2
  <2>2. CASE draft["rcv"].type \in {"BYE", "ERR"}
    BY <2>2
  <2>3. CASE draft["rcv"].type \notin {"BYE", "ERR"}
    <3>1. PICK k \in 1 .. i : script[k] \in {"loadErr", "loadBye"}
      BY <2>1, <2>3 DEF ScriptTells, Composed
    <3>2. k # 1
      BY <1>1, <3>1
    <3>3. k - 1 \in 1 .. i - 1 /\ k - 1 \in 1 .. Len(script')
      BY <1>1, <3>1, <3>2
    <3>4. script'[k - 1] = script[k]
      BY <1>1, <3>3
    <3>. QED
      BY <3>1, <3>3, <3>4
  <2>. QED
    BY <2>2, <2>3
<1>3. ASSUME NEW i \in 1 .. Len(script'), script'[i] = "quit"
      PROVE  \E j \in 1 .. i - 1 : script'[j] = "send"
  <2>1. i + 1 \in 1 .. Len(script) /\ script[i + 1] = "quit"
    BY <1>1, <1>3
  <2>2. PICK j \in 1 .. i : script[j] = "send"
    BY <2>1 DEF ScriptTells
  <2>3. j # 1
    BY <1>1, <2>2
  <2>4. j - 1 \in 1 .. i - 1 /\ j - 1 \in 1 .. Len(script')
    BY <1>1, <2>2, <2>3
  <2>5. script'[j - 1] = script[j]
    BY <1>1, <2>4
  <2>. QED
    BY <2>2, <2>4, <2>5
<1>. QED
  BY <1>2, <1>3 DEF ScriptTells, Composed

\* Behind a composed ERR or BYE everything is composed.
LEMMA ComposeTells ==
  ASSUME TypeInv, ScriptTells, NEW e \in {"loadErr", "loadBye"}, NEW p,
         Perform(e, p), draft'["rcv"].type \in {"BYE", "ERR"}
  PROVE  ScriptTells'
<1>1. /\ Len(script) \in Nat /\ Len(script) >= 1 /\ script[1] = e
      /\ Len(script') = Len(script) - 1
      /\ \A i \in 1 .. Len(script') : script'[i] = script[i + 1]
  BY PerformShifts
<1>3. ASSUME NEW i \in 1 .. Len(script'), script'[i] = "quit"
      PROVE  \E j \in 1 .. i - 1 : script'[j] = "send"
  <2>1. i + 1 \in 1 .. Len(script) /\ script[i + 1] = "quit"
    BY <1>1, <1>3
  <2>2. PICK j \in 1 .. i : script[j] = "send"
    BY <2>1 DEF ScriptTells
  <2>3. j # 1
    BY <1>1, <2>2
  <2>4. j - 1 \in 1 .. i - 1 /\ j - 1 \in 1 .. Len(script')
    BY <1>1, <2>2, <2>3
  <2>5. script'[j - 1] = script[j]
    BY <1>1, <2>4
  <2>. QED
    BY <2>2, <2>4, <2>5
<1>. QED
  BY <1>3 DEF ScriptTells, Composed

\* Every script sends only what it has composed, and sends before it stops.
LEMMA ScriptsTell ==
  ASSUME script' = Script(response)
  PROVE  ScriptTells'
<1>1. CASE response.type = "REPLY" /\ u_current_command = "/auth"
  BY <1>1 DEF Script, OnVerdict, ScriptTells, Composed
<1>2. CASE response.type \in {"ERR", "BYE"}
  <2>1. script' = <<"confirm", "loadBye", "storeId", "send", "quit">>
    BY <1>2 DEF Script, OnClose
  <2>. QED
    BY <2>1 DEF ScriptTells, Composed
<1>3. CASE response.type = "BADMSG"
  <2>1. script' = <<"confirm", "loadErr", "storeId", "send", "quit">>
    BY <1>3 DEF Script
  <2>. QED
    BY <2>1 DEF ScriptTells, Composed
<1>4. CASE response.type = "JUNK"
  <2>1. script' = <<"loadErr", "storeId", "send", "loadBye", "storeId", "send",
                    "quit">>
    BY <1>4 DEF Script
  <2>. QED
    BY <2>1 DEF ScriptTells, Composed
<1>5. CASE /\ response.type \notin {"ERR", "BYE", "BADMSG", "JUNK"}
           /\ ~(response.type = "REPLY" /\ u_current_command = "/auth")
  <2>1. script' = <<"confirm">>
    BY <1>5 DEF Script
  <2>. QED
    BY <2>1 DEF ScriptTells, Composed
<1>. QED
  BY <1>1, <1>2, <1>3, <1>4, <1>5

\* The steps of the receive thread tell before they stop.
LEMMA RcvAnnounces ==
  ASSUME TypeInv, AnnounceInv, RcvNext
  PROVE  AnnounceInv'
<1>1. /\ UNCHANGED retransmission_count /\ toServer \subseteq toServer'
      /\ pc'["snd"] = pc["snd"]
      /\ pc'["cmd"] = "overlong" => pc["cmd"] = "overlong"
  BY RcvFrame
<1>2. Told => Told'
  BY <1>1, ToldStays
<1>3. draft \in [Threads -> Message] /\ script \in Seq(Effects)
  BY DEF TypeInv, TypeOK, ThreadType
<1>4. SUFFICES ASSUME ScriptTells
               PROVE  Told' \/ (ScriptTells' /\ (quit' => quit))
  BY <1>1, <1>2 DEF AnnounceInv
<1>5. CASE RcvLock
  <2>1. script' = script \/ script' = Script(response)
    BY <1>5 DEF RcvLock
  <2>2. UNCHANGED <<draft, quit>>
    BY <1>5 DEF RcvLock
  <2>3. ScriptTells'
    BY <1>4, <2>1, <2>2, ScriptsTell DEF ScriptTells, Composed
  <2>. QED
    BY <2>2, <2>3
<1>6. CASE RcvPort \/ RcvVerify \/ RcvRefuse \/ RcvConfirm \/ RcvStoreId
  <2>1. UNCHANGED <<draft, quit>>
    BY <1>6 DEF RcvPort, RcvVerify, RcvRefuse, RcvConfirm, RcvStoreId
  <2>2. \E p : \/ Perform("port", p) \/ Perform("verify", p)
               \/ Perform("refuse", p) \/ Perform("confirm", p)
               \/ Perform("storeId", p)
    BY <1>6, Zenon DEF RcvPort, RcvVerify, RcvRefuse, RcvConfirm, RcvStoreId
  <2>3. PICK e, p : e \in {"port", "verify", "refuse", "confirm", "storeId"} /\ Perform(e, p)
    BY <2>2
  <2>4. ScriptTells'
    BY <1>4, <2>1, <2>3, PerformTells
  <2>. QED
    BY <2>1, <2>4
<1>7. CASE RcvLoadId
  <2>1. draft'["rcv"].type \in {"BYE", "ERR"} /\ UNCHANGED quit
    BY <1>3, <1>7 DEF RcvLoadId, LoadId, Control
  <2>2. \E p : Perform("loadErr", p) \/ Perform("loadBye", p)
    BY <1>7, Zenon DEF RcvLoadId
  <2>3. PICK e, p : e \in {"loadErr", "loadBye"} /\ Perform(e, p)
    BY <2>2
  <2>4. ScriptTells'
    BY <1>4, <2>1, <2>3, ComposeTells
  <2>. QED
    BY <2>1, <2>4
<1>8. CASE RcvSend
  <2>1. Perform("send", pc) /\ Transmit(draft["rcv"])
    BY <1>8 DEF RcvSend
  <2>2. Len(script) >= 1 /\ Len(script) \in Nat /\ script[1] = "send"
    BY <2>1, PerformShifts
  <2>3. Composed(1)
    BY <1>4, <2>2 DEF ScriptTells
  <2>4. draft["rcv"].type \in {"BYE", "ERR"}
    BY <2>3 DEF Composed
  <2>. QED
    BY <2>1, <2>4, TransmitTells
<1>9. CASE RcvQuit
  <2>1. Perform("quit", pc)
    BY <1>9 DEF RcvQuit
  <2>2. Len(script) >= 1 /\ Len(script) \in Nat /\ script[1] = "quit"
    BY <2>1, PerformShifts
  <2>. QED
    BY <1>4, <2>2 DEF ScriptTells
<1>10. CASE \/ RcvTest \/ RcvReceive \/ RcvFails \/ RcvSearch \/ RcvLoadCount
            \/ RcvDec \/ RcvFlag \/ RcvUnlock
  <2>1. UNCHANGED <<script, draft, quit>>
    BY <1>10, Zenon DEF RcvTest, RcvReceive, RcvFails, RcvSearch, RcvLoadCount,
       RcvDec, RcvFlag, RcvUnlock, rcvVars
  <2>. QED
    BY <1>4, <2>1 DEF ScriptTells, Composed
<1>. QED
  BY <1>5, <1>6, <1>7, <1>8, <1>9, <1>10 DEF RcvNext, RcvRun

\* The send thread stops after giving up, the count of failures at its limit.
LEMMA SndAnnounces ==
  ASSUME TypeInv, AnnounceInv, SndNext
  PROVE  AnnounceInv'
<1>1. /\ UNCHANGED script /\ toServer \subseteq toServer'
      /\ draft'["rcv"] = draft["rcv"]
      /\ pc'["cmd"] = "overlong" => pc["cmd"] = "overlong"
  BY SndFrame
<1>2. pc \in [Threads -> Labels] /\ retransmission_count \in Nat /\ MaxRetrans \in Nat
  BY DEF TypeInv, TypeOK, ThreadType, ConstantsAssumption
<1>3. Told \/ ScriptTells => Told' \/ ScriptTells'
  BY <1>1, ToldStays DEF ScriptTells, Composed
<1>4. Told => Told'
  BY <1>1, ToldStays
<1>5. CASE SndWake
  <2>1. /\ pc["snd"] = "sleep" /\ UNCHANGED quit
        /\ pc'["snd"] = "giveUp" => retransmission_count' >= MaxRetrans
        /\ pc'["snd"] # "quit"
    BY <1>2, <1>5 DEF SndWake, GiveUp, Step, stopVars
  <2>. QED
    BY <1>1, <1>3, <1>4, <2>1 DEF AnnounceInv, Stopping
<1>6. CASE SndSettled
  <2>1. pc["snd"] = "settled" /\ pc'["snd"] = "test" /\ UNCHANGED quit
    BY <1>2, <1>6 DEF SndSettled, Signalled, stopVars
  <2>. QED
    BY <1>1, <1>3, <1>4, <2>1 DEF AnnounceInv, Stopping
<1>7. CASE SndGiveUp
  <2>1. /\ pc["snd"] = "giveUp" /\ pc'["snd"] = "quit"
        /\ UNCHANGED <<quit, retransmission_count>>
    BY <1>2, <1>7 DEF SndGiveUp, Signalled, stopVars
  <2>. QED
    BY <1>1, <1>3, <1>4, <2>1 DEF AnnounceInv, Stopping
<1>8. CASE SndQuit
  <2>1. /\ pc["snd"] = "quit" /\ pc'["snd"] = "loadBye"
        /\ UNCHANGED retransmission_count
    BY <1>2, <1>8 DEF SndQuit, Step
  <2>. QED
    BY <1>1, <1>3, <2>1 DEF AnnounceInv, Stopping
<1>9. CASE ~SndWake /\ ~SndSettled /\ ~SndGiveUp /\ ~SndQuit
  <2>1. UNCHANGED <<quit, retransmission_count>>
    BY <1>9, Zenon DEF SndNext, stopVars, SndTest, SndPeek, SndSend,
       SndSendFails, SndReset, SndLoadBye, SndStoreId, SndSendBye, SndLock,
       SndLoadCount, SndStoreCount, SndFillSlot, SndUnlock, SndCancel
  <2>2. /\ pc'["snd"] \notin {"giveUp", "quit"}
        /\ pc["snd"] \in Stopping => pc'["snd"] \in Stopping
    BY <1>2, <1>9 DEF Stopping, SndNext, Step, SndTest, SndPeek, SndSend,
       SndSendFails, SndReset, SndLoadBye, SndStoreId, SndSendBye, SndLock,
       SndLoadCount, SndStoreCount, SndFillSlot, SndUnlock, SndCancel
  <2>. QED
    BY <1>1, <1>3, <1>4, <2>1, <2>2 DEF AnnounceInv
<1>. QED
  BY <1>5, <1>6, <1>7, <1>8, <1>9

\* The command thread stops without a word for a line that is too long.
LEMMA CmdAnnounces ==
  ASSUME TypeInv, AnnounceInv, CmdNext
  PROVE  AnnounceInv'
<1>1. /\ UNCHANGED <<script, retransmission_count>> /\ toServer \subseteq toServer'
      /\ draft'["rcv"] = draft["rcv"] /\ pc'["snd"] = pc["snd"]
  BY CmdFrame
<1>2. pc \in [Threads -> Labels]
  BY DEF TypeInv, TypeOK, ThreadType
<1>3. Told \/ ScriptTells => Told' \/ ScriptTells'
  BY <1>1, ToldStays DEF ScriptTells, Composed
<1>4. Told => Told'
  BY <1>1, ToldStays
<1>5. CASE CmdOverlong
  <2>1. pc["cmd"] = "overlong"
    BY <1>5 DEF CmdOverlong, Step
  <2>. QED
    BY <1>1, <1>3, <2>1 DEF AnnounceInv, TooLong
<1>6. CASE ~CmdOverlong
  <2>1. UNCHANGED quit
    BY <1>6, Zenon DEF CmdNext, CmdRun, stopVars, CmdTest, CmdLocal, CmdLoadId,
       CmdStoreId, CmdLoadCount, CmdStoreCount, CmdFillSlot, CmdAuthTest,
       CmdSlash, CmdMsgTest, CmdSleep, CmdLoadBye, CmdSendBye, CmdLock,
       CmdUnlock, CmdTeardown, CmdExit, CmdRead, CmdEof, CmdReadError,
       CmdSpuriousWakeup
  <2>2. CASE CmdRead
    <3>1. \E k \in Lines : pc'["cmd"] = "test" \/ pc'["cmd"] = Handler(k)
      BY <1>2, <2>2 DEF CmdRead, Step
    <3>2. pc'["cmd"] = "overlong" => TooLong
      BY <3>1 DEF Handler, TooLong
    <3>. QED
      BY <1>1, <1>3, <1>4, <2>1, <3>2 DEF AnnounceInv
  <2>3. CASE ~CmdRead
    <3>1. pc'["cmd"] # "overlong"
      BY <1>2, <1>6, <2>3 DEF CmdNext, CmdRun, Step, CmdTest, CmdLocal,
         CmdLoadId, CmdStoreId, CmdLoadCount, CmdStoreCount, CmdFillSlot,
         CmdAuthTest, CmdSlash, CmdMsgTest, CmdSleep, CmdLoadBye, CmdSendBye,
         CmdLock, CmdUnlock, CmdTeardown, CmdExit, CmdEof, CmdReadError,
         CmdSpuriousWakeup, AfterLoop
    <3>. QED
      BY <1>1, <1>3, <1>4, <2>1, <3>1 DEF AnnounceInv, TooLong
  <2>. QED
    BY <2>2, <2>3
<1>. QED
  BY <1>5, <1>6

LEMMA NextAnnounces ==
  ASSUME TypeInv, AnnounceInv, [Next]_vars
  PROVE  AnnounceInv'
<1>1. CASE CmdStep
  BY <1>1, CmdAnnounces DEF CmdStep
<1>2. CASE SndStep
  BY <1>2, SndAnnounces DEF SndStep
<1>3. CASE RcvStep
  BY <1>3, RcvAnnounces DEF RcvStep
<1>4. CASE SigStep
  <2>1. SigArrives \/ SigRun
    BY <1>4 DEF SigStep
  <2>2. /\ UNCHANGED <<script, retransmission_count, quit>>
        /\ draft'["rcv"] = draft["rcv"]
        /\ pc'["snd"] = pc["snd"] /\ pc'["cmd"] = pc["cmd"]
        /\ toServer \subseteq toServer'
    BY <2>1, SigFrame DEF rcvVars, localVars
  <2>3. /\ Told => Told'
        /\ Told \/ ScriptTells => Told' \/ ScriptTells'
    BY <2>2, ToldStays DEF ScriptTells, Composed
  <2>. QED
    BY <2>2, <2>3 DEF AnnounceInv, TooLong
<1>5. CASE LifeStep \/ SrvStep \/ UNCHANGED vars
  <2>1. /\ UNCHANGED clientVars
        /\ pc'["snd"] = pc["snd"]
        /\ pc'["cmd"] = pc["cmd"] \/ pc'["cmd"] = "dead"
    BY <1>5, SrvFrame, LifeFrame
       DEF SrvStep, LifeStep, TypeInv, TypeOK, ThreadType
  <2>2. UNCHANGED <<script, retransmission_count, quit, draft, toServer>>
    BY <2>1 DEF clientVars, rcvVars, localVars, stopVars
  <2>3. /\ Told => Told'
        /\ Told \/ ScriptTells => Told' \/ ScriptTells'
    BY <2>2 DEF Told, ScriptTells, Composed
  <2>. QED
    BY <2>1, <2>2, <2>3 DEF AnnounceInv, TooLong
<1>. QED
  BY <1>1, <1>2, <1>3, <1>4, <1>5 DEF Next

\* The stop flag goes up silently in two cases only, an overlong line and
\* giving up: otherwise a BYE or an ERR has left before (UDP.c:305-309,
\* 318-319, 392-398, 425-443).
THEOREM EndAnnounced == Spec => []Announced
<1>1. Init => AnnounceInv
  <2>. SUFFICES ASSUME Init PROVE AnnounceInv
    OBVIOUS
  <2>1. pc["cmd"] = "test" /\ pc["snd"] = "test" /\ script = <<>>
    BY DEF Init
  <2>2. ~quit
    BY Zenon DEF Init
  <2>. QED
    BY <2>1, <2>2 DEF AnnounceInv, ScriptTells
<1>2. TypeInv /\ AnnounceInv /\ [Next]_vars => AnnounceInv'
  BY NextAnnounces
<1>3. TypeInv /\ AnnounceInv => Announced
  BY DEF AnnounceInv, Announced, Told, TooLong, TypeInv, TypeOK, ThreadType,
     ConstantsAssumption
<1>. QED
  BY <1>1, <1>2, <1>3, TypeInvariant, PTL DEF Spec

=============================================================================
