---------------------------- MODULE UdpAuthProofs ----------------------------
(***************************************************************************)
(* Authentication in the UDP client: AuthGate and SessionPort hold for     *)
(* every value of the constants.  Both rest on one fact: only RcvVerify    *)
(* ends the quiet in which the client lets nothing out but AUTH and        *)
(* control messages.                                                       *)
(***************************************************************************)
EXTENDS UdpTypeProofs

Gated == {"JOIN", "MSG"}
Slots == 0 .. MaxPending - 1

\* The client does not take itself for verified, and has no JOIN or MSG in its
\* hands, in its queue or on the way to the server.
Quiet ==
  /\ ~AUTH_VER
  /\ line \notin {"join", "msg"}
  /\ \A t \in Threads : draft[t].type \notin Gated
  /\ \A i \in Slots : pending_messages[i].type \notin Gated
  /\ \A d \in toServer : d.msg.type \notin Gated

\* Nothing lets the client take itself for verified.
NoGrant ==
  /\ \A d \in toClient : ~(d.type = "REPLY" /\ d.ok)
  /\ ~(response.type = "REPLY" /\ response.ok)
  /\ \A i \in 1 .. Len(script) : script[i] # "verify"

\* The port is stored before the flag goes up.
PortFirst ==
  script # <<>> => \/ Head(script) = "port"
                   \/ \A i \in 1 .. Len(script) : script[i] # "verify"

GateInv == accepted \/ (Quiet /\ NoGrant)
PortInv == SessionPort /\ (server_port = "session" \/ (Quiet /\ PortFirst))

quietVars == <<AUTH_VER, line, draft, pending_messages, toServer>>
grantVars == <<toClient, response, script>>

USE ConstantsAssumption DEF Threads

-----------------------------------------------------------------------------
(* What the operators on messages do to the quiet.                         *)

\* A step that touches none of its variables keeps the quiet.
LEMMA QuietStutter ==
  ASSUME Quiet, UNCHANGED quietVars
  PROVE  Quiet'
  BY DEF Quiet, quietVars, Gated, Slots

\* Drawing an id does not change what kind of message a thread composes.
LEMMA QuietLoad ==
  ASSUME TypeInv, Quiet, NEW t \in Threads, NEW m \in Message,
         m.type \notin Gated, LoadId(t, m)
  PROVE  \A u \in Threads : draft'[u].type \notin Gated
<1>1. [m EXCEPT !.id = last_message_id].type = m.type
  BY DEF Message
<1>. QED
  BY <1>1 DEF LoadId, Quiet, TypeInv, TypeOK, ThreadType

\* A blank message is none of the gated ones.
LEMMA QuietDiscard ==
  ASSUME TypeInv, Quiet, NEW t \in Threads, Discard(t)
  PROVE  \A u \in Threads : draft'[u].type \notin Gated
<1>1. Blank.type \notin Gated
  BY DEF Blank, Gated
<1>. QED
  BY <1>1 DEF Discard, Quiet, TypeInv, TypeOK, ThreadType

\* A message that is not gated does not become so in the queue.
LEMMA QuietFill ==
  ASSUME TypeInv, Quiet, NEW t \in Threads, FillSlot(t)
  PROVE  /\ \A u \in Threads : draft'[u].type \notin Gated
         /\ \A i \in Slots : pending_messages'[i].type \notin Gated
<1>1. \A u \in Threads : draft'[u].type \notin Gated
  BY QuietDiscard DEF FillSlot
<1>. QED
  BY <1>1 DEF FillSlot, Quiet, Slots, TypeInv, TypeOK, MemoryType

\* Nor on its way to the server.
LEMMA QuietSend ==
  ASSUME Quiet, NEW m, m.type \notin Gated, Transmit(m)
  PROVE  \A d \in toServer' : d.msg.type \notin Gated
  BY DEF Transmit, Quiet

\* BYE, ERR and CONFIRM are not gated.
LEMMA ControlOpen ==
  ASSUME NEW type \in {"BYE", "ERR", "CONFIRM"}, NEW id
  PROVE  Control(type, id).type \notin Gated
  BY DEF Control, Gated

-----------------------------------------------------------------------------
(* Every step but RcvVerify keeps the quiet.                               *)

\* The command thread: while it is not verified process_commands drops every
\* line but /auth (UDP.c:480).
LEMMA QuietCmd ==
  ASSUME TypeInv, Quiet, CmdNext
  PROVE  Quiet'
<1>1. CASE CmdRead
  <2>1. UNCHANGED <<AUTH_VER, draft, pending_messages, toServer>>
    BY <1>1 DEF CmdRead, cmdElsewhere, queueVars
  <2>2. line' = line \/ \E k \in AuthLines : line' = k
    BY <1>1, Zenon DEF CmdRead, Rejected, Quiet
  <2>3. line' \notin {"join", "msg"}
    BY <2>2 DEF AuthLines, Quiet
  <2>. QED
    BY <2>1, <2>3 DEF Quiet
<1>2. CASE CmdOverlong \/ CmdLocal
  <2>1. UNCHANGED <<AUTH_VER, draft, pending_messages, toServer>> /\ line' = "empty"
    BY <1>2 DEF CmdOverlong, CmdLocal, cmdElsewhere, queueVars
  <2>. QED
    BY <2>1 DEF Quiet
<1>3. CASE CmdLoadId
  <2>. DEFINE n == IF line = "auth" THEN lines_read ELSE u_dname
              m == [type |-> MessageOf[line], id |-> 0, body |-> lines_read,
                    name |-> n]
  <2>1. line = "auth"
    BY <1>3, QueuedIs DEF CmdLoadId, Step, TypeInv, LocalsReady, Quiet
  <2>2. n \in 0 .. MaxLines
    BY DEF TypeInv, TypeOK, ThreadType, MemoryType
  <2>. HIDE DEF n
  <2>3. m \in Message
    BY <2>1, <2>2, QueuedIs, ComposedType DEF TypeInv
  <2>4. m.type \notin Gated
    BY <2>1 DEF MessageOf, Gated
  <2>5. LoadId("cmd", m) /\ UNCHANGED <<AUTH_VER, pending_messages, toServer>> /\ line' = "empty"
    BY <1>3 DEF CmdLoadId, cmdElsewhere, queueVars, n
  <2>6. \A u \in Threads : draft'[u].type \notin Gated
    BY <2>3, <2>4, <2>5, QuietLoad
  <2>. QED
    BY <2>5, <2>6 DEF Quiet
<1>4. CASE CmdLoadBye
  <2>1. LoadId("cmd", Control("BYE", 0)) /\ UNCHANGED <<AUTH_VER, line, pending_messages, toServer>>
    BY <1>4 DEF CmdLoadBye, cmdElsewhere, queueVars
  <2>2. \A u \in Threads : draft'[u].type \notin Gated
    BY <2>1, QuietLoad, ControlType, ControlOpen, ZeroId
  <2>. QED
    BY <2>1, <2>2 DEF Quiet
<1>5. CASE CmdFillSlot
  <2>1. FillSlot("cmd") /\ UNCHANGED <<AUTH_VER, line, toServer>>
    BY <1>5 DEF CmdFillSlot, cmdElsewhere
  <2>. QED
    BY <2>1, QuietFill DEF Quiet
<1>6. CASE CmdSendBye
  <2>1. Transmit(draft["cmd"]) /\ UNCHANGED <<AUTH_VER, line, draft, pending_messages>>
    BY <1>6 DEF CmdSendBye, cmdElsewhere, queueVars
  <2>. QED
    BY <2>1, QuietSend DEF Quiet
<1>7. CASE \/ CmdTest \/ CmdEof \/ CmdReadError \/ CmdStoreId \/ CmdLoadCount
           \/ CmdStoreCount \/ CmdAuthTest \/ CmdSlash \/ CmdMsgTest \/ CmdSleep
           \/ CmdSpuriousWakeup \/ CmdLock \/ CmdUnlock \/ CmdTeardown \/ CmdExit
  <2>1. UNCHANGED quietVars
    BY <1>7, Zenon
    DEF quietVars, cmdElsewhere, queueVars, CmdTest, CmdEof, CmdReadError,
        CmdStoreId, CmdLoadCount, CmdStoreCount, CmdAuthTest, CmdSlash,
        CmdMsgTest, CmdSleep, CmdSpuriousWakeup, CmdLock, CmdUnlock,
        CmdTeardown, CmdExit
  <2>. QED
    BY <2>1, QuietStutter
<1>. QED
  BY <1>1, <1>2, <1>3, <1>4, <1>5, <1>6, <1>7 DEF CmdNext, CmdRun

\* The send thread sends what is in the queue, and BYE.
LEMMA QuietSnd ==
  ASSUME TypeInv, Quiet, SndNext
  PROVE  Quiet'
<1>1. CASE SndPeek
  <2>1. UNCHANGED <<AUTH_VER, line, pending_messages, toServer>>
    BY <1>1 DEF SndPeek, sndElsewhere, queueVars, authVars
  <2>2. draft' = [draft EXCEPT !["snd"] = pending_messages[0]] \/ draft' = draft
    BY <1>1, Zenon DEF SndPeek
  <2>3. pending_messages[0].type \notin Gated
    BY DEF Quiet, Slots
  <2>4. \A u \in Threads : draft'[u].type \notin Gated
    BY <2>2, <2>3 DEF Quiet, TypeInv, TypeOK, ThreadType
  <2>. QED
    BY <2>1, <2>4 DEF Quiet
<1>2. CASE SndSend
  <2>1. /\ Transmit(draft["snd"]) /\ Discard("snd")
        /\ UNCHANGED <<AUTH_VER, line, pending_messages>>
    BY <1>2 DEF SndSend, sndElsewhere, queueVars, authVars
  <2>2. \A u \in Threads : draft'[u].type \notin Gated
    BY <2>1, QuietDiscard
  <2>3. \A d \in toServer' : d.msg.type \notin Gated
    BY <2>1, QuietSend DEF Quiet
  <2>. QED
    BY <2>1, <2>2, <2>3 DEF Quiet
<1>3. CASE SndLoadBye
  <2>1. LoadId("snd", Control("BYE", 0)) /\ UNCHANGED <<AUTH_VER, line, pending_messages, toServer>>
    BY <1>3 DEF SndLoadBye, sndElsewhere, queueVars, authVars
  <2>2. \A u \in Threads : draft'[u].type \notin Gated
    BY <2>1, QuietLoad, ControlType, ControlOpen, ZeroId
  <2>. QED
    BY <2>1, <2>2 DEF Quiet
<1>4. CASE SndSendBye
  <2>1. Transmit(draft["snd"]) /\ UNCHANGED <<AUTH_VER, line, draft, pending_messages>>
    BY <1>4 DEF SndSendBye, sndElsewhere, queueVars, authVars
  <2>. QED
    BY <2>1, QuietSend DEF Quiet
<1>5. CASE SndFillSlot
  <2>1. FillSlot("snd") /\ UNCHANGED <<AUTH_VER, line, toServer>>
    BY <1>5 DEF SndFillSlot, sndElsewhere, authVars
  <2>. QED
    BY <2>1, QuietFill DEF Quiet
<1>6. CASE \/ SndTest \/ SndSendFails \/ SndReset \/ SndWake \/ SndSettled
           \/ SndGiveUp \/ SndQuit \/ SndStoreId \/ SndLock \/ SndLoadCount
           \/ SndStoreCount \/ SndUnlock \/ SndCancel
  <2>1. UNCHANGED quietVars
    BY <1>6, Zenon
    DEF quietVars, sndElsewhere, queueVars, authVars, SndTest, SndSendFails,
        SndReset, SndWake, SndSettled, SndGiveUp, SndQuit, SndStoreId, SndLock,
        SndLoadCount, SndStoreCount, SndUnlock, SndCancel
  <2>. QED
    BY <2>1, QuietStutter
<1>. QED
  BY <1>1, <1>2, <1>3, <1>4, <1>5, <1>6 DEF SndNext

\* The receive thread ends the quiet by setting AUTH_VER (UDP.c:261) only.
LEMMA QuietRcv ==
  ASSUME TypeInv, Quiet, RcvNext, ~RcvVerify
  PROVE  Quiet'
<1>1. CASE RcvSearch
  <2>1. UNCHANGED <<AUTH_VER, line, draft, toServer>>
    BY <1>1 DEF RcvSearch, authVars, localVars
  <2>2. pending_messages' = pending_messages \/ pending_messages' = ShiftDown(First)
    BY <1>1, Zenon DEF RcvSearch
  <2>3. \A i \in Slots : ShiftDown(First)[i].type \notin Gated
    BY DEF ShiftDown, Pending, Quiet, Slots
  <2>4. \A i \in Slots : pending_messages'[i].type \notin Gated
    BY <2>2, <2>3 DEF Quiet
  <2>. QED
    BY <2>1, <2>4 DEF Quiet
<1>2. CASE RcvConfirm
  <2>1. /\ Transmit(Control("CONFIRM", response.id))
        /\ UNCHANGED <<AUTH_VER, line, draft, pending_messages>>
    BY <1>2 DEF RcvConfirm, rcvElsewhere, authVars, localVars
  <2>2. \A d \in toServer' : d.msg.type \notin Gated
    BY <2>1, QuietSend, ControlOpen
  <2>. QED
    BY <2>1, <2>2 DEF Quiet
<1>3. CASE RcvLoadId
  <2>1. /\ LoadId("rcv", Control("ERR", 0)) \/ LoadId("rcv", Control("BYE", 0))
        /\ UNCHANGED <<AUTH_VER, line, pending_messages, toServer>>
    BY <1>3 DEF RcvLoadId, rcvElsewhere, authVars, localVars
  <2>2. \A u \in Threads : draft'[u].type \notin Gated
    BY <2>1, QuietLoad, ControlType, ControlOpen, ZeroId
  <2>. QED
    BY <2>1, <2>2 DEF Quiet
<1>4. CASE RcvSend
  <2>1. /\ Transmit(draft["rcv"]) /\ Discard("rcv")
        /\ UNCHANGED <<AUTH_VER, line, pending_messages>>
    BY <1>4 DEF RcvSend, rcvElsewhere, authVars, localVars
  <2>2. \A u \in Threads : draft'[u].type \notin Gated
    BY <2>1, QuietDiscard
  <2>3. \A d \in toServer' : d.msg.type \notin Gated
    BY <2>1, QuietSend DEF Quiet
  <2>. QED
    BY <2>1, <2>2, <2>3 DEF Quiet
<1>5. CASE \/ RcvTest \/ RcvReceive \/ RcvFails \/ RcvLock \/ RcvLoadCount
           \/ RcvDec \/ RcvFlag \/ RcvPort \/ RcvRefuse \/ RcvStoreId \/ RcvQuit
           \/ RcvUnlock
  <2>1. UNCHANGED quietVars
    BY <1>5, Zenon
    DEF quietVars, rcvElsewhere, authVars, localVars, RcvTest, RcvReceive,
        RcvFails, RcvLock, RcvLoadCount, RcvDec, RcvFlag, RcvPort, RcvRefuse,
        RcvStoreId, RcvQuit, RcvUnlock
  <2>. QED
    BY <2>1, QuietStutter
<1>. QED
  BY <1>1, <1>2, <1>3, <1>4, <1>5 DEF RcvNext, RcvRun

\* The signal handler sends BYE.
LEMMA QuietSig ==
  ASSUME TypeInv, Quiet, SigArrives \/ SigRun
  PROVE  Quiet'
<1>1. CASE SigArrives
  <2>1. LoadId("sig", Control("BYE", 0)) /\ UNCHANGED <<AUTH_VER, line, pending_messages, toServer>>
    BY <1>1 DEF SigArrives, sigElsewhere, queueVars, authVars, localVars
  <2>2. \A u \in Threads : draft'[u].type \notin Gated
    BY <2>1, QuietLoad, ControlType, ControlOpen, ZeroId
  <2>. QED
    BY <2>1, <2>2 DEF Quiet
<1>2. CASE SigSend
  <2>1. /\ Transmit(draft["sig"]) /\ Discard("sig")
        /\ UNCHANGED <<AUTH_VER, line, pending_messages>>
    BY <1>2 DEF SigSend, sigElsewhere, queueVars, authVars, localVars
  <2>2. \A u \in Threads : draft'[u].type \notin Gated
    BY <2>1, QuietDiscard
  <2>3. \A d \in toServer' : d.msg.type \notin Gated
    BY <2>1, QuietSend DEF Quiet
  <2>. QED
    BY <2>1, <2>2, <2>3 DEF Quiet
<1>3. CASE SigStoreId \/ SigSet
  <2>1. UNCHANGED quietVars
    BY <1>3 DEF quietVars, sigElsewhere, queueVars, authVars, localVars,
                SigStoreId, SigSet
  <2>. QED
    BY <2>1, QuietStutter
<1>. QED
  BY <1>1, <1>2, <1>3 DEF SigRun

\* Every step but RcvVerify keeps the quiet.
LEMMA QuietNext ==
  ASSUME TypeInv, Quiet, [Next]_vars, ~RcvVerify
  PROVE  Quiet'
<1>1. CASE LifeStep
  <2>1. UNCHANGED quietVars
    BY <1>1 DEF LifeStep, LifeRun, MainJoins, CancelDies, quietVars,
                sigElsewhere, queueVars, authVars, localVars
  <2>. QED
    BY <2>1, QuietStutter
<1>2. CASE SrvStep
  <2>1. UNCHANGED quietVars
    BY <1>2 DEF SrvStep, SrvNext, SrvConfirm, SrvServe, SrvNotify, quietVars,
                srvElsewhere, queueVars, authVars, localVars
  <2>. QED
    BY <2>1, QuietStutter
<1>3. CASE UNCHANGED vars
  <2>1. UNCHANGED quietVars
    BY <1>3 DEF vars, quietVars, queueVars, authVars, localVars
  <2>. QED
    BY <2>1, QuietStutter
<1>. QED
  BY <1>1, <1>2, <1>3, QuietCmd, QuietSnd, QuietRcv, QuietSig
  DEF Next, CmdStep, SndStep, RcvStep, SigStep


-----------------------------------------------------------------------------
(* The script of the receive thread.                                       *)

\* For a REPLY to an /auth the port is stored and then the verdict noted
\* (UDP.c:257-275); no other datagram changes AUTH_VER.
LEMMA ScriptShape ==
  ASSUME NEW d, d.ok \in BOOLEAN
  PROVE  \/ /\ d.type = "REPLY" /\ Script(d) # <<>> /\ Head(Script(d)) = "port"
            /\ ~d.ok => \A i \in 1 .. Len(Script(d)) : Script(d)[i] # "verify"
         \/ \A i \in 1 .. Len(Script(d)) : Script(d)[i] # "verify"
<1>. DEFINE verdict == IF d.ok THEN "verify" ELSE "refuse"
            reply   == <<"port", verdict, "confirm">>
            close   == <<"confirm", "loadBye", "storeId", "send", "quit">>
            bad     == <<"confirm", "loadErr", "storeId", "send", "quit">>
            junk    == <<"loadErr", "storeId", "send", "loadBye", "storeId",
                         "send", "quit">>
            other   == <<"confirm">>
<1>1. \/ d.type = "REPLY" /\ Script(d) = reply
      \/ Script(d) = close \/ Script(d) = bad \/ Script(d) = junk
      \/ Script(d) = other
  BY Zenon DEF Script, OnVerdict, OnClose
<1>2. ~d.ok => verdict = "refuse"
  OBVIOUS
<1>. HIDE DEF verdict
<1>3. /\ reply # <<>> /\ Head(reply) = "port"
      /\ verdict # "verify" => \A i \in 1 .. Len(reply) : reply[i] # "verify"
  OBVIOUS
<1>4. \A i \in 1 .. Len(close) : close[i] # "verify"
  OBVIOUS
<1>5. \A i \in 1 .. Len(bad) : bad[i] # "verify"
  OBVIOUS
<1>6. \A i \in 1 .. Len(junk) : junk[i] # "verify"
  OBVIOUS
<1>7. \A i \in 1 .. Len(other) : other[i] # "verify"
  OBVIOUS
<1>. HIDE DEF reply, close, bad, junk, other
<1>8. CASE d.type = "REPLY" /\ Script(d) = reply
  <2>1. ~d.ok => \A i \in 1 .. Len(reply) : reply[i] # "verify"
    BY <1>2, <1>3
  <2>. QED
    BY <1>3, <1>8, <2>1
<1>. QED
  BY <1>1, <1>4, <1>5, <1>6, <1>7, <1>8

\* Performing an effect takes it off the front of the script.
LEMMA PerformTail ==
  ASSUME TypeInv, NEW e, NEW after, Perform(e, after)
  PROVE  /\ script # <<>> /\ script[1] = e /\ Head(script) = e
         /\ 1 \in 1 .. Len(script)
         /\ (\A i \in 1 .. Len(script) : script[i] # "verify")
              => \A i \in 1 .. Len(script') : script'[i] # "verify"
<1>1. script \in Seq(Effects) /\ script # <<>> /\ Head(script) = e /\ script' = Tail(script)
  BY DEF Perform, TypeInv, TypeOK, ThreadType
<1>2. Len(script) >= 1 /\ script[1] = e /\ Len(Tail(script)) = Len(script) - 1
  BY <1>1
<1>3. \A i \in 1 .. Len(Tail(script)) : Tail(script)[i] = script[i + 1]
  BY <1>1
<1>. QED
  BY <1>1, <1>2, <1>3

\* What RcvNext does to the script, step by step.
LEMMA ScriptSteps ==
  ASSUME TypeInv, RcvNext
  PROVE  \/ RcvLock
         \/ UNCHANGED script
         \/ RcvPort
         \/ RcvVerify
         \/ /\ script # <<>> /\ Head(script) # "port" /\ UNCHANGED <<toClient, response>>
            /\ (\A i \in 1 .. Len(script) : script[i] # "verify")
                 => \A i \in 1 .. Len(script') : script'[i] # "verify"
<1>1. CASE RcvRefuse \/ RcvConfirm \/ RcvLoadId \/ RcvStoreId \/ RcvSend \/ RcvQuit
  <2>1. PICK e \in Effects \ {"port"}, after \in [Threads -> Labels] : Perform(e, after)
    <3>1. pc \in [Threads -> Labels] /\ Signalled("authSleep", "authTest") \in [Threads -> Labels]
      BY DEF TypeInv, TypeOK, ThreadType, Signalled, Labels, CmdLabels
    <3>2. {"refuse", "confirm", "loadErr", "loadBye", "storeId", "send", "quit"}
            \subseteq Effects \ {"port"}
      BY DEF Effects
    <3>. QED
      BY <1>1, <3>1, <3>2 DEF RcvRefuse, RcvConfirm, RcvLoadId, RcvStoreId, RcvSend, RcvQuit
  <2>2. UNCHANGED <<toClient, response>>
    BY <1>1 DEF RcvRefuse, RcvConfirm, RcvLoadId, RcvStoreId, RcvSend, RcvQuit,
                rcvElsewhere, serverVars
  <2>. QED
    BY <2>1, <2>2, PerformTail
<1>2. CASE \/ RcvTest \/ RcvReceive \/ RcvFails \/ RcvSearch \/ RcvLoadCount
           \/ RcvDec \/ RcvFlag \/ RcvUnlock
  BY <1>2 DEF RcvTest, RcvReceive, RcvFails, RcvSearch, RcvLoadCount, RcvDec,
              RcvFlag, RcvUnlock, rcvVars
<1>. QED
  BY <1>1, <1>2 DEF RcvNext, RcvRun

\* Only the receive thread touches its script and its response.
LEMMA ScriptIsLocal ==
  ASSUME [Next]_vars, ~RcvStep
  PROVE  UNCHANGED rcvVars
<1>1. CASE CmdStep
  BY <1>1, Zenon
  DEF CmdStep, CmdNext, CmdRun, cmdElsewhere, CmdTest, CmdRead, CmdEof,
      CmdReadError, CmdOverlong, CmdLocal, CmdLoadId, CmdStoreId, CmdLoadCount,
      CmdStoreCount, CmdFillSlot, CmdAuthTest, CmdSlash, CmdMsgTest, CmdSleep,
      CmdSpuriousWakeup, CmdLoadBye, CmdSendBye, CmdLock, CmdUnlock,
      CmdTeardown, CmdExit
<1>2. CASE SndStep
  BY <1>2, Zenon
  DEF SndStep, SndNext, sndElsewhere, SndTest, SndPeek, SndSend, SndSendFails,
      SndReset, SndWake, SndSettled, SndGiveUp, SndQuit, SndLoadBye, SndStoreId,
      SndSendBye, SndLock, SndLoadCount, SndStoreCount, SndFillSlot, SndUnlock,
      SndCancel
<1>3. CASE SigStep \/ LifeStep
  BY <1>3 DEF SigStep, SigRun, LifeStep, LifeRun, sigElsewhere, SigArrives,
              SigStoreId, SigSend, SigSet, MainJoins, CancelDies
<1>4. CASE SrvStep
  BY <1>4 DEF SrvStep, SrvNext, srvElsewhere, SrvConfirm, SrvServe, SrvNotify
<1>5. CASE UNCHANGED vars
  BY <1>5 DEF vars
<1>. QED
  BY <1>1, <1>2, <1>3, <1>4, <1>5 DEF Next

\* Only the server puts datagrams on the way to the client and accepts.
LEMMA ServerIsLocal ==
  ASSUME [Next]_vars, ~SrvStep
  PROVE  UNCHANGED serverVars
<1>1. CASE CmdStep
  BY <1>1, Zenon
  DEF CmdStep, CmdNext, CmdRun, cmdElsewhere, CmdTest, CmdRead, CmdEof,
      CmdReadError, CmdOverlong, CmdLocal, CmdLoadId, CmdStoreId, CmdLoadCount,
      CmdStoreCount, CmdFillSlot, CmdAuthTest, CmdSlash, CmdMsgTest, CmdSleep,
      CmdSpuriousWakeup, CmdLoadBye, CmdSendBye, CmdLock, CmdUnlock,
      CmdTeardown, CmdExit
<1>2. CASE SndStep
  BY <1>2, Zenon
  DEF SndStep, SndNext, sndElsewhere, SndTest, SndPeek, SndSend, SndSendFails,
      SndReset, SndWake, SndSettled, SndGiveUp, SndQuit, SndLoadBye, SndStoreId,
      SndSendBye, SndLock, SndLoadCount, SndStoreCount, SndFillSlot, SndUnlock,
      SndCancel
<1>3. CASE RcvStep
  BY <1>3, Zenon
  DEF RcvStep, RcvNext, RcvRun, rcvElsewhere, RcvTest, RcvReceive, RcvFails,
      RcvLock, RcvSearch, RcvLoadCount, RcvDec, RcvFlag, RcvPort, RcvVerify,
      RcvRefuse, RcvConfirm, RcvLoadId, RcvStoreId, RcvSend, RcvQuit, RcvUnlock
<1>4. CASE SigStep \/ LifeStep
  BY <1>4 DEF SigStep, SigRun, LifeStep, LifeRun, sigElsewhere, SigArrives,
              SigStoreId, SigSend, SigSet, MainJoins, CancelDies
<1>5. CASE UNCHANGED vars
  BY <1>5 DEF vars
<1>. QED
  BY <1>1, <1>2, <1>3, <1>4, <1>5 DEF Next

-----------------------------------------------------------------------------
(* AuthGate.                                                               *)

\* What the server does before it has accepted an AUTH grants nothing.
LEMMA GateServer ==
  ASSUME TypeInv, Quiet, NoGrant, SrvStep, ~accepted'
  PROVE  NoGrant'
<1>1. UNCHANGED <<response, script>>
  BY DEF SrvStep, SrvNext, SrvConfirm, SrvServe, SrvNotify, srvElsewhere, rcvVars
<1>2. ASSUME NEW d \in toClient', d \notin toClient
      PROVE  ~(d.type = "REPLY" /\ d.ok)
  <2>1. CASE SrvConfirm \/ SrvNotify
    BY <1>2, <2>1 DEF SrvConfirm, SrvNotify, Confirmation, Notice, NoticeKinds
  <2>2. CASE SrvServe
    <3>1. PICK r \in toServer, ok \in BOOLEAN :
            /\ r.msg.type \in UserTypes
            /\ accepted' = (accepted \/ (r.msg.type = "AUTH" /\ ok))
            /\ toClient' = toClient \cup {Confirmation(r.msg)} \cup
                 (IF r.msg.type = "MSG" THEN {} ELSE {Verdict(r.msg, ok)})
      BY <2>2, Zenon DEF SrvServe
    <3>2. r.msg.type = "AUTH"
      BY <3>1 DEF UserTypes, Quiet, Gated
    <3>3. ok = FALSE
      BY <3>1, <3>2
    <3>4. d = Confirmation(r.msg) \/ d = Verdict(r.msg, ok)
      BY <1>2, <3>1, <3>2
    <3>5. Confirmation(r.msg).type # "REPLY"
      BY DEF Confirmation
    <3>6. ~Verdict(r.msg, ok).ok
      BY <3>3 DEF Verdict
    <3>. QED
      BY <3>4, <3>5, <3>6, Zenon
  <2>. QED
    BY <2>1, <2>2 DEF SrvStep, SrvNext
<1>. QED
  BY <1>1, <1>2 DEF NoGrant

\* The receive thread turns no refusal into a grant.
LEMMA GateReceive ==
  ASSUME TypeInv, NoGrant, RcvNext
  PROVE  NoGrant'
<1>1. CASE RcvLock
  <2>1. UNCHANGED <<toClient, response>>
    BY <1>1 DEF RcvLock, rcvElsewhere, serverVars
  <2>2. response.ok \in BOOLEAN
    BY DEF TypeInv, TypeOK, ThreadType, Response
  <2>3. script' = script \/ script' = Script(response)
    BY <1>1, Zenon DEF RcvLock
  <2>4. \A i \in 1 .. Len(Script(response)) : Script(response)[i] # "verify"
    <3>1. ~(response.type = "REPLY" /\ response.ok)
      BY DEF NoGrant
    <3>. QED
      BY <2>2, <3>1, ScriptShape
  <2>5. \A i \in 1 .. Len(script') : script'[i] # "verify"
    BY <2>3, <2>4 DEF NoGrant
  <2>. QED
    BY <2>1, <2>5 DEF NoGrant
<1>2. CASE UNCHANGED script
  <2>1. UNCHANGED toClient
    BY DEF RcvNext, RcvRun, RcvTest, RcvReceive, RcvFails, RcvLock, RcvSearch,
           RcvLoadCount, RcvDec, RcvFlag, RcvPort, RcvVerify, RcvRefuse,
           RcvConfirm, RcvLoadId, RcvStoreId, RcvSend, RcvQuit, RcvUnlock,
           rcvElsewhere, serverVars
  <2>2. response' = response \/ response' \in toClient \/ response' = NoResponse
    BY DEF RcvNext, RcvRun, RcvTest, RcvReceive, RcvFails, RcvLock, RcvSearch,
           RcvLoadCount, RcvDec, RcvFlag, RcvPort, RcvVerify, RcvRefuse,
           RcvConfirm, RcvLoadId, RcvStoreId, RcvSend, RcvQuit, RcvUnlock,
           rcvVars
  <2>3. ~(response'.type = "REPLY" /\ response'.ok)
    BY <2>2 DEF NoGrant, NoResponse
  <2>. QED
    BY <1>2, <2>1, <2>3 DEF NoGrant
<1>3. CASE RcvPort
  <2>1. UNCHANGED <<toClient, response>> /\ Perform("port", pc)
    BY <1>3 DEF RcvPort, rcvElsewhere, serverVars
  <2>. QED
    BY <2>1, PerformTail DEF NoGrant
<1>4. ~RcvVerify
  BY PerformTail DEF RcvVerify, NoGrant
<1>. QED
  BY <1>1, <1>2, <1>3, <1>4, ScriptSteps DEF NoGrant

\* The gate holds in every step.
LEMMA GateNext ==
  ASSUME TypeInv, GateInv, [Next]_vars
  PROVE  GateInv'
<1>1. CASE accepted
  <2>1. CASE SrvStep
    <3>1. accepted'
      BY <1>1, <2>1, Zenon DEF SrvStep, SrvNext, SrvConfirm, SrvServe, SrvNotify
    <3>. QED
      BY <3>1 DEF GateInv
  <2>2. CASE ~SrvStep
    BY <1>1, <2>2, ServerIsLocal DEF GateInv, serverVars
  <2>. QED
    BY <2>1, <2>2
<1>2. CASE ~accepted /\ ~accepted'
  <2>1. Quiet /\ NoGrant
    BY <1>2 DEF GateInv
  <2>2. ~RcvVerify
    BY <2>1, PerformTail DEF RcvVerify, NoGrant
  <2>3. Quiet'
    BY <2>1, <2>2, QuietNext
  <2>4. NoGrant'
    <3>1. CASE SrvStep
      BY <1>2, <2>1, <3>1, GateServer
    <3>2. CASE RcvStep
      BY <2>1, <3>2, GateReceive DEF RcvStep
    <3>3. CASE ~SrvStep /\ ~RcvStep
      <4>1. UNCHANGED grantVars
        BY <3>3, ServerIsLocal, ScriptIsLocal DEF grantVars, serverVars, rcvVars
      <4>. QED
        BY <2>1, <4>1 DEF NoGrant, grantVars
    <3>. QED
      BY <3>1, <3>2, <3>3
  <2>. QED
    BY <2>3, <2>4 DEF GateInv
<1>. QED
  BY <1>1, <1>2 DEF GateInv

\* Before the server has accepted an AUTH the client neither takes itself for
\* verified nor lets a JOIN or a MSG out, for any number of lines, queue slots
\* and retransmissions, and whatever the server sends (UDP.c:261, 480).
THEOREM AuthGateHolds == Spec => []AuthGate
<1>1. Init => GateInv
  <2>. SUFFICES ASSUME Init PROVE GateInv
    OBVIOUS
  <2>1. Quiet
    <3>1. Blank.type \notin Gated
      BY DEF Blank, Gated
    <3>2. ~AUTH_VER
      BY Zenon DEF Init
    <3>. QED
      BY <3>1, <3>2 DEF Init, Quiet, Slots
  <2>2. NoGrant
    <3>1. toClient = {} /\ response.type = "CONFIRM" /\ script = <<>>
      BY DEF Init, NoResponse
    <3>. QED
      BY <3>1 DEF NoGrant
  <2>. QED
    BY <2>1, <2>2 DEF GateInv
<1>2. GateInv => AuthGate
  BY DEF GateInv, AuthGate, Quiet, Gated
<1>. QED
  BY <1>1, <1>2, GateNext, TypeInvariant, PTL DEF Spec

-----------------------------------------------------------------------------
(* SessionPort.                                                            *)

\* Whatever is sent goes to the port the client holds (UDP.c:305, 523, 833, 869, 916, 960).
LEMMA SendsToPort ==
  ASSUME [Next]_vars
  PROVE  UNCHANGED toServer \/ \E m : Transmit(m)
<1>1. CASE CmdStep
  BY <1>1, Zenon
  DEF CmdStep, CmdNext, CmdRun, CmdTest, CmdRead, CmdEof, CmdReadError,
      CmdOverlong, CmdLocal, CmdLoadId, CmdStoreId, CmdLoadCount,
      CmdStoreCount, CmdFillSlot, CmdAuthTest, CmdSlash, CmdMsgTest, CmdSleep,
      CmdSpuriousWakeup, CmdLoadBye, CmdSendBye, CmdLock, CmdUnlock,
      CmdTeardown, CmdExit
<1>2. CASE SndStep
  BY <1>2, Zenon
  DEF SndStep, SndNext, SndTest, SndPeek, SndSend, SndSendFails, SndReset,
      SndWake, SndSettled, SndGiveUp, SndQuit, SndLoadBye, SndStoreId,
      SndSendBye, SndLock, SndLoadCount, SndStoreCount, SndFillSlot, SndUnlock,
      SndCancel
<1>3. CASE RcvStep
  BY <1>3, Zenon
  DEF RcvStep, RcvNext, RcvRun, RcvTest, RcvReceive, RcvFails, RcvLock,
      RcvSearch, RcvLoadCount, RcvDec, RcvFlag, RcvPort, RcvVerify, RcvRefuse,
      RcvConfirm, RcvLoadId, RcvStoreId, RcvSend, RcvQuit, RcvUnlock
<1>4. CASE SigStep \/ LifeStep
  BY <1>4, Zenon DEF SigStep, SigRun, LifeStep, LifeRun, SigArrives,
              SigStoreId, SigSend, SigSet, MainJoins, CancelDies
<1>5. CASE SrvStep
  BY <1>5, Zenon DEF SrvStep, SrvNext, srvElsewhere, SrvConfirm, SrvServe, SrvNotify
<1>6. CASE UNCHANGED vars
  BY <1>6 DEF vars
<1>. QED
  BY <1>1, <1>2, <1>3, <1>4, <1>5, <1>6 DEF Next

\* RcvPort alone changes the port.
LEMMA PortStays ==
  ASSUME [Next]_vars
  PROVE  UNCHANGED server_port \/ RcvPort
<1>1. CASE CmdStep
  BY <1>1, Zenon
  DEF CmdStep, CmdNext, CmdRun, cmdElsewhere, CmdTest, CmdRead, CmdEof,
      CmdReadError, CmdOverlong, CmdLocal, CmdLoadId, CmdStoreId, CmdLoadCount,
      CmdStoreCount, CmdFillSlot, CmdAuthTest, CmdSlash, CmdMsgTest, CmdSleep,
      CmdSpuriousWakeup, CmdLoadBye, CmdSendBye, CmdLock, CmdUnlock,
      CmdTeardown, CmdExit
<1>2. CASE SndStep
  BY <1>2, Zenon
  DEF SndStep, SndNext, sndElsewhere, authVars, SndTest, SndPeek, SndSend,
      SndSendFails, SndReset, SndWake, SndSettled, SndGiveUp, SndQuit,
      SndLoadBye, SndStoreId, SndSendBye, SndLock, SndLoadCount, SndStoreCount,
      SndFillSlot, SndUnlock, SndCancel
<1>3. CASE RcvStep
  BY <1>3, Zenon
  DEF RcvStep, RcvNext, RcvRun, authVars, RcvTest, RcvReceive, RcvFails,
      RcvLock, RcvSearch, RcvLoadCount, RcvDec, RcvFlag, RcvVerify,
      RcvRefuse, RcvConfirm, RcvLoadId, RcvStoreId, RcvSend, RcvQuit, RcvUnlock
<1>4. CASE SigStep \/ LifeStep \/ SrvStep
  BY <1>4 DEF SigStep, SigRun, LifeStep, LifeRun, sigElsewhere, authVars,
              SigArrives, SigStoreId, SigSend, SigSet, MainJoins, CancelDies,
              SrvStep, SrvNext, srvElsewhere, SrvConfirm, SrvServe, SrvNotify
<1>5. CASE UNCHANGED vars
  BY <1>5 DEF vars, authVars
<1>. QED
  BY <1>1, <1>2, <1>3, <1>4, <1>5 DEF Next

\* Unless the port is stored, the script does not come to a verdict first.
LEMMA PortReceive ==
  ASSUME TypeInv, PortFirst, RcvNext, ~RcvPort
  PROVE  PortFirst'
<1>1. CASE RcvLock
  <2>1. response.ok \in BOOLEAN
    BY DEF TypeInv, TypeOK, ThreadType, Response
  <2>2. script' = script \/ script' = Script(response)
    BY <1>1, Zenon DEF RcvLock
  <2>3. \/ Head(Script(response)) = "port"
        \/ \A i \in 1 .. Len(Script(response)) : Script(response)[i] # "verify"
    BY <2>1, ScriptShape
  <2>. QED
    BY <2>2, <2>3 DEF PortFirst
<1>2. CASE UNCHANGED script
  BY <1>2 DEF PortFirst
<1>3. ~RcvVerify
  BY PerformTail DEF RcvVerify, PortFirst
<1>. QED
  BY <1>1, <1>2, <1>3, ScriptSteps DEF PortFirst

\* The port of the session is stored before anything is let out, in every step.
LEMMA PortNext ==
  ASSUME TypeInv, PortInv, [Next]_vars
  PROVE  PortInv'
<1>1. CASE server_port = "session"
  <2>1. server_port' = "session"
    BY <1>1, PortStays DEF RcvPort
  <2>2. SessionPort'
    BY <1>1, SendsToPort DEF PortInv, SessionPort, Transmit
  <2>. QED
    BY <2>1, <2>2 DEF PortInv
<1>2. CASE Quiet /\ PortFirst
  <2>1. ~RcvVerify
    BY <1>2, PerformTail DEF RcvVerify, PortFirst
  <2>2. Quiet'
    BY <1>2, <2>1, QuietNext
  <2>3. SessionPort'
    BY <2>2 DEF SessionPort, Quiet, Gated
  <2>4. CASE RcvPort
    BY <2>3, <2>4 DEF RcvPort, PortInv
  <2>5. CASE ~RcvPort
    <3>1. PortFirst'
      <4>1. CASE RcvStep
        BY <1>2, <2>5, <4>1, PortReceive DEF RcvStep
      <4>2. CASE ~RcvStep
        BY <1>2, <4>2, ScriptIsLocal DEF rcvVars, PortFirst
      <4>. QED
        BY <4>1, <4>2
    <3>. QED
      BY <2>2, <2>3, <3>1 DEF PortInv
  <2>. QED
    BY <2>4, <2>5
<1>. QED
  BY <1>1, <1>2 DEF PortInv

\* Every JOIN and MSG goes to the port the server chose for the session, for
\* every value of the constants (UDP.c:260-261).
THEOREM SessionPortHolds == Spec => []SessionPort
<1>1. Init => PortInv
  <2>. SUFFICES ASSUME Init PROVE PortInv
    OBVIOUS
  <2>1. Quiet
    <3>1. Blank.type \notin Gated
      BY DEF Blank, Gated
    <3>2. ~AUTH_VER
      BY Zenon DEF Init
    <3>. QED
      BY <3>1, <3>2 DEF Init, Quiet, Slots
  <2>2. PortFirst
    BY DEF Init, PortFirst
  <2>3. SessionPort
    BY DEF Init, SessionPort
  <2>. QED
    BY <2>1, <2>2, <2>3 DEF PortInv
<1>2. PortInv => SessionPort
  BY DEF PortInv
<1>. QED
  BY <1>1, <1>2, PortNext, TypeInvariant, PTL DEF Spec

=============================================================================
