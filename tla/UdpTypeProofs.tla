---------------------------- MODULE UdpTypeProofs ----------------------------
(***************************************************************************)
(* The UDP client is type correct: Spec => []TypeOK.  TypeOK is not        *)
(* inductive as it stands, LocalsReady is what it needs besides.           *)
(***************************************************************************)
EXTENDS UdpClient, TLAPS

\* The line the command thread composes a message from is one that is queued,
\* and the receive thread takes one from a count that is not zero: it has found
\* a match, and no other thread lowers the count.
LocalsReady ==
  /\ pc["cmd"] = "loadId" => line \in Queued
  /\ pc["rcv"] = "load" => pending_messages_count > 0
  /\ pc["rcv"] = "dec" => slot["rcv"] > 0

TypeInv == TypeOK /\ LocalsReady

USE ConstantsAssumption
DEF Threads, vars, queueVars, flagVars, stopVars, authVars, userVars,
    localVars, rcvVars, lifeVars, serverVars, cmdElsewhere, sndElsewhere,
    rcvElsewhere, sigElsewhere, srvElsewhere

-----------------------------------------------------------------------------
(* The operators that the actions are built from.                          *)

\* The lines that become a message (u_handle_command, UDP.c:607-664).
LEMMA QueuedIs == Queued = {"auth", "join", "msg"}
  BY DEF Queued, MessageOf

\* u_handle_command leaves a command of the protocol in u_current_command.
LEMMA CommandOfType ==
  ASSUME TypeOK, NEW k \in LineKinds
  PROVE  CommandOf(k) \in Commands
  BY DEF CommandOf, Commands, AuthLines, TypeOK, MemoryType

\* Only a line that becomes a message sends the thread to draw an id.
LEMMA HandlerType ==
  ASSUME NEW k
  PROVE  /\ Handler(k) \in {"loadId", "overlong", "local"}
         /\ Handler(k) = "loadId" => k \in Queued
  BY DEF Handler

\* Where the command thread goes when the loop ends.
LEMMA AfterLoopType == AfterLoop \in {"loadBye", "teardown"}
  BY DEF AfterLoop

\* A sequence of anything may be empty.
LEMMA EmptyIsSeq ==
  ASSUME NEW S
  PROVE  <<>> \in Seq(S)
  OBVIOUS

\* Ids are drawn from a space that is not empty.
LEMMA ZeroId == 0 \in MessageIds
  BY DEF MessageIds, IdSpace

\* A remainder is below the modulus.
LEMMA ModBound ==
  ASSUME NEW n \in Nat, n > 0, NEW i \in Nat
  PROVE  i % n \in 0 .. n - 1
  OBVIOUS

\* generate_message_id stays within 16 bits (UDP.c:79-82).
LEMMA NextIdType ==
  ASSUME NEW i \in MessageIds
  PROVE  NextId(i) \in MessageIds
<1>. DEFINE n == IdSpace
<1>1. n \in Nat /\ n > 0
  BY DEF IdSpace
<1>2. i \in Nat
  BY DEF MessageIds
<1>. HIDE DEF n
<1>3. (i + 1) % n \in 0 .. n - 1
  BY <1>1, <1>2, ModBound
<1>. QED
  BY <1>3 DEF n, MessageIds, NextId

\* A message in place of another is a message.
LEMMA ReplaceType ==
  ASSUME NEW t \in Threads, NEW f \in [Threads -> Message], NEW m \in Message
  PROVE  [f EXCEPT ![t] = m] \in [Threads -> Message]
  OBVIOUS

\* A zero-initialised slot is a message, of type BLANK.
LEMMA BlankType == Blank \in Message
  BY ZeroId DEF Blank, Message, ClientTypes

\* What the client sends on its own behalf is a message.
LEMMA ControlType ==
  ASSUME NEW type \in {"BYE", "ERR", "CONFIRM"}, NEW id \in MessageIds
  PROVE  Control(type, id) \in Message
  BY DEF Control, Message, ClientTypes

\* What the command thread composes from a line is a message.
LEMMA ComposedType ==
  ASSUME TypeOK, NEW k \in Queued, NEW n \in 0 .. MaxLines
  PROVE  [type |-> MessageOf[k], id |-> 0, body |-> lines_read, name |-> n]
           \in Message
<1>1. MessageOf[k] \in ClientTypes
  BY QueuedIs DEF MessageOf, ClientTypes, UserTypes
<1>. QED
  BY <1>1, ZeroId DEF Message, TypeOK, ThreadType

\* Drawing an id leaves a message in the thread's draft.
LEMMA LoadIdType ==
  ASSUME TypeOK, NEW t \in Threads, NEW m \in Message, LoadId(t, m)
  PROVE  draft' \in [Threads -> Message]
<1>1. [m EXCEPT !.id = last_message_id] \in Message
  BY DEF TypeOK, MemoryType, Message
<1>. QED
  BY <1>1 DEF LoadId, TypeOK, ThreadType

\* Storing the next id keeps the counter within 16 bits.
LEMMA StoreIdType ==
  ASSUME TypeOK, NEW t \in Threads, StoreId(t)
  PROVE  last_message_id' \in MessageIds
<1>1. draft[t].id \in MessageIds
  BY DEF TypeOK, ThreadType, Message
<1>. QED
  BY <1>1, NextIdType DEF StoreId

\* A thread that is done with its message has a blank one.
LEMMA DiscardType ==
  ASSUME TypeOK, NEW t \in Threads, Discard(t)
  PROVE  draft' \in [Threads -> Message]
  BY BlankType DEF Discard, TypeOK, ThreadType

\* Filling a slot keeps the array, the drafts and the loaded counts typed.
LEMMA FillSlotType ==
  ASSUME TypeOK, NEW t \in Threads, FillSlot(t)
  PROVE  /\ pending_messages' \in [0 .. MaxPending - 1 -> Message]
         /\ draft' \in [Threads -> Message]
         /\ slot' \in [Threads -> Nat]
<1>1. draft' \in [Threads -> Message]
  BY DiscardType DEF FillSlot
<1>. QED
  BY <1>1 DEF FillSlot, TypeOK, MemoryType, ThreadType

\* What is sent is a datagram to one of the two ports.
LEMMA TransmitType ==
  ASSUME TypeOK, NEW m \in Message, Transmit(m)
  PROVE  toServer' \subseteq Datagram
  BY DEF Transmit, Datagram, TypeOK, MemoryType, NetworkType
-----------------------------------------------------------------------------
(* The steps of each thread.                                               *)

\* The initial state: main, before the threads are created.
LEMMA InitType == Init => TypeInv
<1>. SUFFICES ASSUME Init PROVE TypeInv
  OBVIOUS
<1>0. 0 \in 0 .. MaxLines
  OBVIOUS
<1>1. MemoryType
  <2>1. pending_messages \in [0 .. MaxPending - 1 -> Message]
    BY BlankType DEF Init
  <2>2. last_message_id \in MessageIds
    BY ZeroId DEF Init
  <2>3. /\ confirmation_received \in BOOLEAN /\ have_sent \in BOOLEAN
        /\ quit \in BOOLEAN /\ quit_requested \in BOOLEAN
        /\ receive_thread_active \in BOOLEAN
        /\ AUTH_VER \in BOOLEAN /\ result_auth_flag \in BOOLEAN
    BY Zenon DEF Init
  <2>4. pending_messages_count \in Nat /\ u_dname \in 0 .. MaxLines
    BY <1>0 DEF Init
  <2>5. /\ server_port \in Ports /\ u_current_command \in Commands
        /\ mutex \in {"free", "cmd", "snd", "rcv", "gone"}
    BY DEF Init, Ports, Commands
  <2>. QED
    BY <2>1, <2>2, <2>3, <2>4, <2>5, Zenon DEF MemoryType
<1>2. ThreadType
  <2>1. pc \in [Threads -> Labels]
    BY DEF Init, Labels, CmdLabels, SndLabels, RcvLabels, SigLabels
  <2>2. response \in Response
    BY ZeroId DEF Init, NoResponse, Response
  <2>3. draft \in [Threads -> Message] /\ slot \in [Threads -> Nat]
    BY BlankType DEF Init
  <2>4. script \in Seq(Effects)
    BY EmptyIsSeq DEF Init
  <2>5. exited \in BOOLEAN /\ cancelled \subseteq Threads
    BY Zenon DEF Init
  <2>6. lines_read \in 0 .. MaxLines /\ retransmission_count \in Nat
    BY <1>0 DEF Init
  <2>7. line \in LineKinds
    BY DEF Init, LineKinds
  <2>. QED
    BY <2>1, <2>2, <2>3, <2>4, <2>5, <2>6, <2>7, Zenon DEF ThreadType
<1>3. NetworkType
  <2>1. served \in Seq(Message) /\ submitted \in Seq(Message)
    BY EmptyIsSeq DEF Init
  <2>2. toServer \subseteq Datagram /\ toClient \subseteq Response
    BY DEF Init
  <2>3. accepted \in BOOLEAN
    BY Zenon DEF Init
  <2>. QED
    BY <2>1, <2>2, <2>3 DEF NetworkType
<1>4. LocalsReady
  BY DEF Init, LocalsReady
<1>. QED
  BY <1>1, <1>2, <1>3, <1>4 DEF TypeInv, TypeOK

\* The receive thread is given effects it knows.
LEMMA ScriptType ==
  ASSUME NEW d
  PROVE  Script(d) \in Seq(Effects)
<1>. DEFINE verdict == IF d.ok THEN "verify" ELSE "refuse"
<1>1. verdict \in Effects
  BY DEF Effects
<1>. HIDE DEF verdict
<1>2. <<"port", verdict, "confirm">> \in Seq(Effects)
  BY <1>1 DEF Effects
<1>3. <<"confirm", "loadBye", "storeId", "send", "quit">> \in Seq(Effects)
  BY DEF Effects
<1>4. <<"confirm", "loadErr", "storeId", "send", "quit">> \in Seq(Effects)
  BY DEF Effects
<1>5. <<"loadErr", "storeId", "send", "loadBye", "storeId", "send", "quit">>
        \in Seq(Effects)
  BY DEF Effects
<1>6. <<"confirm">> \in Seq(Effects)
  BY DEF Effects
<1>. QED
  BY <1>2, <1>3, <1>4, <1>5, <1>6, Zenon DEF Script, OnVerdict, OnClose, verdict

\* Performing an effect shortens the script and moves the receive thread.
LEMMA PerformType ==
  ASSUME TypeInv, NEW e, NEW after \in [Threads -> Labels], Perform(e, after)
  PROVE  /\ script' \in Seq(Effects)
         /\ pc' \in [Threads -> Labels]
         /\ pc'["cmd"] = after["cmd"]
         /\ pc'["rcv"] \in {"unlock", "script"}
  BY DEF Perform, TypeInv, TypeOK, ThreadType, Labels, CmdLabels, SndLabels,
         RcvLabels, SigLabels

\* Closing the gap copies messages from slots of the array only.
LEMMA ShiftDownType ==
  ASSUME TypeOK, NEW i
  PROVE  ShiftDown(i) \in [0 .. MaxPending - 1 -> Message]
  BY DEF ShiftDown, Pending, TypeOK, MemoryType

\* The response of a thread that has none.
LEMMA NoResponseType == NoResponse \in Response
  BY ZeroId DEF NoResponse, Response

\* What the server sends are datagrams the client can tell apart.
LEMMA ServerType ==
  ASSUME NEW m \in Message, NEW ok \in BOOLEAN, NEW k \in NoticeKinds
  PROVE  {Confirmation(m), Verdict(m, ok), Notice(k)} \subseteq Response
  BY ZeroId DEF Confirmation, Verdict, Notice, Response, Message

\* process_commands and what it calls (UDP.c:458-541, 607-812).
LEMMA CmdType ==
  ASSUME TypeInv, CmdNext
  PROVE  TypeInv'
<1>. USE DEF TypeInv, TypeOK, MemoryType, ThreadType, NetworkType, LocalsReady,
            Step, Labels, CmdLabels, SndLabels, RcvLabels, SigLabels
<1>1. CASE CmdTest
  BY <1>1, AfterLoopType, SMT DEF CmdTest
<1>2. CASE CmdRead
  <2>1. PICK k \in Lines : IF Rejected(k)
          THEN Step("cmd", "read", "test") /\ UNCHANGED <<line, u_current_command>>
          ELSE /\ Step("cmd", "read", Handler(k))
               /\ line' = k
               /\ u_current_command' = CommandOf(k)
    BY <1>2 DEF CmdRead
  <2>2. /\ line' \in LineKinds
        /\ u_current_command' \in Commands
        /\ pc' \in [Threads -> Labels]
        /\ LocalsReady'
    <3>1. CASE Rejected(k)
      BY <1>2, <2>1, <3>1 DEF CmdRead
    <3>2. CASE ~Rejected(k)
      BY <1>2, <2>1, <3>2, CommandOfType, HandlerType DEF CmdRead
    <3>. QED
      BY <3>1, <3>2
  <2>. HIDE DEF Step, Labels, LocalsReady
  <2>. QED
    BY <1>2, <2>2, SMT DEF CmdRead
<1>3. CASE CmdEof
  BY <1>3, SMT DEF CmdEof
<1>4. CASE CmdReadError
  BY <1>4, AfterLoopType, SMT DEF CmdReadError
<1>5. CASE CmdOverlong
  BY <1>5, SMT DEF CmdOverlong, LineKinds
<1>6. CASE CmdLocal
  BY <1>6, SMT DEF CmdLocal, LineKinds
<1>7. CASE CmdLoadId
  <2>. DEFINE n == IF line = "auth" THEN lines_read ELSE u_dname
              m == [type |-> MessageOf[line], id |-> 0, body |-> lines_read,
                    name |-> n]
  <2>1. line \in Queued /\ n \in 0 .. MaxLines
    BY <1>7, Zenon DEF CmdLoadId
  <2>. HIDE DEF n
  <2>2. m \in Message
    BY <2>1, ComposedType
  <2>3. draft' \in [Threads -> Message]
    BY <1>7, <2>2, LoadIdType DEF CmdLoadId, n
  <2>. QED
    BY <1>7, <2>3, SMT DEF CmdLoadId, LineKinds
<1>8. CASE CmdStoreId
  <2>1. last_message_id' \in MessageIds
    BY <1>8, StoreIdType DEF CmdStoreId
  <2>. QED
    BY <1>8, <2>1, SMT DEF CmdStoreId
<1>9. CASE CmdLoadCount
  BY <1>9, SMT DEF CmdLoadCount, LoadCount
<1>10. CASE CmdStoreCount
  BY <1>10, SMT DEF CmdStoreCount, StoreCount
<1>11. CASE CmdFillSlot
  <2>. DEFINE to == CASE draft["cmd"].type = "AUTH" -> "authTest"
                      [] draft["cmd"].type = "JOIN" -> "slash"
                      [] draft["cmd"].type = "BYE"  -> "unlock"
                      [] OTHER                      -> "msgTest"
  <2>1. to \in {"authTest", "slash", "unlock", "msgTest"}
    OBVIOUS
  <2>. HIDE DEF to
  <2>2. Step("cmd", "pushSlot", to) /\ FillSlot("cmd")
    BY <1>11 DEF CmdFillSlot, to
  <2>3. pc' \in [Threads -> Labels] /\ LocalsReady'
    BY <1>11, <2>1, <2>2 DEF CmdFillSlot, FillSlot
  <2>4. /\ pending_messages' \in [0 .. MaxPending - 1 -> Message]
        /\ draft' \in [Threads -> Message]
        /\ slot' \in [Threads -> Nat]
    BY <2>2, FillSlotType
  <2>5. draft["cmd"] \in Message /\ draft["cmd"].name \in 0 .. MaxLines
    BY DEF Message
  <2>6. u_dname' \in 0 .. MaxLines /\ submitted' \in Seq(Message)
    BY <1>11, <2>5 DEF CmdFillSlot
  <2>7. UNCHANGED <<pending_messages_count, u_current_command, last_message_id,
                    mutex, line, lines_read, toServer, have_sent, stopVars,
                    result_auth_flag, lifeVars, cmdElsewhere>>
    BY <1>11 DEF CmdFillSlot
  <2>. HIDE DEF Step, Labels
  <2>. QED
    BY <2>3, <2>4, <2>6, <2>7, SMT
<1>12. CASE CmdAuthTest
  <2>1. result_auth_flag' \in BOOLEAN
    BY <1>12 DEF CmdAuthTest
  <2>2. pc' \in [Threads -> Labels] /\ LocalsReady'
    BY <1>12 DEF CmdAuthTest
  <2>. HIDE DEF Step, Labels, LocalsReady
  <2>. QED
    BY <1>12, <2>1, <2>2, SMT DEF CmdAuthTest
<1>13. CASE CmdSlash
  BY <1>13, AfterLoopType, SMT DEF CmdSlash
<1>14. CASE CmdMsgTest
  <2>1. have_sent' \in BOOLEAN
    BY <1>14 DEF CmdMsgTest
  <2>2. pc' \in [Threads -> Labels] /\ LocalsReady'
    BY <1>14 DEF CmdMsgTest
  <2>. HIDE DEF Step, Labels, LocalsReady
  <2>. QED
    BY <1>14, <2>1, <2>2, SMT DEF CmdMsgTest
<1>15. CASE CmdSleep
  BY <1>15, SMT DEF CmdSleep
<1>16. CASE CmdSpuriousWakeup
  BY <1>16, SMT DEF CmdSpuriousWakeup
<1>17. CASE CmdLoadBye
  <2>1. draft' \in [Threads -> Message]
    BY <1>17, ControlType, ZeroId, LoadIdType DEF CmdLoadBye
  <2>. QED
    BY <1>17, <2>1, SMT DEF CmdLoadBye
<1>18. CASE CmdSendBye
  <2>1. toServer' \subseteq Datagram
    BY <1>18, TransmitType DEF CmdSendBye
  <2>. QED
    BY <1>18, <2>1, SMT DEF CmdSendBye
<1>19. CASE CmdLock
  BY <1>19, SMT DEF CmdLock, Acquire
<1>20. CASE CmdUnlock
  BY <1>20, SMT DEF CmdUnlock, Release
<1>21. CASE CmdTeardown
  <2>1. mutex' \in {"free", "cmd", "snd", "rcv", "gone"}
    BY <1>21 DEF CmdTeardown
  <2>2. receive_thread_active' \in BOOLEAN
    BY <1>21 DEF CmdTeardown
  <2>3. pc' \in [Threads -> Labels] /\ LocalsReady'
    BY <1>21 DEF CmdTeardown
  <2>. HIDE DEF Step, Labels, LocalsReady
  <2>. QED
    BY <1>21, <2>1, <2>2, <2>3, SMT DEF CmdTeardown
<1>22. CASE CmdExit
  BY <1>22, SMT DEF CmdExit
<1>. QED
  BY <1>1, <1>2, <1>3, <1>4, <1>5, <1>6, <1>7, <1>8, <1>9, <1>10,
     <1>11, <1>12, <1>13, <1>14, <1>15, <1>16, <1>17, <1>18, <1>19, <1>20, <1>21, <1>22
  DEF CmdNext, CmdRun

\* send_message_thread (UDP.c:827-896).
LEMMA SndType ==
  ASSUME TypeInv, SndNext
  PROVE  TypeInv'
<1>. USE DEF TypeInv, TypeOK, MemoryType, ThreadType, NetworkType, LocalsReady,
            Step, Labels, CmdLabels, SndLabels, RcvLabels, SigLabels
<1>1. CASE SndTest
  BY <1>1, SMT DEF SndTest
<1>2. CASE SndPeek
  <2>1. pending_messages[0] \in Message
    OBVIOUS
  <2>2. draft' = [draft EXCEPT !["snd"] = pending_messages[0]] \/ draft' = draft
    BY <1>2, Zenon DEF SndPeek
  <2>3. draft' \in [Threads -> Message]
    BY <2>1, <2>2, ReplaceType
  <2>. QED
    BY <1>2, <2>3, SMT DEF SndPeek
<1>3. CASE SndSend
  <2>1. toServer' \subseteq Datagram
    BY <1>3, TransmitType DEF SndSend
  <2>2. draft' \in [Threads -> Message]
    BY <1>3, DiscardType DEF SndSend
  <2>. QED
    BY <1>3, <2>1, <2>2, SMT DEF SndSend
<1>4. CASE SndSendFails
  BY <1>4, SMT DEF SndSendFails
<1>5. CASE SndReset
  <2>1. confirmation_received' \in BOOLEAN
    BY <1>5 DEF SndReset
  <2>2. pc' \in [Threads -> Labels] /\ LocalsReady'
    BY <1>5 DEF SndReset
  <2>. HIDE DEF Step, Labels, LocalsReady
  <2>. QED
    BY <1>5, <2>1, <2>2, SMT DEF SndReset
<1>6. CASE SndWake
  BY <1>6, SMT DEF SndWake, GiveUp
<1>7. CASE SndSettled
  BY <1>7, SMT DEF SndSettled, Signalled
<1>8. CASE SndGiveUp
  <2>1. have_sent' \in BOOLEAN
    BY <1>8 DEF SndGiveUp
  <2>2. pc' \in [Threads -> Labels] /\ LocalsReady'
    BY <1>8 DEF SndGiveUp, Signalled
  <2>. HIDE DEF Step, Labels, LocalsReady
  <2>. QED
    BY <1>8, <2>1, <2>2, SMT DEF SndGiveUp
<1>9. CASE SndQuit
  <2>1. quit' \in BOOLEAN /\ receive_thread_active' \in BOOLEAN
    BY <1>9, Zenon DEF SndQuit
  <2>2. pc' \in [Threads -> Labels] /\ LocalsReady'
    BY <1>9 DEF SndQuit
  <2>. HIDE DEF Step, Labels, LocalsReady
  <2>. QED
    BY <1>9, <2>1, <2>2, SMT DEF SndQuit
<1>10. CASE SndLoadBye
  <2>1. draft' \in [Threads -> Message]
    BY <1>10, ControlType, ZeroId, LoadIdType DEF SndLoadBye
  <2>. QED
    BY <1>10, <2>1, SMT DEF SndLoadBye
<1>11. CASE SndStoreId
  <2>1. last_message_id' \in MessageIds
    BY <1>11, StoreIdType DEF SndStoreId
  <2>. QED
    BY <1>11, <2>1, SMT DEF SndStoreId
<1>12. CASE SndSendBye
  <2>1. toServer' \subseteq Datagram
    BY <1>12, TransmitType DEF SndSendBye
  <2>. QED
    BY <1>12, <2>1, SMT DEF SndSendBye
<1>13. CASE SndLock
  BY <1>13, SMT DEF SndLock, Acquire
<1>14. CASE SndLoadCount
  BY <1>14, SMT DEF SndLoadCount, LoadCount
<1>15. CASE SndStoreCount
  BY <1>15, SMT DEF SndStoreCount, StoreCount
<1>16. CASE SndFillSlot
  <2>1. /\ pending_messages' \in [0 .. MaxPending - 1 -> Message]
        /\ draft' \in [Threads -> Message]
        /\ slot' \in [Threads -> Nat]
    BY <1>16, FillSlotType DEF SndFillSlot
  <2>2. LocalsReady'
    BY <1>16 DEF SndFillSlot, FillSlot
  <2>. HIDE DEF LocalsReady
  <2>. QED
    BY <1>16, <2>1, <2>2, SMT DEF SndFillSlot
<1>17. CASE SndUnlock
  BY <1>17, SMT DEF SndUnlock, Release
<1>18. CASE SndCancel
  BY <1>18, SMT DEF SndCancel
<1>. QED
  BY <1>1, <1>2, <1>3, <1>4, <1>5, <1>6, <1>7, <1>8, <1>9, <1>10,
     <1>11, <1>12, <1>13, <1>14, <1>15, <1>16, <1>17, <1>18
  DEF SndNext

\* receive_messages and process_server_response (UDP.c:194-212, 228-447).
LEMMA RcvType ==
  ASSUME TypeInv, RcvNext
  PROVE  TypeInv'
<1>. USE DEF TypeInv, TypeOK, MemoryType, ThreadType, NetworkType, LocalsReady,
            Step, Labels, CmdLabels, SndLabels, RcvLabels, SigLabels
<1>1. CASE RcvTest
  BY <1>1, SMT DEF RcvTest
<1>2. CASE RcvReceive
  BY <1>2, SMT DEF RcvReceive
<1>3. CASE RcvFails
  BY <1>3, SMT DEF RcvFails
<1>4. CASE RcvLock
  <2>1. script' \in Seq(Effects)
    BY <1>4, ScriptType DEF RcvLock
  <2>2. mutex' \in {"free", "cmd", "snd", "rcv", "gone"}
    BY <1>4 DEF RcvLock, Acquire
  <2>. QED
    BY <1>4, <2>1, <2>2, SMT DEF RcvLock
<1>5. CASE RcvSearch
  <2>1. pending_messages' \in [0 .. MaxPending - 1 -> Message]
    BY <1>5, ShiftDownType DEF RcvSearch
  <2>2. Matches # {} => pending_messages_count > 0
    BY DEF Matches, Pending
  <2>3. pc' \in [Threads -> Labels] /\ LocalsReady'
    BY <1>5, <2>2 DEF RcvSearch
  <2>. HIDE DEF Step, Labels, LocalsReady
  <2>. QED
    BY <1>5, <2>1, <2>3, SMT DEF RcvSearch
<1>6. CASE RcvLoadCount
  BY <1>6, SMT DEF RcvLoadCount, LoadCount
<1>7. CASE RcvDec
  BY <1>7, SMT DEF RcvDec
<1>8. CASE RcvFlag
  BY <1>8, SMT DEF RcvFlag
<1>9. CASE RcvPort
  <2>1. script' \in Seq(Effects) /\ pc' \in [Threads -> Labels] /\ LocalsReady'
    BY <1>9, PerformType DEF RcvPort
  <2>2. server_port' \in Ports
    BY <1>9 DEF RcvPort, Ports
  <2>3. UNCHANGED <<pending_messages, pending_messages_count, flagVars, stopVars,
                    AUTH_VER, result_auth_flag, userVars, last_message_id,
                    mutex, draft, slot, localVars, response, lifeVars,
                    toServer, serverVars>>
    BY <1>9 DEF RcvPort
  <2>. HIDE DEF LocalsReady
  <2>. QED
    BY <2>1, <2>2, <2>3, SMT
<1>10. CASE RcvVerify
  <2>1. script' \in Seq(Effects) /\ pc' \in [Threads -> Labels] /\ LocalsReady'
    <3>. DEFINE after == Signalled("authSleep", "authTest")
    <3>1. /\ after \in [Threads -> Labels]
          /\ after["cmd"] \in {pc["cmd"], "authTest"}
      BY DEF Signalled
    <3>. HIDE DEF after
    <3>2. Perform("verify", after)
      BY <1>10 DEF RcvVerify, after
    <3>. QED
      BY <1>10, <3>1, <3>2, PerformType DEF RcvVerify
  <2>. HIDE DEF LocalsReady
  <2>. QED
    BY <1>10, <2>1, SMT DEF RcvVerify
<1>11. CASE RcvRefuse
  <2>1. script' \in Seq(Effects) /\ pc' \in [Threads -> Labels] /\ LocalsReady'
    <3>. DEFINE after == Signalled("authSleep", "authTest")
    <3>1. /\ after \in [Threads -> Labels]
          /\ after["cmd"] \in {pc["cmd"], "authTest"}
      BY DEF Signalled
    <3>. HIDE DEF after
    <3>2. Perform("refuse", after)
      BY <1>11 DEF RcvRefuse, after
    <3>. QED
      BY <1>11, <3>1, <3>2, PerformType DEF RcvRefuse
  <2>. HIDE DEF LocalsReady
  <2>. QED
    BY <1>11, <2>1, SMT DEF RcvRefuse
<1>12. CASE RcvConfirm
  <2>1. script' \in Seq(Effects) /\ pc' \in [Threads -> Labels] /\ LocalsReady'
    BY <1>12, PerformType DEF RcvConfirm
  <2>2. toServer' \subseteq Datagram
    BY <1>12, ControlType, TransmitType DEF RcvConfirm, Response
  <2>. HIDE DEF LocalsReady
  <2>. QED
    BY <1>12, <2>1, <2>2, SMT DEF RcvConfirm
<1>13. CASE RcvLoadId
  <2>1. script' \in Seq(Effects) /\ pc' \in [Threads -> Labels] /\ LocalsReady'
    BY <1>13, PerformType DEF RcvLoadId
  <2>2. draft' \in [Threads -> Message]
    BY <1>13, ControlType, ZeroId, LoadIdType DEF RcvLoadId
  <2>. HIDE DEF LocalsReady
  <2>. QED
    BY <1>13, <2>1, <2>2, SMT DEF RcvLoadId
<1>14. CASE RcvStoreId
  <2>1. script' \in Seq(Effects) /\ pc' \in [Threads -> Labels] /\ LocalsReady'
    BY <1>14, PerformType DEF RcvStoreId
  <2>2. last_message_id' \in MessageIds
    BY <1>14, StoreIdType DEF RcvStoreId
  <2>. HIDE DEF LocalsReady
  <2>. QED
    BY <1>14, <2>1, <2>2, SMT DEF RcvStoreId
<1>15. CASE RcvSend
  <2>1. script' \in Seq(Effects) /\ pc' \in [Threads -> Labels] /\ LocalsReady'
    BY <1>15, PerformType DEF RcvSend
  <2>2. toServer' \subseteq Datagram
    BY <1>15, TransmitType DEF RcvSend
  <2>3. draft' \in [Threads -> Message]
    BY <1>15, DiscardType DEF RcvSend
  <2>. HIDE DEF LocalsReady
  <2>. QED
    BY <1>15, <2>1, <2>2, <2>3, SMT DEF RcvSend
<1>16. CASE RcvQuit
  <2>1. script' \in Seq(Effects) /\ pc' \in [Threads -> Labels] /\ LocalsReady'
    BY <1>16, PerformType DEF RcvQuit
  <2>. HIDE DEF LocalsReady
  <2>. QED
    BY <1>16, <2>1, SMT DEF RcvQuit
<1>17. CASE RcvUnlock
  <2>1. response' \in Response
    BY <1>17, NoResponseType DEF RcvUnlock
  <2>. QED
    BY <1>17, <2>1, SMT DEF RcvUnlock, Release
<1>. QED
  BY <1>1, <1>2, <1>3, <1>4, <1>5, <1>6, <1>7, <1>8, <1>9, <1>10,
     <1>11, <1>12, <1>13, <1>14, <1>15, <1>16, <1>17
  DEF RcvNext, RcvRun

\* sigint_handler (UDP.c:142-155).
LEMMA SigType ==
  ASSUME TypeInv, SigArrives \/ SigRun
  PROVE  TypeInv'
<1>. USE DEF TypeInv, TypeOK, MemoryType, ThreadType, NetworkType, LocalsReady,
            Step, Labels, CmdLabels, SndLabels, RcvLabels, SigLabels
<1>1. CASE SigArrives
  <2>1. draft' \in [Threads -> Message]
    BY <1>1, ControlType, ZeroId, LoadIdType DEF SigArrives
  <2>. QED
    BY <1>1, <2>1, SMT DEF SigArrives
<1>2. CASE SigStoreId
  <2>1. last_message_id' \in MessageIds
    BY <1>2, StoreIdType DEF SigStoreId
  <2>. QED
    BY <1>2, <2>1, SMT DEF SigStoreId
<1>3. CASE SigSend
  <2>1. toServer' \subseteq Datagram
    BY <1>3, TransmitType DEF SigSend
  <2>2. draft' \in [Threads -> Message]
    BY <1>3, DiscardType DEF SigSend
  <2>. QED
    BY <1>3, <2>1, <2>2, SMT DEF SigSend
<1>4. CASE SigSet
  BY <1>4, SMT DEF SigSet
<1>. QED
  BY <1>1, <1>2, <1>3, <1>4
  DEF SigRun

\* pthread_join and cancellation.
LEMMA LifeType ==
  ASSUME TypeInv, LifeRun
  PROVE  TypeInv'
<1>. USE DEF TypeInv, TypeOK, MemoryType, ThreadType, NetworkType, LocalsReady,
            Step, Labels, CmdLabels, SndLabels, RcvLabels, SigLabels
<1>1. CASE MainJoins
  BY <1>1, SMT DEF MainJoins
<1>2. CASE CancelDies("cmd")
  BY <1>2, SMT DEF CancelDies
<1>3. CASE CancelDies("rcv")
  BY <1>3, SMT DEF CancelDies
<1>. QED
  BY <1>1, <1>2, <1>3
  DEF LifeRun

\* The server.
LEMMA SrvType ==
  ASSUME TypeInv, SrvNext
  PROVE  TypeInv'
<1>. USE DEF TypeInv, TypeOK, MemoryType, ThreadType, NetworkType, LocalsReady,
            Step, Labels, CmdLabels, SndLabels, RcvLabels, SigLabels
<1>1. CASE SrvConfirm
  <2>1. toClient' \subseteq Response
    <3>1. PICK d \in toServer : toClient' = toClient \cup {Confirmation(d.msg)}
      BY <1>1 DEF SrvConfirm
    <3>2. d.msg \in Message
      BY DEF Datagram
    <3>3. Confirmation(d.msg) \in Response
      BY <3>2, ServerType DEF NoticeKinds
    <3>. QED
      BY <3>1, <3>3
  <2>. QED
    BY <1>1, <2>1, SMT DEF SrvConfirm
<1>2. CASE SrvServe
  <2>1. PICK d \in toServer, ok \in BOOLEAN :
          /\ served' = Append(served, d.msg)
          /\ accepted' = (accepted \/ (d.msg.type = "AUTH" /\ ok))
          /\ toClient' = toClient \cup {Confirmation(d.msg)} \cup
                         (IF d.msg.type = "MSG" THEN {} ELSE {Verdict(d.msg, ok)})
    BY <1>2 DEF SrvServe
  <2>2. d.msg \in Message
    BY DEF Datagram
  <2>3. Confirmation(d.msg) \in Response /\ Verdict(d.msg, ok) \in Response
    BY <2>2, ServerType DEF NoticeKinds
  <2>4. served' \in Seq(Message) /\ toClient' \subseteq Response
    BY <2>1, <2>2, <2>3
  <2>5. accepted' \in BOOLEAN
    BY <2>1
  <2>. QED
    BY <1>2, <2>4, <2>5, SMT DEF SrvServe
<1>3. CASE SrvNotify
  <2>1. toClient' \subseteq Response
    BY <1>3, ServerType DEF SrvNotify
  <2>. QED
    BY <1>3, <2>1, SMT DEF SrvNotify
<1>. QED
  BY <1>1, <1>2, <1>3
  DEF SrvNext
-----------------------------------------------------------------------------
\* Every step of the client and the server keeps the types.
LEMMA NextType ==
  ASSUME TypeInv, [Next]_vars
  PROVE  TypeInv'
<1>1. CASE CmdStep
  BY <1>1, CmdType DEF CmdStep
<1>2. CASE SndStep
  BY <1>2, SndType DEF SndStep
<1>3. CASE RcvStep
  BY <1>3, RcvType DEF RcvStep
<1>4. CASE SigStep
  BY <1>4, SigType DEF SigStep
<1>5. CASE LifeStep
  BY <1>5, LifeType DEF LifeStep
<1>6. CASE SrvStep
  BY <1>6, SrvType DEF SrvStep
<1>7. CASE UNCHANGED vars
  BY <1>7 DEF TypeInv, TypeOK, MemoryType, ThreadType, NetworkType, LocalsReady
<1>. QED
  BY <1>1, <1>2, <1>3, <1>4, <1>5, <1>6, <1>7 DEF Next

\* The strengthened invariant, which further proofs build on.
THEOREM TypeInvariant == Spec => []TypeInv
  BY InitType, NextType, PTL DEF Spec

\* For every value of the constants, every variable keeps its type: in
\* particular message ids stay within 16 bits, the receive thread never takes
\* the count of pending messages below zero, and no thread is outside its code.
THEOREM TypeCorrect == Spec => []TypeOK
<1>1. TypeInv => TypeOK
  BY DEF TypeInv
<1>. QED
  BY <1>1, TypeInvariant, PTL

=============================================================================
