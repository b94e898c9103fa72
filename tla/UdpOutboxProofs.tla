--------------------------- MODULE UdpOutboxProofs ---------------------------
(***************************************************************************)
(* The UDP client implements Outbox as long as three races are not lost:   *)
(* two threads that draw an id at once, ids that wrap around, and a        *)
(* CONFIRM that takes a message out of a slot still to be filled.          *)
(***************************************************************************)
EXTENDS UdpQueueProofs, UdpOutbox, SequenceTheorems

USE ConstantsAssumption DEF Threads

\* t has loaded the message id and not stored the next one yet.
Drawing(t) == \/ pc[t] = "storeId"
              \/ /\ t = "rcv" /\ pc["rcv"] = "script"
                 /\ script # <<>> /\ Head(script) = "storeId"

\* What the refinement needs of the schedule: no two threads draw an id at the
\* same time (claim_ids shows what happens otherwise), the ids do not wrap
\* around, and no CONFIRM takes a message out of the queue after the command
\* thread has counted its own and before it has filled the slot.
Undisturbed ==
  /\ \A t, u \in Threads : Drawing(t) /\ Drawing(u) => t = u
  /\ last_message_id < IdSpace - 1
  /\ ~(pc["cmd"] = "pushSlot" /\ pc["rcv"] = "load")

-----------------------------------------------------------------------------
(* The inductive invariant.                                                *)

\* The messages with an id of their own.
Numbered(m) == m.type \in UserTypes \cup {"BYE", "ERR"}
Around ==
  {m \in {submitted[i] : i \in 1 .. Len(submitted)}
           \cup {d.msg : d \in toServer}
           \cup {draft[t] : t \in Threads}
           \cup {pending_messages[i] : i \in 0 .. MaxPending - 1} : Numbered(m)}

\* The message of the user the command thread has not queued yet.
UserDraft == /\ pc["cmd"] \in {"storeId", "push", "pushCount", "pushSlot"}
             /\ ~ByeDraft

\* An id identifies a message, and the id to be drawn next is nobody's.
IdInv ==
  /\ \A t \in Threads : Drawing(t) => draft[t].id = last_message_id
  /\ \A m \in Around : \/ m.id < last_message_id
                       \/ \E t \in Threads : Drawing(t) /\ m = draft[t]
  /\ \A m, n \in Around : m.id = n.id => m = n

\* The receive thread stores an id next after it has loaded it, and only then.
Draws == {"loadErr", "loadBye"}
ScriptInv ==
  /\ \A i \in 1 .. Len(script) :
       script[i] \in Draws => i + 1 <= Len(script) /\ script[i + 1] = "storeId"
  /\ \A i \in 2 .. Len(script) :
       script[i] = "storeId" => script[i - 1] \in Draws

\* No message is queued twice, and every one carries a line.
OnceInv ==
  /\ \A i, j \in 1 .. Len(submitted) : submitted[i] = submitted[j] => i = j
  /\ \A i \in 1 .. Len(submitted) :
       submitted[i].type \in UserTypes /\ submitted[i].body >= 1
  /\ UserDraft => /\ draft["cmd"].type \in UserTypes /\ draft["cmd"].body >= 1
                 /\ \A i \in 1 .. Len(submitted) : submitted[i] # draft["cmd"]
  /\ pc["cmd"] = "loadId" => lines_read >= 1

\* The server has a beginning of what was queued, and of the rest at most the
\* next message can reach it.
NextOnly(m) ==
  \E i \in 1 .. Len(served) + 1 : i <= Len(submitted) /\ submitted[i] = m
WireInv ==
  /\ Len(served) <= Len(submitted)
  /\ \A i \in 1 .. Len(served) : served[i] = submitted[i]
  /\ \A d \in toServer : d.msg.type \in UserTypes => NextOnly(d.msg)
  /\ draft["snd"].type \in UserTypes => NextOnly(draft["snd"])
  /\ draft["rcv"].type \notin UserTypes /\ draft["sig"].type \notin UserTypes
  /\ \A i \in 0 .. MaxPending - 1 :
       pending_messages[i].type \in UserTypes =>
         \E j \in 1 .. Len(submitted) : submitted[j] = pending_messages[i]

\* A confirmation is of a message that was served, or of a BYE or an ERR.
ConfirmInv ==
  /\ \A r \in toClient : r.type = "CONFIRM" =>
       \/ \E i \in 1 .. Len(served) : served[i].id = r.id
       \/ \E d \in toServer : d.msg.type \in {"BYE", "ERR"} /\ d.msg.id = r.id
  /\ pc["rcv"] \in {"lock", "search"} => response \in toClient
  /\ pc["rcv"] = "search" => response.type = "CONFIRM"

\* Until the send thread gives up, at most the last message is not served, and
\* then it is the head of the queue.
Filling == pc["cmd"] = "pushSlot"
HeadInv ==
  ~GaveUp =>
    /\ Len(submitted) <= Len(served) + 1
    /\ Filling /\ ~ByeDraft =>
         /\ Len(served) = Len(submitted) /\ slot["cmd"] = 0
         /\ pending_messages_count # 0 /\ pc["rcv"] \notin {"load", "dec"}
    /\ ~Filling /\ (Fetching \/ Waiting) =>
         /\ pending_messages_count = 0 \/ pc["rcv"] \in {"load", "dec"}
              => Len(served) = Len(submitted)
         /\ pending_messages_count # 0
              => /\ Len(submitted) # 0
                 /\ pending_messages[0] = submitted[Len(submitted)]

\* The receive thread is ending the session, and sets quit at the last.
ClosingScript == pc["rcv"] = "script" /\ response.type \in Closing
QuitLast      == script # <<>> /\ script[Len(script)] = "quit"

\* An end once begun is not taken back.
ClosingInv ==
  /\ pc["snd"] = "cancel" => quit \/ quit_requested
  /\ cancelled # {} => quit \/ quit_requested \/ exited
  /\ ClosingScript => quit \/ QuitLast

OutboxInv == /\ IdInv /\ ScriptInv /\ OnceInv /\ WireInv /\ ConfirmInv
             /\ HeadInv /\ ClosingInv

-----------------------------------------------------------------------------
(* Types, and the messages around.                                         *)

LEMMA OutboxTypes ==
  ASSUME TypeInv
  PROVE  /\ pending_messages \in [0 .. MaxPending - 1 -> Message]
         /\ submitted \in Seq(Message) /\ served \in Seq(Message)
         /\ toServer \subseteq Datagram /\ toClient \subseteq Response
         /\ last_message_id \in Nat /\ lines_read \in Nat
         /\ response \in Response /\ script \in Seq(Effects)
         /\ line \in LineKinds
<1>1. MaxLines \in Nat /\ MessageIds \subseteq Nat
  BY DEF ConstantsAssumption, MessageIds, IdSpace
<1>2. last_message_id \in Nat /\ lines_read \in Nat
  BY <1>1 DEF TypeInv, TypeOK, ThreadType, MemoryType
<1>. QED
  BY <1>2 DEF TypeInv, TypeOK, ThreadType, MemoryType, NetworkType

\* What is around is a message, with a number for an id.
LEMMA AroundType ==
  ASSUME TypeInv, NEW m \in Around
  PROVE  m \in Message /\ m.id \in Nat
<1>1. /\ \A i \in 1 .. Len(submitted) : submitted[i] \in Message
      /\ \A t \in Threads : draft[t] \in Message
      /\ \A i \in 0 .. MaxPending - 1 : pending_messages[i] \in Message
  BY OutboxTypes, QueueTypes
<1>2. \A d \in toServer : d.msg \in Message
  BY OutboxTypes DEF Datagram
<1>3. m \in Message
  BY <1>1, <1>2 DEF Around
<1>4. MessageIds \subseteq Nat
  BY DEF MessageIds, IdSpace
<1>5. \A x \in Message : x.id \in Nat
  BY <1>4 DEF Message
<1>. QED
  BY <1>3, <1>5

\* A message that is no new one.
Old(m) == Numbered(m) => m \in Around

\* What is kept somewhere is around.
LEMMA OldOnes ==
  /\ \A i \in 1 .. Len(submitted) : Old(submitted[i])
  /\ \A d \in toServer : Old(d.msg)
  /\ \A t \in Threads : Old(draft[t])
  /\ \A i \in 0 .. MaxPending - 1 : Old(pending_messages[i])
  /\ Old(Blank)
<1>1. ~Numbered(Blank)
  BY DEF Numbered, Blank, UserTypes
<1>. QED
  BY <1>1 DEF Old, Around

\* A step that fills every place with old messages and with n brings n at most.
LEMMA OnlyNew ==
  ASSUME NEW n,
         \A i \in 1 .. Len(submitted') : Old(submitted'[i]),
         \A d \in toServer' : Old(d.msg),
         \A t \in Threads : Old(draft'[t]) \/ draft'[t] = n,
         \A i \in 0 .. MaxPending - 1 : Old(pending_messages'[i])
  PROVE  \A m \in Around' : m \in Around \/ m = n
<1>. SUFFICES ASSUME NEW m \in Around', m # n PROVE m \in Around
  OBVIOUS
<1>1. Numbered(m)
  BY DEF Around, Numbered
<1>2. Old(m)
  BY DEF Around
<1>. QED
  BY <1>1, <1>2 DEF Old

\* Where no place changes nothing new is around.
LEMMA AroundKept ==
  ASSUME UNCHANGED <<submitted, toServer, draft, pending_messages>>
  PROVE  \A m \in Around' : m \in Around
<1>1. \A m \in Around' : Old(m)
  BY OldOnes, ZenonT(40) DEF Around
<1>2. \A m \in Around' : Numbered(m)
  BY DEF Around, Numbered
<1>. QED
  BY <1>1, <1>2 DEF Old

\* A datagram more.
LEMMA OldSent ==
  ASSUME NEW m, Old(m), Transmit(m)
  PROVE  \A d \in toServer' : Old(d.msg)
<1>1. \A d \in toServer : Old(d.msg)
  BY OldOnes
<1>. QED
  BY <1>1 DEF Transmit

-----------------------------------------------------------------------------
(* Ids.                                                                    *)

\* A step that draws nothing.
LEMMA IdsKept ==
  ASSUME IdInv, \A m \in Around' : m \in Around, UNCHANGED last_message_id,
         \A t \in Threads : /\ Drawing(t)' <=> Drawing(t)
                            /\ Drawing(t) => draft'[t] = draft[t]
  PROVE  IdInv'
<1>1. \A t \in Threads : Drawing(t)' => draft'[t].id = last_message_id'
  BY DEF IdInv
<1>2. \A m \in Around' : \/ m.id < last_message_id'
                         \/ \E t \in Threads : Drawing(t)' /\ m = draft'[t]
  BY DEF IdInv
<1>3. \A m, n \in Around' : m.id = n.id => m = n
  BY DEF IdInv
<1>. QED
  BY <1>1, <1>2, <1>3, Zenon DEF IdInv

\* While a thread loads the id, the next one is nobody's.
LEMMA NobodyDraws ==
  ASSUME TypeInv, IdInv, Undisturbed', NEW t \in Threads, ~Drawing(t), Drawing(t)',
         \A u \in Threads \ {t} : Drawing(u)' <=> Drawing(u)
  PROVE  /\ \A u \in Threads : Drawing(u)' => u = t
         /\ \A m \in Around : m.id < last_message_id /\ m.id # last_message_id
<1>1. \A u \in Threads : Drawing(u)' => u = t
  BY DEF Undisturbed
<1>2. \A u \in Threads : ~Drawing(u)
  BY <1>1
<1>3. \A m \in Around : m.id < last_message_id
  BY <1>2 DEF IdInv
<1>. QED
  BY <1>1, <1>3, OutboxTypes

\* A thread loads the id: what it composes is new.
LEMMA IdsLoaded ==
  ASSUME TypeInv, IdInv, Undisturbed', NEW t \in Threads, ~Drawing(t), Drawing(t)',
         draft'[t].id = last_message_id, UNCHANGED last_message_id,
         \A u \in Threads \ {t} : Drawing(u)' <=> Drawing(u),
         \A m \in Around' : m \in Around \/ m = draft'[t]
  PROVE  IdInv'
<1>1. \A u \in Threads : Drawing(u)' => u = t
  BY NobodyDraws
<1>2. \A m \in Around : m.id < last_message_id
  BY NobodyDraws
<1>3. \A m \in Around : m.id # last_message_id
  BY NobodyDraws
<1>4. \A u \in Threads : Drawing(u)' => draft'[u].id = last_message_id'
  BY <1>1
<1>5. \A m \in Around' : \/ m.id < last_message_id'
                         \/ \E u \in Threads : Drawing(u)' /\ m = draft'[u]
  BY <1>2
<1>6. \A m, n \in Around' : m.id = n.id => m = n
  <2>. SUFFICES ASSUME NEW m \in Around', NEW n \in Around', m.id = n.id
                PROVE  m = n
    OBVIOUS
  <2>1. CASE m \in Around /\ n \in Around
    BY <2>1 DEF IdInv
  <2>2. CASE m = draft'[t] \/ n = draft'[t]
    BY <1>3, <2>2
  <2>. QED
    BY <2>1, <2>2
<1>. QED
  BY <1>4, <1>5, <1>6, Zenon DEF IdInv

\* It stores the one behind it, which has not wrapped around.
LEMMA IdsStored ==
  ASSUME TypeInv, IdInv, Undisturbed, NEW t \in Threads, Drawing(t), ~Drawing(t)',
         StoreId(t), UNCHANGED draft,
         \A u \in Threads \ {t} : Drawing(u)' <=> Drawing(u),
         \A m \in Around' : m \in Around
  PROVE  IdInv'
<1>1. \A u \in Threads : ~Drawing(u)'
  BY DEF Undisturbed
<1>2. last_message_id \in Nat /\ last_message_id < IdSpace - 1 /\ IdSpace \in Nat
  BY OutboxTypes DEF Undisturbed, IdSpace
<1>3. last_message_id' = last_message_id + 1
  <2>1. last_message_id' = (last_message_id + 1) % IdSpace
    BY DEF StoreId, NextId, IdInv
  <2>2. (last_message_id + 1) % IdSpace = last_message_id + 1
    BY <1>2 DEF IdSpace
  <2>. QED
    BY <2>1, <2>2
<1>4. \A m \in Around' : m.id < last_message_id'
  <2>. SUFFICES ASSUME NEW m \in Around' PROVE m.id < last_message_id'
    OBVIOUS
  <2>1. m.id \in Nat
    BY AroundType
  <2>2. m.id < last_message_id \/ m.id = last_message_id
    BY DEF IdInv
  <2>. QED
    BY <1>2, <1>3, <2>1, <2>2
<1>5. \A m, n \in Around' : m.id = n.id => m = n
  BY DEF IdInv
<1>. QED
  BY <1>1, <1>4, <1>5, Zenon DEF IdInv

\* One message more at the end.
LEMMA Appended ==
  ASSUME NEW S, NEW s \in Seq(S), NEW e \in S
  PROVE  /\ Append(s, e) \in Seq(S)
         /\ Len(Append(s, e)) = Len(s) + 1
         /\ \A i \in 1 .. Len(s) : Append(s, e)[i] = s[i]
         /\ Append(s, e)[Len(s) + 1] = e
         /\ \A i \in 1 .. Len(s) + 1 : i \in 1 .. Len(s) \/ i = Len(s) + 1
  OBVIOUS

\* The id a BYE or an ERR gets is the one loaded.
LEMMA LoadedControl ==
  ASSUME TypeInv, NEW t \in Threads, NEW k, LoadId(t, Control(k, 0))
  PROVE  /\ draft'[t] = Control(k, last_message_id)
         /\ draft'[t].id = last_message_id /\ draft'[t].type = k
  BY QueueTypes DEF LoadId, Control

\* The command thread draws the ids of the user's messages and of its BYE.
LEMMA CmdIds ==
  ASSUME TypeInv, IdInv, Undisturbed, Undisturbed', CmdNext
  PROVE  IdInv'
<1>1. /\ \A u \in Threads \ {"cmd"} : draft'[u] = draft[u] /\ pc'[u] = pc[u]
      /\ UNCHANGED script
  BY CmdFrame
<1>2. \A u \in Threads \ {"cmd"} : Drawing(u)' <=> Drawing(u)
  BY <1>1 DEF Drawing
<1>3. pc \in [Threads -> Labels] /\ draft \in [Threads -> Message]
  BY QueueTypes
<1>4. \A u \in Threads \ {"cmd"} : Old(draft'[u])
  BY <1>1, OldOnes
<1>5. CASE CmdLoadId \/ CmdLoadBye
  <2>1. /\ pc["cmd"] # "storeId" /\ pc'["cmd"] = "storeId"
        /\ UNCHANGED <<submitted, toServer, pending_messages, last_message_id>>
    BY <1>3, <1>5 DEF CmdLoadId, CmdLoadBye, Step, userVars, queueVars
  <2>2. draft'["cmd"].id = last_message_id
    <3>1. CASE CmdLoadId
      BY <1>3, <3>1 DEF CmdLoadId, LoadId
    <3>2. CASE CmdLoadBye
      BY <3>2, LoadedControl DEF CmdLoadBye
    <3>. QED
      BY <1>5, <3>1, <3>2
  <2>3. \A m \in Around' : m \in Around \/ m = draft'["cmd"]
    BY <1>4, <2>1, OldOnes, OnlyNew
  <2>. QED
    BY <1>2, <2>1, <2>2, <2>3, IdsLoaded DEF Drawing
<1>6. CASE CmdStoreId
  <2>1. /\ pc["cmd"] = "storeId" /\ pc'["cmd"] # "storeId" /\ StoreId("cmd")
        /\ UNCHANGED <<submitted, toServer, pending_messages, draft>>
    BY <1>3, <1>6 DEF CmdStoreId, Step, userVars, queueVars
  <2>2. \A m \in Around' : m \in Around
    BY <2>1, AroundKept
  <2>. QED
    BY <1>2, <2>1, <2>2, IdsStored DEF Drawing
<1>7. CASE ~CmdLoadId /\ ~CmdLoadBye /\ ~CmdStoreId
  <2>1. UNCHANGED last_message_id
    BY <1>7, Zenon DEF CmdNext, CmdRun, CmdTest, CmdOverlong, CmdLocal,
       CmdLoadCount, CmdStoreCount, CmdFillSlot, CmdAuthTest, CmdSlash,
       CmdMsgTest, CmdSleep, CmdSendBye, CmdLock, CmdUnlock, CmdTeardown,
       CmdExit, CmdRead, CmdEof, CmdReadError, CmdSpuriousWakeup
  <2>2. pc["cmd"] # "storeId" /\ pc'["cmd"] # "storeId"
    BY <1>3, <1>7 DEF CmdNext, CmdRun, Step, CmdTest, CmdOverlong, CmdLocal,
       CmdLoadCount, CmdStoreCount, CmdFillSlot, CmdAuthTest, CmdSlash,
       CmdMsgTest, CmdSleep, CmdSendBye, CmdLock, CmdUnlock, CmdTeardown,
       CmdExit, CmdRead, CmdEof, CmdReadError, CmdSpuriousWakeup, AfterLoop,
       Handler
  <2>3. \A m \in Around' : m \in Around
    <3>1. CASE CmdFillSlot
      <4>1. /\ UNCHANGED toServer /\ draft'["cmd"] = Blank
            /\ \/ UNCHANGED submitted
               \/ submitted' = Append(submitted, draft["cmd"])
            /\ pending_messages' = [pending_messages EXCEPT ![slot["cmd"]] = draft["cmd"]]
        BY <1>3, <3>1 DEF CmdFillSlot, FillSlot, Discard
      <4>2. \A i \in 1 .. Len(submitted') : Old(submitted'[i])
        <5>1. CASE UNCHANGED submitted
          BY <5>1, OldOnes
        <5>2. CASE submitted' = Append(submitted, draft["cmd"])
          <6>1. draft["cmd"] \in Message /\ submitted \in Seq(Message)
            BY <1>3, OutboxTypes
          <6>2. /\ Len(submitted') = Len(submitted) + 1
                /\ \A i \in 1 .. Len(submitted) : submitted'[i] = submitted[i]
                /\ submitted'[Len(submitted) + 1] = draft["cmd"]
                /\ \A i \in 1 .. Len(submitted) + 1 :
                     i \in 1 .. Len(submitted) \/ i = Len(submitted) + 1
            BY <5>2, <6>1, Appended
          <6>3. Old(draft["cmd"]) /\ \A i \in 1 .. Len(submitted) : Old(submitted[i])
            BY OldOnes
          <6>. QED
            BY <6>2, <6>3
        <5>. QED
          BY <4>1, <5>1, <5>2
      <4>3. \A i \in 0 .. MaxPending - 1 : Old(pending_messages'[i])
        BY <4>1, OldOnes, OutboxTypes
      <4>4. \A m \in Around' : m \in Around \/ m = Blank
        BY <1>4, <4>1, <4>2, <4>3, OldOnes, OnlyNew
      <4>. QED
        BY <4>4 DEF Around, Numbered, Blank, UserTypes
    <3>2. CASE CmdSendBye
      <4>1. Transmit(draft["cmd"]) /\ UNCHANGED <<submitted, draft, pending_messages>>
        BY <3>2 DEF CmdSendBye, userVars, queueVars
      <4>2. \A d \in toServer' : Old(d.msg)
        BY <4>1, OldOnes, OldSent
      <4>3. \A m \in Around' : m \in Around \/ m = Blank
        BY <4>1, <4>2, OldOnes, OnlyNew
      <4>. QED
        BY <4>3 DEF Around, Numbered, Blank, UserTypes
    <3>3. CASE ~CmdFillSlot /\ ~CmdSendBye
      <4>1. UNCHANGED <<submitted, toServer, draft, pending_messages>>
        BY <1>7, <3>3, Zenon DEF CmdNext, CmdRun, CmdTest, CmdOverlong, CmdLocal,
           CmdLoadCount, CmdStoreCount, CmdAuthTest, CmdSlash,
           CmdMsgTest, CmdSleep, CmdLock, CmdUnlock, CmdTeardown,
           CmdExit, CmdRead, CmdEof, CmdReadError, CmdSpuriousWakeup,
           userVars, queueVars
      <4>. QED
        BY <4>1, AroundKept
    <3>. QED
      BY <3>1, <3>2, <3>3
  <2>4. ~Drawing("cmd") /\ ~Drawing("cmd")'
    BY <2>2 DEF Drawing
  <2>. QED
    BY <1>1, <1>2, <2>1, <2>3, <2>4, IdsKept
<1>. QED
  BY <1>5, <1>6, <1>7

\* The send thread draws the id of its BYE.
LEMMA SndIds ==
  ASSUME TypeInv, IdInv, Undisturbed, Undisturbed', SndNext
  PROVE  IdInv'
<1>1. /\ \A u \in Threads \ {"snd"} :
           /\ draft'[u] = draft[u]
           /\ \/ pc'[u] = pc[u]
              \/ pc[u] = "msgSleep" /\ pc'[u] = "msgTest"
      /\ UNCHANGED <<script, submitted>>
  BY SndFrame
<1>2. \A u \in Threads \ {"snd"} : Drawing(u)' <=> Drawing(u)
  BY <1>1 DEF Drawing
<1>3. pc \in [Threads -> Labels] /\ draft \in [Threads -> Message]
  BY QueueTypes
<1>4. \A u \in Threads \ {"snd"} : Old(draft'[u])
  BY <1>1, OldOnes
<1>5. CASE SndLoadBye
  <2>1. /\ pc["snd"] # "storeId" /\ pc'["snd"] = "storeId"
        /\ UNCHANGED <<toServer, pending_messages, last_message_id>>
    BY <1>3, <1>5 DEF SndLoadBye, Step, queueVars
  <2>2. draft'["snd"].id = last_message_id
    BY <1>5, LoadedControl DEF SndLoadBye
  <2>3. \A m \in Around' : m \in Around \/ m = draft'["snd"]
    BY <1>1, <1>4, <2>1, OldOnes, OnlyNew
  <2>. QED
    BY <1>2, <2>1, <2>2, <2>3, IdsLoaded DEF Drawing
<1>6. CASE SndStoreId
  <2>1. /\ pc["snd"] = "storeId" /\ pc'["snd"] # "storeId" /\ StoreId("snd")
        /\ UNCHANGED <<toServer, pending_messages, draft>>
    BY <1>3, <1>6 DEF SndStoreId, Step, queueVars
  <2>2. \A m \in Around' : m \in Around
    BY <1>1, <2>1, AroundKept
  <2>. QED
    BY <1>2, <2>1, <2>2, IdsStored DEF Drawing
<1>7. CASE ~SndLoadBye /\ ~SndStoreId
  <2>1. UNCHANGED last_message_id
    BY <1>7, Zenon DEF SndNext, SndTest, SndPeek, SndSend, SndSendFails,
       SndReset, SndWake, SndSettled, SndGiveUp, SndQuit, SndSendBye, SndLock,
       SndLoadCount, SndStoreCount, SndFillSlot, SndUnlock, SndCancel
  <2>2. pc["snd"] # "storeId" /\ pc'["snd"] # "storeId"
    BY <1>3, <1>7 DEF SndNext, Step, Signalled, SndTest, SndPeek, SndSend,
       SndSendFails, SndReset, SndWake, SndSettled, SndGiveUp, SndQuit,
       SndSendBye, SndLock, SndLoadCount, SndStoreCount, SndFillSlot,
       SndUnlock, SndCancel
  <2>3. /\ \A d \in toServer' : Old(d.msg)
        /\ \A i \in 0 .. MaxPending - 1 : Old(pending_messages'[i])
        /\ Old(draft'["snd"])
    <3>1. CASE SndPeek
      <4>1. /\ UNCHANGED <<toServer, pending_messages>>
            /\ draft'["snd"] = draft["snd"] \/ draft'["snd"] = pending_messages[0]
        BY <1>3, <3>1 DEF SndPeek, queueVars
      <4>2. 0 \in 0 .. MaxPending - 1
        BY DEF ConstantsAssumption
      <4>. QED
        BY <4>1, <4>2, OldOnes
    <3>2. CASE SndSend \/ SndSendBye
      <4>1. /\ Transmit(draft["snd"]) /\ UNCHANGED pending_messages
            /\ draft'["snd"] = draft["snd"] \/ draft'["snd"] = Blank
        BY <1>3, <3>2 DEF SndSend, SndSendBye, Discard, queueVars
      <4>. QED
        BY <4>1, OldOnes, OldSent
    <3>3. CASE SndFillSlot
      <4>1. /\ UNCHANGED toServer /\ draft'["snd"] = Blank
            /\ pending_messages' = [pending_messages EXCEPT ![slot["snd"]] = draft["snd"]]
        BY <1>3, <3>3 DEF SndFillSlot, FillSlot, Discard
      <4>. QED
        BY <4>1, OldOnes, OutboxTypes
    <3>4. CASE ~SndPeek /\ ~SndSend /\ ~SndSendBye /\ ~SndFillSlot
      <4>1. UNCHANGED <<toServer, draft, pending_messages>>
        BY <1>7, <3>4, Zenon DEF SndNext, SndTest, SndSendFails,
           SndReset, SndWake, SndSettled, SndGiveUp, SndQuit, SndLock,
           SndLoadCount, SndStoreCount, SndUnlock, SndCancel, queueVars
      <4>. QED
        BY <4>1, OldOnes
    <3>. QED
      BY <3>1, <3>2, <3>3, <3>4
  <2>4. \A m \in Around' : m \in Around \/ m = Blank
    BY <1>1, <1>4, <2>3, OldOnes, OnlyNew
  <2>5. \A m \in Around' : m \in Around
    BY <2>4 DEF Around, Numbered, Blank, UserTypes
  <2>6. ~Drawing("snd") /\ ~Drawing("snd")'
    BY <2>2 DEF Drawing
  <2>. QED
    BY <1>1, <1>2, <2>1, <2>5, <2>6, IdsKept
<1>. QED
  BY <1>5, <1>6, <1>7

\* What a datagram makes the receive thread do begins with no store of an id.
LEMMA ScriptsDraw ==
  ASSUME script' = Script(response)
  PROVE  ScriptInv' /\ script' # <<>> /\ Head(script') # "storeId"
<1>1. CASE response.type = "REPLY" /\ u_current_command = "/auth"
  BY <1>1 DEF Script, OnVerdict, ScriptInv, Draws
<1>2. CASE response.type \in {"ERR", "BYE"}
  <2>1. script' = <<"confirm", "loadBye", "storeId", "send", "quit">>
    BY <1>2 DEF Script, OnClose
  <2>. QED
    BY <2>1 DEF ScriptInv, Draws
<1>3. CASE response.type = "BADMSG"
  <2>1. script' = <<"confirm", "loadErr", "storeId", "send", "quit">>
    BY <1>3 DEF Script
  <2>. QED
    BY <2>1 DEF ScriptInv, Draws
<1>4. CASE response.type = "JUNK"
  <2>1. script' = <<"loadErr", "storeId", "send", "loadBye", "storeId", "send", "quit">>
    BY <1>4 DEF Script
  <2>. QED
    BY <2>1 DEF ScriptInv, Draws
<1>5. CASE /\ ~(response.type = "REPLY" /\ u_current_command = "/auth")
           /\ response.type \notin {"ERR", "BYE", "BADMSG", "JUNK"}
  <2>1. script' = <<"confirm">>
    BY <1>5 DEF Script
  <2>. QED
    BY <2>1 DEF ScriptInv, Draws
<1>. QED
  BY <1>1, <1>2, <1>3, <1>4, <1>5

\* The effects behind the first are as before, and a store follows a load.
LEMMA PerformDraws ==
  ASSUME TypeInv, ScriptInv, NEW e, NEW p, p \in [Threads -> Labels], Perform(e, p)
  PROVE  /\ ScriptInv'
         /\ Drawing("rcv") <=> e = "storeId"
         /\ Drawing("rcv")' <=> e \in Draws
<1>1. /\ Len(script) \in Nat /\ Len(script) >= 1 /\ script[1] = e
      /\ Len(script') = Len(script) - 1
      /\ \A i \in 1 .. Len(script') : script'[i] = script[i + 1]
  BY PerformShifts
<1>2. ScriptInv'
  <2>1. ASSUME NEW i \in 1 .. Len(script'), script'[i] \in Draws
        PROVE  i + 1 <= Len(script') /\ script'[i + 1] = "storeId"
    <3>1. i + 1 \in 1 .. Len(script) /\ script[i + 1] \in Draws
      BY <1>1, <2>1
    <3>2. i + 2 <= Len(script) /\ script[(i + 1) + 1] = "storeId"
      BY <1>1, <3>1 DEF ScriptInv
    <3>. QED
      BY <1>1, <3>2
  <2>2. ASSUME NEW i \in 2 .. Len(script'), script'[i] = "storeId"
        PROVE  script'[i - 1] \in Draws
    <3>1. i + 1 \in 2 .. Len(script) /\ script[i + 1] = "storeId"
      BY <1>1, <2>2
    <3>2. script[(i + 1) - 1] \in Draws
      BY <3>1 DEF ScriptInv
    <3>3. i - 1 \in 1 .. Len(script') /\ script'[i - 1] = script[(i - 1) + 1]
      BY <1>1
    <3>. QED
      BY <3>2, <3>3
  <2>. QED
    BY <2>1, <2>2 DEF ScriptInv
<1>3. /\ pc["rcv"] = "script" /\ script # <<>> /\ Head(script) = e
      /\ script' = Tail(script) /\ script \in Seq(Effects)
      /\ pc'["rcv"] = IF Tail(script) = <<>> THEN "unlock" ELSE "script"
  BY OutboxTypes DEF Perform
<1>4. CASE script' = <<>>
  <2>1. Len(script) = 1
    BY <1>1, <1>4
  <2>2. e \notin Draws
    BY <1>1, <2>1 DEF ScriptInv
  <2>. QED
    BY <1>2, <1>3, <1>4, <2>2 DEF Drawing
<1>5. CASE script' # <<>>
  <2>1. /\ Len(script) >= 2 /\ Head(script') = script[2]
    BY <1>1, <1>3, <1>5
  <2>2. script[2] = "storeId" <=> e \in Draws
    <3>1. script[1] \in Draws => script[1 + 1] = "storeId"
      BY <1>1 DEF ScriptInv
    <3>2. script[2] = "storeId" => script[2 - 1] \in Draws
      BY <1>1, <2>1 DEF ScriptInv
    <3>. QED
      BY <1>1, <3>1, <3>2
  <2>. QED
    BY <1>2, <1>3, <1>5, <2>1, <2>2 DEF Drawing
<1>. QED
  BY <1>4, <1>5

\* A signal moves a thread to a label.
LEMMA SignalledType ==
  ASSUME TypeInv
  PROVE  /\ pc \in [Threads -> Labels]
         /\ Signalled("authSleep", "authTest") \in [Threads -> Labels]
  BY QueueTypes DEF Signalled, Labels, CmdLabels

\* The effects of the receive thread that are no part of drawing an id.
RcvEffect == RcvPort \/ RcvVerify \/ RcvRefuse \/ RcvConfirm \/ RcvSend \/ RcvQuit

LEMMA EffectDraws ==
  ASSUME TypeInv, ScriptInv, RcvEffect
  PROVE  /\ ScriptInv'
         /\ ~Drawing("rcv") /\ ~Drawing("rcv")'
<1>1. PICK e \in {"port", "verify", "refuse", "confirm", "send", "quit"} :
        Perform(e, pc) \/ Perform(e, Signalled("authSleep", "authTest"))
  BY DEF RcvEffect, RcvPort, RcvVerify, RcvRefuse, RcvConfirm, RcvSend, RcvQuit
<1>2. /\ ScriptInv'
      /\ Drawing("rcv") <=> e = "storeId"
      /\ Drawing("rcv")' <=> e \in Draws
  BY <1>1, SignalledType, PerformDraws
<1>. QED
  BY <1>2 DEF Draws

\* The steps of the receive thread that are no part of a script.
RcvOther == \/ RcvTest \/ RcvReceive \/ RcvFails \/ RcvSearch \/ RcvLoadCount
            \/ RcvDec \/ RcvFlag \/ RcvUnlock

\* The receive thread draws the ids of an ERR and a BYE.
LEMMA RcvIds ==
  ASSUME TypeInv, IdInv, ScriptInv, Undisturbed, Undisturbed', RcvNext
  PROVE  IdInv' /\ ScriptInv'
<1>1. /\ \A u \in Threads \ {"rcv"} :
           /\ draft'[u] = draft[u]
           /\ \/ pc'[u] = pc[u]
              \/ pc[u] = "authSleep" /\ pc'[u] = "authTest"
      /\ UNCHANGED submitted
  BY RcvFrame
<1>2. \A u \in Threads \ {"rcv"} : Drawing(u)' <=> Drawing(u)
  BY <1>1 DEF Drawing
<1>3. pc \in [Threads -> Labels] /\ draft \in [Threads -> Message]
  BY QueueTypes
<1>4. \A u \in Threads \ {"rcv"} : Old(draft'[u])
  BY <1>1, OldOnes
<1>5. CASE RcvLoadId
  <2>1. UNCHANGED <<toServer, pending_messages, last_message_id>>
    BY <1>5 DEF RcvLoadId, rcvElsewhere
  <2>2. draft'["rcv"].id = last_message_id
    BY <1>5, LoadedControl DEF RcvLoadId
  <2>3. \A m \in Around' : m \in Around \/ m = draft'["rcv"]
    BY <1>1, <1>4, <2>1, OldOnes, OnlyNew
  <2>4. ScriptInv' /\ ~Drawing("rcv") /\ Drawing("rcv")'
    BY <1>3, <1>5, PerformDraws DEF RcvLoadId, Draws
  <2>. QED
    BY <1>2, <2>1, <2>2, <2>3, <2>4, IdsLoaded
<1>6. CASE RcvStoreId
  <2>1. /\ StoreId("rcv") /\ Perform("storeId", pc)
        /\ UNCHANGED <<toServer, pending_messages, draft>>
    BY <1>6 DEF RcvStoreId, rcvElsewhere
  <2>2. \A m \in Around' : m \in Around
    BY <1>1, <2>1, AroundKept
  <2>3. ScriptInv' /\ Drawing("rcv") /\ ~Drawing("rcv")'
    BY <1>3, <2>1, PerformDraws DEF Draws
  <2>. QED
    BY <1>2, <2>1, <2>2, <2>3, IdsStored
<1>7. CASE RcvEffect \/ RcvOther \/ RcvLock
  <2>1. UNCHANGED last_message_id
    BY <1>7, Zenon DEF RcvEffect, RcvOther, RcvLock, RcvTest, RcvReceive,
       RcvFails, RcvSearch, RcvLoadCount, RcvDec, RcvFlag, RcvUnlock, RcvPort,
       RcvVerify, RcvRefuse, RcvConfirm, RcvSend, RcvQuit
  <2>2. ScriptInv' /\ ~Drawing("rcv") /\ ~Drawing("rcv")'
    <3>1. CASE RcvEffect
      BY <3>1, EffectDraws
    <3>2. CASE RcvOther
      <4>1. UNCHANGED script
        BY <3>2, Zenon DEF RcvOther, RcvTest, RcvReceive, RcvFails, RcvSearch,
           RcvLoadCount, RcvDec, RcvFlag, RcvUnlock, rcvElsewhere, rcvVars
      <4>2. pc["rcv"] \notin {"script", "storeId"} /\ pc'["rcv"] \notin {"script", "storeId"}
        BY <1>3, <3>2 DEF RcvOther, Step, RcvTest, RcvReceive, RcvFails,
           RcvSearch, RcvLoadCount, RcvDec, RcvFlag, RcvUnlock
      <4>. QED
        BY <4>1, <4>2 DEF ScriptInv, Drawing
    <3>3. CASE RcvLock
      <4>1. /\ pc["rcv"] = "lock"
            /\ \/ pc'["rcv"] = "search" /\ UNCHANGED script
               \/ pc'["rcv"] = "script" /\ script' = Script(response)
        BY <1>3, <3>3 DEF RcvLock, Step
      <4>. QED
        BY <4>1, ScriptsDraw DEF ScriptInv, Drawing
    <3>. QED
      BY <1>7, <3>1, <3>2, <3>3
  <2>3. /\ \A d \in toServer' : Old(d.msg)
        /\ \A i \in 0 .. MaxPending - 1 : Old(pending_messages'[i])
        /\ Old(draft'["rcv"])
    <3>1. CASE RcvSearch
      <4>1. UNCHANGED <<toServer, draft>>
        BY <3>1 DEF RcvSearch
      <4>2. pending_messages' = pending_messages \/ pending_messages' = ShiftDown(First)
        BY <3>1 DEF RcvSearch
      <4>3. \A i \in 0 .. MaxPending - 1 :
              \E j \in 0 .. MaxPending - 1 : pending_messages'[i] = pending_messages[j]
        BY <4>2 DEF ShiftDown, Pending
      <4>. QED
        BY <4>1, <4>3, OldOnes
    <3>2. CASE RcvConfirm
      <4>1. /\ Transmit(Control("CONFIRM", response.id))
            /\ UNCHANGED <<pending_messages, draft>>
        BY <3>2 DEF RcvConfirm, rcvElsewhere
      <4>2. Old(Control("CONFIRM", response.id))
        BY DEF Old, Numbered, Control, UserTypes
      <4>. QED
        BY <4>1, <4>2, OldOnes, OldSent
    <3>3. CASE RcvSend
      <4>1. /\ Transmit(draft["rcv"]) /\ UNCHANGED pending_messages
            /\ draft'["rcv"] = Blank
        BY <1>3, <3>3 DEF RcvSend, Discard, rcvElsewhere
      <4>. QED
        BY <4>1, OldOnes, OldSent
    <3>4. CASE ~RcvSearch /\ ~RcvConfirm /\ ~RcvSend
      <4>1. UNCHANGED <<toServer, draft, pending_messages>>
        BY <1>7, <3>4, Zenon DEF RcvEffect, RcvOther, RcvLock, RcvTest,
           RcvReceive, RcvFails, RcvLoadCount, RcvDec, RcvFlag, RcvUnlock,
           RcvPort, RcvVerify, RcvRefuse, RcvQuit, rcvElsewhere
      <4>. QED
        BY <4>1, OldOnes
    <3>. QED
      BY <3>1, <3>2, <3>3, <3>4
  <2>4. \A m \in Around' : m \in Around \/ m = Blank
    BY <1>1, <1>4, <2>3, OldOnes, OnlyNew
  <2>5. \A m \in Around' : m \in Around
    BY <2>4 DEF Around, Numbered, Blank, UserTypes
  <2>. QED
    BY <1>1, <1>2, <2>1, <2>2, <2>5, IdsKept
<1>. QED
  BY <1>5, <1>6, <1>7 DEF RcvNext, RcvRun, RcvEffect, RcvOther

\* The signal handler draws the id of its BYE.
LEMMA SigIds ==
  ASSUME TypeInv, IdInv, Undisturbed, Undisturbed', SigArrives \/ SigRun
  PROVE  IdInv'
<1>1. /\ \A u \in Threads \ {"sig"} : draft'[u] = draft[u] /\ pc'[u] = pc[u]
      /\ UNCHANGED <<script, submitted, pending_messages>>
  BY SigFrame DEF queueVars, rcvVars
<1>2. \A u \in Threads \ {"sig"} : Drawing(u)' <=> Drawing(u)
  BY <1>1 DEF Drawing
<1>3. pc \in [Threads -> Labels] /\ draft \in [Threads -> Message]
  BY QueueTypes
<1>4. \A u \in Threads \ {"sig"} : Old(draft'[u])
  BY <1>1, OldOnes
<1>5. CASE SigArrives
  <2>1. /\ pc["sig"] # "storeId" /\ pc'["sig"] = "storeId"
        /\ UNCHANGED <<toServer, last_message_id>>
    BY <1>3, <1>5 DEF SigArrives, Step
  <2>2. draft'["sig"].id = last_message_id
    BY <1>5, LoadedControl DEF SigArrives
  <2>3. \A m \in Around' : m \in Around \/ m = draft'["sig"]
    BY <1>1, <1>4, <2>1, OldOnes, OnlyNew
  <2>. QED
    BY <1>2, <2>1, <2>2, <2>3, IdsLoaded DEF Drawing
<1>6. CASE SigStoreId
  <2>1. /\ pc["sig"] = "storeId" /\ pc'["sig"] # "storeId" /\ StoreId("sig")
        /\ UNCHANGED <<toServer, draft>>
    BY <1>3, <1>6 DEF SigStoreId, Step
  <2>2. \A m \in Around' : m \in Around
    BY <1>1, <2>1, AroundKept
  <2>. QED
    BY <1>2, <2>1, <2>2, IdsStored DEF Drawing
<1>7. CASE SigSend \/ SigSet
  <2>1. /\ pc["sig"] # "storeId" /\ pc'["sig"] # "storeId"
        /\ UNCHANGED last_message_id
    BY <1>3, <1>7 DEF SigSend, SigSet, Step
  <2>2. /\ \A d \in toServer' : Old(d.msg)
        /\ Old(draft'["sig"])
    <3>1. CASE SigSend
      <4>1. Transmit(draft["sig"]) /\ draft'["sig"] = Blank
        BY <1>3, <3>1 DEF SigSend, Discard
      <4>. QED
        BY <4>1, OldOnes, OldSent
    <3>2. CASE SigSet
      <4>1. UNCHANGED <<toServer, draft>>
        BY <3>2 DEF SigSet
      <4>. QED
        BY <4>1, OldOnes
    <3>. QED
      BY <1>7, <3>1, <3>2
  <2>3. \A m \in Around' : m \in Around \/ m = Blank
    BY <1>1, <1>4, <2>2, OldOnes, OnlyNew
  <2>4. \A m \in Around' : m \in Around
    BY <2>3 DEF Around, Numbered, Blank, UserTypes
  <2>5. ~Drawing("sig") /\ ~Drawing("sig")'
    BY <2>1 DEF Drawing
  <2>. QED
    BY <1>1, <1>2, <2>1, <2>4, <2>5, IdsKept
<1>. QED
  BY <1>5, <1>6, <1>7 DEF SigRun

\* No thread dies between the load of an id and its store; the server has no
\* part in the ids.
LEMMA LifeIds ==
  ASSUME TypeInv, IdInv, ScriptInv, LifeRun \/ SrvNext \/ UNCHANGED vars
  PROVE  IdInv' /\ ScriptInv'
<1>1. UNCHANGED clientVars
  BY LifeFrame, SrvFrame
<1>2. UNCHANGED <<draft, script, submitted, toServer, pending_messages, last_message_id>>
  <2>1. UNCHANGED <<draft, script, submitted, toServer, pending_messages>>
    BY <1>1, Zenon DEF clientVars, queueVars, userVars, rcvVars
  <2>2. UNCHANGED last_message_id
    BY Zenon DEF LifeRun, MainJoins, CancelDies, SrvNext, SrvConfirm, SrvServe,
       SrvNotify, srvElsewhere, vars
  <2>. QED
    BY <2>1, <2>2
<1>3. \A m \in Around' : m \in Around
  BY <1>2, AroundKept
<1>4. \A t \in Threads : Drawing(t)' <=> Drawing(t)
  <2>1. CASE pc' = pc
    BY <1>2, <2>1 DEF Drawing
  <2>2. CASE \E t \in {"cmd", "rcv"} : CancellationPoint(t) /\ pc' = [pc EXCEPT ![t] = "dead"]
    BY <1>2, <2>2, QueueTypes DEF Drawing, CancellationPoint
  <2>. QED
    BY <2>1, <2>2, LifeFrame, SrvFrame
<1>. QED
  BY <1>2, <1>3, <1>4, IdsKept DEF ScriptInv

\* An id identifies a message.
LEMMA NextIds ==
  ASSUME TypeInv, IdInv, ScriptInv, Undisturbed, Undisturbed', [Next]_vars
  PROVE  IdInv' /\ ScriptInv'
<1>1. CASE CmdStep
  <2>1. UNCHANGED script
    BY <1>1, CmdFrame DEF CmdStep
  <2>. QED
    BY <1>1, <2>1, CmdIds DEF CmdStep, ScriptInv
<1>2. CASE SndStep
  <2>1. UNCHANGED script
    BY <1>2, SndFrame DEF SndStep
  <2>. QED
    BY <1>2, <2>1, SndIds DEF SndStep, ScriptInv
<1>3. CASE RcvStep
  BY <1>3, RcvIds DEF RcvStep
<1>4. CASE SigStep
  <2>1. UNCHANGED script
    BY <1>4, SigFrame DEF SigStep, rcvVars
  <2>. QED
    BY <1>4, <2>1, SigIds DEF SigStep, ScriptInv
<1>5. CASE LifeStep \/ SrvStep \/ UNCHANGED vars
  BY <1>5, LifeIds DEF LifeStep, SrvStep
<1>. QED
  BY <1>1, <1>2, <1>3, <1>4, <1>5 DEF Next

-----------------------------------------------------------------------------
(* The messages of the user.                                               *)

\* A user's message has one of three types.
LEMMA MessageOfType ==
  ASSUME NEW k \in Queued
  PROVE  MessageOf[k] \in UserTypes
  BY QueuedIs DEF MessageOf, UserTypes

\* The command thread composes a message of a line, and queues it once.
LEMMA CmdOnce ==
  ASSUME TypeInv, QueueInv, IdInv, OnceInv, Undisturbed', CmdNext
  PROVE  OnceInv'
<1>1. /\ pc \in [Threads -> Labels] /\ draft \in [Threads -> Message]
      /\ submitted \in Seq(Message) /\ lines_read \in Nat
  BY QueueTypes, OutboxTypes
<1>2. CASE CmdLoadId
  <2>1. /\ pc["cmd"] = "loadId" /\ pc'["cmd"] = "storeId"
        /\ UNCHANGED <<submitted, last_message_id>>
        /\ draft'["cmd"].type = MessageOf[line]
        /\ draft'["cmd"].body = lines_read
        /\ draft'["cmd"].id = last_message_id
    BY <1>1, <1>2 DEF CmdLoadId, Step, LoadId, userVars
  <2>2. /\ draft'["cmd"].type \in UserTypes /\ draft'["cmd"].body >= 1
    BY <2>1, MessageOfType DEF TypeInv, LocalsReady, OnceInv
  <2>3. \A u \in Threads \ {"cmd"} : Drawing(u)' <=> Drawing(u)
    <3>1. CmdNext
      BY <1>2 DEF CmdNext, CmdRun
    <3>. QED
      BY <3>1, CmdFrame DEF Drawing
  <2>4. \A m \in Around : m.id # last_message_id
    BY <2>1, <2>3, NobodyDraws DEF Drawing
  <2>5. \A i \in 1 .. Len(submitted) : submitted[i] \in Around
    BY OldOnes DEF Old, OnceInv, Numbered
  <2>6. \A i \in 1 .. Len(submitted) : submitted[i] # draft'["cmd"]
    BY <2>1, <2>4, <2>5
  <2>. QED
    BY <2>1, <2>2, <2>6 DEF OnceInv, UserDraft
<1>3. CASE CmdFillSlot
  <2>1. pc["cmd"] = "pushSlot" /\ pc'["cmd"] \in {"authTest", "slash", "unlock", "msgTest"}
    BY <1>1, <1>3 DEF CmdFillSlot, Step
  <2>2. CASE draft["cmd"].type \in UserTypes
    <3>1. submitted' = Append(submitted, draft["cmd"])
      BY <1>3, <2>2 DEF CmdFillSlot
    <3>2. /\ Len(submitted') = Len(submitted) + 1
          /\ \A i \in 1 .. Len(submitted) : submitted'[i] = submitted[i]
          /\ submitted'[Len(submitted) + 1] = draft["cmd"]
          /\ \A i \in 1 .. Len(submitted) + 1 :
               i \in 1 .. Len(submitted) \/ i = Len(submitted) + 1
      BY <1>1, <3>1, Appended
    <3>3. UserDraft
      BY <2>1, <2>2 DEF UserDraft, ByeDraft, UserTypes
    <3>. QED
      BY <2>1, <3>2, <3>3 DEF OnceInv, UserDraft
  <2>3. CASE draft["cmd"].type \notin UserTypes
    <3>1. UNCHANGED submitted
      BY <1>3, <2>3 DEF CmdFillSlot
    <3>. QED
      BY <2>1, <3>1 DEF OnceInv, UserDraft
  <2>. QED
    BY <2>2, <2>3
<1>4. CASE CmdRead
  <2>1. lines_read' >= 1 /\ UNCHANGED submitted
    BY <1>1, <1>4 DEF CmdRead
  <2>2. pc'["cmd"] \in {"test", "loadId", "overlong", "local"}
    BY <1>1, <1>4 DEF CmdRead, Step, Handler
  <2>. QED
    BY <2>1, <2>2 DEF OnceInv, UserDraft
<1>5. CASE CmdStoreId \/ CmdLoadCount \/ CmdStoreCount
  <2>1. UNCHANGED <<submitted, draft>>
    BY <1>5 DEF CmdStoreId, CmdLoadCount, CmdStoreCount, userVars
  <2>2. /\ pc["cmd"] \in {"storeId", "push", "pushCount"} /\ pc'["cmd"] # "loadId"
    BY <1>1, <1>5 DEF CmdStoreId, CmdLoadCount, CmdStoreCount, Step
  <2>. QED
    BY <2>1, <2>2 DEF OnceInv, UserDraft, ByeDraft
<1>6. CASE CmdLoadBye \/ CmdLock
  <2>1. UNCHANGED submitted /\ pc'["cmd"] # "loadId"
    BY <1>1, <1>6 DEF CmdLoadBye, CmdLock, Step, userVars
  <2>2. draft'["cmd"].type = "BYE"
    BY <1>1, <1>6, LoadByeType DEF CmdLoadBye, CmdLock, Step, QueueInv, CmdByeInv, ByeDraft
  <2>. QED
    BY <2>1, <2>2 DEF OnceInv, UserDraft, ByeDraft
<1>7. CASE \/ CmdTest \/ CmdEof \/ CmdReadError \/ CmdOverlong \/ CmdLocal
           \/ CmdAuthTest \/ CmdSlash \/ CmdMsgTest \/ CmdSleep
           \/ CmdSpuriousWakeup \/ CmdSendBye \/ CmdUnlock \/ CmdTeardown \/ CmdExit
  <2>1. UNCHANGED submitted
    BY <1>7, Zenon DEF CmdTest, CmdEof, CmdReadError, CmdOverlong, CmdLocal,
       CmdAuthTest, CmdSlash, CmdMsgTest, CmdSleep, CmdSpuriousWakeup,
       CmdSendBye, CmdUnlock, CmdTeardown, CmdExit, userVars
  <2>2. pc'["cmd"] \notin {"storeId", "push", "pushCount", "pushSlot", "loadId"}
    BY <1>1, <1>7 DEF CmdTest, CmdEof, CmdReadError, CmdOverlong, CmdLocal,
       CmdAuthTest, CmdSlash, CmdMsgTest, CmdSleep, CmdSpuriousWakeup,
       CmdSendBye, CmdUnlock, CmdTeardown, CmdExit, Step, AfterLoop
  <2>. QED
    BY <2>1, <2>2 DEF OnceInv, UserDraft
<1>. QED
  BY <1>2, <1>3, <1>4, <1>5, <1>6, <1>7 DEF CmdNext, CmdRun

\* What the other threads leave to the command thread.
LEMMA OthersLeave ==
  ASSUME TypeInv, SndNext \/ RcvNext \/ SigArrives \/ SigRun \/ LifeRun
                  \/ SrvNext \/ UNCHANGED vars
  PROVE  /\ UNCHANGED <<submitted, lines_read>>
         /\ draft'["cmd"] = draft["cmd"] /\ slot'["cmd"] = slot["cmd"]
         /\ \/ pc'["cmd"] = pc["cmd"]
            \/ pc["cmd"] = "msgSleep" /\ pc'["cmd"] = "msgTest"
            \/ pc["cmd"] = "authSleep" /\ pc'["cmd"] = "authTest"
            \/ CancellationPoint("cmd") /\ pc'["cmd"] = "dead"
<1>1. CASE SndNext
  BY <1>1, SndFrame, SndSlots
<1>2. CASE RcvNext
  BY <1>2, RcvFrame, RcvSlots
<1>3. CASE SigArrives \/ SigRun
  BY <1>3, SigFrame DEF localVars
<1>4. CASE LifeRun \/ SrvNext \/ UNCHANGED vars
  <2>1. UNCHANGED clientVars
    BY <1>4, LifeFrame, SrvFrame
  <2>2. UNCHANGED <<submitted, lines_read, draft, slot>>
    BY <2>1, Zenon DEF clientVars, userVars, localVars
  <2>3. \/ pc'["cmd"] = pc["cmd"]
        \/ CancellationPoint("cmd") /\ pc'["cmd"] = "dead"
    BY <1>4, QueueTypes, LifeFrame, SrvFrame
  <2>. QED
    BY <2>2, <2>3
<1>. QED
  BY <1>1, <1>2, <1>3, <1>4

LEMMA NextOnce ==
  ASSUME TypeInv, QueueInv, IdInv, OnceInv, Undisturbed', [Next]_vars
  PROVE  OnceInv'
<1>1. CASE CmdStep
  BY <1>1, CmdOnce DEF CmdStep
<1>2. CASE ~CmdStep
  <2>1. SndNext \/ RcvNext \/ SigArrives \/ SigRun \/ LifeRun \/ SrvNext \/ UNCHANGED vars
    BY <1>2 DEF Next, SndStep, RcvStep, SigStep, LifeStep, SrvStep
  <2>2. /\ UNCHANGED <<submitted, lines_read>>
        /\ draft'["cmd"] = draft["cmd"]
        /\ pc'["cmd"] = pc["cmd"] \/ pc'["cmd"] \in {"msgTest", "authTest", "dead"}
    BY <2>1, OthersLeave
  <2>. QED
    BY <2>2 DEF OnceInv, UserDraft, ByeDraft
<1>. QED
  BY <1>1, <1>2

-----------------------------------------------------------------------------
(* What the server has, and what can reach it.                             *)

\* The client has no part in what the server keeps.
LEMMA ServerFrame ==
  ASSUME CmdNext \/ SndNext \/ RcvNext \/ SigArrives \/ SigRun \/ LifeRun \/ UNCHANGED vars
  PROVE  UNCHANGED <<toClient, served>>
<1>1. CASE CmdNext
  BY <1>1, Zenon DEF CmdNext, CmdRun, cmdElsewhere, serverVars, CmdTest,
     CmdOverlong, CmdLocal, CmdLoadId, CmdStoreId, CmdLoadCount, CmdStoreCount,
     CmdFillSlot, CmdAuthTest, CmdSlash, CmdMsgTest, CmdSleep, CmdLoadBye,
     CmdSendBye, CmdLock, CmdUnlock, CmdTeardown, CmdExit, CmdRead, CmdEof,
     CmdReadError, CmdSpuriousWakeup
<1>2. CASE SndNext
  BY <1>2, Zenon DEF SndNext, sndElsewhere, serverVars, SndTest, SndPeek,
     SndSend, SndSendFails, SndReset, SndWake, SndSettled, SndGiveUp, SndQuit,
     SndLoadBye, SndStoreId, SndSendBye, SndLock, SndLoadCount, SndStoreCount,
     SndFillSlot, SndUnlock, SndCancel
<1>3. CASE RcvNext
  BY <1>3, Zenon DEF RcvNext, RcvRun, rcvElsewhere, serverVars, RcvTest,
     RcvReceive, RcvFails, RcvLock, RcvSearch, RcvLoadCount, RcvDec, RcvFlag,
     RcvPort, RcvVerify, RcvRefuse, RcvConfirm, RcvLoadId, RcvStoreId, RcvSend,
     RcvQuit, RcvUnlock
<1>4. CASE SigArrives \/ SigRun \/ LifeRun \/ UNCHANGED vars
  BY <1>4, Zenon DEF SigRun, SigArrives, SigStoreId, SigSend, SigSet, LifeRun,
     MainJoins, CancelDies, sigElsewhere, serverVars, vars
<1>. QED
  BY <1>1, <1>2, <1>3, <1>4

\* A BYE, an ERR or a confirmation is no message of the user.
LEMMA ControlIsNotUsers ==
  /\ \A m : m.type \in {"BYE", "ERR", "CONFIRM", "BLANK"} => m.type \notin UserTypes
  /\ Blank.type \notin UserTypes
  BY DEF UserTypes, Blank

\* A thread sends a message of its own, or the next of the user.
LEMMA WireSent ==
  ASSUME WireInv, NEW m, Transmit(m), m.type \in UserTypes => NextOnly(m)
  PROVE  \A d \in toServer' : d.msg.type \in UserTypes => NextOnly(d.msg)
  BY DEF Transmit, WireInv

LEMMA CmdWire ==
  ASSUME TypeInv, QueueInv, OnceInv, WireInv, CmdNext
  PROVE  WireInv'
<1>1. /\ pc \in [Threads -> Labels] /\ draft \in [Threads -> Message]
      /\ submitted \in Seq(Message) /\ served \in Seq(Message)
      /\ pending_messages \in [0 .. MaxPending - 1 -> Message]
  BY QueueTypes, OutboxTypes
<1>2. /\ UNCHANGED served
      /\ \A u \in {"snd", "rcv", "sig"} : draft'[u] = draft[u]
  BY CmdFrame, ServerFrame
<1>3. CASE CmdFillSlot
  <2>1. /\ pc["cmd"] = "pushSlot" /\ UNCHANGED toServer
        /\ pending_messages' = [pending_messages EXCEPT ![slot["cmd"]] = draft["cmd"]]
        /\ submitted' = IF draft["cmd"].type \in UserTypes
                        THEN Append(submitted, draft["cmd"]) ELSE submitted
    BY <1>1, <1>3 DEF CmdFillSlot, FillSlot, Step
  <2>2. /\ Len(submitted) <= Len(submitted')
        /\ \A i \in 1 .. Len(submitted) :
             i \in 1 .. Len(submitted') /\ submitted'[i] = submitted[i]
    BY <1>1, <2>1, Appended
  <2>3. \A m : NextOnly(m) => NextOnly(m)'
    BY <1>1, <1>2, <2>2 DEF NextOnly
  <2>4. draft["cmd"].type \in UserTypes =>
          \E j \in 1 .. Len(submitted') : submitted'[j] = draft["cmd"]
    <3>1. CASE draft["cmd"].type \in UserTypes
      <4>1. /\ Len(submitted) + 1 \in 1 .. Len(submitted')
            /\ submitted'[Len(submitted) + 1] = draft["cmd"]
        BY <1>1, <2>1, <3>1, Appended
      <4>. QED
        BY <4>1
    <3>. QED
      BY <3>1
  <2>5. \A i \in 0 .. MaxPending - 1 :
          pending_messages'[i] = pending_messages[i] \/ pending_messages'[i] = draft["cmd"]
    BY <1>1, <2>1
  <2>6. \A i \in 0 .. MaxPending - 1 :
          pending_messages'[i].type \in UserTypes =>
            \E j \in 1 .. Len(submitted') : submitted'[j] = pending_messages'[i]
    BY <2>2, <2>4, <2>5 DEF WireInv
  <2>7. Len(served) \in Nat /\ Len(submitted) \in Nat /\ Len(submitted') \in Nat
    BY <1>1, <2>1, Appended
  <2>. QED
    BY <1>2, <2>1, <2>2, <2>3, <2>6, <2>7 DEF WireInv
<1>4. CASE ~CmdFillSlot
  <2>1. UNCHANGED <<submitted, pending_messages>>
    BY <1>4, Zenon DEF CmdNext, CmdRun, userVars, queueVars, CmdTest,
       CmdOverlong, CmdLocal, CmdLoadId, CmdStoreId, CmdLoadCount,
       CmdStoreCount, CmdAuthTest, CmdSlash, CmdMsgTest, CmdSleep, CmdLoadBye,
       CmdSendBye, CmdLock, CmdUnlock, CmdTeardown, CmdExit, CmdRead, CmdEof,
       CmdReadError, CmdSpuriousWakeup
  <2>2. \A m : NextOnly(m)' <=> NextOnly(m)
    BY <1>2, <2>1 DEF NextOnly
  <2>3. \A d \in toServer' : d.msg.type \in UserTypes => NextOnly(d.msg)
    <3>1. CASE CmdSendBye
      <4>1. Transmit(draft["cmd"]) /\ draft["cmd"].type = "BYE"
        BY <3>1 DEF CmdSendBye, Step, QueueInv, CmdByeInv, ByeDraft
      <4>. QED
        BY <4>1, WireSent, ControlIsNotUsers
    <3>2. CASE ~CmdSendBye
      <4>1. UNCHANGED toServer
        BY <1>4, <3>2, Zenon DEF CmdNext, CmdRun, CmdTest,
           CmdOverlong, CmdLocal, CmdLoadId, CmdStoreId, CmdLoadCount,
           CmdStoreCount, CmdAuthTest, CmdSlash, CmdMsgTest, CmdSleep,
           CmdLoadBye, CmdLock, CmdUnlock, CmdTeardown, CmdExit, CmdRead,
           CmdEof, CmdReadError, CmdSpuriousWakeup
      <4>. QED
        BY <4>1 DEF WireInv
    <3>. QED
      BY <3>1, <3>2
  <2>. QED
    BY <1>2, <2>1, <2>2, <2>3 DEF WireInv
<1>. QED
  BY <1>3, <1>4

\* The send thread sends the head of the queue.
LEMMA SndWire ==
  ASSUME TypeInv, QueueInv, WireInv, HeadInv, SndNext
  PROVE  WireInv'
<1>1. /\ pc \in [Threads -> Labels] /\ draft \in [Threads -> Message]
      /\ submitted \in Seq(Message) /\ served \in Seq(Message)
      /\ pending_messages \in [0 .. MaxPending - 1 -> Message]
  BY QueueTypes, OutboxTypes
<1>2. /\ UNCHANGED <<served, submitted>>
      /\ \A u \in {"rcv", "sig"} : draft'[u] = draft[u]
  BY SndFrame, ServerFrame
<1>3. \A m : NextOnly(m)' <=> NextOnly(m)
  BY <1>2 DEF NextOnly
<1>4. SUFFICES
        /\ \A d \in toServer' : d.msg.type \in UserTypes => NextOnly(d.msg)
        /\ draft'["snd"].type \in UserTypes => NextOnly(draft'["snd"])
        /\ \A i \in 0 .. MaxPending - 1 :
             pending_messages'[i].type \in UserTypes =>
               \E j \in 1 .. Len(submitted) : submitted[j] = pending_messages'[i]
  <2>1. WireInv' <=> /\ Len(served)' <= Len(submitted)'
                     /\ \A i \in 1 .. Len(served)' : served'[i] = submitted'[i]
                     /\ \A d \in toServer' : d.msg.type \in UserTypes => NextOnly(d.msg)'
                     /\ draft'["snd"].type \in UserTypes => NextOnly(draft["snd"])'
                     /\ draft'["rcv"].type \notin UserTypes
                     /\ draft'["sig"].type \notin UserTypes
                     /\ \A i \in 0 .. MaxPending - 1 :
                          pending_messages'[i].type \in UserTypes =>
                            \E j \in 1 .. Len(submitted)' : submitted'[j] = pending_messages'[i]
    BY DEF WireInv
  <2>2. NextOnly(draft["snd"])' <=> NextOnly(draft'["snd"])
    BY <1>2 DEF NextOnly
  <2>. QED
    BY <1>2, <1>3, <2>1, <2>2 DEF WireInv
<1>5. CASE SndPeek
  <2>1. UNCHANGED <<toServer, pending_messages>>
    BY <1>5 DEF SndPeek, queueVars
  <2>2. CASE draft'["snd"] = draft["snd"]
    BY <2>1, <2>2 DEF WireInv
  <2>3. CASE draft'["snd"] = pending_messages[0]
    <3>1. ~GaveUp
      BY <1>5 DEF SndPeek, Step, QueueInv, LimitInv, GaveUp
    <3>2. Len(submitted) <= Len(served) + 1
      BY <3>1 DEF HeadInv
    <3>3. 0 \in 0 .. MaxPending - 1
      BY DEF ConstantsAssumption
    <3>4. draft'["snd"].type \in UserTypes => NextOnly(draft'["snd"])
      BY <1>1, <2>3, <3>2, <3>3 DEF WireInv, NextOnly
    <3>. QED
      BY <2>1, <3>4 DEF WireInv
  <2>. QED
    BY <1>1, <1>5, <2>2, <2>3 DEF SndPeek
<1>6. CASE SndSend \/ SndSendBye
  <2>1. /\ Transmit(draft["snd"]) /\ UNCHANGED pending_messages
        /\ draft'["snd"] = draft["snd"] \/ draft'["snd"] = Blank
    BY <1>1, <1>6 DEF SndSend, SndSendBye, Discard, queueVars
  <2>2. \A d \in toServer' : d.msg.type \in UserTypes => NextOnly(d.msg)
    BY <2>1, WireSent DEF WireInv
  <2>. QED
    BY <2>1, <2>2, ControlIsNotUsers DEF WireInv
<1>7. CASE SndFillSlot
  <2>1. /\ UNCHANGED toServer /\ draft'["snd"] = Blank
        /\ pending_messages' = [pending_messages EXCEPT ![slot["snd"]] = draft["snd"]]
    BY <1>1, <1>7 DEF SndFillSlot, FillSlot, Discard
  <2>2. draft["snd"].type \in UserTypes =>
          \E j \in 1 .. Len(submitted) : submitted[j] = draft["snd"]
    BY <1>1 DEF WireInv, NextOnly
  <2>3. \A i \in 0 .. MaxPending - 1 :
          pending_messages'[i] = pending_messages[i] \/ pending_messages'[i] = draft["snd"]
    BY <1>1, <2>1
  <2>. QED
    BY <2>1, <2>2, <2>3, ControlIsNotUsers DEF WireInv
<1>8. CASE SndLoadBye
  <2>1. /\ UNCHANGED <<toServer, pending_messages>>
        /\ draft'["snd"].type = "BYE"
    BY <1>8, LoadByeType DEF SndLoadBye, queueVars
  <2>. QED
    BY <2>1, ControlIsNotUsers DEF WireInv
<1>9. CASE ~SndPeek /\ ~SndSend /\ ~SndSendBye /\ ~SndFillSlot /\ ~SndLoadBye
  <2>1. UNCHANGED <<toServer, draft, pending_messages>>
    BY <1>9, Zenon DEF SndNext, SndTest, SndSendFails,
       SndReset, SndWake, SndSettled, SndGiveUp, SndQuit, SndStoreId, SndLock,
       SndLoadCount, SndStoreCount, SndUnlock, SndCancel, queueVars
  <2>. QED
    BY <2>1 DEF WireInv
<1>. QED
  BY <1>5, <1>6, <1>7, <1>8, <1>9

\* The receive thread and the signal handler send nothing of the user's.
LEMMA QuietWire ==
  ASSUME TypeInv, WireInv, UNCHANGED <<served, submitted>>,
         draft'["snd"] = draft["snd"],
         draft'["rcv"].type \notin UserTypes, draft'["sig"].type \notin UserTypes,
         \A d \in toServer' : d \in toServer \/ d.msg.type \notin UserTypes,
         \A i \in 0 .. MaxPending - 1 : \E j \in 0 .. MaxPending - 1 :
           pending_messages'[i] = pending_messages[j]
  PROVE  WireInv'
<1>1. \A m : NextOnly(m)' <=> NextOnly(m)
  BY DEF NextOnly
<1>2. NextOnly(draft["snd"])' <=> NextOnly(draft["snd"])
  BY DEF NextOnly
<1>3. \A d \in toServer' : d.msg.type \in UserTypes => NextOnly(d.msg)'
  BY <1>1 DEF WireInv
<1>4. draft'["snd"].type \in UserTypes => NextOnly(draft["snd"])'
  BY <1>2 DEF WireInv
<1>5. \A i \in 0 .. MaxPending - 1 :
        pending_messages'[i].type \in UserTypes =>
          \E j \in 1 .. Len(submitted) : submitted[j] = pending_messages'[i]
  BY DEF WireInv
<1>6. /\ Len(served) <= Len(submitted)
      /\ \A i \in 1 .. Len(served) : served[i] = submitted[i]
  BY DEF WireInv
<1>. QED
  BY <1>3, <1>4, <1>5, <1>6 DEF WireInv

LEMMA RcvWire ==
  ASSUME TypeInv, WireInv, RcvNext
  PROVE  WireInv'
<1>1. /\ draft \in [Threads -> Message]
      /\ pending_messages \in [0 .. MaxPending - 1 -> Message]
  BY QueueTypes, OutboxTypes
<1>2. /\ UNCHANGED <<served, submitted>>
      /\ \A u \in {"snd", "sig"} : draft'[u] = draft[u]
  BY RcvFrame, ServerFrame
<1>3. draft'["rcv"].type \notin UserTypes
  <2>1. CASE RcvLoadId
    BY <2>1, LoadedControl, ControlIsNotUsers DEF RcvLoadId
  <2>2. CASE RcvSend
    BY <1>1, <2>2, ControlIsNotUsers DEF RcvSend, Discard
  <2>3. CASE ~RcvLoadId /\ ~RcvSend
    <3>1. UNCHANGED draft
      BY <2>3, Zenon DEF RcvNext, RcvRun, RcvTest, RcvReceive, RcvFails,
         RcvLock, RcvSearch, RcvLoadCount, RcvDec, RcvFlag, RcvPort, RcvVerify,
         RcvRefuse, RcvConfirm, RcvStoreId, RcvQuit, RcvUnlock
    <3>. QED
      BY <3>1 DEF WireInv
  <2>. QED
    BY <2>1, <2>2, <2>3
<1>4. \A d \in toServer' : d \in toServer \/ d.msg.type \notin UserTypes
  <2>1. CASE RcvConfirm
    <3>1. Transmit(Control("CONFIRM", response.id))
      BY <2>1 DEF RcvConfirm
    <3>. QED
      BY <3>1, ControlIsNotUsers DEF Transmit, Control
  <2>2. CASE RcvSend
    BY <2>2 DEF RcvSend, Transmit, WireInv
  <2>3. CASE ~RcvConfirm /\ ~RcvSend
    <3>1. UNCHANGED toServer
      BY <2>3, Zenon DEF RcvNext, RcvRun, RcvTest, RcvReceive, RcvFails,
         RcvLock, RcvSearch, RcvLoadCount, RcvDec, RcvFlag, RcvPort, RcvVerify,
         RcvRefuse, RcvLoadId, RcvStoreId, RcvQuit, RcvUnlock
    <3>. QED
      BY <3>1
  <2>. QED
    BY <2>1, <2>2, <2>3
<1>5. \A i \in 0 .. MaxPending - 1 : \E j \in 0 .. MaxPending - 1 :
        pending_messages'[i] = pending_messages[j]
  <2>1. CASE RcvSearch
    <3>1. pending_messages' = pending_messages \/ pending_messages' = ShiftDown(First)
      BY <2>1 DEF RcvSearch
    <3>. QED
      BY <3>1 DEF ShiftDown, Pending
  <2>2. CASE ~RcvSearch
    <3>1. UNCHANGED pending_messages
      BY <2>2, Zenon DEF RcvNext, RcvRun, rcvElsewhere, RcvTest, RcvReceive,
         RcvFails, RcvLock, RcvLoadCount, RcvDec, RcvFlag, RcvPort, RcvVerify,
         RcvRefuse, RcvConfirm, RcvLoadId, RcvStoreId, RcvSend, RcvQuit, RcvUnlock
    <3>. QED
      BY <3>1
  <2>. QED
    BY <2>1, <2>2
<1>. QED
  BY <1>2, <1>3, <1>4, <1>5, QuietWire DEF WireInv

LEMMA SigWire ==
  ASSUME TypeInv, WireInv, SigArrives \/ SigRun
  PROVE  WireInv'
<1>1. draft \in [Threads -> Message]
  BY QueueTypes
<1>2. /\ UNCHANGED <<served, submitted, pending_messages>>
      /\ \A u \in {"snd", "rcv"} : draft'[u] = draft[u]
  BY SigFrame, ServerFrame DEF queueVars
<1>3. CASE SigArrives
  <2>1. draft'["sig"].type = "BYE" /\ UNCHANGED toServer
    BY <1>3, LoadByeType DEF SigArrives
  <2>. QED
    BY <1>2, <2>1, QuietWire, ControlIsNotUsers DEF WireInv
<1>4. CASE SigSend
  <2>1. /\ draft'["sig"] = Blank
        /\ \A d \in toServer' : d \in toServer \/ d.msg = draft["sig"]
    BY <1>1, <1>4 DEF SigSend, Discard, Transmit
  <2>. QED
    BY <1>2, <2>1, QuietWire, ControlIsNotUsers DEF WireInv
<1>5. CASE SigStoreId \/ SigSet
  <2>1. UNCHANGED <<draft, toServer>>
    BY <1>5 DEF SigStoreId, SigSet
  <2>. QED
    BY <1>2, <2>1, QuietWire DEF WireInv
<1>. QED
  BY <1>3, <1>4, <1>5 DEF SigRun

\* What the server takes is the next message.
LEMMA ServesNext ==
  ASSUME TypeInv, WireInv, NEW d \in toServer, d.msg.type \in UserTypes, ~Known(d.msg)
  PROVE  /\ Len(served) + 1 \in 1 .. Len(submitted)
         /\ submitted[Len(served) + 1] = d.msg
<1>1. submitted \in Seq(Message) /\ served \in Seq(Message)
  BY OutboxTypes
<1>2. PICK i \in 1 .. Len(served) + 1 : i <= Len(submitted) /\ submitted[i] = d.msg
  BY DEF WireInv, NextOnly
<1>3. i \notin 1 .. Len(served)
  BY <1>2 DEF WireInv, Known
<1>4. i = Len(served) + 1
  BY <1>1, <1>3
<1>. QED
  BY <1>1, <1>2, <1>4

LEMMA SrvWire ==
  ASSUME TypeInv, WireInv, SrvNext
  PROVE  WireInv'
<1>1. submitted \in Seq(Message) /\ served \in Seq(Message)
  BY OutboxTypes
<1>2. UNCHANGED <<submitted, draft, toServer, pending_messages>>
  BY Zenon DEF SrvNext, SrvConfirm, SrvServe, SrvNotify, srvElsewhere,
     userVars, queueVars
<1>3. CASE SrvServe
  <2>1. PICK d \in toServer : /\ d.msg.type \in UserTypes
                              /\ ~Known(d.msg)
                              /\ served' = Append(served, d.msg)
    BY <1>3 DEF SrvServe
  <2>2. /\ Len(served) + 1 \in 1 .. Len(submitted)
        /\ submitted[Len(served) + 1] = d.msg
    BY <2>1, ServesNext
  <2>3. d.msg \in Message
    BY <1>1, <2>2
  <2>4. /\ Len(served') = Len(served) + 1
        /\ \A i \in 1 .. Len(served) : served'[i] = served[i]
        /\ served'[Len(served) + 1] = d.msg
        /\ \A i \in 1 .. Len(served) + 1 : i \in 1 .. Len(served) \/ i = Len(served) + 1
    BY <1>1, <2>1, <2>3, Appended
  <2>5. /\ Len(served') <= Len(submitted)
        /\ \A i \in 1 .. Len(served') : served'[i] = submitted[i]
    BY <1>1, <2>2, <2>4 DEF WireInv
  <2>6. \A i \in 1 .. Len(served) + 1 : i \in 1 .. Len(served') + 1
    BY <1>1, <2>4
  <2>7. \A m : NextOnly(m) => NextOnly(m)'
    BY <1>2, <2>6 DEF NextOnly
  <2>8. NextOnly(draft["snd"]) => NextOnly(draft["snd"])'
    BY <1>2, <2>6 DEF NextOnly
  <2>9. \A d1 \in toServer : d1.msg.type \in UserTypes => NextOnly(d1.msg)'
    BY <2>7 DEF WireInv
  <2>10. draft["snd"].type \in UserTypes => NextOnly(draft["snd"])'
    BY <2>8 DEF WireInv
  <2>11. /\ draft["rcv"].type \notin UserTypes /\ draft["sig"].type \notin UserTypes
         /\ \A i \in 0 .. MaxPending - 1 :
              pending_messages[i].type \in UserTypes =>
                \E j \in 1 .. Len(submitted) : submitted[j] = pending_messages[i]
    BY DEF WireInv
  <2>. QED
    BY <1>2, <2>5, <2>9, <2>10, <2>11 DEF WireInv
<1>4. CASE SrvConfirm \/ SrvNotify
  <2>1. UNCHANGED served
    BY <1>4 DEF SrvConfirm, SrvNotify
  <2>2. \A i \in 0 .. MaxPending - 1 : pending_messages'[i] = pending_messages[i]
    BY <1>2
  <2>. QED
    BY <1>2, <2>1, <2>2, QuietWire DEF WireInv
<1>. QED
  BY <1>3, <1>4 DEF SrvNext

\* The server has a beginning of what was queued, and the next message at most
\* can reach it.
LEMMA NextWire ==
  ASSUME TypeInv, QueueInv, OnceInv, WireInv, HeadInv, [Next]_vars
  PROVE  WireInv'
<1>1. CASE CmdStep
  BY <1>1, CmdWire DEF CmdStep
<1>2. CASE SndStep
  BY <1>2, SndWire DEF SndStep
<1>3. CASE RcvStep
  BY <1>3, RcvWire DEF RcvStep
<1>4. CASE SigStep
  BY <1>4, SigWire DEF SigStep
<1>5. CASE SrvStep
  BY <1>5, SrvWire DEF SrvStep
<1>6. CASE LifeStep \/ UNCHANGED vars
  <2>1. UNCHANGED clientVars
    BY <1>6, LifeFrame, SrvFrame DEF LifeStep
  <2>2. UNCHANGED <<submitted, draft, toServer, pending_messages>>
    BY <2>1, Zenon DEF clientVars, userVars, queueVars
  <2>3. UNCHANGED served
    BY <1>6, ServerFrame DEF LifeStep
  <2>4. \A i \in 0 .. MaxPending - 1 : pending_messages'[i] = pending_messages[i]
    BY <2>2
  <2>. QED
    BY <2>2, <2>3, <2>4, QuietWire DEF WireInv
<1>. QED
  BY <1>1, <1>2, <1>3, <1>4, <1>5, <1>6 DEF Next

-----------------------------------------------------------------------------
(* Confirmations.                                                          *)

\* What the server confirms it has served, or it ends the session.
LEMMA NextConfirm ==
  ASSUME TypeInv, ConfirmInv, [Next]_vars
  PROVE  ConfirmInv'
<1>1. /\ pc \in [Threads -> Labels] /\ served \in Seq(Message)
      /\ toServer \subseteq Datagram
  BY QueueTypes, OutboxTypes
<1>2. toServer \subseteq toServer'
  <2>1. CASE LifeStep \/ SrvStep \/ UNCHANGED vars
    <3>1. UNCHANGED clientVars
      BY <2>1, LifeFrame, SrvFrame DEF LifeStep, SrvStep
    <3>. QED
      BY <3>1 DEF clientVars
  <2>. QED
    BY <2>1, CmdFrame, SndFrame, RcvFrame, SigFrame
       DEF Next, CmdStep, SndStep, RcvStep, SigStep
<1>3. \A r \in toClient' : r.type = "CONFIRM" =>
        \/ \E i \in 1 .. Len(served') : served'[i].id = r.id
        \/ \E d \in toServer' : d.msg.type \in {"BYE", "ERR"} /\ d.msg.id = r.id
  <2>1. CASE SrvServe
    <3>1. PICK d \in toServer, ok \in BOOLEAN :
            /\ served' = Append(served, d.msg)
            /\ \A r \in toClient' : \/ r \in toClient \/ r = Confirmation(d.msg)
                                    \/ r = Verdict(d.msg, ok)
      BY <2>1 DEF SrvServe
    <3>2. d.msg \in Message
      BY <1>1 DEF Datagram
    <3>3. /\ Len(served') = Len(served) + 1
          /\ \A i \in 1 .. Len(served) : i \in 1 .. Len(served') /\ served'[i] = served[i]
          /\ Len(served) + 1 \in 1 .. Len(served')
          /\ served'[Len(served) + 1] = d.msg
      BY <1>1, <3>1, <3>2, Appended
    <3>. QED
      BY <1>2, <3>1, <3>3 DEF ConfirmInv, Confirmation, Verdict
  <2>2. CASE ~SrvServe
    <3>1. UNCHANGED served
      <4>1. CASE SrvStep
        BY <2>2, <4>1 DEF SrvStep, SrvNext, SrvConfirm, SrvNotify
      <4>2. CASE ~SrvStep
        BY <4>2, ServerFrame DEF Next, CmdStep, SndStep, RcvStep, SigStep, LifeStep
      <4>. QED
        BY <4>1, <4>2
    <3>2. \A r \in toClient' : r.type = "CONFIRM" =>
            \/ r \in toClient
            \/ \E d \in toServer : d.msg.type \in {"BYE", "ERR"} /\ d.msg.id = r.id
      <4>1. CASE SrvConfirm
        BY <4>1 DEF SrvConfirm, Confirmation
      <4>2. CASE SrvNotify
        BY <4>2 DEF SrvNotify, Notice, ConstantsAssumption, NoticeKinds
      <4>3. CASE ~SrvConfirm /\ ~SrvNotify
        <5>1. UNCHANGED toClient
          BY <2>2, <4>3, ServerFrame
             DEF Next, CmdStep, SndStep, RcvStep, SigStep, LifeStep, SrvStep, SrvNext
        <5>. QED
          BY <5>1
      <4>. QED
        BY <4>1, <4>2, <4>3
    <3>. QED
      BY <1>2, <3>1, <3>2 DEF ConfirmInv
  <2>. QED
    BY <2>1, <2>2
<1>4. toClient \subseteq toClient'
  <2>1. CASE SrvStep
    BY <2>1 DEF SrvStep, SrvNext, SrvConfirm, SrvServe, SrvNotify
  <2>2. CASE ~SrvStep
    <3>1. UNCHANGED toClient
      BY <2>2, ServerFrame DEF Next, CmdStep, SndStep, RcvStep, SigStep, LifeStep
    <3>. QED
      BY <3>1
  <2>. QED
    BY <2>1, <2>2
<1>5. /\ pc'["rcv"] \in {"lock", "search"} => response' \in toClient
      /\ pc'["rcv"] = "search" => response'.type = "CONFIRM"
  <2>1. CASE RcvStep
    <3>1. CASE RcvReceive
      BY <1>1, <3>1 DEF RcvReceive, Step
    <3>2. CASE RcvLock
      BY <1>1, <3>2 DEF RcvLock, Step, ConfirmInv
    <3>3. CASE ~RcvReceive /\ ~RcvLock
      <4>1. pc'["rcv"] \notin {"lock", "search"}
        BY <1>1, <2>1, <3>3 DEF RcvStep, RcvNext, RcvRun, Step, Perform,
           Signalled, RcvTest, RcvFails, RcvSearch, RcvLoadCount, RcvDec,
           RcvFlag, RcvPort, RcvVerify, RcvRefuse, RcvConfirm, RcvLoadId,
           RcvStoreId, RcvSend, RcvQuit, RcvUnlock
      <4>. QED
        BY <4>1
    <3>. QED
      BY <3>1, <3>2, <3>3
  <2>2. CASE ~RcvStep
    <3>1. UNCHANGED response /\ (pc'["rcv"] = pc["rcv"] \/ pc'["rcv"] = "dead")
      <4>1. CASE CmdStep \/ SndStep \/ SigStep
        BY <4>1, CmdFrame, SndFrame, SigFrame DEF CmdStep, SndStep, SigStep, rcvVars
      <4>2. CASE LifeStep \/ SrvStep \/ UNCHANGED vars
        <5>1. UNCHANGED clientVars
          BY <4>2, LifeFrame, SrvFrame DEF LifeStep, SrvStep
        <5>2. pc'["rcv"] = pc["rcv"] \/ pc'["rcv"] = "dead"
          BY <1>1, <4>2, LifeFrame, SrvFrame DEF LifeStep, SrvStep
        <5>. QED
          BY <5>1, <5>2 DEF clientVars, rcvVars
      <4>. QED
        BY <2>2, <4>1, <4>2 DEF Next
    <3>. QED
      BY <3>1 DEF ConfirmInv
  <2>. QED
    BY <2>1, <2>2
<1>. QED
  BY <1>3, <1>4, <1>5 DEF ConfirmInv

-----------------------------------------------------------------------------
(* The head of the queue.                                                  *)

\* A send thread that has given up does not take it back.
LEMMA GaveUpStays ==
  ASSUME TypeInv, QueueInv, GaveUp, [Next]_vars
  PROVE  GaveUp'
<1>1. CASE SndStep
  <2>1. /\ pc["snd"] \notin {"test", "peek", "send", "reset", "sleep", "settled", "giveUp"}
        /\ AtLimit
    BY DEF GaveUp, QueueInv, LimitInv
  <2>2. ~SndWake /\ ~SndSettled /\ ~SndGiveUp /\ ~SndTest /\ ~SndPeek
    BY <2>1 DEF SndWake, SndSettled, SndGiveUp, SndTest, SndPeek, Step
  <2>3. UNCHANGED retransmission_count
    BY <1>1, <2>2, Zenon DEF SndStep, SndNext, SndTest, SndPeek, SndSend,
       SndSendFails, SndReset, SndQuit, SndLoadBye, SndStoreId, SndSendBye,
       SndLock, SndLoadCount, SndStoreCount, SndFillSlot, SndUnlock, SndCancel
  <2>4. pc'["snd"] # "giveUp"
    BY <1>1, <2>2, QueueTypes DEF SndStep, SndNext, Step, SndSend,
       SndSendFails, SndReset, SndQuit, SndLoadBye, SndStoreId, SndSendBye,
       SndLock, SndLoadCount, SndStoreCount, SndFillSlot, SndUnlock, SndCancel
  <2>. QED
    BY <2>1, <2>3, <2>4 DEF GaveUp, AtLimit
<1>2. CASE ~SndStep
  <2>1. pc'["snd"] = pc["snd"] /\ UNCHANGED retransmission_count
    <3>1. CASE CmdStep \/ RcvStep \/ SigStep
      BY <3>1, CmdFrame, RcvFrame, SigFrame DEF CmdStep, RcvStep, SigStep, localVars
    <3>2. CASE LifeStep \/ SrvStep \/ UNCHANGED vars
      BY <3>2, QueueTypes, LifeFrame, SrvFrame
         DEF LifeStep, SrvStep, clientVars, localVars
    <3>. QED
      BY <1>2, <3>1, <3>2 DEF Next
  <2>. QED
    BY <2>1 DEF GaveUp, AtLimit
<1>. QED
  BY <1>1, <1>2

\* A step that leaves queue and server alone and starts neither a message nor
\* a removal.
LEMMA HeadKept ==
  ASSUME HeadInv, GaveUp => GaveUp', slot'["cmd"] = slot["cmd"],
         UNCHANGED <<submitted, served, pending_messages, pending_messages_count>>,
         (Filling /\ ~ByeDraft)' => Filling /\ ~ByeDraft,
         (~Filling /\ (Fetching \/ Waiting))' => ~Filling /\ (Fetching \/ Waiting),
         pc'["rcv"] \in {"load", "dec"} => pc["rcv"] \in {"load", "dec"}
  PROVE  HeadInv'
  BY DEF HeadInv

\* While the loop runs and the send thread has not given up, nothing else is
\* pending than the message of the user.
LEMMA BoundInLoop ==
  ASSUME TypeInv, QueueInv, ~GaveUp, Fetching \/ Waiting
  PROVE  /\ Bound <= 1 /\ Bound \in Nat
         /\ Fetching => Bound = 0
  BY DEF Bound, One, CmdByePending, SndByePending, UserPending, Waiting, Fetching

\* The command thread does not come back to the loop.
LEMMA CmdInLoop ==
  ASSUME TypeInv, QueueInv, CmdNext, ~CmdFillSlot, ~CmdStoreCount
  PROVE  /\ ~Filling /\ ~Filling'
         /\ (Fetching \/ Waiting)' => Fetching \/ Waiting
<1>1. pc \in [Threads -> Labels] /\ draft \in [Threads -> Message]
  BY QueueTypes
<1>2. CASE CmdLoadId
  <2>1. pc["cmd"] = "loadId" /\ pc'["cmd"] = "storeId"
    BY <1>1, <1>2 DEF CmdLoadId, Step
  <2>. QED
    BY <2>1 DEF Filling, Fetching
<1>3. CASE CmdLoadBye
  <2>1. /\ pc["cmd"] = "loadBye" /\ pc'["cmd"] = "storeId"
        /\ draft'["cmd"].type = "BYE"
    BY <1>1, <1>3, LoadByeType DEF CmdLoadBye, Step
  <2>. QED
    BY <2>1 DEF Filling, Fetching, Waiting, ByeDraft
<1>4. CASE CmdStoreId \/ CmdSendBye \/ CmdLock \/ CmdLoadCount
  <2>1. UNCHANGED draft
    BY <1>4 DEF CmdStoreId, CmdSendBye, CmdLock, CmdLoadCount
  <2>2. \/ pc["cmd"] = "storeId" /\ pc'["cmd"] = IF ByeDraft THEN "send" ELSE "push"
        \/ pc["cmd"] = "send" /\ pc'["cmd"] = "lock"
        \/ pc["cmd"] = "lock" /\ pc'["cmd"] = "push"
        \/ pc["cmd"] = "push" /\ pc'["cmd"] = "pushCount"
    BY <1>1, <1>4 DEF CmdStoreId, CmdSendBye, CmdLock, CmdLoadCount, Step, ByeDraft
  <2>. QED
    BY <2>1, <2>2 DEF Filling, Fetching, Waiting, ByeDraft, QueueInv, CmdByeInv
<1>5. CASE \/ CmdTest \/ CmdRead \/ CmdEof \/ CmdReadError \/ CmdOverlong
           \/ CmdLocal \/ CmdAuthTest \/ CmdSlash \/ CmdMsgTest \/ CmdSleep
           \/ CmdSpuriousWakeup
  <2>1. /\ pc["cmd"] \in {"test", "read", "overlong", "local", "authTest",
                          "authPark", "authSleep", "slash", "msgTest",
                          "msgPark", "msgSleep"}
        /\ pc'["cmd"] # "pushSlot"
    BY <1>1, <1>5 DEF CmdTest, CmdRead, CmdEof, CmdReadError, CmdOverlong,
       CmdLocal, CmdAuthTest, CmdSlash, CmdMsgTest, CmdSleep,
       CmdSpuriousWakeup, Step, AfterLoop, Handler
  <2>. QED
    BY <2>1 DEF Filling, Fetching, Waiting
<1>6. CASE CmdUnlock \/ CmdTeardown \/ CmdExit
  <2>1. /\ pc["cmd"] \in {"unlock", "teardown", "drain"}
        /\ pc'["cmd"] \in {"teardown", "drain", "dead"}
    BY <1>1, <1>6 DEF CmdUnlock, CmdTeardown, CmdExit, Step
  <2>. QED
    BY <2>1 DEF Filling, Fetching, Waiting
<1>. QED
  BY <1>2, <1>3, <1>4, <1>5, <1>6 DEF CmdNext, CmdRun

\* The command thread queues a message when the one before it has arrived.
LEMMA CmdHead ==
  ASSUME TypeInv, QueueInv, OnceInv, HeadInv, CmdNext, GaveUp => GaveUp'
  PROVE  HeadInv'
<1>1. /\ pc \in [Threads -> Labels] /\ draft \in [Threads -> Message]
      /\ slot \in [Threads -> Nat] /\ pending_messages_count \in Nat
      /\ submitted \in Seq(Message) /\ served \in Seq(Message)
      /\ pending_messages \in [0 .. MaxPending - 1 -> Message]
  BY QueueTypes, OutboxTypes
<1>2. UNCHANGED served /\ pc'["rcv"] = pc["rcv"]
  BY CmdFrame, ServerFrame
<1>3. CASE CmdStoreCount
  <2>1. /\ pc["cmd"] = "pushCount" /\ pc'["cmd"] = "pushSlot"
        /\ pending_messages_count' = slot["cmd"] + 1
        /\ UNCHANGED <<submitted, draft, slot, pending_messages>>
    BY <1>1, <1>3 DEF CmdStoreCount, Step, StoreCount, userVars
  <2>2. CASE ~GaveUp /\ ~ByeDraft
    <3>1. Fetching /\ ~Filling
      BY <2>1, <2>2 DEF Fetching, Filling
    <3>2. slot["cmd"] = 0
      BY <1>1, <2>1, <2>2, <3>1, BoundInLoop DEF QueueInv, CountBounded
    <3>3. pending_messages_count = 0 /\ pc["rcv"] \notin {"load", "dec"}
      BY <2>2, <3>1 DEF QueueInv, StageInv
    <3>4. Len(served) = Len(submitted)
      BY <2>2, <3>1, <3>3 DEF HeadInv
    <3>. QED
      BY <1>1, <1>2, <2>1, <3>2, <3>3, <3>4 DEF HeadInv, Filling
  <2>3. CASE GaveUp \/ ByeDraft
    BY <1>2, <2>1, <2>3 DEF HeadInv, Filling, ByeDraft
  <2>. QED
    BY <2>2, <2>3
<1>4. CASE CmdFillSlot
  <2>1. /\ pc["cmd"] = "pushSlot" /\ UNCHANGED pending_messages_count
        /\ pending_messages' = [pending_messages EXCEPT ![slot["cmd"]] = draft["cmd"]]
        /\ pc'["cmd"] # "pushSlot"
        /\ ByeDraft => pc'["cmd"] = "unlock"
        /\ submitted' = IF draft["cmd"].type \in UserTypes
                        THEN Append(submitted, draft["cmd"]) ELSE submitted
    BY <1>1, <1>4 DEF CmdFillSlot, FillSlot, Step, ByeDraft
  <2>2. CASE ~GaveUp /\ ~ByeDraft
    <3>1. Filling /\ draft["cmd"].type \in UserTypes
      BY <2>1, <2>2 DEF Filling, OnceInv, UserDraft
    <3>2. /\ Len(served) = Len(submitted) /\ slot["cmd"] = 0
          /\ pending_messages_count # 0 /\ pc["rcv"] \notin {"load", "dec"}
      BY <2>2, <3>1 DEF HeadInv
    <3>3. /\ Len(submitted') = Len(submitted) + 1
          /\ submitted'[Len(submitted')] = draft["cmd"]
      BY <1>1, <2>1, <3>1, Appended
    <3>4. 0 \in 0 .. MaxPending - 1
      BY DEF ConstantsAssumption
    <3>5. pending_messages'[0] = draft["cmd"]
      BY <1>1, <2>1, <3>2, <3>4
    <3>. QED
      BY <1>1, <1>2, <2>1, <3>2, <3>3, <3>5 DEF HeadInv, Filling
  <2>3. CASE ~GaveUp /\ ByeDraft
    <3>1. UNCHANGED submitted /\ pc'["cmd"] = "unlock"
      BY <2>1, <2>3 DEF ByeDraft, UserTypes
    <3>. QED
      BY <1>2, <2>3, <3>1 DEF HeadInv, Filling, Fetching, Waiting
  <2>4. CASE GaveUp
    BY <2>4 DEF HeadInv
  <2>. QED
    BY <2>2, <2>3, <2>4
<1>5. CASE ~CmdStoreCount /\ ~CmdFillSlot
  <2>1. UNCHANGED <<submitted, pending_messages, pending_messages_count>>
    BY <1>5, Zenon DEF CmdNext, CmdRun, userVars, queueVars, CmdTest,
       CmdOverlong, CmdLocal, CmdLoadId, CmdStoreId, CmdLoadCount, CmdAuthTest,
       CmdSlash, CmdMsgTest, CmdSleep, CmdLoadBye, CmdSendBye, CmdLock,
       CmdUnlock, CmdTeardown, CmdExit, CmdRead, CmdEof, CmdReadError,
       CmdSpuriousWakeup
  <2>2. /\ ~Filling /\ ~Filling'
        /\ (Fetching \/ Waiting)' => Fetching \/ Waiting
    BY <1>5, CmdInLoop
  <2>. QED
    BY <1>2, <2>1, <2>2 DEF HeadInv
<1>. QED
  BY <1>3, <1>4, <1>5

\* What the other threads leave of the place of the command thread.
LEMMA OthersInLoop ==
  ASSUME TypeInv, SndNext \/ RcvNext \/ SigArrives \/ SigRun \/ LifeRun
                  \/ SrvNext \/ UNCHANGED vars
  PROVE  /\ Filling' <=> Filling
         /\ ByeDraft' <=> ByeDraft
         /\ (Fetching \/ Waiting)' => Fetching \/ Waiting
         /\ Fetching' => Fetching
  BY OthersLeave DEF Filling, ByeDraft, Fetching, Waiting, CancellationPoint

\* The send thread fills a slot of its own when it has given up.
LEMMA SndHead ==
  ASSUME TypeInv, QueueInv, HeadInv, SndNext, GaveUp => GaveUp'
  PROVE  HeadInv'
<1>1. /\ UNCHANGED <<submitted, served>> /\ slot'["cmd"] = slot["cmd"]
      /\ pc'["rcv"] = pc["rcv"]
  BY OthersLeave, ServerFrame, SndFrame
<1>2. CASE SndStoreCount \/ SndFillSlot
  <2>1. GaveUp
    BY <1>2 DEF SndStoreCount, SndFillSlot, Step, QueueInv, LimitInv, GaveUp
  <2>. QED
    BY <2>1 DEF HeadInv
<1>3. CASE ~SndStoreCount /\ ~SndFillSlot
  <2>1. UNCHANGED <<pending_messages, pending_messages_count>>
    BY <1>3, Zenon DEF SndNext, queueVars, SndTest, SndPeek, SndSend,
       SndSendFails, SndReset, SndWake, SndSettled, SndGiveUp, SndQuit,
       SndLoadBye, SndStoreId, SndSendBye, SndLock, SndLoadCount, SndUnlock,
       SndCancel
  <2>. QED
    BY <1>1, <2>1, OthersInLoop, HeadKept
<1>. QED
  BY <1>2, <1>3

\* A CONFIRM of the last message of the user: the server has it.
LEMMA ConfirmedIsServed ==
  ASSUME TypeInv, IdInv, OnceInv, WireInv, ConfirmInv,
         pc["rcv"] = "search", Len(submitted) # 0,
         submitted[Len(submitted)].id = response.id
  PROVE  Len(served) = Len(submitted)
<1>. DEFINE last == submitted[Len(submitted)]
<1>1. /\ submitted \in Seq(Message) /\ served \in Seq(Message)
      /\ Len(submitted) \in 1 .. Len(submitted)
  BY OutboxTypes
<1>2. last \in Around
  BY <1>1, OldOnes DEF Old, Numbered, OnceInv
<1>3. response \in toClient /\ response.type = "CONFIRM"
  BY DEF ConfirmInv
<1>4. CASE \E i \in 1 .. Len(served) : served[i].id = response.id
  <2>1. PICK i \in 1 .. Len(served) : served[i].id = response.id
    BY <1>4
  <2>2. i \in 1 .. Len(submitted) /\ submitted[i] = served[i]
    BY <1>1, <2>1 DEF WireInv
  <2>3. submitted[i] \in Around
    BY <2>2, OldOnes DEF Old, Numbered, OnceInv
  <2>4. submitted[i] = last
    BY <1>2, <2>1, <2>2, <2>3 DEF IdInv
  <2>5. i = Len(submitted)
    BY <1>1, <2>2, <2>4 DEF OnceInv
  <2>. QED
    BY <1>1, <2>1, <2>5 DEF WireInv
<1>5. CASE \E d \in toServer : d.msg.type \in {"BYE", "ERR"} /\ d.msg.id = response.id
  <2>1. PICK d \in toServer : d.msg.type \in {"BYE", "ERR"} /\ d.msg.id = response.id
    BY <1>5
  <2>2. d.msg \in Around
    BY <2>1, OldOnes DEF Old, Numbered
  <2>3. d.msg = last
    BY <1>2, <2>1, <2>2 DEF IdInv
  <2>4. last.type \in UserTypes
    BY <1>1 DEF OnceInv
  <2>. QED
    BY <2>1, <2>3, <2>4 DEF UserTypes
<1>. QED
  BY <1>3, <1>4, <1>5 DEF ConfirmInv

\* The receive thread takes a message out of the queue that the server has.
LEMMA RcvHead ==
  ASSUME TypeInv, QueueInv, IdInv, OnceInv, WireInv, ConfirmInv, HeadInv,
         Undisturbed', RcvNext
  PROVE  HeadInv'
<1>1. /\ pc \in [Threads -> Labels] /\ pending_messages_count \in Nat
      /\ submitted \in Seq(Message) /\ served \in Seq(Message)
      /\ pending_messages \in [0 .. MaxPending - 1 -> Message]
      /\ slot \in [Threads -> Nat]
  BY QueueTypes, OutboxTypes
<1>2. /\ UNCHANGED <<submitted, served>> /\ slot'["cmd"] = slot["cmd"]
      /\ GaveUp' <=> GaveUp
      /\ Filling' <=> Filling
      /\ ByeDraft' <=> ByeDraft
      /\ (Fetching \/ Waiting)' => Fetching \/ Waiting
  BY OthersLeave, ServerFrame, RcvOthers, OthersInLoop
<1>3. CASE RcvSearch /\ Matches # {} /\ ~GaveUp
  <2>1. /\ pc["rcv"] = "search" /\ pc'["rcv"] = "load"
        /\ pending_messages' = ShiftDown(First)
        /\ UNCHANGED pending_messages_count
    BY <1>1, <1>3 DEF RcvSearch, Step
  <2>2. ~Filling
    BY <1>2, <2>1 DEF Undisturbed, Filling
  <2>3. CASE Fetching \/ Waiting
    <3>1. pending_messages_count # 0
      BY <1>1, <1>3 DEF Matches, Pending
    <3>2. pending_messages_count = 1
      BY <1>1, <1>3, <2>3, <3>1, BoundInLoop DEF QueueInv, CountBounded
    <3>3. Pending = {0}
      BY <3>2 DEF Pending, ConstantsAssumption
    <3>4. pending_messages[0].id = response.id
      BY <1>3, <3>3 DEF Matches
    <3>5. pending_messages'[0] = pending_messages[0]
      BY <2>1, <3>3 DEF ShiftDown, ConstantsAssumption
    <3>6. Len(submitted) # 0 /\ pending_messages[0] = submitted[Len(submitted)]
      BY <1>3, <2>2, <2>3, <3>1 DEF HeadInv
    <3>7. Len(served) = Len(submitted)
      BY <2>1, <3>4, <3>6, ConfirmedIsServed
    <3>. QED
      BY <1>1, <1>2, <2>1, <2>2, <3>5, <3>6, <3>7 DEF HeadInv
  <2>4. CASE ~(Fetching \/ Waiting)
    BY <1>2, <1>3, <2>2, <2>4 DEF HeadInv
  <2>. QED
    BY <2>3, <2>4
<1>4. CASE RcvDec /\ ~GaveUp
  <2>1. /\ pc["rcv"] = "dec" /\ pc'["rcv"] = "flag"
        /\ UNCHANGED pending_messages
    BY <1>1, <1>4 DEF RcvDec, Step, rcvElsewhere
  <2>2. CASE Filling \/ ~(Fetching \/ Waiting)
    BY <1>2, <1>4, <2>1, <2>2 DEF HeadInv
  <2>3. CASE ~Filling /\ (Fetching \/ Waiting)
    <3>1. pending_messages_count # 0
      BY <1>4, <2>1, <2>3 DEF QueueInv, StageInv
    <3>. QED
      BY <1>2, <1>4, <2>1, <2>3, <3>1 DEF HeadInv
  <2>. QED
    BY <2>2, <2>3
<1>5. CASE GaveUp
  BY <1>2, <1>5 DEF HeadInv
<1>6. CASE ~RcvDec /\ ~(RcvSearch /\ Matches # {})
  <2>1. UNCHANGED <<pending_messages, pending_messages_count>>
    <3>1. CASE RcvSearch
      BY <1>6, <3>1 DEF RcvSearch
    <3>2. CASE ~RcvSearch
      BY <1>6, <3>2, Zenon DEF RcvNext, RcvRun, rcvElsewhere, RcvTest,
         RcvReceive, RcvFails, RcvLock, RcvLoadCount, RcvFlag, RcvPort,
         RcvVerify, RcvRefuse, RcvConfirm, RcvLoadId, RcvStoreId, RcvSend,
         RcvQuit, RcvUnlock
    <3>. QED
      BY <3>1, <3>2
  <2>2. pc'["rcv"] \in {"load", "dec"} => pc["rcv"] \in {"load", "dec"}
    <3>1. CASE RcvSearch
      BY <1>1, <1>6, <3>1 DEF RcvSearch, Step
    <3>2. CASE RcvLoadCount
      BY <3>2 DEF RcvLoadCount, Step
    <3>3. CASE ~RcvSearch /\ ~RcvLoadCount
      <4>1. pc'["rcv"] \notin {"load", "dec"}
        BY <1>1, <1>6, <3>3 DEF RcvNext, RcvRun, Step, Perform, Signalled,
           RcvTest, RcvReceive, RcvFails, RcvLock, RcvFlag, RcvPort,
           RcvVerify, RcvRefuse, RcvConfirm, RcvLoadId, RcvStoreId, RcvSend,
           RcvQuit, RcvUnlock
      <4>. QED
        BY <4>1
    <3>. QED
      BY <3>1, <3>2, <3>3
  <2>. QED
    BY <1>2, <2>1, <2>2, HeadKept
<1>. QED
  BY <1>3, <1>4, <1>5, <1>6

\* The server takes a message while there is one it has not.
LEMMA SrvHead ==
  ASSUME TypeInv, WireInv, HeadInv, SrvNext
  PROVE  HeadInv'
<1>1. submitted \in Seq(Message) /\ served \in Seq(Message)
  BY OutboxTypes
<1>2. /\ UNCHANGED <<submitted, pending_messages, pending_messages_count,
                     draft, slot, pc, retransmission_count>>
  BY Zenon DEF SrvNext, SrvConfirm, SrvServe, SrvNotify, srvElsewhere,
     userVars, queueVars, localVars
<1>3. /\ GaveUp' <=> GaveUp
      /\ Filling' <=> Filling
      /\ ByeDraft' <=> ByeDraft
      /\ Fetching' <=> Fetching
      /\ Waiting' <=> Waiting
  BY <1>2 DEF GaveUp, AtLimit, Filling, ByeDraft, Fetching, Waiting
<1>4. CASE SrvServe
  <2>1. PICK d \in toServer : /\ d.msg.type \in UserTypes
                              /\ ~Known(d.msg)
                              /\ served' = Append(served, d.msg)
    BY <1>4 DEF SrvServe
  <2>2. Len(served) + 1 \in 1 .. Len(submitted)
    BY <2>1, ServesNext
  <2>3. d.msg \in Message
    BY OutboxTypes DEF Datagram
  <2>4. Len(served') = Len(served) + 1
    BY <1>1, <2>1, <2>3, Appended
  <2>5. Len(served) # Len(submitted) /\ Len(submitted) <= Len(served) + 1
          => Len(submitted) <= Len(served') + 1
    BY <1>1, <2>4
  <2>6. Len(served) # Len(submitted)
    BY <1>1, <2>2
  <2>. QED
    BY <1>2, <1>3, <2>5, <2>6 DEF HeadInv
<1>5. CASE SrvConfirm \/ SrvNotify
  <2>1. UNCHANGED served
    BY <1>5 DEF SrvConfirm, SrvNotify
  <2>. QED
    BY <1>2, <1>3, <2>1, HeadKept
<1>. QED
  BY <1>4, <1>5 DEF SrvNext

\* Until the send thread gives up, what is not served is the head of the queue.
LEMMA NextHead ==
  ASSUME TypeInv, QueueInv, IdInv, OnceInv, WireInv, ConfirmInv, HeadInv,
         Undisturbed', [Next]_vars
  PROVE  HeadInv'
<1>1. GaveUp => GaveUp'
  BY GaveUpStays
<1>2. CASE CmdStep
  BY <1>1, <1>2, CmdHead DEF CmdStep
<1>3. CASE SndStep
  BY <1>1, <1>3, SndHead DEF SndStep
<1>4. CASE RcvStep
  BY <1>4, RcvHead DEF RcvStep
<1>5. CASE SrvStep
  BY <1>5, SrvHead DEF SrvStep
<1>6. CASE SigStep \/ LifeStep \/ UNCHANGED vars
  <2>1. SigArrives \/ SigRun \/ LifeRun \/ UNCHANGED vars
    BY <1>6 DEF SigStep, LifeStep
  <2>2. UNCHANGED <<pending_messages, pending_messages_count>>
    <3>1. CASE SigArrives \/ SigRun
      BY <3>1, SigFrame DEF queueVars
    <3>2. CASE LifeRun \/ UNCHANGED vars
      BY <3>2, LifeFrame, SrvFrame DEF clientVars, queueVars
    <3>. QED
      BY <2>1, <3>1, <3>2
  <2>3. UNCHANGED <<submitted, served>> /\ slot'["cmd"] = slot["cmd"]
    BY <2>1, OthersLeave, ServerFrame
  <2>4. pc'["rcv"] \in {"load", "dec"} => pc["rcv"] \in {"load", "dec"}
    BY <2>1, QueueTypes, SigFrame, LifeFrame, SrvFrame
  <2>. QED
    BY <1>1, <2>1, <2>2, <2>3, <2>4, OthersInLoop, HeadKept
<1>. QED
  BY <1>2, <1>3, <1>4, <1>5, <1>6 DEF Next

-----------------------------------------------------------------------------
(* The end of the session.                                                 *)

\* The flags that end the session stay up.
LEMMA FlagsStay ==
  ASSUME [Next]_vars
  PROVE  (quit => quit') /\ (quit_requested => quit_requested')
<1>. SUFFICES /\ quit' = quit \/ quit' = TRUE
              /\ quit_requested' = quit_requested \/ quit_requested' = TRUE
  OBVIOUS
<1>1. CASE CmdNext
  BY <1>1, Zenon DEF CmdNext, CmdRun, stopVars, CmdTest, CmdOverlong, CmdLocal,
     CmdLoadId, CmdStoreId, CmdLoadCount, CmdStoreCount, CmdFillSlot,
     CmdAuthTest, CmdSlash, CmdMsgTest, CmdSleep, CmdLoadBye, CmdSendBye,
     CmdLock, CmdUnlock, CmdTeardown, CmdExit, CmdRead, CmdEof, CmdReadError,
     CmdSpuriousWakeup
<1>2. CASE SndNext
  BY <1>2, Zenon DEF SndNext, stopVars, SndTest, SndPeek, SndSend,
     SndSendFails, SndReset, SndWake, SndSettled, SndGiveUp, SndQuit,
     SndLoadBye, SndStoreId, SndSendBye, SndLock, SndLoadCount, SndStoreCount,
     SndFillSlot, SndUnlock, SndCancel
<1>3. CASE RcvNext
  BY <1>3, Zenon DEF RcvNext, RcvRun, rcvElsewhere, RcvTest, RcvReceive,
     RcvFails, RcvLock, RcvSearch, RcvLoadCount, RcvDec, RcvFlag, RcvPort,
     RcvVerify, RcvRefuse, RcvConfirm, RcvLoadId, RcvStoreId, RcvSend, RcvQuit,
     RcvUnlock
<1>4. CASE SigArrives \/ SigRun \/ LifeRun
  BY <1>4, Zenon DEF SigRun, SigArrives, SigStoreId, SigSend, SigSet, LifeRun,
     MainJoins, CancelDies, sigElsewhere
<1>5. CASE SrvNext \/ UNCHANGED vars
  BY <1>5, SrvFrame DEF clientVars, stopVars
<1>. QED
  BY <1>1, <1>2, <1>3, <1>4, <1>5
     DEF Next, CmdStep, SndStep, RcvStep, SigStep, LifeStep, SrvStep

\* The script of a datagram that ends the session.
LEMMA ScriptsQuit ==
  ASSUME script' = Script(response), response.type \in Closing
  PROVE  QuitLast'
<1>1. CASE response.type \in {"ERR", "BYE"}
  <2>1. script' = <<"confirm", "loadBye", "storeId", "send", "quit">>
    BY <1>1 DEF Script, OnClose
  <2>. QED
    BY <2>1 DEF QuitLast
<1>2. CASE response.type = "BADMSG"
  <2>1. script' = <<"confirm", "loadErr", "storeId", "send", "quit">>
    BY <1>2 DEF Script
  <2>. QED
    BY <2>1 DEF QuitLast
<1>3. CASE response.type = "JUNK"
  <2>1. script' = <<"loadErr", "storeId", "send", "loadBye", "storeId", "send", "quit">>
    BY <1>3 DEF Script
  <2>. QED
    BY <2>1 DEF QuitLast
<1>. QED
  BY <1>1, <1>2, <1>3 DEF Closing

\* The script is not left before its last effect.
LEMMA PerformCloses ==
  ASSUME TypeInv, QuitLast, NEW e, NEW p \in [Threads -> Labels], Perform(e, p),
         e # "quit"
  PROVE  pc'["rcv"] = "script" /\ QuitLast'
<1>1. /\ Len(script) \in Nat /\ Len(script) >= 1 /\ script[1] = e
      /\ Len(script') = Len(script) - 1
      /\ \A i \in 1 .. Len(script') : script'[i] = script[i + 1]
  BY PerformShifts
<1>2. script[Len(script)] = "quit"
  BY DEF QuitLast
<1>3. Len(script) # 1
  BY <1>1, <1>2
<1>4. Len(script') \in 1 .. Len(script') /\ Len(script') + 1 = Len(script)
  BY <1>1, <1>3
<1>5. script' # <<>> /\ script'[Len(script')] = "quit"
  BY <1>1, <1>2, <1>4
<1>6. script' = Tail(script)
  BY DEF Perform
<1>7. pc'["rcv"] = "script"
  BY <1>5, <1>6 DEF Perform
<1>. QED
  BY <1>5, <1>7 DEF QuitLast

\* The receive thread, once it ends the session, goes on until quit is set.
LEMMA RcvCloses ==
  ASSUME TypeInv, ClosingScript => quit \/ QuitLast, RcvNext
  PROVE  /\ ClosingScript' => quit' \/ QuitLast'
         /\ ClosingScript => quit' \/ ClosingScript'
<1>1. pc \in [Threads -> Labels]
  BY QueueTypes
<1>3. CASE RcvEffect \/ RcvLoadId \/ RcvStoreId
  <2>1. CASE RcvQuit
    BY <2>1 DEF RcvQuit
  <2>2. CASE ~RcvQuit
    <3>1. PICK e \in Effects \ {"quit"}, p \in [Threads -> Labels] : Perform(e, p)
      BY <1>3, <2>2, SignalledType DEF RcvEffect, Effects, RcvPort, RcvVerify,
         RcvRefuse, RcvConfirm, RcvLoadId, RcvStoreId, RcvSend
    <3>2. UNCHANGED <<response, quit>>
      BY <1>3, <2>2 DEF RcvEffect, RcvPort, RcvVerify, RcvRefuse, RcvConfirm,
         RcvLoadId, RcvStoreId, RcvSend
    <3>3. pc["rcv"] = "script"
      BY <3>1 DEF Perform
    <3>. QED
      BY <3>1, <3>2, <3>3, PerformCloses DEF ClosingScript
  <2>. QED
    BY <2>1, <2>2
<1>4. CASE RcvLock
  <2>1. /\ pc["rcv"] = "lock" /\ UNCHANGED response
        /\ \/ pc'["rcv"] = "search"
           \/ pc'["rcv"] = "script" /\ script' = Script(response)
    BY <1>1, <1>4 DEF RcvLock, Step
  <2>. QED
    BY <2>1, ScriptsQuit DEF ClosingScript
<1>5. CASE RcvOther
  <2>1. pc["rcv"] # "script" /\ pc'["rcv"] # "script"
    BY <1>1, <1>5 DEF RcvOther, Step, RcvTest, RcvReceive, RcvFails, RcvSearch,
       RcvLoadCount, RcvDec, RcvFlag, RcvUnlock
  <2>. QED
    BY <2>1 DEF ClosingScript
<1>. QED
  BY <1>3, <1>4, <1>5 DEF RcvNext, RcvRun, RcvEffect, RcvOther

LEMMA NextClosing ==
  ASSUME TypeInv, QueueInv, ClosingInv, [Next]_vars
  PROVE  ClosingInv'
<1>1. (quit => quit') /\ (quit_requested => quit_requested')
  BY FlagsStay
<1>2. pc \in [Threads -> Labels]
  BY QueueTypes
<1>3. CASE CmdStep
  <2>1. UNCHANGED <<response, script>> /\ pc'["snd"] = pc["snd"] /\ pc'["rcv"] = pc["rcv"]
    BY <1>3, CmdFrame DEF CmdStep
  <2>2. UNCHANGED cancelled \/ exited' = TRUE
    BY <1>3, Zenon DEF CmdStep, CmdNext, CmdRun, lifeVars, CmdTest,
       CmdOverlong, CmdLocal, CmdLoadId, CmdStoreId, CmdLoadCount,
       CmdStoreCount, CmdFillSlot, CmdAuthTest, CmdSlash, CmdMsgTest, CmdSleep,
       CmdLoadBye, CmdSendBye, CmdLock, CmdUnlock, CmdTeardown, CmdExit,
       CmdRead, CmdEof, CmdReadError, CmdSpuriousWakeup
  <2>3. ~exited
    BY <1>3 DEF CmdStep
  <2>. QED
    BY <1>1, <2>1, <2>2, <2>3 DEF ClosingInv, ClosingScript, QuitLast
<1>4. CASE SndStep
  <2>1. UNCHANGED <<response, script>> /\ pc'["rcv"] = pc["rcv"] /\ ~exited
    BY <1>4, SndFrame DEF SndStep
  <2>2. pc'["snd"] = "cancel" => quit' \/ quit_requested'
    <3>1. CASE SndTest
      <4>1. pc'["snd"] = IF quit \/ quit_requested THEN "cancel" ELSE "peek"
        BY <1>2, <3>1 DEF SndTest, Step
      <4>. QED
        BY <1>1, <4>1
    <3>2. CASE SndUnlock
      <4>1. pc["snd"] = "unlock"
        BY <3>2 DEF SndUnlock, Step
      <4>2. quit
        BY <4>1 DEF QueueInv, LimitInv, GaveUp
      <4>. QED
        BY <1>1, <4>2
    <3>3. CASE ~SndTest /\ ~SndUnlock
      BY <1>2, <1>4, <3>3 DEF SndStep, SndNext, Step, Signalled, SndPeek,
         SndSend, SndSendFails, SndReset, SndWake, SndSettled, SndGiveUp,
         SndQuit, SndLoadBye, SndStoreId, SndSendBye, SndLock, SndLoadCount,
         SndStoreCount, SndFillSlot, SndCancel
    <3>. QED
      BY <3>1, <3>2, <3>3
  <2>3. UNCHANGED cancelled \/ pc["snd"] = "cancel"
    BY <1>4, Zenon DEF SndStep, SndNext, Step, SndTest, SndPeek, SndSend,
       SndSendFails, SndReset, SndWake, SndSettled, SndGiveUp, SndQuit,
       SndLoadBye, SndStoreId, SndSendBye, SndLock, SndLoadCount,
       SndStoreCount, SndFillSlot, SndUnlock, SndCancel
  <2>. QED
    BY <1>1, <2>1, <2>2, <2>3 DEF ClosingInv, ClosingScript, QuitLast
<1>5. CASE RcvStep
  <2>1. UNCHANGED cancelled /\ pc'["snd"] = pc["snd"] /\ ~exited
    BY <1>5, RcvFrame DEF RcvStep
  <2>2. ClosingScript' => quit' \/ QuitLast'
    BY <1>5, RcvCloses DEF RcvStep, ClosingInv
  <2>. QED
    BY <1>1, <2>1, <2>2 DEF ClosingInv
<1>6. CASE SigStep \/ SrvStep \/ UNCHANGED vars
  <2>1. /\ UNCHANGED <<response, script, cancelled, exited>>
        /\ pc'["rcv"] = pc["rcv"] /\ pc'["snd"] = pc["snd"]
    BY <1>6, SigFrame, SrvFrame DEF SigStep, SrvStep, clientVars, rcvVars
  <2>. QED
    BY <1>1, <2>1 DEF ClosingInv, ClosingScript, QuitLast
<1>7. CASE LifeStep
  <2>1. /\ UNCHANGED <<response, script, cancelled>> /\ ~exited
        /\ pc'["rcv"] = pc["rcv"] \/ pc'["rcv"] = "dead"
        /\ pc'["snd"] = pc["snd"]
    BY <1>2, <1>7, LifeFrame DEF LifeStep, clientVars, rcvVars
  <2>. QED
    BY <1>1, <2>1 DEF ClosingInv, ClosingScript, QuitLast
<1>. QED
  BY <1>3, <1>4, <1>5, <1>6, <1>7 DEF Next

\* The end, once begun, is not taken back.
LEMMA EndStays ==
  ASSUME TypeInv, ClosingInv, EndBegun, [Next]_vars
  PROVE  EndBegun'
<1>1. (quit => quit') /\ (quit_requested => quit_requested')
  BY FlagsStay
<1>2. pc \in [Threads -> Labels]
  BY QueueTypes
<1>. SUFFICES ASSUME ~quit, ~quit_requested PROVE EndBegun'
  BY <1>1 DEF EndBegun
<1>3. \/ pc["snd"] \in {"giveUp", "quit"}
      \/ pc["sig"] # "idle"
      \/ ClosingScript
  BY DEF EndBegun, ClosingScript
<1>4. CASE CmdStep
  <2>1. UNCHANGED response /\ \A u \in {"snd", "rcv", "sig"} : pc'[u] = pc[u]
    BY <1>4, CmdFrame DEF CmdStep
  <2>. QED
    BY <1>3, <2>1 DEF EndBegun, ClosingScript
<1>5. CASE SndStep
  <2>1. UNCHANGED response /\ \A u \in {"rcv", "sig"} : pc'[u] = pc[u]
    BY <1>5, SndFrame DEF SndStep
  <2>2. pc["snd"] \in {"giveUp", "quit"} => quit' \/ pc'["snd"] = "quit"
    BY <1>2, <1>5 DEF SndStep, SndNext, Step, Signalled, SndTest, SndPeek,
       SndSend, SndSendFails, SndReset, SndWake, SndSettled, SndGiveUp,
       SndQuit, SndLoadBye, SndStoreId, SndSendBye, SndLock, SndLoadCount,
       SndStoreCount, SndFillSlot, SndUnlock, SndCancel
  <2>. QED
    BY <1>3, <2>1, <2>2 DEF EndBegun, ClosingScript
<1>6. CASE RcvStep
  <2>1. \A u \in {"snd", "sig"} : pc'[u] = pc[u]
    BY <1>6, RcvFrame DEF RcvStep
  <2>2. ClosingScript => quit' \/ ClosingScript'
    BY <1>6, RcvCloses DEF RcvStep, ClosingInv
  <2>. QED
    BY <1>3, <2>1, <2>2 DEF EndBegun, ClosingScript
<1>7. CASE SigStep
  <2>1. UNCHANGED response /\ \A u \in {"snd", "rcv"} : pc'[u] = pc[u]
    BY <1>7, SigFrame DEF SigStep, rcvVars
  <2>2. pc'["sig"] # "idle"
    BY <1>2, <1>7 DEF SigStep, SigRun, SigArrives, SigStoreId, SigSend, SigSet, Step
  <2>. QED
    BY <2>1, <2>2 DEF EndBegun
<1>8. CASE LifeStep
  <2>1. cancelled = {}
    BY <1>8 DEF LifeStep, ClosingInv
  <2>2. UNCHANGED <<response, pc>>
    BY <1>8, <2>1, LifeFrame DEF LifeStep, clientVars, rcvVars
  <2>. QED
    BY <1>3, <2>2 DEF EndBegun, ClosingScript
<1>9. CASE SrvStep \/ UNCHANGED vars
  <2>1. UNCHANGED <<response, pc>>
    BY <1>9, SrvFrame DEF SrvStep, clientVars, rcvVars
  <2>. QED
    BY <1>3, <2>1 DEF EndBegun, ClosingScript
<1>. QED
  BY <1>4, <1>5, <1>6, <1>7, <1>8, <1>9 DEF Next

-----------------------------------------------------------------------------
(* The invariant.                                                          *)

LEMMA InitOutbox == Init => OutboxInv
<1>. SUFFICES ASSUME Init PROVE OutboxInv
  OBVIOUS
<1>1. /\ \A t \in Threads : pc[t] \in {"test", "idle"} /\ draft[t] = Blank
      /\ pc["cmd"] = "test" /\ pc["snd"] = "test" /\ pc["rcv"] = "test"
  BY DEF Init
<1>2. /\ submitted = <<>> /\ served = <<>> /\ toServer = {} /\ toClient = {}
      /\ script = <<>> /\ cancelled = {}
      /\ pending_messages_count = 0
      /\ \A i \in 0 .. MaxPending - 1 : pending_messages[i] = Blank
  BY DEF Init
<1>3. Len(submitted) = 0 /\ Len(served) = 0 /\ Len(script) = 0
  BY <1>2
<1>4. Blank.type = "BLANK"
  BY DEF Blank
<1>5. Around = {}
  BY <1>1, <1>2, <1>3, <1>4 DEF Around, Numbered, UserTypes
<1>6. IdInv
  BY <1>1, <1>5 DEF IdInv, Drawing
<1>7. ScriptInv
  BY <1>3 DEF ScriptInv
<1>8. OnceInv
  BY <1>1, <1>3 DEF OnceInv, UserDraft
<1>9. WireInv
  BY <1>1, <1>2, <1>3, <1>4 DEF WireInv, UserTypes
<1>10. ConfirmInv
  BY <1>1, <1>2 DEF ConfirmInv
<1>11. HeadInv
  BY <1>1, <1>2, <1>3 DEF HeadInv, Filling
<1>12. ClosingInv
  BY <1>1, <1>2 DEF ClosingInv, ClosingScript
<1>. QED
  BY <1>6, <1>7, <1>8, <1>9, <1>10, <1>11, <1>12 DEF OutboxInv

LEMMA NextOutbox ==
  ASSUME TypeInv, QueueInv, OutboxInv, Undisturbed, Undisturbed', [Next]_vars
  PROVE  OutboxInv'
<1>1. /\ IdInv /\ ScriptInv /\ OnceInv /\ WireInv /\ ConfirmInv /\ HeadInv
      /\ ClosingInv
  BY DEF OutboxInv
<1>2. IdInv' /\ ScriptInv'
  BY <1>1, NextIds
<1>3. OnceInv'
  BY <1>1, NextOnce
<1>4. WireInv'
  BY <1>1, NextWire
<1>5. ConfirmInv'
  BY <1>1, NextConfirm
<1>6. HeadInv'
  BY <1>1, NextHead
<1>7. ClosingInv'
  BY <1>1, NextClosing
<1>. QED
  BY <1>2, <1>3, <1>4, <1>5, <1>6, <1>7 DEF OutboxInv

-----------------------------------------------------------------------------
(* Every step is a step of the outbox, or none it sees.                    *)

\* Leaving the id out of each message of a sequence.
AllContents == {Content(m) : m \in Message}

LEMMA ContentsOf ==
  ASSUME NEW s \in Seq(Message)
  PROVE  /\ Contents(s) \in Seq(AllContents)
         /\ Len(Contents(s)) = Len(s)
         /\ \A i \in 1 .. Len(s) : Contents(s)[i] = Content(s[i])
<1>1. Contents(s) = [i \in 1 .. Len(s) |-> Content(s[i])]
  BY DEF Contents
<1>2. Len(s) \in Nat
  OBVIOUS
<1>3. \A i \in 1 .. Len(s) : Content(s[i]) \in AllContents
  BY DEF AllContents
<1>4. Contents(s) \in [1 .. Len(s) -> AllContents]
  BY <1>1, <1>3
<1>5. Contents(s) \in Seq(AllContents)
  BY <1>2, <1>4, SeqDef, ZenonT(40)
<1>6. DOMAIN Contents(s) = 1 .. Len(Contents(s))
  BY <1>5
<1>7. Len(Contents(s)) = Len(s)
  <2>1. 1 .. Len(Contents(s)) = 1 .. Len(s)
    BY <1>4, <1>6
  <2>2. Len(Contents(s)) \in Nat
    BY <1>5
  <2>. QED
    BY <1>2, <2>1, <2>2
<1>. QED
  BY <1>1, <1>5, <1>7

LEMMA ContentsAppend ==
  ASSUME NEW s \in Seq(Message), NEW m \in Message
  PROVE  Contents(Append(s, m)) = Append(Contents(s), Content(m))
<1>1. /\ Contents(s) \in Seq(AllContents)
      /\ Len(Contents(s)) = Len(s)
      /\ \A i \in 1 .. Len(s) : Contents(s)[i] = Content(s[i])
  BY ContentsOf
<1>2. /\ Append(s, m) \in Seq(Message)
      /\ Len(Append(s, m)) = Len(s) + 1
      /\ \A i \in 1 .. Len(s) : Append(s, m)[i] = s[i]
      /\ Append(s, m)[Len(s) + 1] = m
      /\ \A i \in 1 .. Len(s) + 1 : i \in 1 .. Len(s) \/ i = Len(s) + 1
  BY Appended
<1>3. /\ Contents(Append(s, m)) \in Seq(AllContents)
      /\ Len(Contents(Append(s, m))) = Len(s) + 1
      /\ \A i \in 1 .. Len(s) + 1 :
           Contents(Append(s, m))[i] = Content(Append(s, m)[i])
  BY <1>2, ContentsOf
<1>4. Content(m) \in AllContents
  BY DEF AllContents
<1>5. /\ Append(Contents(s), Content(m)) \in Seq(AllContents)
      /\ Len(Append(Contents(s), Content(m))) = Len(s) + 1
      /\ \A i \in 1 .. Len(s) : Append(Contents(s), Content(m))[i] = Contents(s)[i]
      /\ Append(Contents(s), Content(m))[Len(s) + 1] = Content(m)
  BY <1>1, <1>4, Appended
<1>6. \A i \in 1 .. Len(s) + 1 :
        Contents(Append(s, m))[i] = Append(Contents(s), Content(m))[i]
  BY <1>1, <1>2, <1>3, <1>5
<1>. QED
  BY <1>3, <1>5, <1>6, SeqEqual

\* The outbox's view of the client.
LEMMA ViewOfOutbox ==
  /\ UNCHANGED <<submitted, served>> /\ (EndBegun' <=> EndBegun)
       => UNCHANGED Abstract!outboxVars
  /\ Abstract!OutboxInit <=>
       Contents(submitted) = <<>> /\ Contents(served) = <<>> /\ EndBegun = FALSE
  /\ Abstract!Submit <=>
       /\ EndBegun \/ Contents(served) = Contents(submitted)
       /\ \E m \in UserMessage : Contents(submitted)' = Append(Contents(submitted), m)
       /\ UNCHANGED <<Contents(served), EndBegun>>
  /\ Abstract!Deliver <=>
       /\ Len(Contents(served)) < Len(Contents(submitted))
       /\ Contents(served)' = Append(Contents(served),
                                     Contents(submitted)[Len(Contents(served)) + 1])
       /\ UNCHANGED <<Contents(submitted), EndBegun>>
  /\ Abstract!Close <=> EndBegun' = TRUE /\ UNCHANGED <<Contents(submitted), Contents(served)>>
  BY DEF Abstract!outboxVars, Abstract!OutboxInit, Abstract!Submit,
     Abstract!Deliver, Abstract!Close, EndBegun, Contents

\* The command thread queues a message of the user: everything before has
\* arrived, unless the end has begun.
LEMMA FillMaps ==
  ASSUME TypeInv, QueueInv, OnceInv, WireInv, HeadInv, CmdFillSlot,
         draft["cmd"].type \in UserTypes
  PROVE  Abstract!Submit
<1>1. CmdNext
  BY DEF CmdNext, CmdRun
<1>2. /\ submitted \in Seq(Message) /\ served \in Seq(Message)
      /\ draft["cmd"] \in Message /\ pc \in [Threads -> Labels]
  BY OutboxTypes, QueueTypes
<1>3. /\ pc["cmd"] = "pushSlot" /\ submitted' = Append(submitted, draft["cmd"])
      /\ UNCHANGED <<quit, quit_requested, served>>
  BY DEF CmdFillSlot, Step, stopVars, cmdElsewhere, serverVars
<1>4. UserDraft /\ Filling /\ ~ByeDraft
  BY <1>3 DEF UserDraft, Filling, ByeDraft, UserTypes
<1>5. EndBegun \/ Contents(served) = Contents(submitted)
  <2>1. CASE GaveUp
    BY <2>1 DEF QueueInv, LimitInv, EndBegun
  <2>2. CASE ~GaveUp
    <3>1. Len(served) = Len(submitted)
      BY <1>4, <2>2 DEF HeadInv
    <3>2. served = submitted
      BY <1>2, <3>1, SeqEqual DEF WireInv
    <3>. QED
      BY <3>2
  <2>. QED
    BY <2>1, <2>2
<1>6. Content(draft["cmd"]) \in UserMessage
  <2>1. draft["cmd"].body \in 1 .. MaxLines
    <3>1. draft["cmd"].body \in 0 .. MaxLines /\ draft["cmd"].body >= 1
      BY <1>2, <1>4 DEF OnceInv, Message
    <3>. QED
      BY <3>1 DEF ConstantsAssumption
  <2>2. draft["cmd"].name \in 0 .. MaxLines
    BY <1>2 DEF Message
  <2>. QED
    BY <2>1, <2>2 DEF Content, UserMessage
<1>7. Contents(submitted)' = Append(Contents(submitted), Content(draft["cmd"]))
  BY <1>2, <1>3, ContentsAppend
<1>8. UNCHANGED EndBegun
  <2>1. UNCHANGED response /\ \A u \in {"snd", "rcv", "sig"} : pc'[u] = pc[u]
    BY <1>1, CmdFrame
  <2>. QED
    BY <1>3, <2>1 DEF EndBegun
<1>9. UNCHANGED Contents(served)
  BY <1>3 DEF Contents
<1>. QED
  BY <1>5, <1>6, <1>7, <1>8, <1>9, ViewOfOutbox

\* The server takes the next message.
LEMMA ServeDelivers ==
  ASSUME TypeInv, WireInv, SrvServe
  PROVE  Abstract!Deliver
<1>1. PICK d \in toServer : /\ d.msg.type \in UserTypes
                            /\ ~Known(d.msg)
                            /\ served' = Append(served, d.msg)
  BY DEF SrvServe
<1>2. submitted \in Seq(Message) /\ served \in Seq(Message) /\ d.msg \in Message
  BY OutboxTypes DEF Datagram
<1>3. /\ Len(served) + 1 \in 1 .. Len(submitted)
      /\ submitted[Len(served) + 1] = d.msg
  BY <1>1, ServesNext
<1>4. /\ Len(Contents(served)) = Len(served)
      /\ Len(Contents(submitted)) = Len(submitted)
      /\ Contents(submitted)[Len(served) + 1] = Content(d.msg)
  BY <1>2, <1>3, ContentsOf
<1>5. Contents(served)' = Append(Contents(served), Content(d.msg))
  BY <1>1, <1>2, ContentsAppend
<1>6. UNCHANGED <<submitted, EndBegun>>
  BY DEF SrvServe, srvElsewhere, userVars, stopVars, rcvVars, EndBegun
<1>7. UNCHANGED Contents(submitted)
  BY <1>6 DEF Contents
<1>8. Len(served) < Len(submitted)
  BY <1>2, <1>3
<1>. QED
  BY <1>4, <1>5, <1>6, <1>7, <1>8, ViewOfOutbox

\* Every other step leaves both ends alone.
LEMMA OthersQuiet ==
  ASSUME TypeInv, [Next]_vars, ~SrvServe,
         ~(CmdFillSlot /\ draft["cmd"].type \in UserTypes)
  PROVE  UNCHANGED <<submitted, served>>
<1>1. CASE CmdNext
  <2>1. CASE CmdFillSlot
    BY <2>1 DEF CmdFillSlot, cmdElsewhere, serverVars
  <2>2. CASE ~CmdFillSlot
    <3>1. UNCHANGED submitted
      BY <1>1, <2>2, Zenon DEF CmdNext, CmdRun, userVars, CmdTest, CmdOverlong,
         CmdLocal, CmdLoadId, CmdStoreId, CmdLoadCount, CmdStoreCount,
         CmdAuthTest, CmdSlash, CmdMsgTest, CmdSleep, CmdLoadBye, CmdSendBye,
         CmdLock, CmdUnlock, CmdTeardown, CmdExit, CmdRead, CmdEof,
         CmdReadError, CmdSpuriousWakeup
    <3>. QED
      BY <1>1, <3>1, ServerFrame
  <2>. QED
    BY <2>1, <2>2
<1>2. CASE SndNext \/ RcvNext \/ SigArrives \/ SigRun \/ LifeRun \/ UNCHANGED vars
  BY <1>2, OthersLeave, ServerFrame
<1>3. CASE SrvNext
  <2>1. UNCHANGED submitted
    BY <1>3, OthersLeave
  <2>2. UNCHANGED served
    BY <1>3 DEF SrvNext, SrvConfirm, SrvNotify
  <2>. QED
    BY <2>1, <2>2
<1>. QED
  BY <1>1, <1>2, <1>3
     DEF Next, CmdStep, SndStep, RcvStep, SigStep, LifeStep, SrvStep

LEMMA NextMaps ==
  ASSUME TypeInv, QueueInv, OutboxInv, [Next]_vars
  PROVE  [Abstract!OutboxNext]_(Abstract!outboxVars)
<1>. USE DEF Abstract!OutboxNext
<1>1. OnceInv /\ WireInv /\ HeadInv /\ ClosingInv
  BY DEF OutboxInv
<1>2. CASE CmdFillSlot /\ draft["cmd"].type \in UserTypes
  BY <1>1, <1>2, FillMaps
<1>3. CASE SrvServe
  BY <1>1, <1>3, ServeDelivers
<1>4. CASE ~SrvServe /\ ~(CmdFillSlot /\ draft["cmd"].type \in UserTypes)
  <2>1. UNCHANGED <<submitted, served>>
    BY <1>4, OthersQuiet
  <2>2. EndBegun => EndBegun'
    BY <1>1, EndStays
  <2>3. CASE EndBegun' <=> EndBegun
    BY <2>1, <2>3, ViewOfOutbox
  <2>4. CASE ~EndBegun /\ EndBegun'
    <3>1. UNCHANGED <<Contents(submitted), Contents(served)>>
      BY <2>1 DEF Contents
    <3>2. EndBegun' = TRUE
      BY <2>4 DEF EndBegun
    <3>. QED
      BY <3>1, <3>2, ViewOfOutbox
  <2>. QED
    BY <2>2, <2>3, <2>4
<1>. QED
  BY <1>2, <1>3, <1>4

\* As long as none of the three races is lost, the messages the command thread
\* queues (UDP.c:717, 761, 810) reach the server once each, unaltered and in
\* order, and until the session ends process_commands takes the next line only
\* when the last message has arrived (UDP.c:506-511), in every interleaving of
\* the threads, however late, often or out of order the datagrams arrive.
THEOREM OutboxImplemented == Spec /\ []Undisturbed => ImplementsOutbox
<1>1. Init => Abstract!OutboxInit
  <2>. SUFFICES ASSUME Init PROVE Abstract!OutboxInit
    OBVIOUS
  <2>1. submitted = <<>> /\ served = <<>>
    BY DEF Init
  <2>2. Contents(<<>>) = <<>>
    BY DEF Contents
  <2>3. EndBegun = FALSE
    BY DEF Init, EndBegun
  <2>. QED
    BY <2>1, <2>2, <2>3, ViewOfOutbox
<1>2. TypeInv /\ QueueInv /\ OutboxInv /\ Undisturbed /\ Undisturbed' /\ [Next]_vars
        => OutboxInv'
  BY NextOutbox
<1>3. TypeInv /\ QueueInv /\ OutboxInv /\ [Next]_vars
        => [Abstract!OutboxNext]_(Abstract!outboxVars)
  BY NextMaps
<1>. QED
  BY <1>1, <1>2, <1>3, InitOutbox, QueueInvariant, PTL
     DEF Spec, ImplementsOutbox, Abstract!OutboxSpec

=============================================================================
