---------------------------- MODULE UdpQueueProofs ----------------------------
(***************************************************************************)
(* The bound of the queue of the UDP client.  Three threads load, compute  *)
(* and store the count without a common lock; what keeps it small is that  *)
(* the command thread fetches a line only when nothing of its last message *)
(* is under way any more, and that each thread pushes one BYE at most.     *)
(***************************************************************************)
EXTENDS UdpEndProofs

USE ConstantsAssumption DEF Threads

\* The send thread has given up: the flag of the command thread is raised once
\* more although no message was confirmed.
AtLimit == retransmission_count # 0 /\ retransmission_count >= MaxRetrans
GaveUp  == AtLimit /\ pc["snd"] # "giveUp"

\* Where the command thread is with a message of the user: it has none pending
\* (Fetching), or waits until it may go on (Waiting); elsewhere it has left
\* the loop.
ByeDraft == draft["cmd"].type = "BYE"
Fetching == \/ pc["cmd"] \in {"test", "read", "local", "overlong", "loadId"}
            \/ pc["cmd"] \in {"storeId", "push", "pushCount"} /\ ~ByeDraft
Waiting  == \/ pc["cmd"] \in {"authTest", "authPark", "authSleep", "slash",
                              "msgTest", "msgPark", "msgSleep"}
            \/ pc["cmd"] = "pushSlot" /\ ~ByeDraft

\* The messages that may be pending: the one given up, the one of the user,
\* the BYE of the command thread and the BYE of the send thread.
UserPending   == ~Fetching /\ ~(Waiting /\ have_sent)
CmdByePending == /\ quit_requested
                 /\ \/ pc["cmd"] \in {"unlock", "teardown", "drain", "dead"}
                    \/ pc["cmd"] = "pushSlot" /\ ByeDraft
SndByePending == GaveUp /\ pc["snd"] \in {"pushSlot", "unlock", "cancel", "dead"}

One(b) == IF b THEN 1 ELSE 0
Bound  == One(GaveUp) + One(UserPending) + One(CmdByePending) + One(SndByePending)

\* The count and every copy of it that is still to be written back.
CountBounded ==
  /\ pending_messages_count <= Bound
  /\ pc["cmd"] = "pushCount" => slot["cmd"] <= Bound
  /\ pc["snd"] = "pushCount" => slot["snd"] <= Bound
  /\ pc["rcv"] = "dec" => slot["rcv"] <= Bound

\* The failures of the send thread reach the limit where it gives up.
LimitInv ==
  /\ pc["snd"] \in {"test", "peek", "send", "reset", "sleep", "settled"} => ~AtLimit
  /\ pc["snd"] \in {"giveUp", "quit", "loadBye", "storeId", "sendBye", "lock",
                    "push", "pushCount", "pushSlot", "unlock"} => AtLimit
  /\ GaveUp => quit \/ pc["snd"] = "quit"

\* The command thread composes a BYE only on request.
CmdByeInv ==
  /\ pc["cmd"] \in {"send", "lock"} => ByeDraft
  /\ pc["cmd"] \in {"storeId", "push", "pushCount", "pushSlot"} /\ ByeDraft
       => quit_requested
  /\ pc["cmd"] \in {"loadBye", "send", "lock"} => quit_requested

\* The stages of one message between its push and the release of the command
\* thread.
Confirming == pc["rcv"] = "flag"
Settling   == \/ pc["snd"] = "settled"
              \/ pc["snd"] = "sleep" /\ confirmation_received

\* The send thread is at work for a message nobody has been released for.
Sending == pc["snd"] \in {"send", "reset", "sleep", "settled", "giveUp"}

\* Until the send thread gives up or the command thread leaves the loop, a
\* message is at one stage at most, and at none while a new one is fetched.
StageInv ==
  /\ Fetching => ~have_sent
  /\ ~GaveUp /\ (Fetching \/ Waiting) =>
       /\ Fetching => /\ pending_messages_count = 0
                      /\ ~Confirming /\ ~Settling /\ ~Sending
       /\ pending_messages_count # 0 => ~Confirming /\ ~Settling /\ ~have_sent
       /\ Confirming => ~Settling /\ ~have_sent
       /\ Sending => ~have_sent
       /\ pc["rcv"] \in {"load", "dec"} => pending_messages_count # 0

QueueInv == CountBounded /\ LimitInv /\ CmdByeInv /\ StageInv

-----------------------------------------------------------------------------
(* The failures at the limit, and the BYE of the command thread.           *)

\* What the steps below need of the types.
LEMMA QueueTypes ==
  ASSUME TypeInv
  PROVE  /\ pc \in [Threads -> Labels] /\ draft \in [Threads -> Message]
         /\ slot \in [Threads -> Nat] /\ pending_messages_count \in Nat
         /\ retransmission_count \in Nat /\ MaxRetrans \in Nat
         /\ have_sent \in BOOLEAN /\ confirmation_received \in BOOLEAN
         /\ quit \in BOOLEAN /\ quit_requested \in BOOLEAN
<1>1. MaxRetrans \in Nat
  BY DEF ConstantsAssumption
<1>. QED
  BY <1>1, Zenon DEF TypeInv, TypeOK, ThreadType, MemoryType

\* The send thread counts failures up to the limit and gives up there.
LEMMA SndLimit ==
  ASSUME TypeInv, LimitInv, SndNext
  PROVE  LimitInv'
<1>1. pc \in [Threads -> Labels] /\ retransmission_count \in Nat /\ MaxRetrans \in Nat
  BY QueueTypes DEF ConstantsAssumption
<1>2. CASE SndWake
  <2>1. CASE confirmation_received
    <3>1. /\ pc["snd"] = "sleep" /\ pc'["snd"] = "settled"
          /\ UNCHANGED retransmission_count
      BY <1>1, <1>2, <2>1 DEF SndWake, Step
    <3>. QED
      BY <1>1, <3>1 DEF LimitInv, AtLimit, GaveUp
  <2>2. CASE ~confirmation_received
    <3>1. /\ pc["snd"] = "sleep"
          /\ retransmission_count' = retransmission_count + 1
          /\ pc'["snd"] = IF retransmission_count + 1 >= MaxRetrans THEN "giveUp"
                                                                    ELSE "test"
      BY <1>1, <1>2, <2>2 DEF SndWake, Step, GiveUp
    <3>. QED
      BY <1>1, <3>1 DEF LimitInv, AtLimit, GaveUp
  <2>. QED
    BY <2>1, <2>2
<1>3. CASE SndSettled
  <2>1. pc'["snd"] = "test" /\ retransmission_count' = 0
    BY <1>1, <1>3 DEF SndSettled, Signalled
  <2>. QED
    BY <2>1 DEF LimitInv, AtLimit, GaveUp
<1>4. CASE SndGiveUp
  <2>1. /\ pc["snd"] = "giveUp" /\ pc'["snd"] = "quit"
        /\ UNCHANGED retransmission_count
    BY <1>1, <1>4 DEF SndGiveUp, Signalled
  <2>. QED
    BY <2>1 DEF LimitInv, AtLimit, GaveUp
<1>5. CASE SndQuit
  <2>1. /\ pc["snd"] = "quit" /\ pc'["snd"] = "loadBye" /\ quit'
        /\ UNCHANGED retransmission_count
    BY <1>1, <1>5 DEF SndQuit, Step
  <2>. QED
    BY <2>1 DEF LimitInv, AtLimit, GaveUp
<1>6. CASE ~SndWake /\ ~SndSettled /\ ~SndGiveUp /\ ~SndQuit
  <2>1. UNCHANGED <<quit, retransmission_count>>
    BY <1>6, Zenon DEF SndNext, stopVars, SndTest, SndPeek, SndSend,
       SndSendFails, SndReset, SndLoadBye, SndStoreId, SndSendBye, SndLock,
       SndLoadCount, SndStoreCount, SndFillSlot, SndUnlock, SndCancel
  <2>2. \/ /\ pc["snd"] \in {"test", "peek", "send", "reset"}
           /\ pc'["snd"] \in {"test", "peek", "send", "reset", "sleep",
                              "cancel", "dead"}
        \/ /\ pc["snd"] \in {"loadBye", "storeId", "sendBye", "lock", "push",
                             "pushCount", "pushSlot", "unlock"}
           /\ pc'["snd"] \in {"storeId", "sendBye", "lock", "push",
                              "pushCount", "pushSlot", "unlock", "cancel"}
        \/ pc["snd"] = "cancel" /\ pc'["snd"] = "dead"
    BY <1>1, <1>6 DEF SndNext, Step, SndTest, SndPeek, SndSend, SndSendFails,
       SndReset, SndLoadBye, SndStoreId, SndSendBye, SndLock, SndLoadCount,
       SndStoreCount, SndFillSlot, SndUnlock, SndCancel
  <2>. QED
    BY <2>1, <2>2 DEF LimitInv, AtLimit, GaveUp
<1>. QED
  BY <1>2, <1>3, <1>4, <1>5, <1>6

\* The command thread turns to its BYE only behind a request to quit.
LEMMA CmdByes ==
  ASSUME TypeInv, CmdByeInv, CmdNext
  PROVE  CmdByeInv'
<1>1. /\ pc \in [Threads -> Labels] /\ draft \in [Threads -> Message]
      /\ quit_requested \in BOOLEAN
  BY QueueTypes
<1>2. CASE CmdLoadId
  <2>1. /\ pc'["cmd"] = "storeId" /\ draft'["cmd"].type = MessageOf[line]
        /\ line \in Queued
    BY <1>1, <1>2 DEF CmdLoadId, Step, LoadId, TypeInv, LocalsReady
  <2>. QED
    BY <2>1, QueuedIs DEF CmdByeInv, ByeDraft, MessageOf
<1>3. CASE CmdLoadBye
  <2>1. /\ pc["cmd"] = "loadBye" /\ pc'["cmd"] = "storeId"
        /\ UNCHANGED quit_requested
    BY <1>1, <1>3 DEF CmdLoadBye, Step, stopVars
  <2>. QED
    BY <2>1 DEF CmdByeInv, ByeDraft
<1>4. CASE CmdFillSlot
  <2>1. pc'["cmd"] \in {"authTest", "slash", "unlock", "msgTest"}
    BY <1>1, <1>4 DEF CmdFillSlot, Step
  <2>. QED
    BY <2>1 DEF CmdByeInv
<1>5. CASE CmdEof
  <2>1. pc'["cmd"] = "loadBye" /\ quit_requested'
    BY <1>1, <1>5 DEF CmdEof, Step
  <2>. QED
    BY <2>1 DEF CmdByeInv
<1>6. CASE CmdStoreId \/ CmdSendBye \/ CmdLock \/ CmdLoadCount \/ CmdStoreCount
  <2>1. UNCHANGED <<draft, quit_requested>>
    BY <1>6 DEF CmdStoreId, CmdSendBye, CmdLock, CmdLoadCount, CmdStoreCount,
       stopVars
  <2>2. \/ pc["cmd"] = "storeId" /\ pc'["cmd"] = IF ByeDraft THEN "send" ELSE "push"
        \/ pc["cmd"] = "send" /\ pc'["cmd"] = "lock"
        \/ pc["cmd"] = "lock" /\ pc'["cmd"] = "push"
        \/ pc["cmd"] = "push" /\ pc'["cmd"] = "pushCount"
        \/ pc["cmd"] = "pushCount" /\ pc'["cmd"] = "pushSlot"
    BY <1>1, <1>6 DEF CmdStoreId, CmdSendBye, CmdLock, CmdLoadCount,
       CmdStoreCount, Step, ByeDraft
  <2>. QED
    BY <2>1, <2>2 DEF CmdByeInv, ByeDraft
<1>7. CASE \/ CmdTest \/ CmdRead \/ CmdReadError \/ CmdOverlong \/ CmdLocal
           \/ CmdAuthTest \/ CmdSlash \/ CmdMsgTest \/ CmdSleep
           \/ CmdSpuriousWakeup \/ CmdUnlock \/ CmdTeardown \/ CmdExit
  <2>1. UNCHANGED quit_requested
    BY <1>7, Zenon DEF CmdTest, CmdRead, CmdReadError, CmdOverlong, CmdLocal,
       CmdAuthTest, CmdSlash, CmdMsgTest, CmdSleep, CmdSpuriousWakeup,
       CmdUnlock, CmdTeardown, CmdExit, stopVars
  <2>2. \/ pc'["cmd"] \notin {"loadBye", "send", "lock", "storeId", "push",
                              "pushCount", "pushSlot"}
        \/ pc'["cmd"] = "loadBye" /\ quit_requested
    BY <1>1, <1>7 DEF CmdTest, CmdRead, CmdReadError, CmdOverlong, CmdLocal,
       CmdAuthTest, CmdSlash, CmdMsgTest, CmdSleep, CmdSpuriousWakeup,
       CmdUnlock, CmdTeardown, CmdExit, Step, AfterLoop, Handler
  <2>. QED
    BY <2>1, <2>2 DEF CmdByeInv
<1>. QED
  BY <1>2, <1>3, <1>4, <1>5, <1>6, <1>7 DEF CmdNext, CmdRun

-----------------------------------------------------------------------------
(* Steps that leave the count and have_sent alone.                         *)

\* What such a step may do to the place of the command thread: it stays where
\* it is, waits without having pushed anything, or leaves the loop.
CmdCalm == /\ Fetching' => Fetching
           /\ Waiting' => Waiting \/ Fetching
           /\ CmdByePending => CmdByePending'

\* What it may do to the copies of the count.
CopiesCalm ==
  \A t \in {"cmd", "snd", "rcv"} :
    LET stores == IF t = "rcv" THEN "dec" ELSE "pushCount" IN
    pc'[t] = stores => \/ pc[t] = stores /\ slot'[t] = slot[t]
                       \/ slot'[t] = pending_messages_count

\* What it may do to the stages of a message: begin to send what is pending,
\* and go from one to the next.
StagesCalm ==
  /\ Confirming' => Confirming
  /\ Settling' => Settling \/ (Confirming /\ ~Confirming')
  /\ Sending' => Sending \/ pending_messages_count # 0
  /\ pc'["rcv"] \in {"load", "dec"} =>
       pc["rcv"] \in {"load", "dec"} \/ pending_messages_count # 0

LEMMA CalmStep ==
  ASSUME TypeInv, CountBounded, StageInv,
         UNCHANGED <<pending_messages_count, have_sent>>,
         CmdCalm, CopiesCalm, StagesCalm,
         GaveUp' <=> GaveUp, SndByePending => SndByePending'
  PROVE  CountBounded' /\ StageInv'
<1>1. Bound <= Bound'
  BY DEF Bound, One, UserPending, CmdCalm, StageInv
<1>2. /\ Bound \in Nat /\ Bound' \in Nat
      /\ slot \in [Threads -> Nat] /\ pending_messages_count \in Nat
  BY QueueTypes DEF Bound, One
<1>3. CountBounded'
  BY <1>1, <1>2 DEF CountBounded, CopiesCalm
<1>4. StageInv'
  BY DEF StageInv, CmdCalm, StagesCalm
<1>. QED
  BY <1>3, <1>4

\* Steps of the other threads do not move the command thread, or wake it up.
LEMMA OthersCalm ==
  ASSUME draft'["cmd"] = draft["cmd"], quit_requested => quit_requested',
         \/ pc'["cmd"] = pc["cmd"]
         \/ pc["cmd"] = "msgSleep" /\ pc'["cmd"] = "msgTest"
         \/ pc["cmd"] = "authSleep" /\ pc'["cmd"] = "authTest"
  PROVE  /\ CmdCalm
         /\ Fetching' <=> Fetching
         /\ Waiting' <=> Waiting
<1>. QED
  BY DEF CmdCalm, Fetching, Waiting, CmdByePending, ByeDraft

-----------------------------------------------------------------------------
(* The steps of the command thread.                                        *)

\* The command thread copies the count to its own slot only.
LEMMA CmdSlots ==
  ASSUME TypeInv, CmdNext
  PROVE  slot'["snd"] = slot["snd"] /\ slot'["rcv"] = slot["rcv"]
<1>1. slot \in [Threads -> Nat]
  BY QueueTypes
<1>2. UNCHANGED slot \/ \E n : slot' = [slot EXCEPT !["cmd"] = n]
  BY Zenon DEF CmdNext, CmdRun, LoadCount, FillSlot, CmdTest, CmdOverlong,
     CmdLocal, CmdLoadId, CmdStoreId, CmdLoadCount, CmdStoreCount, CmdFillSlot,
     CmdAuthTest, CmdSlash, CmdMsgTest, CmdSleep, CmdLoadBye, CmdSendBye,
     CmdLock, CmdUnlock, CmdTeardown, CmdExit, CmdRead, CmdEof, CmdReadError,
     CmdSpuriousWakeup
<1>. QED
  BY <1>1, <1>2

\* What concerns the other threads stays as it is.
LEMMA CmdOthers ==
  ASSUME TypeInv, CmdNext
  PROVE  /\ GaveUp' <=> GaveUp
         /\ SndByePending => SndByePending'
         /\ Confirming' <=> Confirming
         /\ Settling' <=> Settling
         /\ Sending' <=> Sending
         /\ pc'["rcv"] = pc["rcv"]
         /\ pc'["snd"] = pc["snd"]
<1>1. UNCHANGED confirmation_received
  BY Zenon DEF CmdNext, CmdRun, cmdElsewhere, CmdTest, CmdOverlong,
     CmdLocal, CmdLoadId, CmdStoreId, CmdLoadCount, CmdStoreCount, CmdFillSlot,
     CmdAuthTest, CmdSlash, CmdMsgTest, CmdSleep, CmdLoadBye, CmdSendBye,
     CmdLock, CmdUnlock, CmdTeardown, CmdExit, CmdRead, CmdEof, CmdReadError,
     CmdSpuriousWakeup
<1>. QED
  BY <1>1, CmdFrame DEF GaveUp, AtLimit, SndByePending, Confirming, Settling,
     Sending

\* A message of the user is pushed with nothing else under way, a BYE once.
LEMMA CmdPushes ==
  ASSUME TypeInv, QueueInv, CmdStoreCount
  PROVE  CountBounded' /\ StageInv'
<1>1. CmdNext
  BY DEF CmdNext, CmdRun
<1>2. /\ pc \in [Threads -> Labels] /\ slot \in [Threads -> Nat]
      /\ pending_messages_count \in Nat
  BY QueueTypes
<1>3. /\ pc["cmd"] = "pushCount" /\ pc'["cmd"] = "pushSlot"
      /\ pending_messages_count' = slot["cmd"] + 1
      /\ UNCHANGED <<have_sent, quit_requested, draft, slot>>
  BY <1>2 DEF CmdStoreCount, Step, StoreCount, stopVars
<1>4. /\ GaveUp' <=> GaveUp
      /\ SndByePending' <=> SndByePending
      /\ pc'["rcv"] = pc["rcv"] /\ pc'["snd"] = pc["snd"]
  BY <1>1, CmdOthers DEF SndByePending
<1>5. CASE ByeDraft
  <2>1. /\ ~Fetching /\ ~Waiting /\ ~Fetching' /\ ~Waiting'
        /\ ~CmdByePending /\ CmdByePending'
    BY <1>3, <1>5 DEF Fetching, Waiting, CmdByePending, ByeDraft, QueueInv,
       CmdByeInv
  <2>2. Bound' = Bound + 1 /\ Bound \in Nat
    BY <1>4, <2>1 DEF Bound, One, UserPending
  <2>3. CountBounded'
    BY <1>2, <1>3, <1>4, <2>2 DEF CountBounded, QueueInv
  <2>. QED
    BY <2>1, <2>3 DEF StageInv
<1>6. CASE ~ByeDraft
  <2>1. /\ Fetching /\ ~Waiting /\ ~Fetching' /\ Waiting'
        /\ ~CmdByePending /\ ~CmdByePending'
        /\ ~have_sent
    BY <1>3, <1>6 DEF Fetching, Waiting, CmdByePending, ByeDraft, QueueInv,
       StageInv
  <2>2. Bound' = Bound + 1 /\ Bound \in Nat
    BY <1>3, <1>4, <2>1 DEF Bound, One, UserPending
  <2>3. CountBounded'
    BY <1>2, <1>3, <1>4, <2>2 DEF CountBounded, QueueInv
  <2>4. StageInv'
    BY <1>1, <1>3, <2>1, CmdOthers DEF StageInv, QueueInv
  <2>. QED
    BY <2>3, <2>4
<1>. QED
  BY <1>5, <1>6

\* A line that sends nothing releases the thread itself.
LEMMA CmdReleases ==
  ASSUME TypeInv, QueueInv, CmdLocal
  PROVE  CountBounded' /\ StageInv'
<1>1. CmdNext
  BY DEF CmdNext, CmdRun
<1>2. /\ pc \in [Threads -> Labels] /\ slot \in [Threads -> Nat]
      /\ pending_messages_count \in Nat
  BY QueueTypes
<1>3. /\ pc["cmd"] = "local" /\ pc'["cmd"] \in {"authTest", "slash"}
      /\ have_sent'
      /\ UNCHANGED <<pending_messages_count, quit_requested, slot>>
  BY <1>2 DEF CmdLocal, Step, stopVars, queueVars
<1>4. /\ GaveUp' <=> GaveUp
      /\ SndByePending' <=> SndByePending
      /\ pc'["rcv"] = pc["rcv"] /\ pc'["snd"] = pc["snd"]
  BY <1>1, CmdOthers DEF SndByePending
<1>5. /\ Fetching /\ ~Fetching' /\ Waiting'
      /\ ~CmdByePending /\ ~CmdByePending'
  BY <1>3 DEF Fetching, Waiting, CmdByePending
<1>6. Bound' = Bound /\ Bound \in Nat
  BY <1>3, <1>4, <1>5 DEF Bound, One, UserPending
<1>7. CountBounded'
  BY <1>3, <1>4, <1>6 DEF CountBounded, QueueInv
<1>8. StageInv'
  BY <1>1, <1>3, <1>5, CmdOthers DEF StageInv, QueueInv
<1>. QED
  BY <1>7, <1>8

\* The released thread takes the flag down and fetches again.
LEMMA CmdGoesOn ==
  ASSUME TypeInv, QueueInv, CmdMsgTest
  PROVE  CountBounded' /\ StageInv'
<1>1. CmdNext
  BY DEF CmdNext, CmdRun
<1>2. /\ pc \in [Threads -> Labels] /\ slot \in [Threads -> Nat]
      /\ pending_messages_count \in Nat /\ have_sent \in BOOLEAN
  BY QueueTypes
<1>3. /\ pc["cmd"] = "msgTest" /\ ~have_sent'
      /\ pc'["cmd"] = IF have_sent THEN "test" ELSE "msgPark"
      /\ UNCHANGED <<pending_messages_count, quit_requested, slot>>
  BY <1>2 DEF CmdMsgTest, Step, stopVars, queueVars
<1>4. /\ GaveUp' <=> GaveUp
      /\ SndByePending' <=> SndByePending
      /\ pc'["rcv"] = pc["rcv"] /\ pc'["snd"] = pc["snd"]
  BY <1>1, CmdOthers DEF SndByePending
<1>5. /\ Waiting /\ ~Fetching
      /\ IF have_sent THEN Fetching' /\ ~Waiting' ELSE ~Fetching' /\ Waiting'
      /\ ~CmdByePending /\ ~CmdByePending'
  BY <1>3 DEF Fetching, Waiting, CmdByePending
<1>6. Bound' = Bound /\ Bound \in Nat
  BY <1>3, <1>4, <1>5 DEF Bound, One, UserPending
<1>7. CountBounded'
  BY <1>3, <1>4, <1>6 DEF CountBounded, QueueInv
<1>8. CASE have_sent
  <2>1. ~GaveUp => pending_messages_count = 0
    BY <1>2, <1>5, <1>8 DEF StageInv, QueueInv
  <2>2. Settling => Sending
    BY DEF Settling, Sending
  <2>3. ~GaveUp => ~Confirming /\ ~Settling /\ ~Sending
    BY <1>5, <1>8, <2>2 DEF StageInv, QueueInv
  <2>4. ~GaveUp => pc["rcv"] \notin {"load", "dec"}
    BY <1>5, <2>1 DEF StageInv, QueueInv
  <2>5. ~GaveUp' => /\ pending_messages_count' = 0
                    /\ ~Confirming' /\ ~Settling' /\ ~Sending'
                    /\ pc'["rcv"] \notin {"load", "dec"}
    BY <1>1, <1>3, <2>1, <2>3, <2>4, CmdOthers
  <2>. QED
    BY <1>3, <1>7, <2>5 DEF StageInv
<1>9. CASE ~have_sent
  <2>. QED
    BY <1>1, <1>3, <1>5, <1>7, <1>9, CmdOthers DEF StageInv, QueueInv
<1>. QED
  BY <1>8, <1>9

\* The other steps of the command thread leave count and flag alone.
LEMMA CmdIsCalm ==
  ASSUME TypeInv, QueueInv, CmdNext, ~CmdStoreCount, ~CmdLocal, ~CmdMsgTest
  PROVE  CountBounded' /\ StageInv'
<1>1. /\ pc \in [Threads -> Labels] /\ slot \in [Threads -> Nat]
      /\ draft \in [Threads -> Message]
      /\ quit_requested \in BOOLEAN
  BY QueueTypes
<1>2. UNCHANGED <<pending_messages_count, have_sent>>
  BY Zenon DEF CmdNext, CmdRun, queueVars, CmdTest, CmdOverlong,
     CmdLoadId, CmdStoreId, CmdLoadCount, CmdFillSlot, CmdAuthTest, CmdSlash,
     CmdSleep, CmdLoadBye, CmdSendBye, CmdLock, CmdUnlock, CmdTeardown,
     CmdExit, CmdRead, CmdEof, CmdReadError, CmdSpuriousWakeup
<1>3. CmdCalm
  <2>1. CASE CmdLoadId
    <3>1. /\ pc["cmd"] = "loadId" /\ pc'["cmd"] = "storeId"
      BY <1>1, <2>1 DEF CmdLoadId, Step
    <3>. QED
      BY <3>1 DEF CmdCalm, Fetching, Waiting, CmdByePending
  <2>2. CASE CmdLoadBye
    <3>1. /\ pc["cmd"] = "loadBye" /\ pc'["cmd"] = "storeId"
          /\ draft'["cmd"].type = "BYE"
      BY <1>1, <2>2, LoadByeType DEF CmdLoadBye, Step
    <3>. QED
      BY <3>1 DEF CmdCalm, Fetching, Waiting, CmdByePending, ByeDraft
  <2>3. CASE CmdFillSlot
    <3>1. /\ pc["cmd"] = "pushSlot" /\ UNCHANGED quit_requested
          /\ ByeDraft => pc'["cmd"] = "unlock"
          /\ ~ByeDraft => pc'["cmd"] \in {"authTest", "slash", "msgTest"}
      BY <1>1, <2>3 DEF CmdFillSlot, Step, ByeDraft, stopVars
    <3>. QED
      BY <3>1 DEF CmdCalm, Fetching, Waiting, CmdByePending
  <2>4. CASE CmdEof
    <3>1. pc["cmd"] = "read" /\ pc'["cmd"] = "loadBye"
      BY <1>1, <2>4 DEF CmdEof, Step
    <3>. QED
      BY <3>1 DEF CmdCalm, Fetching, Waiting, CmdByePending
  <2>5. CASE CmdStoreId \/ CmdSendBye \/ CmdLock \/ CmdLoadCount
    <3>1. UNCHANGED draft
      BY <2>5 DEF CmdStoreId, CmdSendBye, CmdLock, CmdLoadCount
    <3>2. \/ pc["cmd"] = "storeId" /\ pc'["cmd"] = IF ByeDraft THEN "send" ELSE "push"
          \/ pc["cmd"] = "send" /\ pc'["cmd"] = "lock"
          \/ pc["cmd"] = "lock" /\ pc'["cmd"] = "push"
          \/ pc["cmd"] = "push" /\ pc'["cmd"] = "pushCount"
      BY <1>1, <2>5 DEF CmdStoreId, CmdSendBye, CmdLock, CmdLoadCount, Step,
         ByeDraft
    <3>. QED
      BY <3>1, <3>2 DEF CmdCalm, Fetching, Waiting, CmdByePending, ByeDraft,
         QueueInv, CmdByeInv
  <2>6. CASE CmdTest \/ CmdRead \/ CmdReadError \/ CmdOverlong
    <3>1. \/ /\ pc["cmd"] \in {"test", "read"}
             /\ pc'["cmd"] \in {"read", "test", "local", "overlong", "loadId",
                                "loadBye", "teardown"}
          \/ pc["cmd"] = "overlong" /\ pc'["cmd"] \in {"authTest", "msgTest"}
      BY <1>1, <2>6 DEF CmdTest, CmdRead, CmdReadError, CmdOverlong, Step,
         AfterLoop, Handler
    <3>. QED
      BY <3>1 DEF CmdCalm, Fetching, Waiting, CmdByePending
  <2>7. CASE CmdAuthTest \/ CmdSlash \/ CmdSleep \/ CmdSpuriousWakeup
    <3>1. /\ pc["cmd"] \in {"authTest", "authPark", "authSleep", "slash",
                            "msgPark", "msgSleep"}
          /\ pc'["cmd"] \in {"authTest", "authPark", "authSleep", "slash",
                             "msgTest", "msgSleep", "loadBye", "teardown"}
      BY <1>1, <2>7 DEF CmdAuthTest, CmdSlash, CmdSleep, CmdSpuriousWakeup,
         Step, AfterLoop
    <3>. QED
      BY <3>1 DEF CmdCalm, Fetching, Waiting, CmdByePending
  <2>8. CASE CmdUnlock \/ CmdTeardown \/ CmdExit
    <3>1. /\ pc["cmd"] \in {"unlock", "teardown", "drain"}
          /\ pc'["cmd"] \in {"teardown", "drain", "dead"}
      BY <1>1, <2>8 DEF CmdUnlock, CmdTeardown, CmdExit, Step
    <3>2. UNCHANGED quit_requested
      BY <2>8, Zenon DEF CmdUnlock, CmdTeardown, CmdExit, stopVars
    <3>. QED
      BY <3>1, <3>2 DEF CmdCalm, Fetching, Waiting, CmdByePending
  <2>. QED
    BY <2>1, <2>2, <2>3, <2>4, <2>5, <2>6, <2>7, <2>8 DEF CmdNext, CmdRun
<1>4. CopiesCalm
  <2>1. CASE CmdLoadCount
    <3>1. slot'["cmd"] = pending_messages_count
      BY <1>1, <2>1 DEF CmdLoadCount, LoadCount
    <3>. QED
      BY <3>1, CmdSlots, CmdOthers DEF CopiesCalm
  <2>2. CASE ~CmdLoadCount
    <3>1. pc'["cmd"] # "pushCount"
      BY <1>1, <2>2 DEF CmdNext, CmdRun, Step, CmdTest, CmdOverlong,
         CmdLoadId, CmdStoreId, CmdFillSlot, CmdAuthTest, CmdSlash, CmdSleep,
         CmdLoadBye, CmdSendBye, CmdLock, CmdUnlock, CmdTeardown, CmdExit,
         CmdRead, CmdEof, CmdReadError, CmdSpuriousWakeup, AfterLoop, Handler
    <3>. QED
      BY <3>1, CmdSlots, CmdOthers DEF CopiesCalm
  <2>. QED
    BY <2>1, <2>2
<1>5. StagesCalm
  BY CmdOthers DEF StagesCalm
<1>. QED
  BY <1>2, <1>3, <1>4, <1>5, CmdOthers, CalmStep DEF QueueInv

-----------------------------------------------------------------------------
(* The steps of the send thread.                                           *)

\* The send thread copies the count to its own slot only.
LEMMA SndSlots ==
  ASSUME TypeInv, SndNext
  PROVE  slot'["cmd"] = slot["cmd"] /\ slot'["rcv"] = slot["rcv"]
<1>1. slot \in [Threads -> Nat]
  BY QueueTypes
<1>2. UNCHANGED slot \/ \E n : slot' = [slot EXCEPT !["snd"] = n]
  BY Zenon DEF SndNext, LoadCount, FillSlot, SndSettled, SndGiveUp,
     SndStoreCount, SndTest, SndPeek, SndSend, SndSendFails, SndReset, SndWake, SndQuit,
     SndLoadBye, SndStoreId, SndSendBye, SndLock, SndLoadCount, SndFillSlot,
     SndUnlock, SndCancel
<1>. QED
  BY <1>1, <1>2

\* It leaves the command thread where it is, or wakes it up.
LEMMA SndOthers ==
  ASSUME TypeInv, SndNext
  PROVE  /\ CmdCalm
         /\ Fetching' <=> Fetching
         /\ Waiting' <=> Waiting
         /\ CmdByePending' <=> CmdByePending
         /\ Confirming' <=> Confirming
         /\ pc'["rcv"] = pc["rcv"]
         /\ pc'["cmd"] = "pushCount" => pc["cmd"] = "pushCount"
<1>1. /\ pc'["rcv"] = pc["rcv"] /\ draft'["cmd"] = draft["cmd"]
      /\ quit_requested' = quit_requested
      /\ \/ pc'["cmd"] = pc["cmd"]
         \/ pc["cmd"] = "msgSleep" /\ pc'["cmd"] = "msgTest"
  BY SndFrame
<1>. QED
  BY <1>1, OthersCalm DEF Confirming, CmdByePending, ByeDraft

\* A confirmed message releases the command thread, once.
LEMMA SndReleases ==
  ASSUME TypeInv, QueueInv, SndSettled
  PROVE  CountBounded' /\ StageInv'
<1>1. SndNext
  BY DEF SndNext
<1>2. /\ pc \in [Threads -> Labels] /\ slot \in [Threads -> Nat]
      /\ pending_messages_count \in Nat
  BY QueueTypes
<1>3. /\ pc["snd"] = "settled" /\ pc'["snd"] = "test"
      /\ have_sent' /\ retransmission_count' = 0
      /\ UNCHANGED <<pending_messages_count, slot>>
  BY <1>2 DEF SndSettled, Signalled, queueVars
<1>4. ~GaveUp /\ ~GaveUp' /\ ~SndByePending /\ ~SndByePending'
  BY <1>3 DEF GaveUp, AtLimit, SndByePending, QueueInv, LimitInv
<1>5. Sending /\ Settling /\ ~Sending' /\ ~Settling'
  BY <1>3 DEF Sending, Settling
<1>6. CASE Fetching \/ Waiting
  <2>1. /\ ~Fetching /\ Waiting /\ ~have_sent
        /\ pending_messages_count = 0 /\ ~Confirming
        /\ pc["rcv"] \notin {"load", "dec"}
    BY <1>2, <1>4, <1>5, <1>6 DEF QueueInv, StageInv
  <2>2. ~Fetching' /\ Waiting' /\ ~Confirming'
    BY <1>1, <2>1, SndOthers
  <2>3. pc["cmd"] # "pushCount"
    BY <2>1 DEF Fetching, Waiting
  <2>4. Bound' \in Nat
    BY DEF Bound, One
  <2>5. CountBounded'
    BY <1>1, <1>3, <2>1, <2>3, <2>4, SndOthers DEF CountBounded
  <2>6. StageInv'
    BY <1>1, <1>3, <1>5, <2>1, <2>2, SndOthers DEF StageInv
  <2>. QED
    BY <2>5, <2>6
<1>7. CASE ~Fetching /\ ~Waiting
  <2>1. ~Fetching' /\ ~Waiting'
    BY <1>1, <1>7, SndOthers
  <2>2. Bound' = Bound
    BY <1>1, <1>4, <1>7, <2>1, SndOthers DEF Bound, One, UserPending
  <2>3. CountBounded'
    BY <1>1, <1>3, <2>2, SndOthers DEF CountBounded, QueueInv
  <2>. QED
    BY <2>1, <2>3 DEF StageInv
<1>. QED
  BY <1>6, <1>7

\* Giving up releases the command thread with the message still pending.
LEMMA SndGivesUp ==
  ASSUME TypeInv, QueueInv, SndGiveUp
  PROVE  CountBounded' /\ StageInv'
<1>1. SndNext
  BY DEF SndNext
<1>2. /\ pc \in [Threads -> Labels] /\ slot \in [Threads -> Nat]
      /\ pending_messages_count \in Nat
  BY QueueTypes
<1>3. /\ pc["snd"] = "giveUp" /\ pc'["snd"] = "quit"
      /\ have_sent'
      /\ UNCHANGED <<pending_messages_count, slot, retransmission_count>>
  BY <1>2 DEF SndGiveUp, Signalled, queueVars
<1>4. ~GaveUp /\ GaveUp' /\ ~SndByePending /\ ~SndByePending'
  BY <1>3 DEF GaveUp, AtLimit, SndByePending, QueueInv, LimitInv
<1>5. Sending
  BY <1>3 DEF Sending
<1>6. ~Fetching /\ ~Fetching'
  BY <1>1, <1>4, <1>5, SndOthers DEF QueueInv, StageInv
<1>7. Bound <= Bound' /\ Bound \in Nat /\ Bound' \in Nat
  BY <1>1, <1>4, <1>6, SndOthers DEF Bound, One, UserPending
<1>8. CountBounded'
  BY <1>1, <1>2, <1>3, <1>7, SndOthers DEF CountBounded, QueueInv
<1>. QED
  BY <1>4, <1>6, <1>8 DEF StageInv

\* The BYE of the send thread is one message more.
LEMMA SndPushes ==
  ASSUME TypeInv, QueueInv, SndStoreCount
  PROVE  CountBounded' /\ StageInv'
<1>1. SndNext
  BY DEF SndNext
<1>2. /\ pc \in [Threads -> Labels] /\ slot \in [Threads -> Nat]
      /\ pending_messages_count \in Nat
  BY QueueTypes
<1>3. /\ pc["snd"] = "pushCount" /\ pc'["snd"] = "pushSlot"
      /\ pending_messages_count' = slot["snd"] + 1
      /\ UNCHANGED <<have_sent, slot, retransmission_count>>
  BY <1>2 DEF SndStoreCount, Step, StoreCount, flagVars
<1>4. GaveUp /\ GaveUp' /\ ~SndByePending /\ SndByePending'
  BY <1>3 DEF GaveUp, AtLimit, SndByePending, QueueInv, LimitInv
<1>5. Bound' = Bound + 1 /\ Bound \in Nat
  BY <1>1, <1>3, <1>4, SndOthers DEF Bound, One, UserPending
<1>6. CountBounded'
  BY <1>1, <1>2, <1>3, <1>5, SndOthers DEF CountBounded, QueueInv
<1>. QED
  BY <1>1, <1>3, <1>4, <1>6, SndOthers DEF StageInv, QueueInv

\* The other steps of the send thread leave count and flag alone.
LEMMA SndIsCalm ==
  ASSUME TypeInv, QueueInv, SndNext, ~SndSettled, ~SndGiveUp, ~SndStoreCount
  PROVE  CountBounded' /\ StageInv'
<1>1. /\ pc \in [Threads -> Labels] /\ slot \in [Threads -> Nat]
      /\ pending_messages_count \in Nat
  BY QueueTypes
<1>2. UNCHANGED <<pending_messages_count, have_sent>>
  BY Zenon DEF SndNext, queueVars, flagVars, SndTest, SndPeek, SndSend, SndSendFails, SndReset, SndWake, SndQuit,
     SndLoadBye, SndStoreId, SndSendBye, SndLock, SndLoadCount, SndFillSlot,
     SndUnlock, SndCancel
<1>3. LimitInv'
  BY SndLimit DEF QueueInv
<1>4. \/ /\ pc["snd"] \in {"test", "peek", "send", "reset", "sleep"}
         /\ pc'["snd"] \in {"test", "peek", "send", "reset", "sleep", "settled",
                            "giveUp"}
      \/ /\ pc["snd"] \in {"test", "send"} /\ pc'["snd"] \in {"cancel", "dead"}
         /\ UNCHANGED retransmission_count
      \/ /\ pc["snd"] \in {"quit", "loadBye", "storeId", "sendBye", "lock",
                           "push"}
         /\ pc'["snd"] \in {"loadBye", "storeId", "sendBye", "lock", "push",
                            "pushCount"}
      \/ /\ pc["snd"] \in {"pushSlot", "unlock", "cancel"}
         /\ pc'["snd"] \in {"unlock", "cancel", "dead"}
         /\ UNCHANGED retransmission_count
  BY <1>1 DEF SndNext, Step, SndTest, SndPeek, SndSend, SndSendFails, SndReset, SndWake, SndQuit,
     SndLoadBye, SndStoreId, SndSendBye, SndLock, SndLoadCount, SndFillSlot,
     SndUnlock, SndCancel
<1>5. GaveUp' <=> GaveUp
  BY <1>3, <1>4 DEF GaveUp, AtLimit, QueueInv, LimitInv
<1>6. SndByePending => SndByePending'
  BY <1>4, <1>5 DEF SndByePending
<1>7. CopiesCalm
  <2>1. CASE SndLoadCount
    <3>1. slot'["snd"] = pending_messages_count
      BY <1>1, <2>1 DEF SndLoadCount, LoadCount
    <3>. QED
      BY <3>1, SndSlots, SndOthers DEF CopiesCalm
  <2>2. CASE ~SndLoadCount
    <3>1. pc'["snd"] # "pushCount"
      BY <1>1, <2>2 DEF SndNext, Step, SndTest, SndPeek, SndSend, SndSendFails, SndReset, SndWake, SndQuit,
     SndLoadBye, SndStoreId, SndSendBye, SndLock, SndLoadCount, SndFillSlot,
     SndUnlock, SndCancel
    <3>. QED
      BY <3>1, SndSlots, SndOthers DEF CopiesCalm
  <2>. QED
    BY <2>1, <2>2
<1>8. StagesCalm
  <2>1. CASE SndPeek
    <3>1. /\ pc'["snd"] = IF pending_messages_count > 0 THEN "send" ELSE "test"
      BY <1>1, <2>1 DEF SndPeek, Step
    <3>. QED
      BY <1>1, <3>1, SndOthers DEF StagesCalm, Sending, Settling
  <2>2. CASE SndReset
    <3>1. pc["snd"] = "reset" /\ pc'["snd"] = "sleep" /\ ~confirmation_received'
      BY <1>1, <2>2 DEF SndReset, Step
    <3>. QED
      BY <3>1, SndOthers DEF StagesCalm, Sending, Settling
  <2>3. CASE SndWake
    <3>1. /\ pc["snd"] = "sleep" /\ UNCHANGED confirmation_received
          /\ pc'["snd"] = "settled" => confirmation_received
          /\ pc'["snd"] # "sleep"
      BY <1>1, <2>3 DEF SndWake, Step, flagVars
    <3>. QED
      BY <3>1, SndOthers DEF StagesCalm, Sending, Settling
  <2>4. CASE ~SndPeek /\ ~SndReset /\ ~SndWake
    <3>1. /\ pc'["snd"] \notin {"settled", "sleep", "giveUp", "send"}
          /\ pc'["snd"] = "reset" => pc["snd"] = "send"
      BY <1>1, <2>4 DEF SndNext, Step, SndTest, SndPeek, SndSend, SndSendFails, SndReset, SndWake, SndQuit,
     SndLoadBye, SndStoreId, SndSendBye, SndLock, SndLoadCount, SndFillSlot,
     SndUnlock, SndCancel
    <3>. QED
      BY <3>1, SndOthers DEF StagesCalm, Sending, Settling
  <2>. QED
    BY <2>1, <2>2, <2>3, <2>4
<1>. QED
  BY <1>2, <1>5, <1>6, <1>7, <1>8, SndOthers, CalmStep DEF QueueInv

-----------------------------------------------------------------------------
(* The steps of the receive thread.                                        *)

\* The receive thread copies the count to its own slot only.
LEMMA RcvSlots ==
  ASSUME TypeInv, RcvNext
  PROVE  slot'["cmd"] = slot["cmd"] /\ slot'["snd"] = slot["snd"]
<1>1. slot \in [Threads -> Nat]
  BY QueueTypes
<1>2. UNCHANGED slot \/ \E n : slot' = [slot EXCEPT !["rcv"] = n]
  BY Zenon DEF RcvNext, RcvRun, LoadCount, RcvDec, RcvTest, RcvReceive, RcvFails,
     RcvLock, RcvSearch, RcvLoadCount, RcvFlag, RcvPort, RcvVerify, RcvRefuse,
     RcvConfirm, RcvLoadId, RcvStoreId, RcvSend, RcvQuit, RcvUnlock
<1>. QED
  BY <1>1, <1>2

\* It leaves the command thread where it is, or wakes it up.
LEMMA RcvOthers ==
  ASSUME TypeInv, RcvNext
  PROVE  /\ CmdCalm
         /\ Fetching' <=> Fetching
         /\ Waiting' <=> Waiting
         /\ CmdByePending' <=> CmdByePending
         /\ GaveUp' <=> GaveUp
         /\ SndByePending' <=> SndByePending
         /\ Sending' <=> Sending
         /\ pc'["snd"] = pc["snd"]
         /\ pc'["cmd"] = "pushCount" => pc["cmd"] = "pushCount"
<1>1. /\ pc'["snd"] = pc["snd"] /\ draft'["cmd"] = draft["cmd"]
      /\ quit_requested' = quit_requested /\ UNCHANGED retransmission_count
      /\ \/ pc'["cmd"] = pc["cmd"]
         \/ pc["cmd"] = "authSleep" /\ pc'["cmd"] = "authTest"
  BY RcvFrame
<1>. QED
  BY <1>1, OthersCalm DEF CmdByePending, ByeDraft, GaveUp, AtLimit,
     SndByePending, Sending

\* A confirmed message leaves the queue: from then on it is being confirmed.
LEMMA RcvTakes ==
  ASSUME TypeInv, QueueInv, RcvDec
  PROVE  CountBounded' /\ StageInv'
<1>1. RcvNext
  BY DEF RcvNext, RcvRun
<1>2. /\ pc \in [Threads -> Labels] /\ slot \in [Threads -> Nat]
      /\ pending_messages_count \in Nat
  BY QueueTypes
<1>3. /\ pc["rcv"] = "dec" /\ pc'["rcv"] = "flag"
      /\ pending_messages_count' = slot["rcv"] - 1
      /\ UNCHANGED <<have_sent, confirmation_received>>
  BY <1>2 DEF RcvDec, Step, rcvElsewhere
<1>4. slot["rcv"] > 0 /\ slot["rcv"] <= Bound
  BY <1>3 DEF TypeInv, LocalsReady, QueueInv, CountBounded
<1>5. Bound' = Bound /\ Bound \in Nat
  BY <1>1, <1>3, RcvOthers DEF Bound, One, UserPending
<1>6. CountBounded'
  BY <1>1, <1>2, <1>3, <1>4, <1>5, RcvOthers, RcvSlots DEF CountBounded, QueueInv
<1>7. Settling' <=> Settling
  BY <1>1, <1>3, RcvOthers DEF Settling
<1>8. CASE ~GaveUp /\ (Fetching \/ Waiting)
  <2>1. /\ pending_messages_count # 0 /\ Waiting /\ ~Fetching
        /\ ~Settling /\ ~have_sent
    BY <1>3, <1>8 DEF QueueInv, StageInv
  <2>2. Bound <= 1
    BY <1>8, <2>1 DEF Bound, One, CmdByePending, SndByePending, Waiting
  <2>3. pending_messages_count' = 0
    BY <1>2, <1>3, <1>4, <1>5, <2>2
  <2>. QED
    BY <1>1, <1>3, <1>6, <1>7, <2>1, <2>3, RcvOthers DEF StageInv
<1>9. CASE GaveUp \/ (~Fetching /\ ~Waiting)
  BY <1>1, <1>3, <1>6, <1>9, RcvOthers DEF StageInv, QueueInv
<1>. QED
  BY <1>8, <1>9

\* The other steps of the receive thread leave count and flag alone.
LEMMA RcvIsCalm ==
  ASSUME TypeInv, QueueInv, RcvNext, ~RcvDec
  PROVE  CountBounded' /\ StageInv'
<1>1. /\ pc \in [Threads -> Labels] /\ slot \in [Threads -> Nat]
      /\ pending_messages_count \in Nat
  BY QueueTypes
<1>2. UNCHANGED <<pending_messages_count, have_sent>>
  <2>1. UNCHANGED have_sent
    BY RcvFrame
  <2>2. UNCHANGED pending_messages_count
    BY Zenon DEF RcvNext, RcvRun, RcvTest, RcvReceive, RcvFails,
     RcvLock, RcvSearch, RcvLoadCount, RcvFlag, RcvPort, RcvVerify, RcvRefuse,
     RcvConfirm, RcvLoadId, RcvStoreId, RcvSend, RcvQuit, RcvUnlock
  <2>. QED
    BY <2>1, <2>2
<1>3. CASE RcvLoadCount
  <2>1. /\ pc["rcv"] = "load" /\ pc'["rcv"] = "dec"
        /\ slot'["rcv"] = pending_messages_count
        /\ UNCHANGED confirmation_received
    BY <1>1, <1>3 DEF RcvLoadCount, LoadCount, Step
  <2>2. CopiesCalm /\ StagesCalm
    BY <2>1, RcvSlots, RcvOthers DEF CopiesCalm, StagesCalm, Confirming, Settling
  <2>. QED
    BY <1>2, <2>2, RcvOthers, CalmStep DEF QueueInv
<1>4. CASE RcvFlag
  <2>1. /\ pc["rcv"] = "flag" /\ pc'["rcv"] = "unlock"
    BY <1>1, <1>4 DEF RcvFlag, Step
  <2>2. CopiesCalm /\ StagesCalm
    BY <2>1, RcvSlots, RcvOthers DEF CopiesCalm, StagesCalm, Confirming
  <2>. QED
    BY <1>2, <2>2, RcvOthers, CalmStep DEF QueueInv
<1>5. CASE RcvSearch
  <2>1. /\ pc["rcv"] = "search" /\ pc'["rcv"] \in {"load", "unlock"}
        /\ pc'["rcv"] = "load" => Matches # {}
        /\ UNCHANGED confirmation_received
    BY <1>1, <1>5 DEF RcvSearch, Step
  <2>2. Matches # {} => pending_messages_count # 0
    BY <1>1 DEF Matches, Pending
  <2>3. CopiesCalm /\ StagesCalm
    BY <2>1, <2>2, RcvSlots, RcvOthers
       DEF CopiesCalm, StagesCalm, Confirming, Settling
  <2>. QED
    BY <1>2, <2>3, RcvOthers, CalmStep DEF QueueInv
<1>6. CASE ~RcvLoadCount /\ ~RcvFlag /\ ~RcvSearch
  <2>1. pc'["rcv"] \notin {"load", "dec", "flag"}
    BY <1>1, <1>6 DEF RcvNext, RcvRun, Step, Perform, Signalled, RcvTest, RcvReceive, RcvFails,
     RcvLock, RcvSearch, RcvLoadCount, RcvFlag, RcvPort, RcvVerify, RcvRefuse,
     RcvConfirm, RcvLoadId, RcvStoreId, RcvSend, RcvQuit, RcvUnlock
  <2>2. UNCHANGED confirmation_received
    BY <1>6, Zenon DEF RcvNext, RcvRun, RcvTest, RcvReceive, RcvFails,
     RcvLock, RcvSearch, RcvLoadCount, RcvFlag, RcvPort, RcvVerify, RcvRefuse,
     RcvConfirm, RcvLoadId, RcvStoreId, RcvSend, RcvQuit, RcvUnlock
  <2>3. CopiesCalm /\ StagesCalm
    BY <2>1, <2>2, RcvSlots, RcvOthers
       DEF CopiesCalm, StagesCalm, Confirming, Settling
  <2>. QED
    BY <1>2, <2>3, RcvOthers, CalmStep DEF QueueInv
<1>. QED
  BY <1>3, <1>4, <1>5, <1>6

-----------------------------------------------------------------------------
(* The handler, the end of the threads, and the specification.             *)

LEMMA SigIsCalm ==
  ASSUME TypeInv, QueueInv, SigArrives \/ SigRun
  PROVE  CountBounded' /\ StageInv'
<1>1. \A u \in Threads \ {"sig"} : draft'[u] = draft[u] /\ pc'[u] = pc[u]
  BY SigFrame
<1>2. UNCHANGED <<pending_messages_count, have_sent, confirmation_received,
                  slot, retransmission_count>>
  BY SigFrame DEF queueVars, flagVars, localVars
<1>3. quit_requested => quit_requested'
  BY Zenon DEF SigRun, SigArrives, SigStoreId, SigSend, SigSet
<1>4. CmdCalm
  BY <1>1, <1>3, OthersCalm
<1>5. CopiesCalm /\ StagesCalm
  BY <1>1, <1>2 DEF CopiesCalm, StagesCalm, Confirming, Settling, Sending
<1>6. (GaveUp' <=> GaveUp) /\ (SndByePending => SndByePending')
  BY <1>1, <1>2 DEF GaveUp, AtLimit, SndByePending
<1>. QED
  BY <1>2, <1>4, <1>5, <1>6, CalmStep DEF QueueInv

\* A thread that dies leaves the loop.
LEMMA LifeIsCalm ==
  ASSUME TypeInv, QueueInv, LifeRun \/ SrvNext \/ UNCHANGED vars
  PROVE  CountBounded' /\ StageInv'
<1>1. pc \in [Threads -> Labels]
  BY QueueTypes
<1>2. /\ UNCHANGED clientVars
      /\ pc'["snd"] = pc["snd"]
      /\ \/ pc'["cmd"] = pc["cmd"]
         \/ pc'["cmd"] = "dead" /\ CancellationPoint("cmd")
      /\ \/ pc'["rcv"] = pc["rcv"]
         \/ pc'["rcv"] = "dead"
  BY <1>1, LifeFrame, SrvFrame
<1>3. UNCHANGED <<pending_messages_count, have_sent, confirmation_received,
                  slot, retransmission_count, draft, quit_requested>>
  BY <1>2 DEF clientVars, queueVars, flagVars, localVars, stopVars
<1>4. CmdCalm
  BY <1>2, <1>3 DEF CmdCalm, Fetching, Waiting, CmdByePending, ByeDraft,
     CancellationPoint
<1>5. CopiesCalm /\ StagesCalm
  BY <1>2, <1>3 DEF CopiesCalm, StagesCalm, Confirming, Settling, Sending
<1>6. (GaveUp' <=> GaveUp) /\ (SndByePending => SndByePending')
  BY <1>2, <1>3 DEF GaveUp, AtLimit, SndByePending
<1>. QED
  BY <1>3, <1>4, <1>5, <1>6, CalmStep DEF QueueInv

\* Only the send thread counts failures; the stop flag stays up.
LEMMA NextLimit ==
  ASSUME TypeInv, LimitInv, [Next]_vars
  PROVE  LimitInv'
<1>1. CASE SndStep
  BY <1>1, SndLimit DEF SndStep
<1>2. CASE ~SndStep
  <2>1. pc'["snd"] = pc["snd"] /\ UNCHANGED retransmission_count
    <3>1. CASE CmdStep
      BY <3>1, CmdFrame DEF CmdStep
    <3>2. CASE RcvStep
      BY <3>2, RcvFrame DEF RcvStep
    <3>3. CASE SigStep
      BY <3>3, SigFrame DEF SigStep, localVars
    <3>4. CASE LifeStep \/ SrvStep \/ UNCHANGED vars
      BY <3>4, LifeFrame, SrvFrame
         DEF LifeStep, SrvStep, clientVars, localVars, TypeInv, TypeOK, ThreadType
    <3>. QED
      BY <1>2, <3>1, <3>2, <3>3, <3>4 DEF Next
  <2>2. quit => quit'
    <3>1. CASE CmdStep
      BY <3>1, Zenon DEF CmdStep, CmdNext, CmdRun, stopVars, CmdTest,
         CmdOverlong, CmdLocal, CmdLoadId, CmdStoreId, CmdLoadCount,
         CmdStoreCount, CmdFillSlot, CmdAuthTest, CmdSlash, CmdMsgTest,
         CmdSleep, CmdLoadBye, CmdSendBye, CmdLock, CmdUnlock, CmdTeardown,
         CmdExit, CmdRead, CmdEof, CmdReadError, CmdSpuriousWakeup
    <3>2. CASE RcvStep
      BY <3>2, Zenon DEF RcvStep, RcvNext, RcvRun, RcvDec, RcvTest, RcvReceive, RcvFails,
     RcvLock, RcvSearch, RcvLoadCount, RcvFlag, RcvPort, RcvVerify, RcvRefuse,
     RcvConfirm, RcvLoadId, RcvStoreId, RcvSend, RcvQuit, RcvUnlock
    <3>3. CASE SigStep
      <4>1. UNCHANGED quit
        BY <3>3, SigFrame DEF SigStep
      <4>. QED
        BY <4>1
    <3>4. CASE LifeStep \/ SrvStep \/ UNCHANGED vars
      BY <3>4, LifeFrame, SrvFrame DEF LifeStep, SrvStep, clientVars, stopVars
    <3>. QED
      BY <1>2, <3>1, <3>2, <3>3, <3>4 DEF Next
  <2>. QED
    BY <2>1, <2>2 DEF LimitInv, AtLimit, GaveUp
<1>. QED
  BY <1>1, <1>2

\* Only the command thread moves towards its BYE.
LEMMA NextCmdBye ==
  ASSUME TypeInv, CmdByeInv, [Next]_vars
  PROVE  CmdByeInv'
<1>1. CASE CmdStep
  BY <1>1, CmdByes DEF CmdStep
<1>2. CASE ~CmdStep
  <2>1. /\ draft'["cmd"] = draft["cmd"] /\ (quit_requested => quit_requested')
        /\ \/ pc'["cmd"] = pc["cmd"]
           \/ pc'["cmd"] \in {"msgTest", "authTest", "dead"}
    <3>1. CASE SndStep
      BY <3>1, SndFrame DEF SndStep
    <3>2. CASE RcvStep
      <4>1. RcvNext
        BY <3>2 DEF RcvStep
      <4>. QED
        BY <4>1, RcvFrame
    <3>3. CASE SigStep
      <4>1. quit_requested => quit_requested'
        BY <3>3, Zenon DEF SigStep, SigRun, SigArrives, SigStoreId, SigSend, SigSet
      <4>. QED
        BY <3>3, <4>1, SigFrame DEF SigStep
    <3>4. CASE LifeStep \/ SrvStep \/ UNCHANGED vars
      <4>1. UNCHANGED <<draft, quit_requested>>
        BY <3>4, LifeFrame, SrvFrame DEF LifeStep, SrvStep, clientVars, stopVars
      <4>2. pc'["cmd"] = pc["cmd"] \/ pc'["cmd"] = "dead"
        BY <3>4, QueueTypes, LifeFrame, SrvFrame DEF LifeStep, SrvStep
      <4>. QED
        BY <4>1, <4>2
    <3>. QED
      BY <1>2, <3>1, <3>2, <3>3, <3>4 DEF Next
  <2>. QED
    BY <2>1 DEF CmdByeInv, ByeDraft
<1>. QED
  BY <1>1, <1>2

LEMMA NextQueue ==
  ASSUME TypeInv, QueueInv, [Next]_vars
  PROVE  QueueInv'
<1>1. LimitInv' /\ CmdByeInv'
  BY NextLimit, NextCmdBye DEF QueueInv
<1>2. CASE CmdStep
  BY <1>1, <1>2, CmdPushes, CmdReleases, CmdGoesOn, CmdIsCalm DEF CmdStep, QueueInv
<1>3. CASE SndStep
  BY <1>1, <1>3, SndReleases, SndGivesUp, SndPushes, SndIsCalm DEF SndStep, QueueInv
<1>4. CASE RcvStep
  BY <1>1, <1>4, RcvTakes, RcvIsCalm DEF RcvStep, QueueInv
<1>5. CASE SigStep
  BY <1>1, <1>5, SigIsCalm DEF SigStep, QueueInv
<1>6. CASE LifeStep \/ SrvStep \/ UNCHANGED vars
  BY <1>1, <1>6, LifeIsCalm DEF LifeStep, SrvStep, QueueInv
<1>. QED
  BY <1>2, <1>3, <1>4, <1>5, <1>6 DEF Next

LEMMA InitQueue == Init => QueueInv
<1>. SUFFICES ASSUME Init PROVE QueueInv
  OBVIOUS
<1>1. /\ pc["cmd"] = "test" /\ pc["snd"] = "test" /\ pc["rcv"] = "test"
      /\ retransmission_count = 0 /\ pending_messages_count = 0
      /\ draft["cmd"].type = "BLANK"
  BY DEF Init, Blank
<1>2. ~have_sent
  BY Zenon DEF Init
<1>3. Bound \in Nat
  BY DEF Bound, One
<1>. QED
  BY <1>1, <1>2, <1>3 DEF QueueInv, CountBounded, LimitInv, CmdByeInv, StageInv,
     AtLimit, GaveUp, Fetching, Waiting, Confirming, Settling, Sending

\* Whatever the threads do to each other, QueueInv holds.
LEMMA QueueInvariant == Spec => [](TypeInv /\ QueueInv)
<1>1. TypeInv /\ QueueInv /\ [Next]_vars => QueueInv'
  BY NextQueue
<1>. QED
  BY <1>1, InitQueue, TypeInvariant, PTL DEF Spec

\* Stop-and-wait, and an array that cannot overflow (UDP.c:34, 99): while the
\* session lasts at most one message is pending, and its end adds at most three
\* more, although the writers load and store the count separately and partly
\* without the mutex (UDP.c:242, 529, 717, 761, 810, 876).
THEOREM QueueIsBounded == Spec => []QueueBound
<1>1. TypeInv /\ QueueInv => QueueBound
  <2>. SUFFICES ASSUME TypeInv, QueueInv PROVE QueueBound
    OBVIOUS
  <2>1. pending_messages_count \in Nat /\ pending_messages_count <= Bound
    BY QueueTypes DEF QueueInv, CountBounded
  <2>2. Bound \in 0 .. 4
    BY DEF Bound, One
  <2>3. ~EndBegun => ~GaveUp /\ ~CmdByePending /\ ~SndByePending
    BY DEF EndBegun, QueueInv, LimitInv, CmdByePending, SndByePending
  <2>4. ~EndBegun => Bound <= 1
    BY <2>3 DEF Bound, One
  <2>. QED
    BY <2>1, <2>2, <2>4 DEF QueueBound
<1>. QED
  BY <1>1, QueueInvariant, PTL

-----------------------------------------------------------------------------
(* The writes to the array.                                                *)

\* The slot about to be filled was counted when the queue had room.
SlotInv == \A t \in {"cmd", "snd"} : pc[t] = "pushSlot" => slot[t] <= 3

\* Each thread comes to fill a slot only from its own store of the count.
LEMMA NextSlots ==
  ASSUME TypeInv, QueueInv, SlotInv, [Next]_vars
  PROVE  SlotInv'
<1>1. /\ pc \in [Threads -> Labels] /\ slot \in [Threads -> Nat]
  BY QueueTypes
<1>2. Bound \in Nat /\ (pc["cmd"] = "pushCount" => Bound <= 3)
                    /\ (pc["snd"] = "pushCount" => Bound <= 3)
  BY DEF Bound, One, CmdByePending, SndByePending
<1>3. CASE CmdStep
  <2>1. CmdNext
    BY <1>3 DEF CmdStep
  <2>2. CASE CmdStoreCount
    <3>1. pc["cmd"] = "pushCount" /\ UNCHANGED slot
      BY <2>2 DEF CmdStoreCount, Step
    <3>. QED
      BY <1>1, <1>2, <2>1, <3>1, CmdFrame DEF SlotInv, QueueInv, CountBounded
  <2>3. CASE ~CmdStoreCount
    <3>1. pc'["cmd"] # "pushSlot"
      BY <1>1, <2>1, <2>3 DEF CmdNext, CmdRun, Step, CmdTest, CmdOverlong,
         CmdLocal, CmdLoadId, CmdStoreId, CmdLoadCount, CmdFillSlot,
         CmdAuthTest, CmdSlash, CmdMsgTest, CmdSleep, CmdLoadBye, CmdSendBye,
         CmdLock, CmdUnlock, CmdTeardown, CmdExit, CmdRead, CmdEof,
         CmdReadError, CmdSpuriousWakeup, AfterLoop, Handler
    <3>. QED
      BY <2>1, <3>1, CmdFrame, CmdSlots DEF SlotInv
  <2>. QED
    BY <2>2, <2>3
<1>4. CASE SndStep
  <2>1. SndNext
    BY <1>4 DEF SndStep
  <2>2. pc'["cmd"] = "pushSlot" => pc["cmd"] = "pushSlot"
    BY <2>1, SndFrame
  <2>3. CASE SndStoreCount
    <3>1. pc["snd"] = "pushCount" /\ UNCHANGED slot
      BY <2>3 DEF SndStoreCount, Step
    <3>. QED
      BY <1>1, <1>2, <2>2, <3>1 DEF SlotInv, QueueInv, CountBounded
  <2>4. CASE ~SndStoreCount
    <3>1. pc'["snd"] # "pushSlot"
      BY <1>1, <2>1, <2>4 DEF SndNext, Step, Signalled, SndTest, SndPeek,
         SndSend, SndSendFails, SndReset, SndWake, SndSettled, SndGiveUp,
         SndQuit, SndLoadBye, SndStoreId, SndSendBye, SndLock, SndLoadCount,
         SndFillSlot, SndUnlock, SndCancel
    <3>. QED
      BY <2>1, <2>2, <3>1, SndSlots DEF SlotInv
  <2>. QED
    BY <2>3, <2>4
<1>5. CASE RcvStep
  <2>1. RcvNext
    BY <1>5 DEF RcvStep
  <2>2. /\ pc'["cmd"] = "pushSlot" => pc["cmd"] = "pushSlot"
        /\ pc'["snd"] = pc["snd"]
    BY <2>1, RcvFrame
  <2>. QED
    BY <2>1, <2>2, RcvSlots DEF SlotInv
<1>6. CASE SigStep
  BY <1>6, SigFrame DEF SigStep, SlotInv
<1>7. CASE LifeStep \/ SrvStep \/ UNCHANGED vars
  <2>1. /\ UNCHANGED slot
        /\ pc'["cmd"] = "pushSlot" => pc["cmd"] = "pushSlot"
        /\ pc'["snd"] = "pushSlot" => pc["snd"] = "pushSlot"
    BY <1>1, <1>7, LifeFrame, SrvFrame DEF LifeStep, SrvStep, clientVars
  <2>. QED
    BY <2>1 DEF SlotInv
<1>. QED
  BY <1>3, <1>4, <1>5, <1>6, <1>7 DEF Next

\* No message is written behind the end of the array: the index is a count
\* loaded some steps before, with other writers in between, and the code has
\* no check for a full array (UDP.c:34, 529, 717, 761, 810, 876).
THEOREM SlotsInBounds ==
  Spec => [](\A t \in {"cmd", "snd"} :
               pc[t] = "pushSlot" => slot[t] \in DOMAIN pending_messages)
<1>. DEFINE InBounds == \A t \in {"cmd", "snd"} :
               pc[t] = "pushSlot" => slot[t] \in DOMAIN pending_messages
<1>1. Init => SlotInv
  BY DEF Init, SlotInv
<1>2. TypeInv /\ QueueInv /\ SlotInv /\ [Next]_vars => SlotInv'
  BY NextSlots
<1>3. TypeInv /\ SlotInv => InBounds
  <2>. SUFFICES ASSUME TypeInv, SlotInv, NEW t \in {"cmd", "snd"},
                       pc[t] = "pushSlot"
                PROVE  slot[t] \in DOMAIN pending_messages
    OBVIOUS
  <2>1. DOMAIN pending_messages = 0 .. MaxPending - 1
    BY DEF TypeInv, TypeOK, MemoryType
  <2>2. slot[t] \in Nat /\ slot[t] <= 3
    BY QueueTypes DEF SlotInv
  <2>3. MaxPending \in Nat /\ MaxPending >= 4
    BY DEF ConstantsAssumption
  <2>. QED
    BY <2>1, <2>2, <2>3
<1>. QED
  BY <1>1, <1>2, <1>3, QueueInvariant, PTL DEF Spec

=============================================================================
