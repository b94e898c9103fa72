------------------------------ MODULE TcpProofs ------------------------------
(***************************************************************************)
(* The TCP client is type correct, says nothing but AUTH before the server *)
(* has accepted one, and ends with a BYE, whatever is typed, sent to it,   *)
(* cut into pieces or interrupted.  It keeps to the dialogue: for each     *)
(* request there is one verdict, which is in one place at a time, and the  *)
(* main thread does not go on before it has taken it from there.           *)
(***************************************************************************)
EXTENDS TcpDialogue, SequenceTheorems, TLAPS

\* A farewell ends in exit (handle_server_message), so that the listener has
\* something left to do as long as the process runs.
ScriptEnds ==
  exit = "none" /\ pc.lst = "script" =>
    script # <<>> /\ script[Len(script)] = "exit"

TypeInv == TcpTypeOK /\ ScriptEnds

USE TcpConstants
DEF verdictVars, mainVars, lstVars, linkVars, serverVars, tcpVars, At, Go

-----------------------------------------------------------------------------
(* Types.                                                                  *)

\* Whatever the socket does, sending only adds to what is sent or ends the
\* process.
LEMMA SendType ==
  ASSUME LinkType, exit = "none", NEW m \in Outgoing, Send(m)
  PROVE  /\ sent' \in Seq(Outgoing) /\ Len(sent') >= Len(sent)
         /\ exit' \in {"none", "sigpipe"}
<1>1. CASE sent' = Append(sent, m) /\ UNCHANGED exit
  BY <1>1 DEF LinkType
<1>2. CASE UNCHANGED sent /\ exit' \in {"none", "sigpipe"}
  BY <1>2, LenProperties DEF LinkType
<1>. QED
  BY <1>1, <1>2 DEF Send

\* A handler waits for at least one condition.
LEMMA WaitsType ==
  ASSUME NEW l
  PROVE  WaitsOf(l) \in Seq(Conditions) /\ WaitsOf(l) # <<>>
<1>1. /\ <<"msg">> \in Seq(Conditions) /\ <<"auth", "msg">> \in Seq(Conditions)
      /\ <<"join", "msg">> \in Seq(Conditions)
      /\ <<"rename", "msg">> \in Seq(Conditions)
  BY DEF Conditions
<1>2. /\ <<"msg">> # <<>> /\ <<"auth", "msg">> # <<>>
      /\ <<"join", "msg">> # <<>> /\ <<"rename", "msg">> # <<>>
  OBVIOUS
<1>. QED
  BY <1>1, <1>2, Zenon DEF WaitsOf

\* Two elements leave something behind the first.
LEMMA LongTail ==
  ASSUME NEW S, NEW s \in Seq(S), s # <<>>, Len(s) # 1
  PROVE  Tail(s) # <<>>
<1>1. Len(Tail(s)) = Len(s) - 1 /\ Len(s) \in Nat
  BY HeadTailProperties, LenProperties
<1>2. Len(s) # 0
  BY EmptySeq
<1>3. Tail(s) # <<>>
  <2>. SUFFICES ASSUME Tail(s) = <<>> PROVE FALSE
    OBVIOUS
  <2>1. Len(Tail(s)) = 0
    BY EmptySeq
  <2>. QED
    BY <2>1, <1>1
<1>. QED
  BY <1>3

\* Nothing has happened yet.
LEMMA InitType == Init => TypeInv
<1>. SUFFICES ASSUME Init PROVE TypeInv
  OBVIOUS
<1>0. 0 \in 0 .. MaxLines /\ 0 \in 0 .. MaxNotices
  OBVIOUS
<1>1. FlagType
  BY Zenon DEF Init, FlagType
<1>2. ThreadType
  <2>1. <<>> \in Seq(Conditions) /\ <<>> \in Seq(Farewells)
    OBVIOUS
  <2>2. waits \in Seq(Conditions) /\ script \in Seq(Farewells)
    BY <2>1 DEF Init
  <2>3. lines_read \in 0 .. MaxLines
    BY <1>0, Zenon DEF Init
  <2>4. /\ current_command \in Commands /\ dname \in {"good", "bad"}
        /\ line \in LineKinds /\ got \in Incoming \cup {"none"}
    BY DEF Init, Commands, LineKinds
  <2>. QED
    BY <2>2, <2>3, <2>4, Zenon DEF ThreadType
<1>3. LinkType
  <2>1. <<>> \in Seq(Outgoing) /\ <<>> \in Seq(Incoming) /\ 0 \in 0 .. Len(<<>>)
    OBVIOUS
  <2>2. sent \in Seq(Outgoing) /\ stream \in Seq(Incoming)
    BY <2>1, Zenon DEF Init
  <2>3. served \in 0 .. Len(sent) /\ notices \in 0 .. MaxNotices
    BY <1>0, <2>1, Zenon DEF Init
  <2>4. /\ socket \in {"open", "shut", "closed"}
        /\ exit \in {"none", "done", "failed", "sigpipe"}
    BY DEF Init
  <2>. QED
    BY <2>2, <2>3, <2>4, Zenon DEF LinkType
<1>4. ControlType /\ ScriptEnds
  BY DEF Init, ControlType, ScriptEnds, Labels
<1>. QED
  BY <1>1, <1>2, <1>3, <1>4 DEF TypeInv, TcpTypeOK

\* socket, inet_pton and connect, or exit.
LEMMA MainConnectType ==
  ASSUME TypeInv, exit = "none", MainConnect
  PROVE  TypeInv'
<1>. USE DEF TypeInv, TcpTypeOK
<1>1. FlagType'
  BY Zenon DEF FlagType, MainConnect, WrapperExits
<1>2. ThreadType'
  BY DEF ThreadType, MainConnect
<1>3. LinkType'
  BY DEF LinkType, MainConnect, WrapperExits
<1>4. ControlType' /\ ScriptEnds'
  BY DEF ControlType, ScriptEnds, Labels, MainConnect, WrapperExits
<1>. QED
  BY <1>1, <1>2, <1>3, <1>4

\* fgets, and the two tests of AUTH_FLAG.
LEMMA MainReadType ==
  ASSUME TypeInv, exit = "none", MainRead
  PROVE  TypeInv'
<1>. USE DEF TypeInv, TcpTypeOK
<1>1. FlagType'
  BY Zenon DEF FlagType, MainRead
<1>2. ThreadType'
  <2>1. PICK l \in Lines : line' = l /\ current_command' \in {current_command, CommandOf(l)}
    BY DEF MainRead
  <2>2. CommandOf(l) \in Commands
    BY DEF CommandOf, Commands, ThreadType
  <2>3. lines_read' \in 0 .. MaxLines
    BY DEF MainRead, ThreadType
  <2>. QED
    BY <2>1, <2>2, <2>3 DEF ThreadType, MainRead
<1>3. LinkType'
  BY DEF LinkType, MainRead
<1>4. ControlType' /\ ScriptEnds'
  BY DEF ControlType, ScriptEnds, Labels, MainRead
<1>. QED
  BY <1>1, <1>2, <1>3, <1>4

\* A request or a message, and the waits behind it.
LEMMA MainSendType ==
  ASSUME TypeInv, exit = "none", MainSend
  PROVE  TypeInv'
<1>. USE DEF TypeInv, TcpTypeOK
<1>1. FlagType'
  BY Zenon DEF FlagType, MainSend, Handling
<1>2. ThreadType'
  BY WaitsType DEF ThreadType, MainSend, Handling
<1>3. LinkType'
  BY SendType DEF LinkType, MainSend, Handling, Outgoing, Requests
<1>4. ControlType' /\ ScriptEnds'
  BY WaitsType DEF ControlType, ScriptEnds, Labels, MainSend, Handling
<1>. QED
  BY <1>1, <1>2, <1>3, <1>4

\* An error or the help text.
LEMMA MainPrintType ==
  ASSUME TypeInv, exit = "none", MainPrint
  PROVE  TypeInv'
<1>. USE DEF TypeInv, TcpTypeOK
<1>1. FlagType'
  BY Zenon DEF FlagType, MainPrint, Handling
<1>2. ThreadType'
  BY WaitsType DEF ThreadType, MainPrint, Handling
<1>3. LinkType'
  BY DEF LinkType, MainPrint, Handling
<1>4. ControlType' /\ ScriptEnds'
  BY WaitsType DEF ControlType, ScriptEnds, Labels, MainPrint, Handling
<1>. QED
  BY <1>1, <1>2, <1>3, <1>4

\* /rename.
LEMMA MainRenameType ==
  ASSUME TypeInv, exit = "none", MainRename
  PROVE  TypeInv'
<1>. USE DEF TypeInv, TcpTypeOK
<1>1. FlagType'
  BY Zenon DEF FlagType, MainRename, Handling
<1>2. ThreadType'
  BY WaitsType DEF ThreadType, MainRename, Handling, RenameLines
<1>3. LinkType'
  BY DEF LinkType, MainRename, Handling
<1>4. ControlType' /\ ScriptEnds'
  BY WaitsType DEF ControlType, ScriptEnds, Labels, MainRename, Handling
<1>. QED
  BY <1>1, <1>2, <1>3, <1>4

\* Past a condition: its flag is reset.
LEMMA MainPassType ==
  ASSUME TypeInv, exit = "none", MainPass
  PROVE  TypeInv'
<1>. USE DEF TypeInv, TcpTypeOK
<1>1. FlagType'
  BY Zenon DEF FlagType, MainPass, ResetFlags
<1>2. ThreadType'
  BY HeadTailProperties DEF ThreadType, ControlType, MainPass
<1>3. LinkType'
  BY DEF LinkType, MainPass
<1>4. ControlType' /\ ScriptEnds'
  <2>1. Len(waits) # 1 => Tail(waits) # <<>>
    BY LongTail DEF MainPass, ThreadType, ControlType
  <2>. QED
    BY <2>1 DEF ControlType, ScriptEnds, Labels, MainPass
<1>. QED
  BY <1>1, <1>2, <1>3, <1>4

\* The condition is not fulfilled: on the way to pthread_cond_wait.
LEMMA MainParkType ==
  ASSUME TypeInv, exit = "none", MainPark
  PROVE  TypeInv'
<1>. USE DEF TypeInv, TcpTypeOK
<1>1. FlagType'
  BY Zenon DEF FlagType, MainPark, Waiting
<1>2. ThreadType'
  BY DEF ThreadType, MainPark, Waiting
<1>3. LinkType'
  BY DEF LinkType, MainPark, Waiting
<1>4. ControlType' /\ ScriptEnds'
  BY DEF ControlType, ScriptEnds, Labels, MainPark, Waiting
<1>. QED
  BY <1>1, <1>2, <1>3, <1>4

\* pthread_cond_wait.
LEMMA MainSleepType ==
  ASSUME TypeInv, exit = "none", MainSleep
  PROVE  TypeInv'
<1>. USE DEF TypeInv, TcpTypeOK
<1>1. FlagType'
  BY Zenon DEF FlagType, MainSleep, Waiting
<1>2. ThreadType'
  BY DEF ThreadType, MainSleep, Waiting
<1>3. LinkType'
  BY DEF LinkType, MainSleep, Waiting
<1>4. ControlType' /\ ScriptEnds'
  BY DEF ControlType, ScriptEnds, Labels, MainSleep, Waiting
<1>. QED
  BY <1>1, <1>2, <1>3, <1>4

\* pthread_cond_wait returns without a signal.
LEMMA MainSpuriousWakeupType ==
  ASSUME TypeInv, exit = "none", MainSpuriousWakeup
  PROVE  TypeInv'
<1>. USE DEF TypeInv, TcpTypeOK
<1>1. FlagType'
  BY Zenon DEF FlagType, MainSpuriousWakeup, Waiting
<1>2. ThreadType'
  BY DEF ThreadType, MainSpuriousWakeup, Waiting
<1>3. LinkType'
  BY DEF LinkType, MainSpuriousWakeup, Waiting
<1>4. ControlType' /\ ScriptEnds'
  BY DEF ControlType, ScriptEnds, Labels, MainSpuriousWakeup, Waiting
<1>. QED
  BY <1>1, <1>2, <1>3, <1>4

\* The end of the input.
LEMMA MainByeType ==
  ASSUME TypeInv, exit = "none", MainBye
  PROVE  TypeInv'
<1>. USE DEF TypeInv, TcpTypeOK
<1>1. FlagType'
  BY Zenon DEF FlagType, MainBye
<1>2. ThreadType'
  BY DEF ThreadType, MainBye
<1>3. LinkType'
  BY SendType DEF LinkType, MainBye, Outgoing
<1>4. ControlType' /\ ScriptEnds'
  BY SendType DEF ControlType, ScriptEnds, Labels, MainBye, Outgoing
<1>. QED
  BY <1>1, <1>2, <1>3, <1>4

\* main returns.
LEMMA MainLeaveType ==
  ASSUME TypeInv, exit = "none", MainLeave
  PROVE  TypeInv'
<1>. USE DEF TypeInv, TcpTypeOK
<1>1. FlagType'
  BY Zenon DEF FlagType, MainLeave, Ending
<1>2. ThreadType'
  BY DEF ThreadType, MainLeave, Ending
<1>3. LinkType'
  BY DEF LinkType, MainLeave, Ending
<1>4. ControlType' /\ ScriptEnds'
  BY DEF ControlType, ScriptEnds, Labels, MainLeave, Ending
<1>. QED
  BY <1>1, <1>2, <1>3, <1>4

\* What recv returns is a line the server may send, or a piece that is none.
LEMMA PieceType ==
  ASSUME NEW k \in Incoming
  PROVE  Cut(k) \subseteq Incoming /\ Whole(k) \in Incoming
  BY DEF Cut, Whole, Incoming, Replies, NoticeKinds

\* What is left behind the first n elements.
LEMMA DropFront ==
  ASSUME NEW S, NEW s \in Seq(S), NEW n \in 0 .. Len(s), NEW t,
         t = SubSeq(s, n + 1, Len(s))
  PROVE  /\ t \in Seq(S) /\ Len(t) = Len(s) - n
         /\ \A i \in 1 .. Len(s) - n : t[i] = s[n + i]
<1>1. Len(s) \in Nat /\ n \in Nat /\ n <= Len(s)
  BY LenProperties
<1>2. n + 1 \in Int /\ Len(s) \in Int
  BY <1>1
<1>3. \A i \in n + 1 .. Len(s) : s[i] \in S
  BY <1>1, ElementOfSeq
<1>4. /\ t \in Seq(S)
      /\ Len(t) = IF n + 1 <= Len(s) THEN Len(s) - (n + 1) + 1 ELSE 0
      /\ \A i \in 1 .. Len(s) - (n + 1) + 1 : t[i] = s[(n + 1) + i - 1]
  BY <1>2, <1>3, SubSeqProperties
<1>5. Len(t) = Len(s) - n
  BY <1>1, <1>4
<1>6. ASSUME NEW i \in 1 .. Len(s) - n
      PROVE  t[i] = s[n + i]
  <2>1. i \in 1 .. Len(s) - (n + 1) + 1 /\ (n + 1) + i - 1 = n + i
    BY <1>1
  <2>. QED
    BY <1>4, <2>1
<1>. QED
  BY <1>4, <1>5, <1>6

\* recv returns when there is something to receive.
LEMMA RecvHead ==
  ASSUME LinkType, NEW n \in 0 .. Len(stream), NEW part \in BOOLEAN,
         n > 0 \/ part, part => n < Len(stream)
  PROVE  /\ Len(stream) \in Nat /\ Len(stream) >= 1 /\ stream # <<>>
         /\ Head(stream) = stream[1] /\ Head(stream) \in Incoming
<1>1. stream \in Seq(Incoming)
  BY DEF LinkType
<1>2. Len(stream) \in Nat
  BY <1>1, LenProperties
<1>3. Len(stream) >= 1
  BY <1>2
<1>4. stream # <<>>
  BY <1>1, <1>3, EmptySeq
<1>. QED
  BY <1>1, <1>2, <1>3, <1>4, HeadTailProperties

\* It is taken from the front of the stream.
LEMMA RecvType ==
  ASSUME LinkType, LstRecv
  PROVE  got' \in Incoming /\ stream' \in Seq(Incoming)
<1>1. PICK n \in 0 .. Len(stream), part \in BOOLEAN :
        /\ n > 0 \/ part
        /\ part => n < Len(stream)
        /\ \E k \in CASE half           -> {"JUNK"}
                      [] ~half /\ n = 0 -> Cut(Head(stream))
                      [] ~half /\ n > 0 -> {Whole(Head(stream))} : got' = k
        /\ stream' = SubSeq(stream, n + 1, Len(stream))
  BY DEF LstRecv
<1>2. /\ Len(stream) \in Nat /\ stream # <<>>
      /\ Head(stream) \in Incoming
  BY <1>1, RecvHead
<1>3. got' \in Incoming
  BY <1>1, <1>2, PieceType DEF Incoming, NoticeKinds
<1>4. stream' \in Seq(Incoming)
  BY <1>1, DropFront DEF LinkType
<1>. QED
  BY <1>3, <1>4

\* recv.
LEMMA LstRecvType ==
  ASSUME TypeInv, exit = "none", LstRecv
  PROVE  TypeInv'
<1>. USE DEF TypeInv, TcpTypeOK
<1>1. FlagType'
  BY Zenon DEF FlagType, LstRecv
<1>2. ThreadType'
  BY RecvType DEF ThreadType, LstRecv
<1>3. LinkType'
  BY RecvType DEF LinkType, LstRecv
<1>4. ControlType' /\ ScriptEnds'
  <2>1. got' # "none"
    BY RecvType DEF LstRecv, Incoming, Replies, NoticeKinds
  <2>2. /\ pc.lst = "recv" /\ pc' = [pc EXCEPT !["lst"] = "handle"]
        /\ UNCHANGED <<waits, script, exit>>
    BY Zenon DEF LstRecv
  <2>. QED
    BY <2>1, <2>2 DEF ControlType, ScriptEnds, Labels
<1>. QED
  BY <1>1, <1>2, <1>3, <1>4

\* recv returns 0.
LEMMA LstServerGoneType ==
  ASSUME TypeInv, exit = "none", LstServerGone
  PROVE  TypeInv'
<1>. USE DEF TypeInv, TcpTypeOK
<1>1. FlagType'
  BY Zenon DEF FlagType, LstServerGone
<1>2. ThreadType'
  BY DEF ThreadType, LstServerGone
<1>3. LinkType'
  BY DEF LinkType, LstServerGone
<1>4. ControlType' /\ ScriptEnds'
  BY DEF ControlType, ScriptEnds, Labels, LstServerGone
<1>. QED
  BY <1>1, <1>2, <1>3, <1>4

\* recv fails.
LEMMA LstFailsType ==
  ASSUME TypeInv, exit = "none", LstFails
  PROVE  TypeInv'
<1>. USE DEF TypeInv, TcpTypeOK
<1>1. FlagType'
  BY Zenon DEF FlagType, LstFails, Ending
<1>2. ThreadType'
  BY DEF ThreadType, LstFails, Ending
<1>3. LinkType'
  BY DEF LinkType, LstFails, Ending
<1>4. ControlType' /\ ScriptEnds'
  BY DEF ControlType, ScriptEnds, Labels, LstFails, Ending
<1>. QED
  BY <1>1, <1>2, <1>3, <1>4

\* A MSG, or a REPLY that is none.
LEMMA LstIgnoreType ==
  ASSUME TypeInv, exit = "none", LstIgnore
  PROVE  TypeInv'
<1>. USE DEF TypeInv, TcpTypeOK
<1>1. FlagType'
  BY Zenon DEF FlagType, LstIgnore
<1>2. ThreadType'
  BY DEF ThreadType, LstIgnore
<1>3. LinkType'
  BY DEF LinkType, LstIgnore
<1>4. ControlType' /\ ScriptEnds'
  BY DEF ControlType, ScriptEnds, Labels, LstIgnore
<1>. QED
  BY <1>1, <1>2, <1>3, <1>4

\* A REPLY.
LEMMA LstVerdictType ==
  ASSUME TypeInv, exit = "none", LstVerdict
  PROVE  TypeInv'
<1>. USE DEF TypeInv, TcpTypeOK
<1>1. FlagType'
  BY Zenon DEF FlagType, LstVerdict
<1>2. ThreadType'
  BY DEF ThreadType, LstVerdict
<1>3. LinkType'
  BY DEF LinkType, LstVerdict
<1>4. ControlType' /\ ScriptEnds'
  BY DEF ControlType, ScriptEnds, Labels, LstVerdict
<1>. QED
  BY <1>1, <1>2, <1>3, <1>4

\* Every farewell ends in exit.
LEMMA FarewellType ==
  ASSUME NEW k \in Incoming, k \notin Replies \cup {"MSG", "BADREPLY"}
  PROVE  /\ Farewell(k) \in Seq(Farewells) /\ Farewell(k) # <<>>
         /\ Farewell(k)[Len(Farewell(k))] = "exit"
<1>1. \/ Farewell(k) = <<"ERR", "BYE", "shut", "close", "exit">>
      \/ Farewell(k) = <<"BYE", "shut", "close", "exit">>
      \/ Farewell(k) = <<"ERR", "BYE", "exit">>
  BY DEF Farewell, Incoming, Replies, NoticeKinds
<1>2. /\ <<"ERR", "BYE", "shut", "close", "exit">> \in Seq(Farewells)
      /\ <<"BYE", "shut", "close", "exit">> \in Seq(Farewells)
      /\ <<"ERR", "BYE", "exit">> \in Seq(Farewells)
  BY DEF Farewells
<1>3. CASE Farewell(k) = <<"ERR", "BYE", "shut", "close", "exit">>
  BY <1>2, <1>3
<1>4. CASE Farewell(k) = <<"BYE", "shut", "close", "exit">>
  BY <1>2, <1>4
<1>5. CASE Farewell(k) = <<"ERR", "BYE", "exit">>
  BY <1>2, <1>5
<1>. QED
  BY <1>1, <1>3, <1>4, <1>5

\* Every other line ends the session.
LEMMA LstFarewellType ==
  ASSUME TypeInv, exit = "none", LstFarewell
  PROVE  TypeInv'
<1>. USE DEF TypeInv, TcpTypeOK
<1>1. FlagType'
  BY Zenon DEF FlagType, LstFarewell
<1>2. ThreadType'
  BY FarewellType DEF ThreadType, ControlType, LstFarewell
<1>3. LinkType'
  BY DEF LinkType, LstFarewell
<1>4. ControlType' /\ ScriptEnds'
  BY FarewellType DEF ControlType, ScriptEnds, Labels, LstFarewell, ThreadType
<1>. QED
  BY <1>1, <1>2, <1>3, <1>4

\* One call after the other, until exit.
LEMMA LstPerformType ==
  ASSUME TypeInv, exit = "none", LstPerform
  PROVE  TypeInv'
<1>. USE DEF TypeInv, TcpTypeOK
<1>1. FlagType'
  BY Zenon DEF FlagType, LstPerform
<1>2. ThreadType'
  BY HeadTailProperties DEF ThreadType, ControlType, LstPerform
<1>3. LinkType'
  <2>1. {"ERR", "BYE"} \subseteq Outgoing
    BY DEF Outgoing
  <2>. QED
    BY <2>1, SendType DEF LinkType, LstPerform
<1>4. ControlType' /\ ScriptEnds'
  <2>. SUFFICES ASSUME exit' = "none"
                PROVE  script' # <<>> /\ script'[Len(script')] = "exit"
    BY DEF ControlType, ScriptEnds, Labels, LstPerform
  <2>1. script \in Seq(Farewells) /\ script # <<>> /\ script[Len(script)] = "exit"
    BY DEF ThreadType, ScriptEnds, LstPerform
  <2>2. Len(script) \in Nat /\ Head(script) = script[1]
    BY <2>1, LenProperties
  <2>3. Len(script) # 1
    BY <2>1, <2>2 DEF LstPerform
  <2>. QED
    BY <2>1, <2>2, <2>3, LongTail, HeadTailProperties DEF LstPerform
<1>. QED
  BY <1>1, <1>2, <1>3, <1>4

\* The server: a REPLY, another line, or the end of the connection.
LEMMA SrvNextType ==
  ASSUME TypeInv, exit = "none", SrvNext
  PROVE  TypeInv'
<1>. USE DEF TypeInv, TcpTypeOK
<1>1. FlagType'
  BY Zenon DEF FlagType, SrvNext, SrvServe, SrvNotify, SrvClose
<1>2. ThreadType'
  BY DEF ThreadType, SrvNext
<1>3. LinkType'
  <2>1. Replies \subseteq Incoming /\ Notices \subseteq Incoming
    BY DEF Incoming
  <2>2. stream' = stream \/ \E k \in Incoming : stream' = Append(stream, k)
    BY <2>1 DEF SrvNext, SrvServe, SrvNotify, SrvClose
  <2>5. stream' \in Seq(Incoming)
    BY <2>2 DEF LinkType
  <2>3. served' \in 0 .. Len(sent)
    BY LenProperties DEF LinkType, SrvNext, SrvServe, SrvNotify, SrvClose
  <2>4. notices' \in 0 .. MaxNotices
    BY DEF LinkType, SrvNext, SrvServe, SrvNotify, SrvClose
  <2>. QED
    BY <2>5, <2>3, <2>4 DEF LinkType, SrvNext
<1>4. ControlType' /\ ScriptEnds'
  BY DEF ControlType, ScriptEnds, SrvNext
<1>. QED
  BY <1>1, <1>2, <1>3, <1>4

\* Ctrl-C: the handler says BYE and ends the process.
LEMMA SignalType ==
  ASSUME TypeInv, exit = "none",
         (\E t \in {"main", "lst"} : SigArrives(t)) \/ SigExits
  PROVE  TypeInv'
<1>. USE DEF TypeInv, TcpTypeOK
<1>1. FlagType'
  <2>1. UNCHANGED <<verdictVars, mainVars, lstVars, linkVars, serverVars>>
    BY Zenon DEF SigArrives, SigExits, Ending
  <2>. QED
    BY <2>1, Zenon DEF FlagType
<1>2. ThreadType'
  BY DEF ThreadType, SigArrives, SigExits, Ending
<1>3. LinkType'
  BY SendType DEF LinkType, SigArrives, SigExits, Ending, Outgoing
<1>4. ControlType' /\ ScriptEnds'
  BY SendType DEF ControlType, ScriptEnds, Labels, SigArrives, SigExits,
                  Ending, Outgoing
<1>. QED
  BY <1>1, <1>2, <1>3, <1>4

\* Every step of the client and of the server keeps the types.
LEMMA NextType ==
  ASSUME TypeInv, [Next]_tcpVars
  PROVE  TypeInv'
<1>1. CASE exit = "none" /\ MainNext
  BY <1>1, MainConnectType, MainReadType, MainSendType, MainPrintType,
     MainRenameType, MainPassType, MainParkType, MainSleepType,
     MainSpuriousWakeupType, MainByeType, MainLeaveType
     DEF MainNext, MainRun
<1>2. CASE exit = "none" /\ LstNext
  BY <1>2, LstRecvType, LstServerGoneType, LstFailsType, LstIgnoreType,
     LstVerdictType, LstFarewellType, LstPerformType
     DEF LstNext, LstRun
<1>3. CASE exit = "none" /\ SrvNext
  BY <1>3, SrvNextType
<1>4. CASE exit = "none" /\ ((\E t \in {"main", "lst"} : SigArrives(t)) \/ SigExits)
  BY <1>4, SignalType
<1>5. CASE UNCHANGED tcpVars
  <2>. USE <1>5 DEF TypeInv, TcpTypeOK
  <2>1. FlagType'
    BY Zenon DEF FlagType
  <2>2. ThreadType' /\ LinkType'
    BY DEF ThreadType, LinkType
  <2>3. ControlType' /\ ScriptEnds'
    BY DEF ControlType, ScriptEnds
  <2>. QED
    BY <2>1, <2>2, <2>3
<1>. QED
  BY <1>1, <1>2, <1>3, <1>4, <1>5 DEF Next, Running

LEMMA TypeInvHolds == Spec => []TypeInv
  BY InitType, NextType, PTL DEF Spec

\* Every variable holds a value the code can give it, and no thread waits for
\* nothing, handles nothing or takes leave with nothing left to do.
THEOREM TcpTypeCorrect == Spec => []TcpTypeOK
<1>1. TypeInv => TcpTypeOK
  BY DEF TypeInv
<1>. QED
  BY <1>1, TypeInvHolds, PTL

-----------------------------------------------------------------------------
(* Nothing but AUTH before the server has accepted one.                    *)

\* Before that no OK is under way to the client, or handled, so that AUTH_FLAG
\* is down and only an /auth passes the test of process_commands.
Quiet ==
  /\ ~AUTH_FLAG
  /\ got # "OK" /\ \A i \in 1 .. Len(stream) : stream[i] # "OK"
  /\ pc.main = "handle" => line \in AuthLines
  /\ ~Said("JOIN") /\ ~Said("MSG")

GateInv == accepted \/ Quiet

\* What is said stays said, and a send says at most what it sends.
LEMMA SendSays ==
  ASSUME LinkType, exit = "none", NEW m \in Outgoing, Send(m), NEW n
  PROVE  /\ Said(n) => Said(n)'
         /\ Said(n)' => Said(n) \/ n = m
<1>1. CASE sent' = Append(sent, m)
  <2>1. /\ Len(sent) \in Nat /\ Len(sent') = Len(sent) + 1
        /\ \A i \in 1 .. Len(sent) : sent'[i] = sent[i]
        /\ sent'[Len(sent) + 1] = m
    BY <1>1, LenProperties DEF LinkType
  <2>. QED
    BY <2>1 DEF Said
<1>2. CASE UNCHANGED sent
  BY <1>2 DEF Said
<1>. QED
  BY <1>1, <1>2 DEF Send

\* Of the main thread: only a handler may say more.
LEMMA MainQuiet ==
  ASSUME TypeInv, Quiet, exit = "none", MainNext
  PROVE  Quiet'
<1>. USE DEF TypeInv, TcpTypeOK
<1>1. UNCHANGED <<AUTH_FLAG, got, stream>>
  BY Zenon DEF MainNext, MainRun, MainConnect, MainRead, MainSend, MainPrint,
     MainRename, MainPass, MainPark, MainSleep, MainSpuriousWakeup, MainBye,
     MainLeave, Handling, Waiting, Ending
<1>2. (pc.main = "handle" => line \in AuthLines)'
  <2>1. CASE MainRead
    <3>1. AUTH_FLAG = FALSE
      BY Zenon DEF FlagType, Quiet
    <3>2. PICK l \in Lines :
            /\ line' = l
            /\ pc' = [pc EXCEPT !["main"] = "bye"] \/ pc' = pc \/ ~Refused(l)
      BY <2>1 DEF MainRead
    <3>3. ~Refused(l) => l \in AuthLines
      BY <3>1, Zenon DEF Refused
    <3>4. pc.main = "read"
      BY <2>1, Zenon DEF MainRead
    <3>. QED
      BY <3>2, <3>3, <3>4 DEF ControlType, Labels
  <2>2. CASE MainLeave
    <3>1. UNCHANGED <<pc, line>>
      BY <2>2, Zenon DEF MainLeave, Ending
    <3>. QED
      BY <3>1 DEF Quiet
  <2>3. CASE ~MainRead /\ ~MainLeave
    <3>1. pc'.main # "handle"
      BY <2>3 DEF ControlType, Labels, MainNext, MainRun, MainConnect,
         MainSend, MainPrint, MainRename, MainPass, MainPark, MainSleep,
         MainSpuriousWakeup, MainBye, WrapperExits, Handling, Waiting
    <3>. QED
      BY <3>1
  <2>. QED
    BY <2>1, <2>2, <2>3
<1>3. ~Said("JOIN")' /\ ~Said("MSG")'
  <2>1. CASE UNCHANGED sent
    BY <2>1 DEF Said, Quiet
  <2>2. CASE MainSend
    <3>1. line = "auth" /\ Send("AUTH")
      BY <2>2 DEF MainSend, Handling, Quiet, AuthLines
    <3>. QED
      BY <3>1, SendSays DEF Outgoing, Requests, Quiet
  <2>3. CASE MainBye
    BY <2>3, SendSays DEF MainBye, Outgoing, Quiet
  <2>. QED
    BY <2>1, <2>2, <2>3, Zenon DEF MainNext, MainRun, MainConnect, MainRead,
       MainPrint, MainRename, MainPass, MainPark, MainSleep,
       MainSpuriousWakeup, MainLeave, Waiting, Ending
<1>. QED
  BY <1>1, <1>2, <1>3 DEF Quiet

\* Of the listener: a line that is cut becomes an OK only out of an OK, or out
\* of a NOK when an OK has been received before.
LEMMA RecvQuiet ==
  ASSUME TypeInv, Quiet, LstRecv
  PROVE  got' # "OK" /\ (\A i \in 1 .. Len(stream) : stream[i] # "OK")'
<1>. USE DEF TypeInv, TcpTypeOK
<1>1. PICK n \in 0 .. Len(stream), part \in BOOLEAN :
        /\ n > 0 \/ part
        /\ part => n < Len(stream)
        /\ \E k \in CASE half           -> {"JUNK"}
                      [] ~half /\ n = 0 -> Cut(Head(stream))
                      [] ~half /\ n > 0 -> {Whole(Head(stream))} : got' = k
        /\ stream' = SubSeq(stream, n + 1, Len(stream))
  BY DEF LstRecv
<1>2. /\ Len(stream) \in Nat /\ Len(stream) >= 1 /\ Head(stream) = stream[1]
      /\ Head(stream) \in Incoming
  BY <1>1, RecvHead
<1>3. Head(stream) # "OK"
  BY <1>2 DEF Quiet
<1>4. "OK" \notin Cut(Head(stream)) /\ Whole(Head(stream)) # "OK"
  BY <1>2, <1>3 DEF Cut, Whole, Quiet, Incoming, Replies, NoticeKinds
<1>5. got' # "OK"
  BY <1>1, <1>2, <1>4
<1>6. stream \in Seq(Incoming)
  BY DEF LinkType
<1>7. /\ Len(stream') = Len(stream) - n
      /\ \A i \in 1 .. Len(stream) - n : stream'[i] = stream[n + i]
  BY <1>1, <1>6, DropFront
<1>8. ASSUME NEW i \in 1 .. Len(stream')
      PROVE  stream'[i] # "OK"
  <2>1. n + i \in 1 .. Len(stream)
    BY <1>2, <1>7
  <2>. QED
    BY <1>7, <2>1 DEF Quiet
<1>. QED
  BY <1>5, <1>8

LEMMA LstQuiet ==
  ASSUME TypeInv, Quiet, exit = "none", LstNext
  PROVE  Quiet'
<1>. USE DEF TypeInv, TcpTypeOK
<1>1. ~AUTH_FLAG'
  BY Zenon DEF Quiet, LstNext, LstRun, LstRecv, LstServerGone, LstFails,
     LstIgnore, LstVerdict, LstFarewell, LstPerform, Ending
<1>2. got' # "OK" /\ (\A i \in 1 .. Len(stream) : stream[i] # "OK")'
  <2>1. CASE LstRecv
    BY <2>1, RecvQuiet
  <2>2. CASE ~LstRecv
    BY <2>2 DEF Quiet, LstNext, LstRun, LstServerGone, LstFails, LstIgnore,
       LstVerdict, LstFarewell, LstPerform, Ending
  <2>. QED
    BY <2>1, <2>2
<1>3. (pc.main = "handle" => line \in AuthLines)'
  <2>1. UNCHANGED line
    BY Zenon DEF LstNext, LstRun, LstRecv, LstServerGone, LstFails, LstIgnore,
       LstVerdict, LstFarewell, LstPerform, Ending
  <2>2. pc'.main = "handle" => pc.main = "handle"
    BY DEF ControlType, Labels, LstNext, LstRun, LstRecv, LstServerGone,
       LstFails, LstIgnore, LstVerdict, LstFarewell, LstPerform, Ending
  <2>. QED
    BY <2>1, <2>2 DEF Quiet
<1>4. ~Said("JOIN")' /\ ~Said("MSG")'
  <2>1. UNCHANGED sent \/ \E m \in {"ERR", "BYE"} : Send(m)
    BY Zenon DEF LstNext, LstRun, LstRecv, LstServerGone, LstFails, LstIgnore,
       LstVerdict, LstFarewell, LstPerform, Ending
  <2>2. CASE UNCHANGED sent
    BY <2>2 DEF Said, Quiet
  <2>3. CASE \E m \in {"ERR", "BYE"} : Send(m)
    BY <2>3, SendSays DEF Outgoing, Quiet
  <2>. QED
    BY <2>1, <2>2, <2>3
<1>. QED
  BY <1>1, <1>2, <1>3, <1>4 DEF Quiet

\* Of the server: the request it answers is an AUTH, so that an OK is the
\* acceptance.
LEMMA SrvQuiet ==
  ASSUME TypeInv, Quiet, SrvNext, ~accepted'
  PROVE  Quiet'
<1>. USE DEF TypeInv, TcpTypeOK
<1>1. stream' = stream \/ \E k \in Incoming \ {"OK"} : stream' = Append(stream, k)
  <2>1. CASE SrvServe
    <3>1. PICK i \in 1 .. Len(sent), verdict \in Replies :
            /\ Request(i) /\ stream' = Append(stream, verdict)
            /\ accepted' = (accepted \/ (sent[i] = "AUTH" /\ verdict = "OK"))
      BY <2>1 DEF SrvServe
    <3>2. sent[i] = "AUTH"
      BY <3>1 DEF Request, Requests, Quiet, Said
    <3>3. verdict # "OK"
      BY <3>1, <3>2
    <3>. QED
      BY <3>1, <3>3 DEF Incoming, Replies
  <2>2. CASE SrvNotify \/ SrvClose
    BY <2>2 DEF SrvNotify, SrvClose, Incoming, NoticeKinds
  <2>. QED
    BY <2>1, <2>2 DEF SrvNext
<1>2. (\A i \in 1 .. Len(stream) : stream[i] # "OK")'
  <2>1. CASE stream' = stream
    BY <2>1 DEF Quiet
  <2>2. ASSUME NEW k \in Incoming \ {"OK"}, stream' = Append(stream, k)
        PROVE  (\A i \in 1 .. Len(stream) : stream[i] # "OK")'
    <3>1. /\ Len(stream) \in Nat /\ Len(stream') = Len(stream) + 1
          /\ \A i \in 1 .. Len(stream) : stream'[i] = stream[i]
          /\ stream'[Len(stream) + 1] = k
      BY <2>2, LenProperties DEF LinkType
    <3>. QED
      BY <3>1, <2>2 DEF Quiet
  <2>. QED
    BY <1>1, <2>1, <2>2
<1>3. UNCHANGED <<AUTH_FLAG, got, pc, line, sent>>
  BY Zenon DEF SrvNext
<1>. QED
  BY <1>2, <1>3 DEF Quiet, Said

\* A signal adds a BYE at most.
LEMMA SignalQuiet ==
  ASSUME TypeInv, Quiet, exit = "none",
         (\E t \in {"main", "lst"} : SigArrives(t)) \/ SigExits
  PROVE  Quiet'
<1>. USE DEF TypeInv, TcpTypeOK
<1>1. UNCHANGED <<AUTH_FLAG, got, stream, line>>
  BY Zenon DEF SigArrives, SigExits, Ending
<1>2. pc'.main = pc.main
  BY DEF ControlType, Labels, SigArrives, SigExits, Ending
<1>3. UNCHANGED sent \/ Send("BYE")
  BY Zenon DEF SigArrives, SigExits, Ending
<1>4. ~Said("JOIN")' /\ ~Said("MSG")'
  <2>1. CASE UNCHANGED sent
    BY <2>1 DEF Said, Quiet
  <2>2. CASE Send("BYE")
    BY <2>2, SendSays DEF Outgoing, Quiet
  <2>. QED
    BY <1>3, <2>1, <2>2
<1>. QED
  BY <1>1, <1>2, <1>4 DEF Quiet

\* An acceptance is never taken back; until there is one, every step is quiet.
LEMMA NextGate ==
  ASSUME TypeInv, GateInv, [Next]_tcpVars
  PROVE  GateInv'
<1>. SUFFICES ASSUME ~accepted' PROVE Quiet'
  BY DEF GateInv
<1>1. ~accepted
  BY Zenon DEF Next, MainNext, MainRun, MainConnect, MainRead, MainSend,
     MainPrint, MainRename, MainPass, MainPark, MainSleep, MainSpuriousWakeup,
     MainBye, MainLeave, Handling, Waiting, LstNext, LstRun, LstRecv,
     LstServerGone, LstFails, LstIgnore, LstVerdict, LstFarewell, LstPerform,
     SigArrives, SigExits, Ending, SrvNext, SrvServe, SrvNotify, SrvClose
<1>2. Quiet
  BY <1>1 DEF GateInv
<1>3. CASE UNCHANGED tcpVars
  BY <1>2, <1>3 DEF Quiet, Said
<1>. QED
  BY <1>2, <1>3, MainQuiet, LstQuiet, SrvQuiet, SignalQuiet DEF Next, Running

LEMMA GateInvariant == Spec => []GateInv
<1>1. Init => GateInv
  <2>. SUFFICES ASSUME Init PROVE Quiet
    BY DEF GateInv
  <2>1. ~AUTH_FLAG
    BY Zenon DEF Init
  <2>2. /\ got = "none" /\ pc.main = "connect"
        /\ Len(stream) = 0 /\ Len(sent) = 0
    BY DEF Init
  <2>. QED
    BY <2>1, <2>2 DEF Quiet, Said
<1>2. TypeInv /\ GateInv /\ [Next]_tcpVars => GateInv'
  BY NextGate
<1>. QED
  BY <1>1, <1>2, TypeInvHolds, PTL DEF Spec

\* Nothing but AUTH is sent, and the client does not take itself for verified
\* (TCP.c:95, 266), before the server has accepted an AUTH, however the stream
\* is cut, whatever else the server sends and whatever is typed.
THEOREM TcpGateHolds == Spec => []TcpGate
<1>1. GateInv => TcpGate
  BY DEF GateInv, Quiet, TcpGate
<1>. QED
  BY <1>1, GateInvariant, PTL

-----------------------------------------------------------------------------
(* Who ends says BYE.                                                      *)

\* There is nobody to say BYE to, or it has been said.
Parted == closed \/ Said("BYE")

\* The listener is to say BYE before it shuts the connection or exits.
ByeNext ==
  \E i \in 1 .. Len(script) :
    script[i] = "BYE" /\ \A j \in 1 .. i - 1 : script[j] = "ERR"

\* Each of the three ways out passes a BYE before the step that ends: shutdown
\* and exit of the listener, the return of main, the exit of the handler.
EndInv ==
  /\ socket # "open" \/ pc.main = "leave" \/ pc.sig # "idle" => Parted
  /\ exit \in {"done", "sigpipe"} => Parted
  /\ pc.lst = "script" => Parted \/ ByeNext

\* A BYE is said, or lost with a connection the server has closed; or it raises
\* SIGPIPE, on a connection that was shut behind another BYE.
LEMMA SendEnds ==
  ASSUME LinkType, EndInv, exit = "none", NEW m \in Outgoing, Send(m),
         UNCHANGED closed
  PROVE  /\ Parted => Parted'
         /\ m = "BYE" => Parted'
         /\ exit' = "none" \/ (exit' = "sigpipe" /\ Parted')
<1>1. Parted => Parted'
  BY SendSays DEF Parted
<1>2. CASE socket = "open" /\ sent' = Append(sent, m) /\ UNCHANGED exit
  <2>1. Len(sent) \in Nat /\ Len(sent') = Len(sent) + 1 /\ sent'[Len(sent) + 1] = m
    BY <1>2, LenProperties DEF LinkType
  <2>2. Said(m)'
    BY <2>1 DEF Said
  <2>. QED
    BY <1>1, <1>2, <2>2 DEF Parted
<1>3. CASE socket # "open" \/ closed
  BY <1>1, <1>3 DEF EndInv, Parted, Send
<1>. QED
  BY <1>2, <1>3 DEF Send

\* No step unsays a BYE or opens a connection again.
LEMMA PartedStays ==
  ASSUME TypeInv, exit = "none", Next, Parted
  PROVE  Parted'
<1>. USE DEF TypeInv, TcpTypeOK
<1>1. closed => closed'
  BY Zenon DEF Next, MainNext, MainRun, MainConnect, MainRead, MainSend,
     MainPrint, MainRename, MainPass, MainPark, MainSleep, MainSpuriousWakeup,
     MainBye, MainLeave, Handling, Waiting, LstNext, LstRun, LstRecv,
     LstServerGone, LstFails, LstIgnore, LstVerdict, LstFarewell, LstPerform,
     SigArrives, SigExits, Ending, SrvNext, SrvServe, SrvNotify, SrvClose
<1>2. UNCHANGED sent \/ \E m \in {"AUTH", "JOIN", "MSG", "ERR", "BYE"} : Send(m)
  BY Zenon DEF Next, MainNext, MainRun, MainConnect, MainRead, MainSend,
     MainPrint, MainRename, MainPass, MainPark, MainSleep, MainSpuriousWakeup,
     MainBye, MainLeave, Waiting, LstNext, LstRun, LstRecv, LstServerGone,
     LstFails, LstIgnore, LstVerdict, LstFarewell, LstPerform, SigArrives,
     SigExits, Ending, SrvNext
<1>3. CASE UNCHANGED sent
  BY <1>1, <1>3 DEF Parted, Said
<1>4. CASE \E m \in {"AUTH", "JOIN", "MSG", "ERR", "BYE"} : Send(m)
  BY <1>1, <1>4, SendSays DEF Parted, Outgoing, Requests
<1>. QED
  BY <1>2, <1>3, <1>4

\* The main thread leaves behind its BYE.
LEMMA MainEnds ==
  ASSUME TypeInv, EndInv, exit = "none", MainNext, Parted => Parted'
  PROVE  EndInv'
<1>. USE DEF TypeInv, TcpTypeOK
<1>1. UNCHANGED <<socket, script, closed>>
  BY Zenon DEF MainNext, MainRun, MainConnect, MainRead, MainSend, MainPrint,
     MainRename, MainPass, MainPark, MainSleep, MainSpuriousWakeup, MainBye,
     MainLeave, Handling, Waiting, Ending
<1>2. /\ pc'.sig = pc.sig
      /\ pc'.lst = "script" => pc.lst = "script"
      /\ pc'.main = "leave" => pc.main = "leave" \/ MainBye
  BY DEF ControlType, Labels, MainNext, MainRun, MainConnect, MainRead,
     MainSend, MainPrint, MainRename, MainPass, MainPark, MainSleep,
     MainSpuriousWakeup, MainBye, MainLeave, WrapperExits, Handling, Waiting,
     Ending
<1>3. MainBye => Parted'
  BY <1>1, SendEnds DEF MainBye, Outgoing
<1>4. exit' \in {"done", "sigpipe"} => Parted'
  <2>1. CASE MainLeave
    BY <2>1 DEF MainLeave, EndInv
  <2>2. CASE MainSend \/ MainBye
    BY <1>1, <2>2, SendEnds DEF MainSend, MainBye, Outgoing, Requests
  <2>3. CASE exit' \in {"none", "failed"}
    BY <2>3
  <2>. QED
    BY <2>1, <2>2, <2>3 DEF MainNext, MainRun, MainConnect, WrapperExits,
       MainRead, MainPrint, MainRename, MainPass, MainPark, MainSleep,
       MainSpuriousWakeup, Waiting
<1>5. socket # "open" \/ pc.main = "leave" \/ pc.sig # "idle" => Parted
  BY DEF EndInv
<1>6. (socket # "open" \/ pc.main = "leave" \/ pc.sig # "idle" => Parted)'
  BY <1>1, <1>2, <1>3, <1>5
<1>7. (pc.lst = "script" => Parted \/ ByeNext)'
  BY <1>1, <1>2 DEF EndInv, ByeNext
<1>. QED
  BY <1>4, <1>6, <1>7 DEF EndInv

\* Every farewell says BYE before it shuts the connection or exits.
LEMMA FarewellSaysBye ==
  ASSUME NEW k \in Incoming, k \notin Replies \cup {"MSG", "BADREPLY"},
         script' = Farewell(k)
  PROVE  ByeNext'
<1>1. \/ script' = <<"ERR", "BYE", "shut", "close", "exit">>
      \/ script' = <<"BYE", "shut", "close", "exit">>
      \/ script' = <<"ERR", "BYE", "exit">>
  BY DEF Farewell, Incoming, Replies, NoticeKinds
<1>2. CASE script'[1] = "BYE" /\ 1 \in 1 .. Len(script')
  BY <1>2 DEF ByeNext
<1>3. CASE script'[1] = "ERR" /\ script'[2] = "BYE" /\ 2 \in 1 .. Len(script')
  BY <1>3 DEF ByeNext
<1>. QED
  BY <1>1, <1>2, <1>3

\* The listener says what is next; nothing but an ERR comes before its BYE.
LEMMA PerformEnds ==
  ASSUME TypeInv, EndInv, exit = "none", LstPerform, Parted => Parted'
  PROVE  EndInv'
<1>. USE DEF TypeInv, TcpTypeOK
<1>1. /\ script \in Seq(Farewells) /\ script # <<>> /\ Head(script) = script[1]
      /\ Len(script) \in Nat /\ script' = Tail(script) /\ UNCHANGED <<closed, pc>>
  BY LenProperties DEF ThreadType, ControlType, LstPerform
<1>2. /\ Len(script') = Len(script) - 1
      /\ \A i \in 1 .. Len(script') : script'[i] = script[i + 1]
  BY <1>1, HeadTailProperties
<1>3. Parted \/ ByeNext
  BY DEF EndInv, LstPerform
<1>4. CASE Head(script) = "BYE"
  <2>1. Parted'
    BY <1>1, <1>4, SendEnds DEF LstPerform, Outgoing
  <2>. QED
    BY <2>1 DEF EndInv
<1>5. CASE Head(script) = "ERR"
  <2>1. /\ UNCHANGED socket
        /\ exit' = "none" \/ (exit' = "sigpipe" /\ Parted')
    BY <1>1, <1>5, SendEnds DEF LstPerform, Outgoing
  <2>2. ASSUME ByeNext
        PROVE  ByeNext'
    <3>1. PICK i \in 1 .. Len(script) :
            script[i] = "BYE" /\ \A j \in 1 .. i - 1 : script[j] = "ERR"
      BY <2>2 DEF ByeNext
    <3>2. i - 1 \in 1 .. Len(script')
      BY <1>1, <1>2, <1>5, <3>1
    <3>3. script'[i - 1] = "BYE"
      BY <1>2, <3>1, <3>2
    <3>4. \A j \in 1 .. (i - 1) - 1 : script'[j] = "ERR"
      BY <1>1, <1>2, <3>1, <3>2
    <3>. QED
      BY <3>2, <3>3, <3>4 DEF ByeNext
  <2>. QED
    BY <1>1, <1>3, <2>1, <2>2 DEF EndInv
<1>6. CASE Head(script) \in {"shut", "close", "exit"}
  <2>1. Parted
    BY <1>1, <1>3, <1>6 DEF ByeNext
  <2>. QED
    BY <2>1 DEF EndInv
<1>. QED
  BY <1>4, <1>5, <1>6 DEF LstPerform

LEMMA LstEnds ==
  ASSUME TypeInv, EndInv, exit = "none", LstNext, Parted => Parted'
  PROVE  EndInv'
<1>. USE DEF TypeInv, TcpTypeOK
<1>1. CASE LstFarewell
  <2>1. ByeNext'
    BY <1>1, FarewellSaysBye DEF LstFarewell, ThreadType, ControlType
  <2>2. /\ UNCHANGED <<socket, exit>>
        /\ pc' = [pc EXCEPT !["lst"] = "script"]
    BY <1>1, Zenon DEF LstFarewell
  <2>. QED
    BY <2>1, <2>2 DEF EndInv, ControlType, Labels
<1>2. CASE LstPerform
  BY <1>2, PerformEnds
<1>3. CASE ~LstFarewell /\ ~LstPerform
  <2>1. UNCHANGED socket
    BY <1>3, Zenon DEF LstNext, LstRun, LstRecv, LstServerGone, LstFails,
       LstIgnore, LstVerdict, Ending
  <2>2. UNCHANGED exit \/ exit' = "failed"
    BY <1>3, Zenon DEF LstNext, LstRun, LstRecv, LstServerGone, LstFails,
       LstIgnore, LstVerdict, Ending
  <2>3. /\ pc'.sig = pc.sig /\ pc'.lst # "script"
        /\ pc'.main = "leave" => pc.main = "leave"
    BY <1>3 DEF ControlType, Labels, LstNext, LstRun, LstRecv, LstServerGone,
       LstFails, LstIgnore, LstVerdict, Ending
  <2>. QED
    BY <2>1, <2>2, <2>3 DEF EndInv
<1>. QED
  BY <1>1, <1>2, <1>3

\* The handler exits behind its BYE.
LEMMA SignalEnds ==
  ASSUME TypeInv, EndInv, exit = "none", Parted => Parted',
         (\E t \in {"main", "lst"} : SigArrives(t)) \/ SigExits
  PROVE  EndInv'
<1>. USE DEF TypeInv, TcpTypeOK
<1>1. CASE \E t \in {"main", "lst"} : SigArrives(t)
  <2>1. Send("BYE") /\ UNCHANGED closed
    BY <1>1, Zenon DEF SigArrives
  <2>2. Parted'
    BY <2>1, SendEnds DEF Outgoing
  <2>. QED
    BY <2>2 DEF EndInv
<1>2. CASE SigExits
  <2>1. Parted
    BY <1>2 DEF SigExits, EndInv
  <2>. QED
    BY <2>1 DEF EndInv
<1>. QED
  BY <1>1, <1>2

LEMMA NextEnds ==
  ASSUME TypeInv, EndInv, [Next]_tcpVars
  PROVE  EndInv'
<1>1. CASE UNCHANGED tcpVars
  BY <1>1 DEF EndInv, Parted, Said, ByeNext
<1>2. CASE Next
  <2>1. exit = "none"
    BY <1>2 DEF Next, Running
  <2>2. Parted => Parted'
    BY <1>2, <2>1, PartedStays
  <2>3. CASE SrvNext
    <3>1. UNCHANGED <<pc, socket, exit, script>>
      BY <2>3, Zenon DEF SrvNext
    <3>. QED
      BY <2>2, <3>1 DEF EndInv, ByeNext
  <2>. QED
    BY <1>2, <2>1, <2>2, <2>3, MainEnds, LstEnds, SignalEnds DEF Next, Running
<1>. QED
  BY <1>1, <1>2

\* A client that the server has not left ends with a BYE, whoever ends it (the
\* user, a signal, a message of the server; TCP.c:52, 85, 339-370), even when
\* two of them end it at once and one has shut the connection already.
THEOREM TcpEndsWithBye == Spec => []EndsWithBye
<1>1. Init => EndInv
  <2>. SUFFICES ASSUME Init PROVE EndInv
    OBVIOUS
  <2>1. /\ socket = "open" /\ exit = "none"
        /\ pc = [main |-> "connect", lst |-> "off", sig |-> "idle"]
    BY Zenon DEF Init
  <2>. QED
    BY <2>1 DEF EndInv
<1>2. TypeInv /\ EndInv /\ [Next]_tcpVars => EndInv'
  BY NextEnds
<1>3. EndInv => EndsWithBye
  BY DEF EndInv, EndsWithBye, Parted
<1>. QED
  BY <1>1, <1>2, <1>3, TypeInvHolds, PTL DEF Spec

-----------------------------------------------------------------------------
(* For each request one verdict.                                          *)

\* The main thread waits for the verdict on its /auth or /join.
Asking == /\ pc.main \in {"test", "park", "sleep"}
          /\ Head(waits) \in {"auth", "join"}

\* Where the one verdict can be: asked for, under way, received, or noted.
Live(i)  == /\ i \in 1 .. Len(stream) /\ stream[i] \in Replies
            /\ ~(i = 1 /\ half)
Coming   == \E i \in 1 .. Len(stream) : Live(i)
Received == got \in Replies
Noted    == t_result_auth_flag \/ join_cond \/ t_reply
Settled  == Noted \/ (AUTH_FLAG /\ Head(waits) = "auth")

\* The main thread waits for what its command set out to get.
WaitInv ==
  /\ pc.main = "handle" => /\ AUTH_FLAG <=> line \notin AuthLines
                           /\ line \in AuthLines => current_command = "/auth"
                           /\ line \in JoinLines => current_command = "/join"
  /\ pc.main \in {"test", "park", "sleep"} =>
       waits \in {<<"auth", "msg">>, <<"join", "msg">>, <<"rename", "msg">>, <<"msg">>}
  /\ Asking => \/ /\ Head(waits) = "auth" /\ current_command = "/auth"
                  /\ ~join_cond /\ ~t_reply
               \/ /\ Head(waits) = "join" /\ current_command = "/join"
                  /\ ~t_result_auth_flag

\* One verdict at most, and none unless the main thread waits for it.
VerdictInv ==
  /\ \A i, j \in 1 .. Len(sent) : Request(i) /\ Request(j) => i = j
  /\ \A i, j \in 1 .. Len(stream) : Live(i) /\ Live(j) => i = j
  /\ Unserved => ~Coming /\ ~Received
  /\ Coming => ~Received
  /\ Asking /\ Settled => ~Unserved /\ ~Coming /\ ~Received
  /\ ~Asking => ~Unserved /\ ~Coming /\ ~Received /\ ~Noted

-----------------------------------------------------------------------------
(* Requests and verdicts under the steps.                                  *)

\* What the steps below need of the types.
LEMMA LinkTypes ==
  ASSUME TypeInv
  PROVE  /\ sent \in Seq(Outgoing) /\ stream \in Seq(Incoming)
         /\ Len(sent) \in Nat /\ Len(stream) \in Nat /\ served \in Nat
         /\ served <= Len(sent)
         /\ pc \in Labels /\ LinkType
  BY LenProperties DEF TypeInv, TcpTypeOK, LinkType, ControlType

\* Appending keeps what is there and adds one element.
LEMMA AppendAdds ==
  ASSUME NEW S, NEW s \in Seq(S), NEW e \in S
  PROVE  /\ Len(Append(s, e)) = Len(s) + 1
         /\ \A i \in 1 .. Len(s) : Append(s, e)[i] = s[i]
         /\ Append(s, e)[Len(s) + 1] = e
  BY LenProperties

\* Saying something else leaves the requests as they are.
LEMMA SendNoRequest ==
  ASSUME TypeInv, exit = "none", NEW m \in Outgoing \ Requests, Send(m),
         UNCHANGED served
  PROVE  \A i : /\ Request(i)' <=> Request(i)
                /\ Request(i) => sent'[i] = sent[i]
<1>1. CASE sent' = Append(sent, m)
  <2>1. /\ Len(sent') = Len(sent) + 1
        /\ \A i \in 1 .. Len(sent) : sent'[i] = sent[i]
        /\ sent'[Len(sent) + 1] = m
    BY <1>1, LinkTypes, AppendAdds
  <2>. QED
    BY <2>1, LinkTypes DEF Request
<1>2. CASE UNCHANGED sent
  BY <1>2 DEF Request
<1>. QED
  BY <1>1, <1>2 DEF Send

\* A request is where nothing was asked for, or is not sent at all.
LEMMA SendRequest ==
  ASSUME TypeInv, exit = "none", NEW m \in Requests, Send(m), ~Unserved,
         UNCHANGED served
  PROVE  \/ \A i : Request(i)' <=> i = Len(sent')
         \/ \A i : ~Request(i)'
<1>1. \A i \in 1 .. Len(sent) : ~Request(i)
  BY DEF Unserved
<1>2. CASE sent' = Append(sent, m)
  <2>1. /\ Len(sent') = Len(sent) + 1
        /\ \A i \in 1 .. Len(sent) : sent'[i] = sent[i]
        /\ sent'[Len(sent) + 1] = m
    BY <1>2, LinkTypes, AppendAdds DEF Outgoing
  <2>2. ASSUME NEW i PROVE Request(i)' <=> i = Len(sent')
    BY <1>1, <2>1, LinkTypes DEF Request
  <2>. QED
    BY <2>2
<1>3. CASE UNCHANGED sent
  BY <1>1, <1>3, LinkTypes DEF Request
<1>. QED
  BY <1>2, <1>3 DEF Send

\* While nobody asks, nothing is unanswered whatever the others do.
LEMMA FreeStep ==
  ASSUME TypeInv, VerdictInv, ~Asking, UNCHANGED <<stream, half>>,
         \A i : Request(i)' => Request(i), Received' => Received,
         Noted' => Noted
  PROVE  VerdictInv'
<1>1. ~Unserved /\ ~Coming /\ ~Received /\ ~Noted
  BY DEF VerdictInv
<1>2. ~Unserved' /\ ~Coming'
  BY <1>1, LinkTypes DEF Unserved, Coming, Live, Request
<1>3. /\ \A i \in 1 .. Len(sent') : ~Request(i)'
      /\ \A i \in 1 .. Len(stream') : ~Live(i)'
  BY <1>2 DEF Unserved, Coming
<1>. QED
  BY <1>1, <1>2, <1>3 DEF VerdictInv

\* A step that moves no verdict.
LEMMA SameStep ==
  ASSUME TypeInv, VerdictInv,
         \A i : Request(i)' <=> Request(i), \A i : Live(i)' <=> Live(i),
         Received' => Received,
         UNCHANGED <<AUTH_FLAG, t_result_auth_flag, join_cond, t_reply, waits>>,
         Asking' <=> Asking
  PROVE  VerdictInv'
<1>1. \A i : (Request(i) => i \in 1 .. Len(sent)) /\ (Live(i) => i \in 1 .. Len(stream))
  BY LinkTypes DEF Request, Live
<1>2. (Unserved' => Unserved) /\ (Coming' => Coming)
  BY <1>1 DEF Unserved, Coming
<1>3. (Noted' <=> Noted) /\ (Settled' <=> Settled)
  BY DEF Noted, Settled
<1>4. /\ \A i, j \in 1 .. Len(sent') : Request(i)' /\ Request(j)' => i = j
      /\ \A i, j \in 1 .. Len(stream') : Live(i)' /\ Live(j)' => i = j
  BY <1>1 DEF VerdictInv
<1>. QED
  BY <1>2, <1>3, <1>4 DEF VerdictInv

-----------------------------------------------------------------------------
(* The steps of the main thread.                                           *)

\* What a handler waits for.
LEMMA WaitsOfIs ==
  ASSUME NEW l
  PROVE  /\ l \in AuthLines => WaitsOf(l) = <<"auth", "msg">>
         /\ l \in JoinLines => WaitsOf(l) = <<"join", "msg">>
         /\ l \notin AuthLines \cup JoinLines =>
              WaitsOf(l) \in {<<"rename", "msg">>, <<"msg">>}
  BY DEF WaitsOf, AuthLines, JoinLines, RenameLines

\* The two commands that ask, as u_handle_command notes them.
LEMMA CommandOfIs ==
  ASSUME NEW l
  PROVE  /\ l \in AuthLines => CommandOf(l) = "/auth"
         /\ l \in JoinLines => CommandOf(l) = "/join"
<1>1. ASSUME l \in AuthLines PROVE CommandOf(l) = "/auth"
  BY <1>1 DEF CommandOf, AuthLines, JoinLines, RenameLines
<1>2. ASSUME l \in JoinLines PROVE CommandOf(l) = "/join"
  BY <1>2 DEF CommandOf, AuthLines, JoinLines, RenameLines
<1>. QED
  BY <1>1, <1>2

\* The heads of what is waited for, and what remains behind them.
LEMMA WaitsHeads ==
  /\ Head(<<"auth", "msg">>) = "auth" /\ Tail(<<"auth", "msg">>) = <<"msg">>
  /\ Head(<<"join", "msg">>) = "join" /\ Tail(<<"join", "msg">>) = <<"msg">>
  /\ Head(<<"rename", "msg">>) = "rename" /\ Tail(<<"rename", "msg">>) = <<"msg">>
  /\ Head(<<"msg">>) = "msg" /\ Len(<<"msg">>) = 1
  /\ Len(<<"auth", "msg">>) = 2 /\ Len(<<"join", "msg">>) = 2
  /\ Len(<<"rename", "msg">>) = 2
  OBVIOUS

\* The commands that answer nothing the server was asked.
LEMMA HandlingWaits ==
  ASSUME TypeInv, WaitInv, VerdictInv, Handling
  PROVE  WaitInv' /\ ~Asking
<1>1. pc \in Labels
  BY LinkTypes
<1>2. /\ pc.main = "handle" /\ pc'.main = "test" /\ waits' = WaitsOf(line)
      /\ UNCHANGED <<verdictVars, current_command, line>>
  BY <1>1 DEF Handling, Labels
<1>3. ~Asking /\ ~t_result_auth_flag /\ ~join_cond /\ ~t_reply
  BY <1>2 DEF Asking, VerdictInv, Noted
<1>4. /\ line \in AuthLines => current_command = "/auth"
      /\ line \in JoinLines => current_command = "/join"
  BY <1>2 DEF WaitInv
<1>5. WaitInv'
  BY <1>2, <1>3, <1>4, WaitsOfIs, WaitsHeads DEF WaitInv, Asking
<1>. QED
  BY <1>3, <1>5

\* u_send_auth_message, u_send_join_message, u_send_message.
LEMMA MainSendAsks ==
  ASSUME TypeInv, WaitInv, VerdictInv, exit = "none", MainSend
  PROVE  WaitInv' /\ VerdictInv'
<1>1. Handling /\ UNCHANGED served
  BY DEF MainSend, Handling
<1>2. WaitInv' /\ ~Asking
  BY <1>1, HandlingWaits
<1>3. UNCHANGED <<stream, half, got, t_result_auth_flag, join_cond, t_reply, AUTH_FLAG>>
  BY <1>1 DEF Handling
<1>4. CASE line = "msg" /\ Send("MSG")
  <2>1. \A i : Request(i)' <=> Request(i)
    BY <1>1, <1>4, SendNoRequest DEF Outgoing, Requests
  <2>. QED
    BY <1>2, <1>3, <2>1, FreeStep DEF Received, Noted
<1>5. CASE \/ line = "auth" /\ Send("AUTH")
           \/ line = "join" /\ Send("JOIN")
  <2>1. ~Unserved /\ ~Coming /\ ~Received /\ ~Noted
    BY <1>2 DEF VerdictInv
  <2>2. ~Coming' /\ ~Received' /\ ~Noted'
    BY <1>3, <2>1 DEF Coming, Live, Received, Noted
  <2>3. \/ \A i : Request(i)' <=> i = Len(sent')
        \/ \A i : ~Request(i)'
    BY <1>1, <1>5, <2>1, SendRequest DEF Requests
  <2>4. /\ \A i, j \in 1 .. Len(sent') : Request(i)' /\ Request(j)' => i = j
        /\ \A i, j \in 1 .. Len(stream') : Live(i)' /\ Live(j)' => i = j
    BY <2>2, <2>3 DEF Coming
  <2>5. Asking' /\ ~Settled'
    <3>1. /\ pc.main = "handle" /\ pc'.main = "test" /\ waits' = WaitsOf(line)
      BY <1>1, LinkTypes DEF Handling, Labels
    <3>2. line = "auth" => ~AUTH_FLAG
      BY <3>1 DEF WaitInv, AuthLines
    <3>3. /\ line = "auth" => Head(waits') = "auth"
          /\ line = "join" => Head(waits') = "join"
      BY <3>1, WaitsOfIs, WaitsHeads DEF AuthLines, JoinLines
    <3>. QED
      BY <1>3, <1>5, <2>2, <3>1, <3>2, <3>3 DEF Asking, Settled
  <2>. QED
    BY <1>2, <2>2, <2>4, <2>5 DEF VerdictInv
<1>. QED
  BY <1>4, <1>5 DEF MainSend

\* The flag the main thread waited for is up: the verdict has been taken, and
\* behind the reset nothing is left of it.
LEMMA MainPassTakes ==
  ASSUME TypeInv, WaitInv, VerdictInv, exit = "none", MainPass
  PROVE  WaitInv' /\ VerdictInv'
<1>1. /\ pc.main = "test" /\ Fulfilled(Head(waits)) /\ ResetFlags(Head(waits))
      /\ waits' = Tail(waits)
      /\ pc'.main = IF Len(waits) = 1 THEN "read" ELSE "test"
      /\ UNCHANGED <<AUTH_FLAG, current_command, line, stream, half, got,
                     served, sent>>
  BY LinkTypes DEF MainPass, Labels
<1>2. waits \in {<<"auth", "msg">>, <<"join", "msg">>, <<"rename", "msg">>,
                 <<"msg">>}
  BY <1>1 DEF WaitInv
<1>3. pc'.main = "test" => waits' = <<"msg">>
  BY <1>1, <1>2, WaitsHeads
<1>4. ~Asking' /\ pc'.main \in {"read", "test"}
  BY <1>1, <1>3, WaitsHeads DEF Asking
<1>5. WaitInv'
  BY <1>3, <1>4 DEF WaitInv
<1>6. ~Unserved /\ ~Coming /\ ~Received
  <2>1. CASE Asking
    <3>1. Settled
      BY <1>1, <2>1 DEF Asking, Settled, Noted, Fulfilled
    <3>. QED
      BY <2>1, <3>1 DEF VerdictInv
  <2>2. CASE ~Asking
    BY <2>2 DEF VerdictInv
  <2>. QED
    BY <2>1, <2>2
<1>7. ~Noted'
  <2>1. CASE Asking
    BY <1>1, <2>1 DEF WaitInv, ResetFlags, Noted
  <2>2. CASE ~Asking
    BY <1>1, <2>2 DEF VerdictInv, ResetFlags, Noted
  <2>. QED
    BY <2>1, <2>2
<1>8. ~Unserved' /\ ~Coming' /\ ~Received'
  BY <1>1, <1>6 DEF Unserved, Request, Coming, Live, Received
<1>9. /\ \A i \in 1 .. Len(sent') : ~Request(i)'
      /\ \A i \in 1 .. Len(stream') : ~Live(i)'
  BY <1>8 DEF Unserved, Coming
<1>. QED
  BY <1>4, <1>5, <1>7, <1>8, <1>9 DEF VerdictInv

\* The other steps of the main thread move no verdict.
LEMMA MainWaits ==
  ASSUME TypeInv, WaitInv, VerdictInv, exit = "none", MainNext
  PROVE  WaitInv' /\ VerdictInv'
<1>1. pc \in Labels /\ AUTH_FLAG \in BOOLEAN
  BY LinkTypes DEF TypeInv, TcpTypeOK, FlagType
<1>2. CASE MainSend
  BY <1>2, MainSendAsks
<1>3. CASE MainPass
  BY <1>3, MainPassTakes
<1>4. CASE MainPrint \/ MainRename
  <2>1. Handling /\ UNCHANGED sent
    BY <1>4 DEF MainPrint, MainRename
  <2>2. UNCHANGED <<stream, half, got, t_result_auth_flag, join_cond, t_reply,
                    served>>
    BY <2>1 DEF Handling
  <2>3. WaitInv' /\ ~Asking
    BY <2>1, HandlingWaits
  <2>. QED
    BY <2>1, <2>2, <2>3, FreeStep DEF Request, Received, Noted
<1>5. CASE MainRead
  <2>1. /\ pc.main = "read"
        /\ UNCHANGED <<AUTH_FLAG, stream, half, got, t_result_auth_flag,
                       join_cond, t_reply, served, sent, waits>>
    BY <1>5 DEF MainRead
  <2>2. PICK l \in Lines :
          /\ line' = l
          /\ \/ pc'.main = "handle" /\ ~Refused(l) /\ current_command' = CommandOf(l)
             \/ pc'.main \in {"bye", "read"}
    BY <1>1, <1>5, <2>1 DEF MainRead, Labels
  <2>3. WaitInv'
    <3>1. CASE pc'.main \in {"bye", "read"}
      BY <3>1 DEF WaitInv, Asking
    <3>2. CASE ~Refused(l) /\ current_command' = CommandOf(l) /\ pc'.main = "handle"
      <4>1. AUTH_FLAG <=> l \notin AuthLines
        BY <3>2, Zenon DEF Refused
      <4>2. /\ l \in AuthLines => current_command' = "/auth"
            /\ l \in JoinLines => current_command' = "/join"
        BY <3>2, CommandOfIs
      <4>. QED
        BY <2>1, <2>2, <3>2, <4>1, <4>2 DEF WaitInv, Asking
    <3>. QED
      BY <2>2, <3>1, <3>2
  <2>4. ~Asking
    BY <2>1 DEF Asking
  <2>. QED
    BY <2>1, <2>3, <2>4, FreeStep DEF Request, Received, Noted
<1>6. CASE MainConnect \/ MainBye \/ MainLeave
  <2>1. /\ pc.main \in {"connect", "bye", "leave"}
        /\ pc'.main \in {"connect", "read", "bye", "leave"}
        /\ UNCHANGED <<stream, half, got, t_result_auth_flag, join_cond,
                       t_reply, served>>
    BY <1>1, <1>6 DEF MainConnect, MainBye, MainLeave, WrapperExits, Ending, Labels
  <2>2. \A i : Request(i)' <=> Request(i)
    <3>1. UNCHANGED sent \/ Send("BYE")
      BY <1>6, Zenon DEF MainConnect, MainBye, MainLeave, Ending
    <3>. QED
      BY <2>1, <3>1, SendNoRequest DEF Request, Outgoing, Requests
  <2>3. ~Asking
    BY <2>1 DEF Asking
  <2>4. WaitInv'
    BY <2>1 DEF WaitInv, Asking
  <2>. QED
    BY <2>1, <2>2, <2>3, <2>4, FreeStep DEF Received, Noted
<1>7. CASE MainPark \/ MainSleep \/ MainSpuriousWakeup
  <2>1. /\ pc.main \in {"test", "park", "sleep"}
        /\ pc'.main \in {"test", "park", "sleep"}
        /\ UNCHANGED <<verdictVars, mainVars, lstVars, linkVars, serverVars, sent>>
    BY <1>1, <1>7 DEF MainPark, MainSleep, MainSpuriousWakeup, Waiting, Labels
  <2>2. Asking' <=> Asking
    BY <2>1 DEF Asking
  <2>3. WaitInv'
    BY <2>1, <2>2 DEF WaitInv
  <2>4. VerdictInv'
    BY <2>1, <2>2, SameStep DEF Request, Live, Received
  <2>. QED
    BY <2>3, <2>4
<1>. QED
  BY <1>2, <1>3, <1>4, <1>5, <1>6, <1>7 DEF MainNext, MainRun

-----------------------------------------------------------------------------
(* The steps of the listener.                                              *)

\* Only a verdict is received as one, and what stays in the stream was there.
LEMMA LstRecvMoves ==
  ASSUME TypeInv, VerdictInv, LstRecv
  PROVE  /\ Received' => Coming /\ ~Coming'
         /\ Coming' => Coming
         /\ \A i, j \in 1 .. Len(stream') : Live(i)' /\ Live(j)' => i = j
<1>1. PICK n \in 0 .. Len(stream), part \in BOOLEAN :
        /\ n > 0 \/ part
        /\ part => n < Len(stream)
        /\ \E k \in CASE half           -> {"JUNK"}
                      [] ~half /\ n = 0 -> Cut(Head(stream))
                      [] ~half /\ n > 0 -> {Whole(Head(stream))} : got' = k
        /\ stream' = SubSeq(stream, n + 1, Len(stream))
        /\ half' = part
  BY DEF LstRecv
<1>2. /\ Len(stream) \in Nat /\ stream # <<>> /\ Len(stream) >= 1
      /\ Head(stream) = stream[1] /\ stream[1] \in Incoming
  BY <1>1, LinkTypes, RecvHead
<1>3. half \in BOOLEAN
  BY DEF TypeInv, TcpTypeOK, FlagType
<1>4. Received' => Live(1)
  <2>1. half => got' = "JUNK"
    BY <1>1
  <2>2. ~half => got' \in Cut(stream[1]) \cup {Whole(stream[1])}
    BY <1>1, <1>2
  <2>3. Received' => stream[1] \in Replies
    BY <1>2, <2>1, <2>2 DEF Received, Replies, Cut, Whole
  <2>. QED
    BY <1>2, <2>1, <2>3 DEF Received, Live, Replies
<1>5. /\ Len(stream') = Len(stream) - n
      /\ \A i \in 1 .. Len(stream) - n : stream'[i] = stream[n + i]
  BY <1>1, LinkTypes, DropFront
<1>6. /\ n \in Nat /\ n <= Len(stream)
      /\ half' = part /\ (n > 0 \/ part)
  BY <1>1, <1>2
<1>7. ASSUME NEW i \in 1 .. Len(stream')
      PROVE  n + i \in 1 .. Len(stream)
  BY <1>2, <1>5, <1>6
<1>8. ASSUME NEW i \in 1 .. Len(stream'), Live(i)'
      PROVE  Live(n + i) /\ n + i # 1
  <2>1. ~(i = 1 /\ part) /\ stream'[i] \in Replies
    BY <1>6, <1>8 DEF Live
  <2>2. n + i # 1
    BY <1>6, <2>1
  <2>3. stream[n + i] \in Replies
    BY <1>2, <1>5, <2>1
  <2>. QED
    BY <1>7, <2>2, <2>3 DEF Live
<1>9. Received' => Coming /\ ~Coming'
  BY <1>2, <1>4, <1>7, <1>8 DEF Coming, VerdictInv
<1>10. \A i, j \in 1 .. Len(stream') : Live(i)' /\ Live(j)' => i = j
  BY <1>5, <1>6, <1>7, <1>8 DEF VerdictInv
<1>. QED
  BY <1>7, <1>8, <1>9, <1>10 DEF Coming

\* recv takes the verdict out of the stream.
LEMMA RecvTakes ==
  ASSUME TypeInv, WaitInv, VerdictInv, LstRecv
  PROVE  WaitInv' /\ VerdictInv'
<1>1. /\ UNCHANGED <<verdictVars, current_command, line, waits, served, sent>>
      /\ pc'.main = pc.main
  BY LinkTypes DEF LstRecv, Labels
<1>2. /\ Received' => Coming /\ ~Coming'
      /\ Coming' => Coming
      /\ \A i, j \in 1 .. Len(stream') : Live(i)' /\ Live(j)' => i = j
  BY LstRecvMoves
<1>3. WaitInv'
  BY <1>1 DEF WaitInv, Asking
<1>4. /\ Unserved' <=> Unserved
      /\ \A i, j \in 1 .. Len(sent') : Request(i)' /\ Request(j)' => i = j
  BY <1>1 DEF VerdictInv, Unserved, Request
<1>5. /\ Asking' <=> Asking
      /\ Noted' <=> Noted
      /\ Settled' <=> Settled
  BY <1>1 DEF Asking, Noted, Settled
<1>. QED
  BY <1>2, <1>3, <1>4, <1>5 DEF VerdictInv

\* The flag of the command that asked goes up, and no other.
LEMMA VerdictIsNoted ==
  ASSUME TypeInv, WaitInv, VerdictInv, LstVerdict
  PROVE  WaitInv' /\ VerdictInv'
<1>1. Received
  BY DEF LstVerdict, Received
<1>2. Asking /\ ~Unserved /\ ~Coming
  BY <1>1 DEF VerdictInv
<1>3. /\ pc.main \in {"test", "park", "sleep"}
      /\ pc'.main \in {"test", "park", "sleep"}
      /\ got' = "none"
      /\ UNCHANGED <<current_command, line, waits, served, sent, stream, half>>
  BY <1>2, LinkTypes DEF Asking, LstVerdict, Labels
<1>4. Asking'
  BY <1>2, <1>3 DEF Asking
<1>5. /\ current_command = "/auth" => UNCHANGED <<join_cond, t_reply>>
      /\ current_command = "/join" => UNCHANGED t_result_auth_flag
  <2>1. join_cond \in BOOLEAN /\ t_reply \in BOOLEAN /\ t_result_auth_flag \in BOOLEAN
    BY DEF TypeInv, TcpTypeOK, FlagType
  <2>. QED
    BY <2>1 DEF LstVerdict
<1>6. WaitInv'
  <2>1. \/ /\ Head(waits) = "auth" /\ current_command = "/auth"
           /\ ~join_cond /\ ~t_reply
        \/ /\ Head(waits) = "join" /\ current_command = "/join"
           /\ ~t_result_auth_flag
    BY <1>2 DEF WaitInv
  <2>2. \/ /\ Head(waits') = "auth" /\ current_command' = "/auth"
           /\ ~join_cond' /\ ~t_reply'
        \/ /\ Head(waits') = "join" /\ current_command' = "/join"
           /\ ~t_result_auth_flag'
    BY <1>3, <1>5, <2>1
  <2>3. waits' \in {<<"auth", "msg">>, <<"join", "msg">>, <<"rename", "msg">>,
                    <<"msg">>}
    BY <1>3 DEF WaitInv
  <2>4. pc'.main # "handle"
    BY <1>3
  <2>. QED
    BY <2>2, <2>3, <2>4 DEF WaitInv
<1>7. ~Unserved' /\ ~Coming' /\ ~Received'
  BY <1>2, <1>3 DEF Unserved, Request, Coming, Live, Received, Replies
<1>8. /\ \A i \in 1 .. Len(sent') : ~Request(i)'
      /\ \A i \in 1 .. Len(stream') : ~Live(i)'
  BY <1>7 DEF Unserved, Coming
<1>. QED
  BY <1>4, <1>6, <1>7, <1>8 DEF VerdictInv

\* The other steps of the listener move no verdict.
LEMMA LstWaits ==
  ASSUME TypeInv, WaitInv, VerdictInv, exit = "none", LstNext
  PROVE  WaitInv' /\ VerdictInv'
<1>1. CASE LstRecv
  BY <1>1, RecvTakes
<1>2. CASE LstVerdict
  BY <1>2, VerdictIsNoted
<1>3. CASE LstServerGone \/ LstFails \/ LstIgnore \/ LstFarewell \/ LstPerform
  <2>1. /\ UNCHANGED <<verdictVars, current_command, line, waits, served,
                       stream, half>>
        /\ UNCHANGED got \/ got' = "none"
    BY <1>3, Zenon DEF LstServerGone, LstFails, LstIgnore, LstFarewell,
       LstPerform, Ending
  <2>2. pc'.main = pc.main
    BY <1>3, LinkTypes DEF LstServerGone, LstFails, LstIgnore, LstFarewell,
       LstPerform, Ending, Labels
  <2>3. \A i : Request(i)' <=> Request(i)
    <3>1. UNCHANGED sent \/ \E m \in {"ERR", "BYE"} : Send(m)
      BY <1>3, Zenon DEF LstServerGone, LstFails, LstIgnore, LstFarewell,
         LstPerform, Ending
    <3>2. CASE UNCHANGED sent
      BY <2>1, <3>2 DEF Request
    <3>3. CASE \E m \in {"ERR", "BYE"} : Send(m)
      BY <2>1, <3>3, SendNoRequest DEF Outgoing, Requests
    <3>. QED
      BY <3>1, <3>2, <3>3
  <2>4. Received' => Received
    BY <2>1 DEF Received, Replies
  <2>5. \A i : Live(i)' <=> Live(i)
    BY <2>1 DEF Live
  <2>6. Asking' <=> Asking
    BY <2>1, <2>2 DEF Asking
  <2>7. WaitInv'
    BY <2>1, <2>2, <2>6 DEF WaitInv
  <2>. QED
    BY <2>1, <2>3, <2>4, <2>5, <2>6, <2>7, SameStep
<1>. QED
  BY <1>1, <1>2, <1>3 DEF LstNext, LstRun

-----------------------------------------------------------------------------
(* The steps of the server and of the signal handler.                      *)

\* The server answers the one request: its verdict is under way.
LEMMA ServeAnswers ==
  ASSUME TypeInv, VerdictInv, SrvServe, UNCHANGED <<sent, half, got>>
  PROVE  /\ Unserved /\ ~Unserved' /\ ~Received'
         /\ \A i, j \in 1 .. Len(stream') : Live(i)' /\ Live(j)' => i = j
<1>1. PICK r \in 1 .. Len(sent), verdict \in Replies :
        /\ Request(r) /\ stream' = Append(stream, verdict) /\ served' = r
  BY DEF SrvServe
<1>2. Unserved /\ ~Coming /\ ~Received
  BY <1>1 DEF Unserved, VerdictInv
<1>3. ~Unserved'
  <2>1. ASSUME NEW i \in 1 .. Len(sent), Request(i)'
        PROVE  FALSE
    <3>1. i \in r + 1 .. Len(sent) /\ sent[i] \in Requests
      BY <1>1, <2>1 DEF Request
    <3>2. Request(i)
      BY <1>1, <3>1, LinkTypes DEF Request
    <3>. QED
      BY <1>1, <3>1, <3>2 DEF VerdictInv
  <2>. QED
    BY <2>1 DEF Unserved
<1>4. /\ Len(stream') = Len(stream) + 1
      /\ \A i \in 1 .. Len(stream) : stream'[i] = stream[i]
  BY <1>1, LinkTypes, AppendAdds DEF Incoming
<1>5. ASSUME NEW i \in 1 .. Len(stream'), Live(i)'
      PROVE  i = Len(stream')
  <2>1. CASE i \in 1 .. Len(stream)
    BY <1>2, <1>4, <1>5, <2>1 DEF Live, Coming
  <2>. QED
    BY <1>4, <2>1, LinkTypes
<1>. QED
  BY <1>2, <1>3, <1>5 DEF Received

\* What the server sends on its own is no verdict.
LEMMA NotifySame ==
  ASSUME TypeInv, SrvNotify, UNCHANGED half
  PROVE  \A i : Live(i)' <=> Live(i)
<1>1. PICK k \in Notices : stream' = Append(stream, k)
  BY DEF SrvNotify
<1>2. k \in Incoming /\ k \notin Replies
  BY DEF Incoming, NoticeKinds, Replies
<1>3. /\ Len(stream') = Len(stream) + 1
      /\ \A i \in 1 .. Len(stream) : stream'[i] = stream[i]
      /\ stream'[Len(stream) + 1] = k
  BY <1>1, <1>2, LinkTypes, AppendAdds
<1>. QED
  BY <1>2, <1>3, LinkTypes DEF Live

\* Of the server: there is a verdict for each request and for nothing else.
LEMMA SrvWaits ==
  ASSUME TypeInv, WaitInv, VerdictInv, SrvNext
  PROVE  WaitInv' /\ VerdictInv'
<1>1. UNCHANGED <<verdictVars, current_command, line, waits, got, half, pc, sent>>
  BY Zenon DEF SrvNext
<1>2. WaitInv'
  BY <1>1 DEF WaitInv, Asking
<1>3. (Asking' <=> Asking) /\ (Noted' <=> Noted) /\ (Settled' <=> Settled)
  BY <1>1 DEF Asking, Noted, Settled
<1>4. CASE SrvServe
  <2>1. /\ Unserved /\ ~Unserved' /\ ~Received'
        /\ \A i, j \in 1 .. Len(stream') : Live(i)' /\ Live(j)' => i = j
    BY <1>1, <1>4, ServeAnswers
  <2>2. Asking' /\ ~Settled'
    BY <1>3, <2>1 DEF VerdictInv
  <2>3. \A i \in 1 .. Len(sent') : ~Request(i)'
    BY <2>1 DEF Unserved
  <2>. QED
    BY <1>2, <2>1, <2>2, <2>3 DEF VerdictInv
<1>5. CASE SrvNotify \/ SrvClose
  <2>1. UNCHANGED served
    BY <1>5 DEF SrvNotify, SrvClose
  <2>2. \A i : Live(i)' <=> Live(i)
    <3>1. CASE SrvNotify
      BY <1>1, <3>1, NotifySame
    <3>2. CASE SrvClose
      BY <1>1, <3>2 DEF SrvClose, Live
    <3>. QED
      BY <1>5, <3>1, <3>2
  <2>3. \A i : Request(i)' <=> Request(i)
    BY <1>1, <2>1 DEF Request
  <2>4. Received' => Received
    BY <1>1 DEF Received
  <2>. QED
    BY <1>1, <1>2, <1>3, <2>2, <2>3, <2>4, SameStep
<1>. QED
  BY <1>4, <1>5 DEF SrvNext

\* A signal adds a BYE at most.
LEMMA SignalWaits ==
  ASSUME TypeInv, WaitInv, VerdictInv, exit = "none",
         (\E t \in {"main", "lst"} : SigArrives(t)) \/ SigExits
  PROVE  WaitInv' /\ VerdictInv'
<1>1. UNCHANGED <<verdictVars, current_command, line, waits, got, stream, half,
                  served>>
  BY Zenon DEF SigArrives, SigExits, Ending
<1>2. pc'.main = pc.main
  BY LinkTypes DEF SigArrives, SigExits, Ending, Labels
<1>3. \A i : Request(i)' <=> Request(i)
  <2>1. UNCHANGED sent \/ Send("BYE")
    BY Zenon DEF SigArrives, SigExits, Ending
  <2>. QED
    BY <1>1, <2>1, SendNoRequest DEF Request, Outgoing, Requests
<1>4. WaitInv'
  BY <1>1, <1>2 DEF WaitInv, Asking
<1>5. (Received' => Received) /\ (Asking' <=> Asking) /\ \A i : Live(i)' <=> Live(i)
  BY <1>1, <1>2 DEF Received, Asking, Live
<1>. QED
  BY <1>1, <1>3, <1>4, <1>5, SameStep

-----------------------------------------------------------------------------
(* The verdict is where it belongs, in every state.                        *)

LEMMA InitVerdict == Init => WaitInv /\ VerdictInv
<1>. SUFFICES ASSUME Init PROVE WaitInv /\ VerdictInv
  OBVIOUS
<1>1. /\ pc.main = "connect" /\ got = "none" /\ sent = <<>> /\ stream = <<>>
  BY DEF Init
<1>2. ~t_result_auth_flag /\ ~join_cond /\ ~t_reply
  BY Zenon DEF Init
<1>3. Len(sent) = 0 /\ Len(stream) = 0
  BY <1>1
<1>. QED
  BY <1>1, <1>2, <1>3 DEF WaitInv, VerdictInv, Asking, Unserved, Coming,
     Received, Noted, Replies

LEMMA NextVerdict ==
  ASSUME TypeInv, WaitInv, VerdictInv, [Next]_tcpVars
  PROVE  WaitInv' /\ VerdictInv'
<1>1. CASE UNCHANGED tcpVars
  <2>1. (Received' => Received) /\ (Asking' <=> Asking)
    BY <1>1 DEF Received, Asking
  <2>2. \A i : (Live(i)' <=> Live(i)) /\ (Request(i)' <=> Request(i))
    BY <1>1 DEF Live, Request
  <2>3. WaitInv'
    BY <1>1, <2>1 DEF WaitInv
  <2>. QED
    BY <1>1, <2>1, <2>2, <2>3, SameStep
<1>. QED
  BY <1>1, MainWaits, LstWaits, SrvWaits, SignalWaits DEF Next, Running

LEMMA VerdictInvariant == Spec => [](TypeInv /\ WaitInv /\ VerdictInv)
<1>1. TypeInv /\ WaitInv /\ VerdictInv /\ [Next]_tcpVars
        => WaitInv' /\ VerdictInv'
  BY NextVerdict
<1>. QED
  BY InitVerdict, <1>1, TypeInvHolds, PTL DEF Spec

\* When the next line is read no verdict is left over that the next /join or
\* /auth would take for its own (TCP.c:107-124), although the flags are set
\* and reset without a lock.
THEOREM NothingLeftOver == Spec => []NoVerdictLeftOver
<1>1. VerdictInv => NoVerdictLeftOver
  BY DEF VerdictInv, Asking, Noted, NoVerdictLeftOver
<1>. QED
  BY <1>1, VerdictInvariant, PTL

-----------------------------------------------------------------------------
(* The dialogue is implemented, step by step.                              *)

\* The requests that wait for their verdict.
Pending == {m \in Requests : \E i \in 1 .. Len(sent) : Request(i) /\ sent[i] = m}

\* The dialogue's view of the client.
View == <<sent, Pending, accepted>>

LEMMA ViewOfDialogue ==
  /\ D!dialogueVars = View /\ (UNCHANGED D!dialogueVars <=> UNCHANGED View)
  /\ D!DialogueInit <=> sent = <<>> /\ Pending = {} /\ accepted = FALSE
  /\ \A m : D!Ask(m) <=>
       /\ Pending = {} /\ (m = "AUTH" \/ accepted)
       /\ sent' = Append(sent, m) /\ Pending' = {m} /\ UNCHANGED accepted
  /\ D!Say <=> /\ Pending = {} /\ accepted
               /\ sent' = Append(sent, "MSG") /\ UNCHANGED <<Pending, accepted>>
  /\ D!TakeLeave <=> /\ \E m \in {"ERR", "BYE"} : sent' = Append(sent, m)
                     /\ UNCHANGED <<Pending, accepted>>
  /\ D!Answer <=> /\ Pending # {} /\ Pending' = {}
                  /\ accepted' \in {accepted, accepted \/ "AUTH" \in Pending}
                  /\ UNCHANGED sent
  BY DEF D!dialogueVars, D!DialogueInit, D!Ask, D!Say, D!TakeLeave, D!Answer,
     View, Pending

\* What leaves the requests alone leaves what is pending.
LEMMA PendingStays ==
  ASSUME TypeInv, UNCHANGED <<sent, served>>
  PROVE  Pending' = Pending
  BY DEF Pending, Request

\* A MSG, an ERR or a BYE leaves what is pending.
LEMMA PendingOverOthers ==
  ASSUME TypeInv, exit = "none", NEW m \in Outgoing \ Requests, Send(m),
         UNCHANGED served
  PROVE  Pending' = Pending
<1>1. \A i : (Request(i)' <=> Request(i)) /\ (Request(i) => sent'[i] = sent[i])
  BY SendNoRequest
<1>2. \A i : /\ Request(i) => i \in 1 .. Len(sent)
             /\ Request(i)' => i \in 1 .. Len(sent')
  <2>1. served \in Nat /\ served' = served
    BY LinkTypes
  <2>. QED
    BY <2>1 DEF Request
<1>3. \A n \in Requests :
        (\E i \in 1 .. Len(sent') : Request(i)' /\ sent'[i] = n)
          <=> (\E i \in 1 .. Len(sent) : Request(i) /\ sent[i] = n)
  BY <1>1, <1>2
<1>. QED
  BY <1>3 DEF Pending

\* Taking leave, or nothing the server sees.
LEMMA LeaveMaps ==
  ASSUME TypeInv, exit = "none", NEW m \in {"ERR", "BYE"}, Send(m),
         UNCHANGED <<served, accepted>>
  PROVE  D!TakeLeave \/ UNCHANGED D!dialogueVars
<1>1. Pending' = Pending
  BY PendingOverOthers DEF Outgoing, Requests
<1>2. sent' = Append(sent, m) \/ UNCHANGED sent
  BY DEF Send
<1>. QED
  BY <1>1, <1>2, ViewOfDialogue DEF View

\* A request is made, or a message sent, when nothing is pending and, but for
\* AUTH, the server has accepted.
LEMMA SendMaps ==
  ASSUME TypeInv, WaitInv, VerdictInv, GateInv, exit = "none", MainSend
  PROVE  \/ D!Say \/ (\E r \in {"AUTH", "JOIN"} : D!Ask(r))
         \/ UNCHANGED D!dialogueVars
<1>1. pc.main = "handle" /\ UNCHANGED <<served, accepted>>
  BY DEF MainSend, Handling
<1>2. ~Unserved
  BY <1>1 DEF VerdictInv, Asking
<1>3. Pending = {}
  BY <1>2 DEF Unserved, Pending
<1>4. line \notin AuthLines => accepted
  BY <1>1 DEF WaitInv, GateInv, Quiet
<1>5. CASE UNCHANGED sent
  BY <1>1, <1>5, PendingStays, ViewOfDialogue DEF View
<1>6. CASE line = "msg" /\ Send("MSG") /\ sent' = Append(sent, "MSG")
  <2>1. Pending' = Pending
    BY <1>1, <1>6, PendingOverOthers DEF Outgoing, Requests
  <2>2. accepted
    BY <1>4, <1>6 DEF AuthLines
  <2>. QED
    BY <1>1, <1>3, <1>6, <2>1, <2>2, ViewOfDialogue
<1>7. ASSUME NEW r \in {"AUTH", "JOIN"}, sent' = Append(sent, r),
             r = "AUTH" \/ line = "join"
      PROVE  D!Ask(r)
  <2>1. /\ Len(sent) \in Nat /\ served \in Nat /\ served <= Len(sent)
        /\ Len(sent') = Len(sent) + 1
        /\ \A i \in 1 .. Len(sent) : sent'[i] = sent[i]
        /\ sent'[Len(sent) + 1] = r
    BY <1>7, LinkTypes, AppendAdds DEF Outgoing, Requests
  <2>2. \A i \in 1 .. Len(sent) : ~Request(i)
    BY <1>2 DEF Unserved
  <2>3. \A i \in 1 .. Len(sent') : Request(i)' <=> i = Len(sent) + 1
    BY <1>1, <2>1, <2>2 DEF Request, Requests
  <2>4. Len(sent) + 1 \in 1 .. Len(sent')
    BY <2>1
  <2>5. Pending' = {r}
    BY <2>1, <2>3, <2>4 DEF Pending, Requests
  <2>6. r = "AUTH" \/ accepted
    BY <1>4, <1>7 DEF AuthLines
  <2>. QED
    BY <1>1, <1>3, <1>7, <2>5, <2>6, ViewOfDialogue
<1>8. \/ UNCHANGED sent
      \/ line = "msg" /\ Send("MSG") /\ sent' = Append(sent, "MSG")
      \/ line = "auth" /\ sent' = Append(sent, "AUTH")
      \/ line = "join" /\ sent' = Append(sent, "JOIN")
  BY DEF MainSend, Send
<1>. QED
  BY <1>5, <1>6, <1>7, <1>8

\* The server's verdict answers what is pending.
LEMMA ServeMaps ==
  ASSUME TypeInv, VerdictInv, SrvServe, UNCHANGED <<sent, half, got>>
  PROVE  D!Answer
<1>1. PICK r \in 1 .. Len(sent), verdict \in Replies :
        /\ Request(r)
        /\ accepted' = (accepted \/ (sent[r] = "AUTH" /\ verdict = "OK"))
  BY DEF SrvServe
<1>2. sent[r] \in Pending
  BY <1>1 DEF Pending, Request
<1>3. Pending' = {}
  BY ServeAnswers DEF Pending, Unserved
<1>4. accepted' \in {accepted, accepted \/ "AUTH" \in Pending}
  <2>1. accepted \in BOOLEAN
    BY DEF TypeInv, TcpTypeOK, FlagType
  <2>2. CASE sent[r] = "AUTH" /\ verdict = "OK"
    <3>1. "AUTH" \in Pending
      BY <1>2, <2>2
    <3>. QED
      BY <1>1, <2>2, <3>1
  <2>3. CASE ~(sent[r] = "AUTH" /\ verdict = "OK")
    BY <1>1, <2>1, <2>3, Zenon
  <2>. QED
    BY <2>2, <2>3
<1>. QED
  BY <1>2, <1>3, <1>4, ViewOfDialogue

\* Every step is a step of the dialogue, or none the server sees.
LEMMA NextMaps ==
  ASSUME TypeInv, WaitInv, VerdictInv, GateInv, [Next]_tcpVars
  PROVE  [D!DialogueNext]_(D!dialogueVars)
<1>. USE DEF D!DialogueNext
<1>1. ASSUME UNCHANGED <<sent, served, accepted>>
      PROVE  UNCHANGED D!dialogueVars
  BY <1>1, PendingStays, ViewOfDialogue DEF View
<1>2. ASSUME exit = "none", NEW m \in {"ERR", "BYE"}, Send(m),
             UNCHANGED <<served, accepted>>
      PROVE  [D!DialogueNext]_(D!dialogueVars)
  BY <1>2, LeaveMaps
<1>3. CASE UNCHANGED tcpVars
  BY <1>1, <1>3
<1>4. CASE exit = "none" /\ MainNext
  <2>1. CASE MainSend
    BY <1>4, <2>1, SendMaps
  <2>2. CASE ~MainSend
    <3>1. UNCHANGED <<served, accepted>> /\ (UNCHANGED sent \/ Send("BYE"))
      BY <1>4, <2>2, Zenon DEF MainNext, MainRun, MainConnect, MainRead,
         MainPrint, MainRename, MainPass, MainPark, MainSleep,
         MainSpuriousWakeup, MainBye, MainLeave, Handling, Waiting, Ending
    <3>. QED
      BY <1>1, <1>2, <1>4, <3>1
  <2>. QED
    BY <2>1, <2>2
<1>5. CASE exit = "none" /\ LstNext
  <2>1. /\ UNCHANGED <<served, accepted>>
        /\ UNCHANGED sent \/ \E m \in {"ERR", "BYE"} : Send(m)
    BY <1>5, Zenon DEF LstNext, LstRun, LstRecv, LstServerGone, LstFails,
       LstIgnore, LstVerdict, LstFarewell, LstPerform, Ending
  <2>. QED
    BY <1>1, <1>2, <1>5, <2>1
<1>6. CASE exit = "none" /\ ((\E t \in {"main", "lst"} : SigArrives(t)) \/ SigExits)
  <2>1. UNCHANGED <<served, accepted>> /\ (UNCHANGED sent \/ Send("BYE"))
    BY <1>6, Zenon DEF SigArrives, SigExits, Ending
  <2>. QED
    BY <1>1, <1>2, <1>6, <2>1
<1>7. CASE SrvNext
  <2>1. UNCHANGED <<sent, half, got>>
    BY <1>7 DEF SrvNext
  <2>2. CASE SrvServe
    BY <2>1, <2>2, ServeMaps
  <2>3. CASE SrvNotify \/ SrvClose
    BY <1>1, <2>1, <2>3 DEF SrvNotify, SrvClose
  <2>. QED
    BY <1>7, <2>2, <2>3 DEF SrvNext
<1>. QED
  BY <1>3, <1>4, <1>5, <1>6, <1>7 DEF Next, Running

\* The client speaks only when its last request has been answered, and only
\* AUTH before one was accepted (TCP.c:95-124, 485, 509, 536); only its leave
\* it takes at any time.
THEOREM DialogueImplemented == Spec => ImplementsDialogue
<1>1. Init => D!DialogueInit
  <2>. SUFFICES ASSUME Init PROVE D!DialogueInit
    OBVIOUS
  <2>1. sent = <<>> /\ Len(sent) = 0
    BY DEF Init
  <2>2. Pending = {}
    BY <2>1 DEF Pending
  <2>3. accepted = FALSE
    BY Zenon DEF Init
  <2>. QED
    BY <2>1, <2>2, <2>3, ViewOfDialogue
<1>2. TypeInv /\ WaitInv /\ VerdictInv /\ GateInv /\ [Next]_tcpVars
        => [D!DialogueNext]_(D!dialogueVars)
  BY NextMaps
<1>. QED
  BY <1>1, <1>2, VerdictInvariant, GateInvariant, PTL
     DEF Spec, ImplementsDialogue, D!DialogueSpec

=============================================================================
