---------------------------- MODULE TcpListener ----------------------------
(***************************************************************************)
(* listen_to_server and handle_server_message.  recv delivers a piece of   *)
(* the stream, and the piece is handled as one message.                    *)
(***************************************************************************)
EXTENDS TcpMainThread

\* A whole first line: the carriage return stays in the only token of BYE.
Whole(k) == IF k = "BYE" THEN "JUNK" ELSE k

\* A line cut short is continued by what the buffer held before, so its end
\* may be missing, or that of an earlier line.  A NOK passes for an OK only if
\* an OK has been there.
Cut(k) == {"JUNK"} \cup
  CASE k = "OK"                -> {"OK", "NOK", "BADREPLY"}
    [] k = "NOK"               -> {"NOK", "BADREPLY"}
                                    \cup (IF AUTH_FLAG THEN {"OK"} ELSE {})
    [] k \in {"MSG", "BADMSG"} -> {"MSG", "BADMSG"}
    [] k \in {"ERR", "BADERR"} -> {"ERR", "BADERR"}
    [] OTHER                   -> {k}

\* n whole lines and, if part, the beginning of the next one.  Only the first
\* is looked at; what is left of a line cut before is no message.  Left out is a
\* cut in front of the line's end: sscanf would skip what is left of that line.
LstRecv ==
  /\ At("lst", "recv")
  /\ \E n \in 0 .. Len(stream), part \in BOOLEAN :
       /\ n > 0 \/ part
       /\ part => n < Len(stream)
       /\ \E k \in CASE half           -> {"JUNK"}
                     [] ~half /\ n = 0 -> Cut(Head(stream))
                     [] ~half /\ n > 0 -> {Whole(Head(stream))} : got' = k
       /\ stream' = SubSeq(stream, n + 1, Len(stream))
       /\ half' = part
       /\ lost' = (lost \/ \E i \in 2 .. n : stream[i] \in Replies)
  /\ Go("lst", "handle")
  /\ UNCHANGED <<verdictVars, mainVars, script, socket, serverVars, exit, sent>>

\* recv returns 0: the listener returns, the main thread is not told.
LstServerGone ==
  /\ At("lst", "recv") /\ closed /\ stream = <<>>
  /\ Go("lst", "ended")
  /\ UNCHANGED <<verdictVars, mainVars, lstVars, linkVars, serverVars, exit, sent>>

LstFails == At("lst", "recv") /\ Ending("failed")

\* No character is compared while current_command is empty: a match.
LstIgnore ==
  /\ At("lst", "handle")
  /\ current_command = "" \/ got \in {"MSG", "BADREPLY"}
  /\ Go("lst", "recv")
  /\ got' = "none"
  /\ UNCHANGED <<verdictVars, mainVars, script, socket, linkVars, serverVars,
                 exit, sent>>

\* Mutant: the flag goes up and nobody is woken.
LstVerdictSilent ==
  /\ At("lst", "handle")
  /\ current_command # "" /\ got \in Replies
  /\ AUTH_FLAG' = (AUTH_FLAG \/ (current_command = "/auth" /\ got = "OK"))
  /\ t_result_auth_flag' = (t_result_auth_flag
                             \/ (current_command = "/auth" /\ got = "NOK"))
  /\ join_cond' = (join_cond \/ (current_command = "/join" /\ got = "OK"))
  /\ t_reply' = (t_reply \/ (current_command = "/join" /\ got = "NOK"))
  /\ Go("lst", "recv")
  /\ got' = "none"
  /\ UNCHANGED <<mainVars, script, socket, linkVars, serverVars, exit, sent>>

\* The flag of the condition c that current_command stands for goes up and c
\* is signalled, without the mutex: only a thread asleep notices.
LstVerdict ==
  /\ At("lst", "handle")
  /\ current_command # "" /\ got \in Replies
  /\ LET c == CASE current_command = "/auth" -> "auth"
                [] current_command = "/join" -> "join"
                [] OTHER                     -> "none"
         ok == got = "OK"
     IN  /\ AUTH_FLAG' = (AUTH_FLAG \/ (c = "auth" /\ ok))
         /\ t_result_auth_flag' = (t_result_auth_flag \/ (c = "auth" /\ ~ok))
         /\ join_cond' = (join_cond \/ (c = "join" /\ ok))
         /\ t_reply' = (t_reply \/ (c = "join" /\ ~ok))
         /\ pc' = [pc EXCEPT !.lst = "recv",
                             !.main = IF @ = "sleep" /\ Head(waits) = c
                                      THEN "test" ELSE @]
         /\ lost' = (lost \/ (pc.main = "park" /\ Head(waits) = c))
  /\ got' = "none"
  /\ UNCHANGED <<mainVars, script, socket, stream, half, serverVars, exit, sent>>

\* Mutant: the connection is shut before the BYE.
FarewellShutFirst(k) == CASE k = "JUNK" -> <<"ERR", "BYE", "exit">>
                          [] k # "JUNK" -> <<"shut", "BYE", "close", "exit">>

\* Mutant: after an unknown message the listener does not exit.
FarewellStay(k) == CASE k = "JUNK" -> <<"ERR", "BYE">>
                     [] k # "JUNK" -> <<"BYE", "shut", "close", "exit">>

Farewell(k) ==
  CASE k \in {"BADMSG", "BADERR"} -> <<"ERR", "BYE", "shut", "close", "exit">>
    [] k \in {"ERR", "BYE"}       -> <<"BYE", "shut", "close", "exit">>
    [] k = "JUNK"                 -> <<"ERR", "BYE", "exit">>

LstFarewell ==
  /\ At("lst", "handle")
  /\ current_command # "" /\ got \notin Replies \cup {"MSG", "BADREPLY"}
  /\ script' = Farewell(got)
  /\ Go("lst", "script")
  /\ got' = "none"
  /\ UNCHANGED <<verdictVars, mainVars, socket, linkVars, serverVars,
                 exit, sent>>

LstPerform ==
  /\ At("lst", "script")
  /\ script' = Tail(script)
  /\ \/ Head(script) \in {"ERR", "BYE"} /\ Send(Head(script)) /\ UNCHANGED socket
     \/ Head(script) = "shut" /\ socket' = "shut" /\ UNCHANGED <<sent, exit>>
     \/ Head(script) = "close" /\ socket' = "closed" /\ UNCHANGED <<sent, exit>>
     \/ Head(script) = "exit" /\ exit' = "done" /\ UNCHANGED <<sent, socket>>
  /\ UNCHANGED <<verdictVars, mainVars, got, linkVars, serverVars, pc>>

LstRun == \/ LstRecv \/ LstServerGone \/ LstIgnore \/ LstVerdict \/ LstFarewell
          \/ LstPerform
LstNext == LstRun \/ LstFails

=============================================================================
