--------------------------- MODULE TcpMainThread ---------------------------
(***************************************************************************)
(* connect_to_server_tcp and the handlers of the user's commands.  Waiting *)
(* for a condition is three steps: the test of its flag, the moment before *)
(* pthread_cond_wait sleeps ("park"), and the sleep.                       *)
(***************************************************************************)
EXTENDS TcpState

\* Socket, Inet_pton and Connect exit when their system call fails.
WrapperExits == exit' = "failed" /\ UNCHANGED pc

MainConnect ==
  /\ At("main", "connect")
  /\ \/ pc' = [pc EXCEPT !.main = "read", !.lst = "recv"] /\ UNCHANGED exit
     \/ WrapperExits
  /\ UNCHANGED <<verdictVars, mainVars, lstVars, linkVars, serverVars, sent>>

CommandOf(l) == CASE l \in AuthLines   -> "/auth"
                  [] l \in JoinLines   -> "/join"
                  [] l \in RenameLines -> "/rename"
                  [] l = "help"        -> "/help"
                  [] l = "unknown"     -> "Unknown"
                  [] OTHER             -> current_command

\* Mutant: only the second of the two tests, "You cannot auth twice".
RefusedTwice(l) == AUTH_FLAG /\ l \in AuthLines

\* Before authentication only /auth is taken, afterwards all but /auth.
Refused(l) == AUTH_FLAG <=> l \in AuthLines

MainRead ==
  /\ At("main", "read") /\ lines_read < MaxLines
  /\ \E l \in Lines :
       /\ line' = l
       /\ CASE l = "eof"   -> Go("main", "bye") /\ UNCHANGED current_command
            [] l # "eof" /\ Refused(l)  -> UNCHANGED <<pc, current_command>>
            [] l # "eof" /\ ~Refused(l) -> /\ Go("main", "handle")
                                           /\ current_command' = CommandOf(l)
  /\ lines_read' = lines_read + 1
  /\ UNCHANGED <<verdictVars, rename_cond, t_msg_condition, dname, waits,
                 lstVars, linkVars, serverVars, exit, sent>>

\* Mutant: /join waits for no verdict.
WaitsNotForJoin(l) == CASE l \in AuthLines   -> <<"auth", "msg">>
                        [] l \in RenameLines -> <<"rename", "msg">>
                        [] OTHER             -> <<"msg">>

WaitsOf(l) == CASE l \in AuthLines   -> <<"auth", "msg">>
                [] l \in JoinLines   -> <<"join", "msg">>
                [] l \in RenameLines -> <<"rename", "msg">>
                [] OTHER             -> <<"msg">>

Handling == /\ At("main", "handle")
            /\ Go("main", "test")
            /\ waits' = WaitsOf(line)
            /\ UNCHANGED <<verdictVars, current_command, line, lines_read,
                           lstVars, linkVars, serverVars>>

\* A well-formed /auth or /join, or a message under a valid name.
MainSend ==
  /\ Handling
  /\ \/ line = "auth" /\ Send("AUTH") /\ dname' = "good"
     \/ line = "join" /\ Send("JOIN") /\ UNCHANGED dname
     \/ line = "msg" /\ dname = "good" /\ Send("MSG") /\ UNCHANGED dname
  /\ t_msg_condition' = TRUE
  /\ UNCHANGED rename_cond

\* An error message or the help text instead.
MainPrint ==
  /\ Handling
  /\ \/ line \in {"badAuth", "badJoin", "help", "unknown"}
     \/ line = "msg" /\ dname # "good"
  /\ t_msg_condition' = TRUE
  /\ UNCHANGED <<rename_cond, dname, exit, sent>>

MainRename ==
  /\ Handling
  /\ line \in RenameLines
  /\ dname' = CASE line = "rename"    -> "good"
                [] line = "badRename" -> "bad"
                [] line = "noRename"  -> dname
  /\ rename_cond' = TRUE
  /\ UNCHANGED <<t_msg_condition, exit, sent>>

Fulfilled(c) == CASE c = "auth"   -> AUTH_FLAG \/ t_result_auth_flag
                  [] c = "join"   -> join_cond \/ t_reply
                  [] c = "rename" -> rename_cond
                  [] c = "msg"    -> t_msg_condition

\* Mutant: t_reply is not reset.
ResetFlagsButOne(c) ==
  /\ t_result_auth_flag' = (t_result_auth_flag /\ c # "auth")
  /\ join_cond' = (join_cond /\ c # "join")
  /\ t_reply' = t_reply
  /\ rename_cond' = (rename_cond /\ c # "rename")
  /\ t_msg_condition' = (c = "rename" \/ (t_msg_condition /\ c # "msg"))

\* The flags are reset behind the loop, without a lock.
ResetFlags(c) ==
  /\ t_result_auth_flag' = (t_result_auth_flag /\ c # "auth")
  /\ join_cond' = (join_cond /\ c # "join")
  /\ t_reply' = (t_reply /\ c # "join")
  /\ rename_cond' = (rename_cond /\ c # "rename")
  /\ t_msg_condition' = (c = "rename" \/ (t_msg_condition /\ c # "msg"))

MainPass ==
  /\ At("main", "test") /\ Fulfilled(Head(waits))
  /\ ResetFlags(Head(waits))
  /\ waits' = Tail(waits)
  /\ Go("main", IF Len(waits) = 1 THEN "read" ELSE "test")
  /\ UNCHANGED <<AUTH_FLAG, current_command, dname, line, lines_read, lstVars,
                 linkVars, serverVars, exit, sent>>

Waiting(from, to) == /\ At("main", from) /\ Go("main", to)
                     /\ UNCHANGED <<verdictVars, mainVars, lstVars, linkVars,
                                    serverVars, exit, sent>>

MainPark  == Waiting("test", "park") /\ ~Fulfilled(Head(waits))
MainSleep == Waiting("park", "sleep")
MainSpuriousWakeup == Waiting("sleep", "test")

MainBye == /\ At("main", "bye") /\ Go("main", "leave") /\ Send("BYE")
           /\ UNCHANGED <<verdictVars, mainVars, lstVars, linkVars, serverVars>>

Ending(why) == /\ exit' = why
               /\ UNCHANGED <<verdictVars, mainVars, lstVars, linkVars,
                              serverVars, pc, sent>>

MainLeave == At("main", "leave") /\ Ending("done")

MainRun == \/ MainSend \/ MainPrint \/ MainRename \/ MainPass \/ MainPark
           \/ MainSleep \/ MainBye \/ MainLeave
MainNext == MainConnect \/ MainRead \/ MainRun \/ MainSpuriousWakeup

=============================================================================
