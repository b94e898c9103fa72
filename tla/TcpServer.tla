----------------------------- MODULE TcpServer -----------------------------
(***************************************************************************)
(* The chat server at the far end of the connection (external): it answers *)
(* each request once and in order, sends other lines on its own, and may   *)
(* close the connection.                                                   *)
(***************************************************************************)
EXTENDS TcpListener

Request(i) == i \in served + 1 .. Len(sent) /\ sent[i] \in Requests
Unserved   == \E i \in 1 .. Len(sent) : Request(i)

SrvServe ==
  /\ \E i \in 1 .. Len(sent), verdict \in Replies :
       /\ Request(i) /\ \A j \in 1 .. i - 1 : ~Request(j)
       /\ stream' = Append(stream, verdict)
       /\ accepted' = (accepted \/ (sent[i] = "AUTH" /\ verdict = "OK"))
       /\ served' = i
  /\ UNCHANGED <<notices, closed>>

SrvNotify ==
  /\ notices < MaxNotices
  /\ \E k \in Notices : stream' = Append(stream, k)
  /\ notices' = notices + 1
  /\ UNCHANGED <<served, accepted, closed>>

SrvClose == closed' = TRUE /\ UNCHANGED <<stream, served, accepted, notices>>

SrvNext ==
  /\ pc.main # "connect" /\ ~closed
  /\ SrvServe \/ SrvNotify \/ SrvClose
  /\ UNCHANGED <<verdictVars, mainVars, lstVars, half, lost, pc, exit, sent>>

=============================================================================
