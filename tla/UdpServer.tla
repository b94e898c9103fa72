------------------------------ MODULE UdpServer ------------------------------
(***************************************************************************)
(* External: the chat server, as the client relies on it.  It confirms     *)
(* every message that is to be confirmed, acts on the first receipt of a   *)
(* user message and answers a request once.  Datagrams stay in toServer    *)
(* and toClient, so each may be received late, repeatedly or never.        *)
(***************************************************************************)
EXTENDS UdpState

srvElsewhere == <<queueVars, flagVars, stopVars, authVars, userVars,
                  last_message_id, mutex, pc, draft, slot, localVars, rcvVars,
                  lifeVars, toServer>>

Known(m)  == \E i \in 1 .. Len(served) : served[i].id = m.id

Confirmation(m)  == [type |-> "CONFIRM", id |-> m.id, ok |-> FALSE]
Verdict(m, ok)   == [type |-> "REPLY", id |-> m.id, ok |-> ok]
Notice(k)        == [type |-> k, id |-> 0, ok |-> FALSE]

SrvConfirm ==
  /\ ConfirmsClosing
  /\ \E d \in toServer :
       /\ d.msg.type \in {"BYE", "ERR"}
       /\ toClient' = toClient \cup {Confirmation(d.msg)}
  /\ UNCHANGED <<srvElsewhere, served, accepted>>

SrvServe ==
  /\ \E d \in toServer, ok \in BOOLEAN :
       /\ d.msg.type \in UserTypes
       /\ ~Known(d.msg)
       /\ served' = Append(served, d.msg)
       /\ accepted' = (accepted \/ (d.msg.type = "AUTH" /\ ok))
       /\ toClient' = toClient \cup {Confirmation(d.msg)} \cup
                      (IF d.msg.type = "MSG" THEN {} ELSE {Verdict(d.msg, ok)})
  /\ UNCHANGED srvElsewhere

\* Once it has heard of the client, the server may send what nobody asked for;
\* since receipt is optional it need not be said when it sends which.
SrvNotify ==
  /\ toServer # {}
  /\ toClient' = toClient \cup {Notice(k) : k \in Notices}
  /\ UNCHANGED <<srvElsewhere, served, accepted>>

SrvNext == SrvConfirm \/ SrvServe \/ SrvNotify

=============================================================================
