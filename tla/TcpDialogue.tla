----------------------------- MODULE TcpDialogue -----------------------------
(***************************************************************************)
(* The TCP client, with its server, implements Dialogue.                   *)
(***************************************************************************)
EXTENDS TcpClient

D == INSTANCE Dialogue WITH
       said    <- sent,
       pending <- {m \in Requests : \E i \in 1 .. Len(sent) :
                                      Request(i) /\ sent[i] = m},
       open    <- accepted

\* The client speaks only when its last request has been answered, and only
\* AUTH before one was accepted (TCP.c:95-124, 485, 509, 536); only its leave
\* it takes at any time.
ImplementsDialogue == D!DialogueSpec

=============================================================================
