------------------------------ MODULE UdpOutbox ------------------------------
(***************************************************************************)
(* The UDP client implements Outbox.  An abstract message is what the user *)
(* asked for: the id is left out.                                          *)
(***************************************************************************)
EXTENDS UdpClient

UserMessage == [type : UserTypes, body : 1 .. MaxLines, name : 0 .. MaxLines]
Content(m)  == [type |-> m.type, body |-> m.body, name |-> m.name]
Contents(s) == [i \in 1 .. Len(s) |-> Content(s[i])]

Abstract == INSTANCE Outbox WITH Item      <- UserMessage,
                                 submitted <- Contents(submitted),
                                 delivered <- Contents(served),
                                 closing   <- EndBegun

\* The messages queued by the command thread (UDP.c:717, 761, 810) reach the
\* server once each, unaltered and in order, and process_commands takes the
\* next line only when the last message has arrived (UDP.c:506-511).
ImplementsOutbox == Abstract!OutboxSpec

=============================================================================
