------------------------------- MODULE Outbox -------------------------------
(***************************************************************************)
(* What the outgoing half of the client promises, without threads, queue,  *)
(* ids or datagrams: the messages of the user reach the server once each   *)
(* and in order, and until the session is being closed a message is        *)
(* accepted only when the one before it has arrived.                       *)
(***************************************************************************)
EXTENDS Naturals, Sequences

CONSTANT Item

VARIABLES submitted,   \* the messages accepted from the user
          delivered,   \* the messages the server has taken
          closing      \* the session is being closed, or may be

outboxVars == <<submitted, delivered, closing>>

OutboxInit ==
  /\ submitted = <<>>
  /\ delivered = <<>>
  /\ closing = FALSE

Submit ==
  /\ closing \/ delivered = submitted
  /\ \E m \in Item : submitted' = Append(submitted, m)
  /\ UNCHANGED <<delivered, closing>>

Deliver ==
  /\ Len(delivered) < Len(submitted)
  /\ delivered' = Append(delivered, submitted[Len(delivered) + 1])
  /\ UNCHANGED <<submitted, closing>>

Close ==
  /\ closing' = TRUE
  /\ UNCHANGED <<submitted, delivered>>

OutboxNext == Submit \/ Deliver \/ Close

OutboxSpec == OutboxInit /\ [][OutboxNext]_outboxVars

=============================================================================
