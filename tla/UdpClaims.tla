------------------------------ MODULE UdpClaims ------------------------------
(***************************************************************************)
(* What the README and the comments of UDP.c say of the UDP client and the *)
(* code does not do: each of these is refuted by a run.                    *)
(***************************************************************************)
EXTENDS UdpClient

Stopping == quit \/ quit_requested \/ exited

\* UDP.c:820: "If a confirmation is received, it signals that the message has
\* been sent successfully."  A CONFIRM that comes between the transmission and
\* the reset of the flag (UDP.c:833-842), or between the timeout and the next
\* transmission (UDP.c:848, 831), empties the queue and leaves no trace.
ConfirmationIsSignalled ==
  pc["rcv"] = "flag" ~> have_sent \/ Stopping

\* UDP.c:454-455: "it waits for authentication verification and message
\* confirmation before proceeding."  A verdict that comes between the test of
\* AUTH_VER and pthread_cond_wait (UDP.c:492-493) wakes nobody.
VerdictEndsWait ==
  AUTH_VER ~> pc["cmd"] \notin {"authPark", "authSleep"} \/ Stopping

\* README.md:87: "Messages can only be sent if a confirmation for the previous
\* message has been received." and README.md:89: the queue "ensures the
\* correct sending of messages".  While a slot counts as filled and is not
\* (UDP.c:717, 761, 810) the other threads find the previous message in it.
ReadyWhenDelivered ==
  pc["cmd"] = "read" /\ ~EndBegun => Len(served) = Len(submitted)

\* UDP.c:78: "Function to generate message IDs correctly".  Two threads, or a
\* thread and the signal handler, load the same last_message_id (UDP.c:80-81).
IdsAreUnique ==
  \A d, e \in {x \in toServer : x.msg.type \in {"AUTH", "JOIN", "MSG", "BYE", "ERR"}} :
    d.msg.id = e.msg.id => d.msg.type = e.msg.type

=============================================================================
