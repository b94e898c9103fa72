------------------------------ MODULE Dialogue ------------------------------
(***************************************************************************)
(* What the server may rely on, without threads, flags or a byte stream:   *)
(* one request at a time, and nothing but AUTH before one was accepted,    *)
(* whenever the client takes leave.                                        *)
(***************************************************************************)
EXTENDS Sequences

VARIABLES said,      \* what the client has said, in order
          pending,   \* the request that waits for its verdict, if any
          open       \* an AUTH was accepted

dialogueVars == <<said, pending, open>>

DialogueInit == said = <<>> /\ pending = {} /\ open = FALSE

Ask(request) ==
  /\ pending = {}
  /\ request = "AUTH" \/ open
  /\ said' = Append(said, request)
  /\ pending' = {request}
  /\ UNCHANGED open

Say ==
  /\ pending = {} /\ open
  /\ said' = Append(said, "MSG")
  /\ UNCHANGED <<pending, open>>

TakeLeave ==
  /\ \E m \in {"ERR", "BYE"} : said' = Append(said, m)
  /\ UNCHANGED <<pending, open>>

Answer ==
  /\ pending # {}
  /\ pending' = {}
  /\ open' \in {open, open \/ "AUTH" \in pending}
  /\ UNCHANGED said

DialogueNext ==
  \/ Say \/ TakeLeave \/ Answer
  \/ \E r \in {"AUTH", "JOIN"} : Ask(r)

DialogueSpec == DialogueInit /\ [][DialogueNext]_dialogueVars

=============================================================================
