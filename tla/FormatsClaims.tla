---------------------------- MODULE FormatsClaims ----------------------------
(***************************************************************************)
(* What the README says of display names and the code does not do: refuted *)
(* by a run.                                                               *)
(***************************************************************************)
EXTENDS Formats

\* A name that /rename can set: it begins with no space (TCP.c:411, UDP.c:633),
\* and this one does not end with one either.
Renamed == /\ is_valid_dname(name)
           /\ name[1] # "SP" /\ name[Len(name)] # "SP"

\* A text that neither client has a reason to refuse or to cut.
Sendable == /\ Printable(text) /\ Len(text) \in 1 .. MaxContent - 1
            /\ Len(text) <= Buffer

\* README.md:68: "The new display name will be used in subsequent messages or
\* selected commands."  So whoever receives a message sees the name that was
\* set, whichever the name and the text.  Over TCP strncpy copies one byte less
\* than a pointer has (TCP.c:528), and strtok ends a name at its first space
\* (TCP.c:306-307); over UDP the name and the text together may be longer than
\* the array they are composed in (UDP.c:777, 785-801).
NewNameIsUsed ==
  Renamed /\ Sendable =>
    /\ ReceiveLine(generic_message(text, name)) = Shown(name, text \o <<"CR">>)
    /\ ReceiveMsg(MsgMessage(name, text), <<>>) = Shown(name, text)

=============================================================================
