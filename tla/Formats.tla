------------------------------- MODULE Formats -------------------------------
(***************************************************************************)
(* The pure functions of the client, checked against what they are meant   *)
(* to compute.  A step adds one character to a name or a text, one byte to *)
(* a datagram, or one argument to a command line.                          *)
(***************************************************************************)
EXTENDS TcpFormats, Arguments

CONSTANTS Chars, Bytes, Args,           \* what may be added
          MaxTyped, MaxBytes, MaxArgs   \* bounds on the lengths

\* recvfrom cuts a datagram to the size of the buffer (UDP.c:200).
ASSUME DatagramAssumption == MaxBytes \in Nat /\ MaxBytes <= Buffer

\* What is typed is a C string: it holds no terminator.
ASSUME CharsAssumption == "nul" \notin Chars

VARIABLES name, text, datagram, argv

Init == name = <<>> /\ text = <<>> /\ datagram = <<>> /\ argv = <<>>

TypeName == /\ Len(name) < MaxTyped /\ datagram = <<>> /\ argv = <<>>
            /\ \E c \in Chars : name' = Append(name, c)
            /\ UNCHANGED <<text, datagram, argv>>

TypeText == /\ Len(text) < MaxTyped /\ datagram = <<>> /\ argv = <<>>
            /\ \E c \in Chars : text' = Append(text, c)
            /\ UNCHANGED <<name, datagram, argv>>

Receive == /\ Len(datagram) < MaxBytes
           /\ name = <<>> /\ text = <<>> /\ argv = <<>>
           /\ \E c \in Bytes : datagram' = Append(datagram, c)
           /\ UNCHANGED <<name, text, argv>>

Argument == /\ Len(argv) < MaxArgs
            /\ name = <<>> /\ text = <<>> /\ datagram = <<>>
            /\ \E a \in Args : argv' = Append(argv, a)
            /\ UNCHANGED <<name, text, datagram>>

Next == TypeName \/ TypeText \/ Receive \/ Argument

Spec == Init /\ [][Next]_<<name, text, datagram, argv>>

-----------------------------------------------------------------------------
\* What the receive buffer may hold behind a datagram.
Stale == {[i \in 1 .. Buffer |-> IF i = k THEN b ELSE c] :
            k \in 1 .. 3, b \in Bytes, c \in Bytes}

\* A name and a text whose MSG fits into the array it is composed in.
Fits == Len(name) + Len(text) + 5 <= Buffer

\* What one UDP client composes another shows, of a MSG (UDP.c:797-807, 323-375)
\* and of an ERR (UDP.c:278-292, 950-958), while it fits into the arrays of the
\* sender, whatever the receive buffer held before; the same for the text of a
\* REPLY, whose offset is another (UDP.c:250-275).
UdpShownAsSent ==
  Printable(name) /\ Printable(text) /\ Len(name) <= MaxName =>
    \A stale \in Stale :
      LET reply == <<"REPLY", "id", "id", "ok", "id", "id">> \o text \o <<"nul">>
      IN  /\ Fits => /\ ReceiveMsg(MsgMessage(name, text), stale) = Shown(name, text)
                     /\ ReceiveErr(ErrMessage(name, text), stale) = Shown(name, text)
          /\ Len(reply) <= Buffer => ReceiveReply(reply, stale) = Shown(<<>>, text)

\* Of a MSG of any length and content only its own bytes are shown: the name is
\* copied past the end of a short one, and its content length wraps (UDP.c:324,
\* 347-350).  Of an ERR without terminator more is shown (UDP.c:281-292).
StaleNeverShown ==
  LET zeros == [i \in 1 .. Buffer |-> "nul"]
  IN  \A stale \in Stale : ReceiveMsg(datagram, stale) = ReceiveMsg(datagram, zeros)

\* What one TCP client composes another shows (TCP.c:528-536, 304-320), with the
\* carriage return of its line, for a name that is shorter than a pointer
\* (TCP.c:528) and has no space, and a text below the limit.  What becomes of
\* other names and texts is the matter of FormatsClaims.
TcpShownAsSent ==
  is_valid_dname(name) /\ Len(name) < PointerSize /\ ~Contains(name, "SP")
  /\ Printable(text) /\ Len(text) < MaxContent
    => ReceiveLine(generic_message(text, name)) = Shown(name, text \o <<"CR">>)

\* A server that splits at the separators finds the fields of AUTH and JOIN in
\* the order of the protocol, unless the client refuses them or the name has a
\* space (UDP.c:704-711, 749-754; TCP.c:482-485, 508).
Separate(st, x, c) ==
  IF x = c THEN [done |-> Append(st.done, st.field), field |-> <<>>]
  ELSE [done |-> st.done, field |-> Append(st.field, x)]
Splitting(s, c) ==
  LET st[n \in 0 .. Len(s)] ==
        IF n = 0 THEN [done |-> <<>>, field |-> <<>>]
        ELSE Separate(st[n - 1], s[n], c)
  IN  st
Split(s, c) == LET st == Splitting(s, c)[Len(s)] IN Append(st.done, st.field)

FieldsApart ==
  LET id   == <<"x", "-">>
      line == auth_message(id, text, name)
  IN  /\ Split(AuthMessage(id, text, name), "nul")
           = <<<<"AUTH", "id", "id">> \o id, name, text, <<>>>>
      /\ Split(JoinMessage(id, name), "nul")
           = <<<<"JOIN", "id", "id">> \o id, name, <<>>>>
      /\ ~Contains(name, "SP") =>
           /\ line # <<>> =>
                Split(line, "SP") = <<<<"AUTH">>, id, <<"AS">>, name, <<"USING">>,
                                      text \o EndOfLine>>
           /\ Split(join_message(id, name), "SP")
                = <<<<"JOIN">>, id, <<"AS">>, name \o EndOfLine>>

-----------------------------------------------------------------------------
(* What a command line means, position by position: an argument is a value *)
(* when the options that take one and stand right before it are odd in     *)
(* number.                                                                 *)

LastOther(args) == SelectLastInSeq(args, LAMBDA a : a \notin ValueOptions)
Before(i)   == i - 1 - LastOther(SubSeq(argv, 1, i - 1))
IsValue(i)  == Before(i) % 2 = 1
Given(o)    == {i \in 2 .. Len(argv) : IsValue(i) /\ argv[i - 1] = o}
Value(o, default) == IF Given(o) = {} THEN default
                     ELSE argv[CHOOSE i \in Given(o) : \A j \in Given(o) : j <= i]
NumberOf(o, default, width) ==
  IF Given(o) = {} THEN default ELSE atoi(Value(o, "")) % width
Helped == \E i \in 1 .. Len(argv) : argv[i] = "-h" /\ ~IsValue(i)

\* The program does what its command line asks for: the last value of an
\* option counts, narrowed to sixteen or eight bits; -h goes before everything
\* (main.c:26-41, 72-96).
ArgumentsAgree ==
  LET t == Value("-t", "")
      s == Value("-s", "")
      p == NumberOf("-p", DefaultPort, Values16)
  IN  main(argv) =
        IF Helped THEN <<"help">>
        ELSE IF IsValue(Len(argv) + 1) THEN <<"undefined">>
        ELSE IF t = "" \/ s = "" THEN <<"usage">>
        ELSE IF t = "tcp" THEN <<"tcp", s, p>>
        ELSE IF t = "udp" THEN <<"udp", s, p, NumberOf("-d", DefaultTimeout, Values16),
                                 NumberOf("-r", DefaultRetries, Values8)>>
        ELSE <<"invalid">>

=============================================================================
