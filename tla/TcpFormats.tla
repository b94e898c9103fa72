----------------------------- MODULE TcpFormats -----------------------------
(***************************************************************************)
(* The lines of TCP.c character by character, and the validation of their  *)
(* fields (supportTCP.c).  The words of the protocol are characters here.  *)
(***************************************************************************)
EXTENDS UdpFormats

CONSTANTS MaxContent,   \* the longest content: 1400
          MaxSecret,    \* the longest secret: 128
          MaxLine,      \* the longest line sprintf may write
          PointerSize   \* sizeof(display_name), a pointer: 8

\* The longest MSG line fits into the array it is composed in.
ASSUME LinesAssumption ==
  /\ MaxContent \in Nat /\ MaxSecret \in Nat
  /\ MaxLine \in Nat /\ PointerSize \in Nat
  /\ PointerSize >= 2 /\ PointerSize + MaxContent + 7 <= MaxLine

AllAlnum(s)          == \A i \in 1 .. Len(s) : s[i] \in {"x", "IS", "-"}
is_valid_id(s)       == Len(s) \in 1 .. MaxName /\ AllAlnum(s)
is_valid_secret(s)   == Len(s) \in 1 .. MaxSecret /\ AllAlnum(s)
is_valid_dname(s)    == Len(s) \in 1 .. MaxName /\ Printable(s)
is_valid_content(s)  == /\ Len(s) \in 1 .. MaxContent
                        /\ \A i \in 1 .. Len(s) : s[i] \notin {"nul", "ctl"}

EndOfLine == <<"CR", "NL">>

auth_message(id, secret, dname) ==
  IF is_valid_secret(secret) /\ is_valid_dname(dname) /\ is_valid_id(id)
  THEN <<"AUTH", "SP">> \o id \o <<"SP", "AS", "SP">> \o dname
         \o <<"SP", "USING", "SP">> \o secret \o EndOfLine
  ELSE <<>>

join_message(channel, dname) ==
  <<"JOIN", "SP">> \o channel \o <<"SP", "AS", "SP">> \o dname \o EndOfLine

\* The name is cut to one character less than a pointer has bytes, and the
\* line, its end included, to the size of the array.
generic_message(content, dname) ==
  LET name == Cut(dname, PointerSize - 1)
  IN  IF is_valid_dname(name)
      THEN Cut(<<"MSG", "SP", "FROM", "SP">> \o name \o <<"SP", "IS", "SP">>
                 \o content \o EndOfLine, MaxLine)
      ELSE <<>>

-----------------------------------------------------------------------------
\* strtok(s, " "): the spaces in front are skipped, the one behind is eaten.
SkipSpaces(s) == LET i == SelectInSeq(s, LAMBDA c : c # "SP")
                 IN  IF i = 0 THEN <<>> ELSE SubSeq(s, i, Len(s))
Token(s) == UpTo(SkipSpaces(s), "SP")

\* Mutant: strtok(NULL, " ") for the text skips the spaces it begins with.
BehindTrimmed(s) ==
  SkipSpaces(SubSeq(SkipSpaces(s), Len(Token(s)) + 2, Len(SkipSpaces(s))))

Behind(s) == SubSeq(SkipSpaces(s), Len(Token(s)) + 2, Len(SkipSpaces(s)))

\* handle_server_message on a line that begins with MSG.
ReceiveLine(line) ==
  LET from == Behind(UpTo(line, "NL"))
      name == Behind(from)
      is   == Behind(name)
      text == Behind(is)
  IN  IF /\ Token(from) = <<"FROM">> /\ Token(is) = <<"IS">>
         /\ is_valid_dname(Token(name)) /\ is_valid_content(text)
      THEN Shown(Token(name), text) ELSE Bad("malformed")

=============================================================================
