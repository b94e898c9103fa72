----------------------------- MODULE UdpFormats -----------------------------
(***************************************************************************)
(* The datagrams of UDP.c byte by byte: how the client composes them and   *)
(* what process_server_response makes of the ones it receives.  A byte is  *)
(* "nul", "id" (half of an id), a type, or a character of the text.        *)
(***************************************************************************)
EXTENDS Naturals, Sequences, SequencesExt

CONSTANTS MaxName,   \* MAX_DISPLAY_NAME_LENGTH
          Buffer,    \* MAX_MSG_LENGTH and MAX_MESSAGE_CONTENT_LENGTH
          SizeSpace  \* the number of values of a size_t: subtraction wraps

\* A name and what frames it fit into the buffer, and any size that a datagram
\* can have is far below the greatest size_t.
ASSUME SizesAssumption ==
  /\ MaxName \in Nat /\ Buffer \in Nat /\ SizeSpace \in Nat
  /\ MaxName + 4 <= Buffer
  /\ 2 * Buffer < SizeSpace

Minus(m, n) == (m + SizeSpace - n) % SizeSpace

Printable(s) == \A i \in 1 .. Len(s) : s[i] \notin {"nul", "ctl", "CR", "NL"}
UpTo(s, c)   == LET i == SelectInSeq(s, LAMBDA x : x = c)
                IN  IF i = 0 THEN s ELSE SubSeq(s, 1, i - 1)
CString(s)   == UpTo(s, "nul")
Cut(s, n)    == SubSeq(s, 1, IF Len(s) < n THEN Len(s) ELSE n)

Shown(name, text) == [outcome |-> "shown", name |-> name, text |-> text]
Bad(why)          == [outcome |-> why, name |-> <<>>, text |-> <<>>]

-----------------------------------------------------------------------------
Header(type) == <<type, "id", "id">>
Field(s)     == s \o <<"nul">>

\* Mutant: the secret before the display name.
AuthMessageSwapped(username, secret, name) ==
  Header("AUTH") \o Field(username) \o Field(secret) \o Field(name)

\* The fields of AUTH and JOIN are short: these always fit into their arrays.
AuthMessage(username, secret, name) ==
  Header("AUTH") \o Field(username) \o Field(name) \o Field(secret)
JoinMessage(channel, name) == Header("JOIN") \o Field(channel) \o Field(name)

\* MSG and ERR are copied into arrays of Buffer bytes, and nothing but the
\* content is measured before: strcpy, and memcpy to the queue, run past the
\* ends of the arrays when the whole is longer.  What is sent is then undefined.
Undefined  == <<"undefined">>
InArray(m) == IF Len(m) <= Buffer THEN m ELSE Undefined

MsgMessage(name, content) == InArray(Header("MSG") \o Field(name) \o Field(content))
ErrMessage(name, content) == InArray(Header("ERR") \o Field(name) \o Field(content))

-----------------------------------------------------------------------------
(* response is the datagram, stale what the buffer holds behind it.        *)

DisplayName(memory) == CString(SubSeq(memory, 4, 3 + MaxName))

\* Mutant: the length is computed in signed integers.
ReceiveMsgSigned(response, stale) ==
  LET name   == DisplayName(response \o stale)
      offset == 3 + Len(name) + 1
      length == IF offset > Len(response) THEN 0 ELSE Len(response) - offset
      text   == CString(SubSeq(response \o stale, offset + 1, offset + length))
  IN  IF Len(response) >= 3 /\ Printable(name) /\ length <= Buffer /\ Printable(text)
      THEN Shown(name, text) ELSE Bad("refused")

\* Mutant: the terminator of the name is taken for the first byte of the text.
ReceiveMsgShort(response, stale) ==
  LET name   == DisplayName(response \o stale)
      offset == 3 + Len(name)
      length == Minus(Len(response), offset)
      text   == CString(SubSeq(response \o stale, offset + 1, offset + length))
  IN  IF Len(response) >= 3 /\ Printable(name) /\ length <= Buffer /\ Printable(text)
      THEN Shown(name, text) ELSE Bad("refused")

\* strncpy reads the name past the end of a datagram without terminator; the
\* length that wraps then is what refuses the message.
ReceiveMsg(response, stale) ==
  LET memory == response \o stale
      name   == DisplayName(memory)
      offset == 3 + Len(name) + 1
      length == Minus(Len(response), offset)
      text   == CString(SubSeq(memory, offset + 1, offset + length))
  IN  IF Len(response) >= 3 /\ Printable(name) /\ length <= Buffer /\ Printable(text)
      THEN Shown(name, text) ELSE Bad("refused")

\* Nothing is checked, and strnlen is bounded by a length that may wrap.
ReceiveErr(response, stale) ==
  LET memory == response \o stale
      name   == DisplayName(memory)
      offset == 3 + Len(name) + 1
      length == Minus(Len(response), offset)
  IN  Shown(name, CString(Cut(SubSeq(memory, offset + 1, Len(memory)), length)))

\* A length that wraps makes memcpy run off the array: undefined.
ReceiveReply(response, stale) ==
  LET length == Minus(Len(response), 6)
  IN  IF length < Buffer
      THEN Shown(<<>>, CString(SubSeq(response \o stale, 7, 6 + length)))
      ELSE Bad("undefined")

=============================================================================
