---------------------------- MODULE FormatsProofs ----------------------------
(***************************************************************************)
(* What the formats promise, for names, texts, datagrams and command lines *)
(* of every content and of every length that the arrays of the client      *)
(* hold: what is composed is shown as it was sent, a MSG shows nothing     *)
(* stale, the fields of a request are found apart, and the arguments are   *)
(* read as they are meant.  A function that computes character by          *)
(* character is met by what is known of its result behind the first n of   *)
(* them, and induction over n.                                             *)
(***************************************************************************)
EXTENDS Formats, SequenceTheorems, WellFoundedInduction, TLAPS

-----------------------------------------------------------------------------
(* Numbers and sequences.                                                  *)

\* A set of naturals that is not empty has a least element.
LEMMA LeastElement ==
  ASSUME NEW T, T \subseteq Nat, T # {}
  PROVE  \E x \in T : \A y \in T : x <= y
<1>. DEFINE Less == {p \in Nat \X Nat : p[1] < p[2]}
<1>1. IsWellFoundedOn(Less, Nat)
  BY NatLessThanWellFounded DEF OpToRel
<1>2. PICK x \in T : \A y \in T : <<y, x>> \notin Less
  <2>. HIDE DEF Less
  <2>. QED
    BY <1>1, WFMin
<1>3. ASSUME NEW y \in T PROVE x <= y
  <2>1. <<y, x>> \in Nat \X Nat
    OBVIOUS
  <2>2. y < x => <<y, x>> \in Less
    BY <2>1
  <2>. QED
    BY <1>2, <2>2
<1>. QED
  BY <1>3

\* Induction, over a set instead of a predicate: the library's theorem takes
\* an operator.
LEMMA SetInduction ==
  ASSUME NEW S, 0 \in S, \A n \in Nat : n \in S => n + 1 \in S
  PROVE  Nat \subseteq S
<1>. DEFINE T == Nat \ S
<1>1. SUFFICES ASSUME T # {} PROVE FALSE
  OBVIOUS
<1>2. PICK x \in T : \A y \in T : x <= y
  BY <1>1, LeastElement
<1>3. x # 0 /\ x - 1 \in Nat /\ x - 1 \notin T
  BY <1>2
<1>. QED
  BY <1>2, <1>3

\* UpTo is the longest beginning without c (strnlen, strcpy, strtok).
LEMMA UpToFacts ==
  ASSUME NEW U, NEW s \in Seq(U), NEW c
  PROVE  /\ UpTo(s, c) \in Seq(U)
         /\ Len(UpTo(s, c)) <= Len(s)
         /\ \A i \in 1 .. Len(UpTo(s, c)) : UpTo(s, c)[i] = s[i] /\ s[i] # c
         /\ Len(UpTo(s, c)) < Len(s) => s[Len(UpTo(s, c)) + 1] = c
<1>. DEFINE I == {i \in 1 .. Len(s) : s[i] = c}
            m == Min(I)
<1>1. CASE I = {}
  <2>1. UpTo(s, c) = s
    BY <1>1 DEF UpTo, SelectInSeq
  <2>. QED
    BY <1>1, <2>1
<1>2. CASE I # {}
  <2>1. I \subseteq Nat
    OBVIOUS
  <2>2. \E x \in I : \A y \in I : x <= y
    BY <1>2, <2>1, LeastElement
  <2>3. m \in I /\ \A y \in I : m <= y
    BY <2>2 DEF Min
  <2>. HIDE DEF m
  <2>4. /\ m \in 1 .. Len(s) /\ s[m] = c
        /\ \A i \in 1 .. m - 1 : s[i] \in U /\ s[i] # c
    BY <2>3
  <2>5. UpTo(s, c) = IF m = 0 THEN s ELSE SubSeq(s, 1, m - 1)
    BY <1>2, Zenon DEF UpTo, SelectInSeq, m
  <2>6. /\ UpTo(s, c) = SubSeq(s, 1, m - 1)
        /\ m \in Int /\ 1 \in Int /\ m - 1 \in Int
    BY <2>4, <2>5
  <2>7. /\ SubSeq(s, 1, m - 1) \in Seq(U)
        /\ Len(SubSeq(s, 1, m - 1)) = m - 1
        /\ \A i \in 1 .. m - 1 : SubSeq(s, 1, m - 1)[i] = s[i]
    BY <2>4, <2>6, SubSeqProperties
  <2>. QED
    BY <2>4, <2>6, <2>7
<1>. QED
  BY <1>1, <1>2

\* Subtraction in a size_t wraps once at most (UDP.c:347).
LEMMA MinusFacts ==
  ASSUME NEW m \in Nat, NEW n \in Nat, m < SizeSpace, n < SizeSpace
  PROVE  Minus(m, n) = IF n <= m THEN m - n ELSE m + SizeSpace - n
<1>1. \A a \in Nat : a < SizeSpace => a % SizeSpace = a
  BY SizesAssumption
<1>2. \A a \in Nat : a < SizeSpace => (a + SizeSpace) % SizeSpace = a
  BY SizesAssumption
<1>. QED
  BY <1>1, <1>2, SizesAssumption DEF Minus

\* The bytes from the m-th to the n-th.
LEMMA Slice ==
  ASSUME NEW U, NEW s \in Seq(U), NEW m \in Nat \ {0}, NEW n \in Nat,
         n <= Len(s)
  PROVE  /\ SubSeq(s, m, n) \in Seq(U)
         /\ Len(SubSeq(s, m, n)) = IF m <= n THEN n - m + 1 ELSE 0
         /\ \A i \in 1 .. n - m + 1 : SubSeq(s, m, n)[i] = s[m + i - 1]
<1>1. \A i \in m .. n : s[i] \in U
  OBVIOUS
<1>. QED
  BY <1>1, SubSeqProperties

\* The bytes of two sequences, one behind the other.
LEMMA Joined ==
  ASSUME NEW U, NEW s \in Seq(U), NEW t \in Seq(U)
  PROVE  /\ s \o t \in Seq(U) /\ Len(s \o t) = Len(s) + Len(t)
         /\ Len(s) \in Nat /\ Len(t) \in Nat
         /\ \A i \in 1 .. Len(s) : (s \o t)[i] = s[i]
         /\ \A i \in 1 .. Len(t) : (s \o t)[Len(s) + i] = t[i]
  OBVIOUS

-----------------------------------------------------------------------------
(* Fields of a memory, and the name of a message.                          *)

\* Behind its first k bytes m continues with those of s.
Continues(m, k, s) == \A i \in 1 .. Len(s) : m[k + i] = s[i]

\* left and right have the same first k bytes.
Same(left, right, k) == \A i \in 1 .. k : left[i] = right[i]

\* Of the bytes of memory behind the first m and up to n, w is the field that
\* ends before the first c, or with the n-th byte if there is none.
FieldIn(memory, m, n, c, w) ==
  /\ Len(w) \in Nat /\ Len(w) <= n - m
  /\ Continues(memory, m, w)
  /\ \A i \in 1 .. Len(w) : w[i] # c
  /\ Len(w) < n - m => memory[m + Len(w) + 1] = c

\* Reading up to the separator finds the field, and there is only one.
LEMMA FieldRead ==
  ASSUME NEW U, NEW memory \in Seq(U), NEW m \in Nat, NEW n \in Nat, NEW c,
         m <= n, n <= Len(memory)
  PROVE  /\ UpTo(SubSeq(memory, m + 1, n), c) \in Seq(U)
         /\ FieldIn(memory, m, n, c, UpTo(SubSeq(memory, m + 1, n), c))
<1>. DEFINE part == SubSeq(memory, m + 1, n)
            w    == UpTo(part, c)
<1>1. m + 1 \in Nat \ {0}
  OBVIOUS
<1>2. /\ part \in Seq(U) /\ Len(part) = n - m
      /\ \A i \in 1 .. n - m : part[i] = memory[m + i]
  BY <1>1, Slice
<1>. HIDE DEF part
<1>3. /\ w \in Seq(U) /\ Len(w) <= Len(part)
      /\ \A i \in 1 .. Len(w) : w[i] = part[i] /\ part[i] # c
      /\ Len(w) < Len(part) => part[Len(w) + 1] = c
  BY <1>2, UpToFacts
<1>. HIDE DEF w
<1>4. Len(w) \in Nat
  BY <1>3
<1>5. \A i \in 1 .. Len(w) : memory[m + i] = w[i] /\ w[i] # c
  BY <1>2, <1>3, <1>4
<1>6. Len(w) < n - m => memory[m + (Len(w) + 1)] = c
  BY <1>2, <1>3, <1>4
<1>7. FieldIn(memory, m, n, c, w)
  BY <1>2, <1>3, <1>4, <1>5, <1>6 DEF FieldIn, Continues
<1>. QED
  BY <1>3, <1>7 DEF w, part

\* Two fields at one place are the same field.
LEMMA FieldUnique ==
  ASSUME NEW memory, NEW m \in Nat, NEW n \in Nat, NEW c,
         NEW U, NEW v \in Seq(U), FieldIn(memory, m, n, c, v),
         NEW w \in Seq(U), FieldIn(memory, m, n, c, w)
  PROVE  v = w
<1>1. ASSUME NEW s, NEW t, FieldIn(memory, m, n, c, s), FieldIn(memory, m, n, c, t)
      PROVE  ~(Len(s) < Len(t))
  <2>. SUFFICES ASSUME Len(s) < Len(t) PROVE FALSE
    OBVIOUS
  <2>1. Len(s) \in Nat /\ Len(t) \in Nat /\ Len(s) < n - m
    BY <1>1 DEF FieldIn
  <2>2. Len(s) + 1 \in 1 .. Len(t) /\ m + (Len(s) + 1) = m + Len(s) + 1
    BY <2>1
  <2>3. memory[m + Len(s) + 1] = c
    BY <1>1, <2>1 DEF FieldIn
  <2>4. memory[m + (Len(s) + 1)] = t[Len(s) + 1] /\ t[Len(s) + 1] # c
    BY <1>1, <2>2 DEF FieldIn, Continues
  <2>. QED
    BY <2>2, <2>3, <2>4
<1>2. Len(v) \in Nat /\ Len(w) \in Nat
  BY DEF FieldIn
<1>3. Len(v) = Len(w)
  BY <1>1, <1>2
<1>4. \A i \in 1 .. Len(v) : v[i] = w[i]
  BY <1>3 DEF FieldIn, Continues
<1>. QED
  BY <1>3, <1>4, SeqEqual

\* What is known to be the field is what is read.
LEMMA FieldIs ==
  ASSUME NEW U, NEW memory \in Seq(U), NEW m \in Nat, NEW n \in Nat, NEW c,
         m <= n, n <= Len(memory),
         NEW w \in Seq(U), FieldIn(memory, m, n, c, w)
  PROVE  UpTo(SubSeq(memory, m + 1, n), c) = w
  BY FieldRead, FieldUnique

\* What a field is does not depend on the bytes behind it.
LEMMA FieldMoved ==
  ASSUME NEW left, NEW right, NEW k \in Nat, Same(left, right, k),
         NEW m \in Nat, NEW n \in Nat, NEW c, NEW w, FieldIn(left, m, n, c, w),
         n <= k \/ m + Len(w) + 1 <= k
  PROVE  FieldIn(right, m, n, c, w)
<1>. USE DEF FieldIn, Continues, Same
<1>1. \A i \in 1 .. Len(w) : m + i \in 1 .. k
  OBVIOUS
<1>2. Len(w) < n - m => m + Len(w) + 1 \in 1 .. k
  OBVIOUS
<1>. QED
  BY <1>1, <1>2

\* strncpy copies the field behind the header, MaxName bytes at most.
LEMMA NameRead ==
  ASSUME NEW U, NEW memory \in Seq(U), Len(memory) >= Buffer
  PROVE  /\ DisplayName(memory) \in Seq(U)
         /\ FieldIn(memory, 3, 3 + MaxName, "nul", DisplayName(memory))
<1>. DEFINE upto == 3 + MaxName
<1>1. upto \in Nat /\ 3 <= upto /\ upto <= Len(memory)
  BY SizesAssumption
<1>. HIDE DEF upto
<1>2. DisplayName(memory) = UpTo(SubSeq(memory, 3 + 1, upto), "nul")
  BY DEF DisplayName, CString, upto
<1>3. /\ DisplayName(memory) \in Seq(U)
      /\ FieldIn(memory, 3, upto, "nul", DisplayName(memory))
  BY <1>1, <1>2, FieldRead
<1>. QED
  BY <1>3 DEF upto

\* A name is no longer than the array it is copied to.
LEMMA NameLength ==
  ASSUME NEW memory, NEW n, FieldIn(memory, 3, 3 + MaxName, "nul", n)
  PROVE  Len(n) \in Nat /\ Len(n) <= MaxName
  BY SizesAssumption DEF FieldIn

\* What is the field behind the header is what is copied.
LEMMA NameIs ==
  ASSUME NEW U, NEW memory \in Seq(U), Len(memory) >= Buffer,
         NEW n \in Seq(U), FieldIn(memory, 3, 3 + MaxName, "nul", n)
  PROVE  DisplayName(memory) = n
  BY NameRead, FieldUnique, SizesAssumption

-----------------------------------------------------------------------------
(* What the buffer holds behind a datagram is never shown.                 *)

\* The name ends within the datagram.
Terminated(response, stale) ==
  4 + Len(DisplayName(response \o stale)) <= Len(response)

\* The name of such a datagram does not depend on what is behind it ...
LEMMA OwnName ==
  ASSUME NEW U, NEW response \in Seq(U),
         NEW a \in Seq(U), Len(a) = Buffer, NEW b \in Seq(U), Len(b) = Buffer,
         Terminated(response, a)
  PROVE  DisplayName(response \o b) = DisplayName(response \o a)
<1>. DEFINE left  == response \o a
            right == response \o b
            n     == DisplayName(left)
<1>1. /\ Len(response) \in Nat
      /\ left \in Seq(U) /\ Len(left) = Len(response) + Buffer
      /\ right \in Seq(U) /\ Len(right) = Len(response) + Buffer
      /\ Same(left, right, Len(response))
  BY DEF Same
<1>2. 3 + Len(n) + 1 <= Len(response)
  BY DEF Terminated
<1>. HIDE DEF left, right
<1>3. Len(left) >= Buffer /\ Len(right) >= Buffer /\ 3 + MaxName \in Nat
  BY <1>1, SizesAssumption
<1>4. n \in Seq(U) /\ FieldIn(left, 3, 3 + MaxName, "nul", n)
  BY <1>1, <1>3, NameRead
<1>. HIDE DEF n
<1>5. FieldIn(right, 3, 3 + MaxName, "nul", n)
  BY <1>1, <1>2, <1>3, <1>4, FieldMoved
<1>6. DisplayName(right) = n
  BY <1>1, <1>3, <1>4, <1>5, NameIs
<1>. QED
  BY <1>6 DEF left, right, n

\* ... nor does any text that ends with the datagram ...
LEMMA OwnText ==
  ASSUME NEW U, NEW response \in Seq(U), NEW m \in Nat, m <= Len(response),
         NEW a \in Seq(U), NEW b \in Seq(U)
  PROVE  CString(SubSeq(response \o a, m + 1, Len(response)))
           = CString(SubSeq(response \o b, m + 1, Len(response)))
<1>. DEFINE left  == response \o a
            right == response \o b
            upto  == Len(response)
            w     == CString(SubSeq(left, m + 1, upto))
<1>1. /\ upto \in Nat /\ m <= upto
      /\ left \in Seq(U) /\ upto <= Len(left)
      /\ right \in Seq(U) /\ upto <= Len(right)
      /\ Same(left, right, upto) /\ upto <= upto
  BY DEF Same
<1>. HIDE DEF left, right, upto
<1>2. w \in Seq(U) /\ FieldIn(left, m, upto, "nul", w)
  BY <1>1, FieldRead DEF CString
<1>. HIDE DEF w
<1>3. FieldIn(right, m, upto, "nul", w)
  BY <1>1, <1>2, FieldMoved
<1>4. CString(SubSeq(right, m + 1, upto)) = w
  BY <1>1, <1>2, <1>3, FieldIs DEF CString
<1>. QED
  BY <1>4 DEF left, right, upto, w

\* ... and where the name runs past the end the length of the text wraps, to
\* more than the buffer holds: the message is refused (UDP.c:347-350).
LEMMA Unterminated ==
  ASSUME NEW U, NEW response \in Seq(U), Len(response) <= Buffer,
         NEW stale \in Seq(U), Len(stale) = Buffer,
         ~Terminated(response, stale)
  PROVE  ReceiveMsg(response, stale) = Bad("refused")
<1>. DEFINE n == DisplayName(response \o stale)
            offset == 3 + Len(n) + 1
<1>1. Len(n) \in Nat /\ Len(n) <= MaxName
  <2>1. response \o stale \in Seq(U) /\ Len(response \o stale) >= Buffer
    BY SizesAssumption
  <2>. QED
    BY <2>1, NameRead, NameLength
<1>2. offset > Len(response)
  <2>. QED
    BY <1>1 DEF Terminated
<1>. HIDE DEF n
<1>3. /\ offset \in Nat /\ Len(response) \in Nat
      /\ offset < SizeSpace /\ Len(response) < SizeSpace
  BY <1>1, SizesAssumption
<1>4. Len(response) >= 3 => Minus(Len(response), offset) > Buffer
  <2>1. Minus(Len(response), offset) = Len(response) + SizeSpace - offset
    BY <1>2, <1>3, MinusFacts
  <2>. QED
    BY <1>1, <1>3, <2>1, SizesAssumption
<1>5. Len(response) >= 3 => ~(Minus(Len(response), offset) <= Buffer)
  <2>1. Minus(Len(response), offset) \in Int
    BY <1>3, MinusFacts, SizesAssumption
  <2>. QED
    BY <1>4, <2>1
<1>. QED
  BY <1>5, Zenon DEF ReceiveMsg, n

\* A MSG is shown, or refused, by its own bytes.
LEMMA OwnBytes ==
  ASSUME NEW U, NEW response \in Seq(U), Len(response) <= Buffer,
         NEW a \in Seq(U), Len(a) = Buffer, NEW b \in Seq(U), Len(b) = Buffer
  PROVE  ReceiveMsg(response, a) = ReceiveMsg(response, b)
<1>1. CASE Terminated(response, a) \/ Terminated(response, b)
  <2>. DEFINE n == DisplayName(response \o a)
              offset == 3 + Len(n) + 1
              length == Minus(Len(response), offset)
  <2>1. DisplayName(response \o b) = n
    BY <1>1, OwnName
  <2>2. Len(n) \in Nat /\ Len(n) <= MaxName
    <3>1. response \o a \in Seq(U) /\ Len(response \o a) >= Buffer
      BY SizesAssumption
    <3>. QED
      BY <3>1, NameRead, NameLength
  <2>3. offset <= Len(response)
    <3>1. 4 + Len(n) <= Len(response)
      BY <1>1, <2>1 DEF Terminated
    <3>. HIDE DEF n
    <3>. QED
      BY <2>2, <3>1
  <2>. HIDE DEF n
  <2>4. /\ offset \in Nat /\ Len(response) \in Nat
        /\ offset < SizeSpace /\ Len(response) < SizeSpace
    BY <2>2, SizesAssumption
  <2>5. offset + length = Len(response)
    BY <2>3, <2>4, MinusFacts
  <2>. HIDE DEF offset, length
  <2>6. CString(SubSeq(response \o a, offset + 1, offset + length))
          = CString(SubSeq(response \o b, offset + 1, offset + length))
    BY <2>3, <2>4, <2>5, OwnText
  <2>. QED
    BY <2>1, <2>6, Zenon DEF ReceiveMsg, n, offset, length
<1>2. CASE ~Terminated(response, a) /\ ~Terminated(response, b)
  BY <1>2, Unterminated
<1>. QED
  BY <1>1, <1>2

\* What has been typed, received and given, of any length up to the bounds.
Inputs ==
  /\ name \in Seq(Chars) /\ text \in Seq(Chars)
  /\ datagram \in Seq(Bytes) /\ Len(datagram) <= MaxBytes
  /\ argv \in Seq(Args)

\* Typing, receiving and giving arguments keep to the inputs.
LEMMA InputsHold == Spec => []Inputs
<1>1. Init => Inputs
  BY DatagramAssumption DEF Init, Inputs
<1>2. Inputs /\ [Next]_<<name, text, datagram, argv>> => Inputs'
  <2>. SUFFICES ASSUME Inputs, [Next]_<<name, text, datagram, argv>>
                PROVE  Inputs'
    OBVIOUS
  <2>1. \A S : \A s \in Seq(S) : \A e \in S :
          Append(s, e) \in Seq(S) /\ Len(Append(s, e)) = Len(s) + 1
    OBVIOUS
  <2>2. CASE TypeName
    BY <2>1, <2>2 DEF TypeName, Inputs
  <2>3. CASE TypeText
    BY <2>1, <2>3 DEF TypeText, Inputs
  <2>4. CASE Receive
    <3>1. Len(datagram) \in Nat /\ Len(datagram) < MaxBytes
      BY <2>4 DEF Receive, Inputs
    <3>2. PICK c \in Bytes : datagram' = Append(datagram, c)
      BY <2>4 DEF Receive
    <3>. QED
      BY <2>1, <2>4, <3>1, <3>2, DatagramAssumption DEF Receive, Inputs
  <2>5. CASE Argument
    BY <2>1, <2>5 DEF Argument, Inputs
  <2>6. CASE UNCHANGED <<name, text, datagram, argv>>
    BY <2>6 DEF Inputs
  <2>. QED
    BY <2>2, <2>3, <2>4, <2>5, <2>6 DEF Next
<1>. QED
  BY <1>1, <1>2, PTL DEF Spec

\* The buffer is full of what was received before.
LEMMA StaleIsBytes ==
  ASSUME NEW stale \in Stale
  PROVE  stale \in Seq(Bytes) /\ Len(stale) = Buffer
<1>1. stale \in [1 .. Buffer -> Bytes]
  BY DEF Stale
<1>. QED
  BY <1>1, SizesAssumption

\* Of a datagram taken for a MSG the client shows its own bytes, whatever these
\* are and whatever the buffer still holds of the ones before (UDP.c:200,
\* 323-375).  Nothing of the kind holds of an ERR (UDP.c:281-292).
THEOREM StaleIsNeverShown == Spec => []StaleNeverShown
<1>1. Inputs => StaleNeverShown
  <2>. DEFINE U     == Bytes \cup {"nul"}
              zeros == [i \in 1 .. Buffer |-> "nul"]
  <2>. SUFFICES ASSUME Inputs, NEW stale \in Stale
                PROVE  ReceiveMsg(datagram, stale) = ReceiveMsg(datagram, zeros)
    BY DEF StaleNeverShown
  <2>1. /\ datagram \in Seq(Bytes) /\ Len(datagram) <= MaxBytes
        /\ stale \in Seq(Bytes) /\ Len(stale) = Buffer
    BY StaleIsBytes DEF Inputs
  <2>2. Len(datagram) <= Buffer
    BY <2>1, DatagramAssumption
  <2>3. datagram \in Seq(U) /\ stale \in Seq(U)
    BY <2>1, SeqMonotonic
  <2>4. zeros \in [1 .. Buffer -> U]
    OBVIOUS
  <2>5. zeros \in Seq(U) /\ Len(zeros) = Buffer
    BY <2>4, SizesAssumption
  <2>. HIDE DEF zeros, U
  <2>. QED
    BY <2>1, <2>2, <2>3, <2>5, OwnBytes
<1>. QED
  BY <1>1, InputsHold, PTL

-----------------------------------------------------------------------------
(* What one UDP client composes another shows.                             *)

\* The first n bytes, or all of them.
LEMMA CutFacts ==
  ASSUME NEW U, NEW s \in Seq(U), NEW n \in Nat
  PROVE  /\ Cut(s, n) \in Seq(U)
         /\ Len(Cut(s, n)) = IF Len(s) < n THEN Len(s) ELSE n
         /\ \A i \in 1 .. Len(Cut(s, n)) : Cut(s, n)[i] = s[i]
<1>. DEFINE l == IF Len(s) < n THEN Len(s) ELSE n
<1>1. l \in Nat /\ l <= Len(s) /\ 1 \in Nat \ {0}
  OBVIOUS
<1>2. Cut(s, n) = SubSeq(s, 1, l)
  BY DEF Cut
<1>. HIDE DEF l
<1>3. /\ SubSeq(s, 1, l) \in Seq(U) /\ Len(SubSeq(s, 1, l)) = l
      /\ \A i \in 1 .. l : SubSeq(s, 1, l)[i] = s[i]
  BY <1>1, Slice
<1>. QED
  BY <1>2, <1>3 DEF l

\* m has the bytes of h, f and g, one behind the other.
HasThree(m, h, f, g) ==
  /\ Len(m) = Len(h) + Len(f) + Len(g)
  /\ \A i \in 1 .. Len(h) : m[i] = h[i]
  /\ \A i \in 1 .. Len(f) : m[Len(h) + i] = f[i]
  /\ \A i \in 1 .. Len(g) : m[Len(h) + Len(f) + i] = g[i]

\* Three sequences are joined.
LEMMA ThreeJoined ==
  ASSUME NEW U, NEW h \in Seq(U), NEW f \in Seq(U), NEW g \in Seq(U)
  PROVE  /\ h \o f \o g \in Seq(U)
         /\ Len(h) \in Nat /\ Len(f) \in Nat /\ Len(g) \in Nat
         /\ HasThree(h \o f \o g, h, f, g)
  BY DEF HasThree

\* f is s and its terminator.
IsField(f, s) ==
  /\ Len(f) = Len(s) + 1
  /\ \A i \in 1 .. Len(s) : f[i] = s[i]
  /\ f[Len(s) + 1] = "nul"

\* A field is a text and its terminator.
LEMMA FieldBytes ==
  ASSUME NEW U, NEW s \in Seq(U), "nul" \in U
  PROVE  Field(s) \in Seq(U) /\ Len(s) \in Nat /\ IsField(Field(s), s)
  BY DEF Field, IsField

\* A header has three bytes: the type and the id.
LEMMA HeaderBytes ==
  ASSUME NEW U, NEW type \in U, "id" \in U
  PROVE  Header(type) \in Seq(U) /\ Len(Header(type)) = 3
  BY DEF Header

\* m holds a name and a text behind its header, each with its terminator.
Carries(m, n, t) ==
  /\ Len(m) = Len(n) + Len(t) + 5
  /\ Continues(m, 3, n) /\ m[4 + Len(n)] = "nul"
  /\ Continues(m, 4 + Len(n), t) /\ m[5 + Len(n) + Len(t)] = "nul"

\* Two fields behind a header are a name and a text.
LEMMA CarriesFields ==
  ASSUME NEW n, NEW t, NEW f, NEW g, NEW m,
         Len(n) \in Nat, Len(t) \in Nat,
         IsField(f, n), IsField(g, t), Len(m) = 3 + Len(f) + Len(g),
         Continues(m, 3, f), Continues(m, 3 + Len(f), g)
  PROVE  Carries(m, n, t)
<1>. USE DEF IsField, Continues
<1>1. Len(m) = Len(n) + Len(t) + 5
  OBVIOUS
<1>2. ASSUME NEW i \in 1 .. Len(n) PROVE m[3 + i] = n[i]
  <2>1. i \in 1 .. Len(f)
    OBVIOUS
  <2>. QED
    BY <2>1
<1>3. m[4 + Len(n)] = "nul"
  <2>1. Len(f) \in 1 .. Len(f) /\ 3 + Len(f) = 4 + Len(n)
    OBVIOUS
  <2>. QED
    BY <2>1
<1>4. ASSUME NEW i \in 1 .. Len(t) PROVE m[4 + Len(n) + i] = t[i]
  <2>1. i \in 1 .. Len(g) /\ 3 + Len(f) + i = 4 + Len(n) + i
    OBVIOUS
  <2>. QED
    BY <2>1
<1>5. m[5 + Len(n) + Len(t)] = "nul"
  <2>1. Len(g) \in 1 .. Len(g) /\ 3 + Len(f) + Len(g) = 5 + Len(n) + Len(t)
    OBVIOUS
  <2>. QED
    BY <2>1
<1>. QED
  BY <1>1, <1>2, <1>3, <1>4, <1>5 DEF Carries

\* u_send_message and its like compose a name and a text (UDP.c:797-801).
LEMMA MessageBytes ==
  ASSUME NEW U, NEW n \in Seq(U), NEW t \in Seq(U),
         NEW type \in U, "nul" \in U, "id" \in U
  PROVE  /\ Header(type) \o Field(n) \o Field(t) \in Seq(U)
         /\ Carries(Header(type) \o Field(n) \o Field(t), n, t)
<1>. DEFINE h == Header(type)
            f == Field(n)
            g == Field(t)
            m == h \o f \o g
<1>1. h \in Seq(U) /\ Len(h) = 3
  BY HeaderBytes
<1>2. f \in Seq(U) /\ Len(n) \in Nat /\ IsField(f, n)
  BY FieldBytes
<1>3. g \in Seq(U) /\ Len(t) \in Nat /\ IsField(g, t)
  BY FieldBytes
<1>. HIDE DEF h, f, g
<1>4. /\ m \in Seq(U)
      /\ Len(m) = Len(h) + Len(f) + Len(g)
      /\ Continues(m, Len(h), f) /\ Continues(m, Len(h) + Len(f), g)
  <2>1. h \in Seq(U) /\ f \in Seq(U) /\ g \in Seq(U)
    BY <1>1, <1>2, <1>3
  <2>2. m \in Seq(U) /\ HasThree(m, h, f, g)
    BY <2>1, ThreeJoined
  <2>. HIDE DEF m
  <2>. QED
    BY <2>2 DEF Continues, HasThree
<1>. HIDE DEF m
<1>5. /\ m \in Seq(U)
      /\ Len(m) = 3 + Len(f) + Len(g)
      /\ Continues(m, 3, f) /\ Continues(m, 3 + Len(f), g)
  BY <1>1, <1>4
<1>6. Carries(m, n, t)
  BY <1>2, <1>3, <1>5, CarriesFields
<1>. QED
  BY <1>5, <1>6 DEF m, h, f, g

\* The receiver copies the name that was sent, if all of it has arrived.
LEMMA SentName ==
  ASSUME NEW U, NEW m, NEW n \in Seq(U), NEW t, Carries(m, n, t),
         Printable(n), Len(n) <= MaxName,
         NEW k \in Nat, 4 + Len(n) <= k,
         NEW memory \in Seq(U), Len(memory) >= Buffer, Same(m, memory, k)
  PROVE  DisplayName(memory) = n
<1>1. /\ MaxName \in Nat /\ 3 + MaxName \in Nat
      /\ Len(n) \in Nat /\ 3 + Len(n) + 1 = 4 + Len(n)
  BY SizesAssumption
<1>2. FieldIn(m, 3, 3 + MaxName, "nul", n)
  BY <1>1 DEF Carries, FieldIn, Printable
<1>3. FieldIn(memory, 3, 3 + MaxName, "nul", n)
  BY <1>1, <1>2, FieldMoved
<1>. QED
  BY <1>3, NameIs

\* The receiver copies as much of the text as has arrived.
LEMMA SentText ==
  ASSUME NEW U, NEW m, NEW n, NEW t, Carries(m, n, t), Printable(t),
         Len(n) \in Nat, Len(t) \in Nat,
         NEW upto \in Nat, 4 + Len(n) <= upto, upto <= Len(m),
         NEW w \in Seq(U), Len(w) = IF 4 + Len(n) + Len(t) < upto THEN Len(t)
                                    ELSE upto - (4 + Len(n)),
         \A i \in 1 .. Len(w) : w[i] = t[i],
         NEW memory \in Seq(U), upto <= Len(memory), Same(m, memory, upto)
  PROVE  CString(SubSeq(memory, 4 + Len(n) + 1, upto)) = w
<1>. DEFINE offset == 4 + Len(n)
<1>1. /\ Len(w) \in Nat /\ Len(w) <= upto - offset /\ Len(w) <= Len(t)
      /\ Len(w) < upto - offset => Len(w) = Len(t)
  OBVIOUS
<1>2. Continues(m, offset, w)
  BY <1>1 DEF Carries, Continues
<1>3. \A i \in 1 .. Len(w) : w[i] # "nul"
  BY <1>1 DEF Printable
<1>4. offset + Len(t) + 1 = 5 + Len(n) + Len(t)
  OBVIOUS
<1>5. Len(w) < upto - offset => m[offset + Len(w) + 1] = "nul"
  BY <1>1, <1>4 DEF Carries
<1>6. offset \in Nat /\ offset <= upto /\ upto <= upto
  OBVIOUS
<1>. HIDE DEF offset
<1>7. FieldIn(m, offset, upto, "nul", w)
  BY <1>1, <1>2, <1>3, <1>5 DEF FieldIn
<1>8. FieldIn(memory, offset, upto, "nul", w)
  BY <1>6, <1>7, FieldMoved
<1>9. CString(SubSeq(memory, offset + 1, upto)) = w
  BY <1>6, <1>8, FieldIs DEF CString
<1>. QED
  BY <1>9 DEF offset

\* The content length is what the datagram holds behind the name.
LEMMA SentLength ==
  ASSUME NEW n, Len(n) \in Nat, Len(n) <= MaxName,
         NEW k \in Nat, k <= Buffer, 4 + Len(n) <= k
  PROVE  /\ 3 + Len(n) + 1 = 4 + Len(n)
         /\ Minus(k, 3 + Len(n) + 1) \in Nat
         /\ Minus(k, 3 + Len(n) + 1) <= Buffer
         /\ 4 + Len(n) + Minus(k, 3 + Len(n) + 1) = k
<1>. DEFINE offset == 3 + Len(n) + 1
<1>1. offset \in Nat /\ offset < SizeSpace /\ k < SizeSpace /\ offset <= k
  BY SizesAssumption
<1>2. Minus(k, offset) = k - offset
  BY <1>1, MinusFacts
<1>. QED
  BY <1>1, <1>2, SizesAssumption

\* recvfrom leaves the buffer behind the datagram as it was.
LEMMA Received ==
  ASSUME NEW U, NEW p \in Seq(U), NEW stale \in Seq(U), Len(stale) = Buffer
  PROVE  /\ p \o stale \in Seq(U) /\ Len(p) \in Nat
         /\ Len(p) <= Len(p \o stale) /\ Len(p \o stale) >= Buffer
         /\ Same(p, p \o stale, Len(p))
<1>1. /\ p \o stale \in Seq(U) /\ Len(p \o stale) = Len(p) + Len(stale)
      /\ Len(p) \in Nat
      /\ \A i \in 1 .. Len(p) : (p \o stale)[i] = p[i]
  BY Joined
<1>. QED
  BY <1>1, SizesAssumption DEF Same

\* A MSG is shown as sent.
LEMMA MsgShown ==
  ASSUME NEW U, NEW m \in Seq(U), NEW n \in Seq(U), NEW t \in Seq(U),
         Carries(m, n, t), Printable(n), Printable(t), Len(n) <= MaxName,
         Len(m) <= Buffer,
         NEW stale \in Seq(U), Len(stale) = Buffer
  PROVE  ReceiveMsg(m, stale) = Shown(n, t)
<1>. DEFINE memory == m \o stale
            offset == 3 + Len(n) + 1
            length == Minus(Len(m), offset)
<1>1. /\ Len(n) \in Nat /\ Len(t) \in Nat /\ Len(m) = Len(n) + Len(t) + 5
      /\ Buffer \in Nat
  BY SizesAssumption DEF Carries
<1>2. /\ Len(m) \in Nat /\ Len(m) <= Buffer /\ Len(m) <= Len(m)
      /\ 4 + Len(n) <= Len(m) /\ Len(m) >= 3
      /\ Len(t) = IF 4 + Len(n) + Len(t) < Len(m) THEN Len(t)
                  ELSE Len(m) - (4 + Len(n))
  BY <1>1
<1>3. /\ memory \in Seq(U) /\ Len(m) <= Len(memory) /\ Len(memory) >= Buffer
      /\ Same(m, memory, Len(m))
  BY Received
<1>. HIDE DEF memory
<1>4. DisplayName(memory) = n
  BY <1>2, <1>3, SentName
<1>5. CString(SubSeq(memory, 4 + Len(n) + 1, Len(m))) = t
  BY <1>1, <1>2, <1>3, SentText
<1>6. offset = 4 + Len(n) /\ length <= Buffer /\ offset + length = Len(m)
  BY <1>1, <1>2, SentLength
<1>. HIDE DEF offset, length
<1>7. CString(SubSeq(memory, offset + 1, offset + length)) = t
  BY <1>5, <1>6
<1>. QED
  BY <1>2, <1>4, <1>6, <1>7, Zenon
  DEF ReceiveMsg, memory, offset, length

\* A beginning of the rest is a slice.
LEMMA CutSlice ==
  ASSUME NEW U, NEW s \in Seq(U), NEW m \in Nat, NEW l \in Nat, m + l <= Len(s)
  PROVE  Cut(SubSeq(s, m + 1, Len(s)), l) = SubSeq(s, m + 1, m + l)
<1>. DEFINE rest == SubSeq(s, m + 1, Len(s))
            part == SubSeq(s, m + 1, m + l)
<1>1. m + 1 \in Nat \ {0} /\ m + l \in Nat /\ Len(s) \in Nat
  OBVIOUS
<1>2. /\ rest \in Seq(U) /\ Len(rest) = Len(s) - m
      /\ \A i \in 1 .. Len(s) - m : rest[i] = s[m + i]
  BY <1>1, Slice
<1>3. /\ part \in Seq(U) /\ Len(part) = l
      /\ \A i \in 1 .. l : part[i] = s[m + i]
  BY <1>1, Slice
<1>. HIDE DEF rest, part
<1>4. /\ Cut(rest, l) \in Seq(U) /\ Len(Cut(rest, l)) = l
      /\ \A i \in 1 .. l : Cut(rest, l)[i] = s[m + i]
  BY <1>1, <1>2, CutFacts
<1>5. Cut(rest, l) = part
  BY <1>3, <1>4, SeqEqual
<1>. QED
  BY <1>5 DEF rest, part

\* An ERR is shown as sent.
LEMMA ErrShown ==
  ASSUME NEW U, NEW m \in Seq(U), NEW n \in Seq(U), NEW t \in Seq(U),
         Carries(m, n, t), Printable(n), Printable(t), Len(n) <= MaxName,
         Len(m) <= Buffer,
         NEW stale \in Seq(U), Len(stale) = Buffer
  PROVE  ReceiveErr(m, stale) = Shown(n, t)
<1>. DEFINE memory == m \o stale
            offset == 3 + Len(n) + 1
            length == Minus(Len(m), offset)
<1>1. /\ Len(n) \in Nat /\ Len(t) \in Nat /\ Len(m) = Len(n) + Len(t) + 5
      /\ Buffer \in Nat
  BY SizesAssumption DEF Carries
<1>2. /\ Len(m) \in Nat /\ Len(m) <= Buffer /\ Len(m) <= Len(m)
      /\ 4 + Len(n) <= Len(m)
      /\ Len(t) = IF 4 + Len(n) + Len(t) < Len(m) THEN Len(t)
                  ELSE Len(m) - (4 + Len(n))
  BY <1>1
<1>3. /\ memory \in Seq(U) /\ Len(m) <= Len(memory) /\ Len(memory) >= Buffer
      /\ Same(m, memory, Len(m))
  BY Received
<1>. HIDE DEF memory
<1>5. DisplayName(memory) = n
  BY <1>2, <1>3, SentName
<1>6. CString(SubSeq(memory, 4 + Len(n) + 1, Len(m))) = t
  BY <1>1, <1>2, <1>3, SentText
<1>7. offset = 4 + Len(n) /\ length \in Nat /\ offset + length = Len(m)
  BY <1>1, <1>2, SentLength
<1>8. offset \in Nat
  BY <1>1
<1>. HIDE DEF offset, length
<1>9. Cut(SubSeq(memory, offset + 1, Len(memory)), length)
        = SubSeq(memory, offset + 1, offset + length)
  BY <1>3, <1>7, <1>8, CutSlice
<1>10. CString(Cut(SubSeq(memory, offset + 1, Len(memory)), length)) = t
  BY <1>6, <1>7, <1>9
<1>. QED
  BY <1>5, <1>10, Zenon DEF ReceiveErr, memory, offset, length

\* m has six bytes, a text and its terminator.
IsReply(m, t) == /\ Len(m) = Len(t) + 7
                 /\ Continues(m, 6, t) /\ m[6 + Len(t) + 1] = "nul"

\* A REPLY has six bytes before its text.
LEMMA ReplyBytes ==
  ASSUME NEW U, NEW h \in Seq(U), NEW t \in Seq(U), NEW e \in Seq(U),
         Len(h) = 6, Len(e) = 1, e[1] = "nul"
  PROVE  /\ h \o t \o e \in Seq(U) /\ Len(t) \in Nat
         /\ IsReply(h \o t \o e, t)
<1>. DEFINE m == h \o t \o e
<1>1. m \in Seq(U) /\ Len(t) \in Nat /\ HasThree(m, h, t, e)
  BY ThreeJoined
<1>. HIDE DEF m
<1>2. IsReply(m, t)
  BY <1>1 DEF IsReply, HasThree, Continues
<1>. QED
  BY <1>1, <1>2 DEF m

\* The text of a REPLY is shown as sent, while it fits.
LEMMA ReplyShown ==
  ASSUME NEW U, NEW t \in Seq(U), Printable(t), Len(t) \in Nat,
         NEW m \in Seq(U), IsReply(m, t), Len(m) <= Buffer,
         NEW stale \in Seq(U), Len(stale) = Buffer
  PROVE  ReceiveReply(m, stale) = Shown(<<>>, t)
<1>. DEFINE memory == m \o stale
            length == Minus(Len(m), 6)
<1>5. /\ memory \in Seq(U) /\ Len(m) <= Len(memory)
      /\ Len(m) \in Nat /\ Same(m, memory, Len(m))
  BY Received
<1>. HIDE DEF memory
<1>6. 6 <= Len(m)
  BY DEF IsReply
<1>7. CString(SubSeq(memory, 7, Len(m))) = t
  <2>1. FieldIn(m, 6, Len(m), "nul", t)
    BY DEF FieldIn, Printable, IsReply
  <2>2. 6 \in Nat /\ Len(m) <= Len(m) /\ 6 + 1 = 7
    BY <1>5
  <2>3. FieldIn(memory, 6, Len(m), "nul", t)
    BY <1>5, <1>6, <2>1, <2>2, FieldMoved
  <2>. QED
    BY <1>5, <1>6, <2>2, <2>3, FieldIs DEF CString
<1>8. length = Len(m) - 6 /\ length < Buffer /\ 6 + length = Len(m)
  <2>1. 6 \in Nat /\ 6 < SizeSpace /\ Len(m) < SizeSpace /\ 6 <= Len(m)
    BY <1>5, <1>6, SizesAssumption
  <2>2. length = Len(m) - 6
    BY <1>5, <2>1, MinusFacts
  <2>. QED
    BY <2>2, SizesAssumption
<1>. HIDE DEF length
<1>. QED
  BY <1>7, <1>8, Zenon DEF ReceiveReply, memory, length

\* The names and texts of MSG, ERR and REPLY come out as they were sent: for
\* every name and text whose message fits into the arrays in which the sender
\* composes and queues it, and whatever the receive buffer held before.
THEOREM UdpIsShownAsSent == Spec => []UdpShownAsSent
<1>1. Inputs => UdpShownAsSent
  <2>. DEFINE U  == Chars \cup Bytes
                      \cup {"nul", "id", "MSG", "ERR", "REPLY", "ok"}
              h  == <<"REPLY", "id", "id", "ok", "id", "id">>
              reply == h \o text \o <<"nul">>
              msg == Header("MSG") \o Field(name) \o Field(text)
              err == Header("ERR") \o Field(name) \o Field(text)
  <2>. SUFFICES ASSUME Inputs, Printable(name), Printable(text),
                       Len(name) <= MaxName, NEW stale \in Stale
                PROVE  /\ Fits =>
                            /\ ReceiveMsg(MsgMessage(name, text), stale)
                                 = Shown(name, text)
                            /\ ReceiveErr(ErrMessage(name, text), stale)
                                 = Shown(name, text)
                       /\ Len(reply) <= Buffer =>
                            ReceiveReply(reply, stale) = Shown(<<>>, text)
    BY DEF UdpShownAsSent
  <2>1. /\ name \in Seq(Chars) /\ text \in Seq(Chars)
        /\ stale \in Seq(Bytes) /\ Len(stale) = Buffer
    BY StaleIsBytes DEF Inputs
  <2>2. name \in Seq(U) /\ text \in Seq(U) /\ stale \in Seq(U)
    BY <2>1, SeqMonotonic
  <2>3. "nul" \in U /\ "id" \in U /\ "MSG" \in U /\ "ERR" \in U
    OBVIOUS
  <2>4. h \in Seq(U) /\ Len(h) = 6
    OBVIOUS
  <2>. HIDE DEF U, h
  <2>5. msg \in Seq(U) /\ Carries(msg, name, text)
    BY <2>2, <2>3, MessageBytes
  <2>6. err \in Seq(U) /\ Carries(err, name, text)
    BY <2>2, <2>3, MessageBytes
  <2>7. /\ MsgMessage(name, text) = IF Len(msg) <= Buffer THEN msg ELSE Undefined
        /\ ErrMessage(name, text) = IF Len(err) <= Buffer THEN err ELSE Undefined
    BY Zenon DEF MsgMessage, ErrMessage, InArray
  <2>. HIDE DEF msg, err
  <2>8. ASSUME Fits
        PROVE  /\ ReceiveMsg(MsgMessage(name, text), stale) = Shown(name, text)
               /\ ReceiveErr(ErrMessage(name, text), stale) = Shown(name, text)
    <3>1. Len(msg) <= Buffer /\ Len(err) <= Buffer
      BY <2>5, <2>6, <2>8 DEF Fits, Carries
    <3>2. ReceiveMsg(msg, stale) = Shown(name, text)
      BY <2>1, <2>2, <2>5, <3>1, MsgShown
    <3>3. ReceiveErr(err, stale) = Shown(name, text)
      BY <2>1, <2>2, <2>6, <3>1, ErrShown
    <3>. QED
      BY <2>7, <3>1, <3>2, <3>3
  <2>9. Len(reply) <= Buffer => ReceiveReply(reply, stale) = Shown(<<>>, text)
    <3>1. <<"nul">> \in Seq(U) /\ Len(<<"nul">>) = 1 /\ <<"nul">>[1] = "nul"
      BY <2>3
    <3>2. reply \in Seq(U) /\ Len(text) \in Nat /\ IsReply(reply, text)
      BY <2>2, <2>4, <3>1, ReplyBytes
    <3>. HIDE DEF reply
    <3>. QED
      BY <2>1, <2>2, <3>2, ReplyShown
  <2>. QED
    BY <2>8, <2>9
<1>. QED
  BY <1>1, InputsHold, PTL

-----------------------------------------------------------------------------
(* What one TCP client composes another shows.                             *)

\* All the bytes.
LEMMA WholeSlice ==
  ASSUME NEW U, NEW s \in Seq(U)
  PROVE  SubSeq(s, 1, Len(s)) = s
<1>. DEFINE t == SubSeq(s, 1, Len(s))
<1>1. Len(s) \in Nat /\ 1 \in Nat \ {0}
  OBVIOUS
<1>2. t \in Seq(U) /\ Len(t) = Len(s) /\ \A i \in 1 .. Len(s) : t[i] = s[i]
  BY <1>1, Slice
<1>. HIDE DEF t
<1>3. t = s
  BY <1>2, SeqEqual
<1>. QED
  BY <1>3 DEF t

\* strtok skips nothing where there is no space.
LEMMA NoSpacesInFront ==
  ASSUME NEW U, NEW s \in Seq(U), Len(s) > 0, s[1] # "SP"
  PROVE  SkipSpaces(s) = s
<1>. DEFINE I == {i \in 1 .. Len(s) : s[i] # "SP"}
            m == Min(I)
<1>1. 1 \in I /\ \A y \in I : 1 <= y
  OBVIOUS
<1>2. m \in I /\ \A y \in I : m <= y
  BY <1>1 DEF Min
<1>. HIDE DEF m
<1>3. m = 1
  BY <1>1, <1>2
<1>4. SkipSpaces(s) = IF m = 0 THEN <<>> ELSE SubSeq(s, m, Len(s))
  BY <1>1, Zenon DEF SkipSpaces, SelectInSeq, m
<1>. QED
  BY <1>3, <1>4, WholeSlice

\* The rest of the rest is a rest.
LEMMA TailOfTail ==
  ASSUME NEW U, NEW s \in Seq(U), NEW k \in Nat, NEW l \in Nat,
         k + l <= Len(s)
  PROVE  LET tail == SubSeq(s, k + 1, Len(s))
         IN  SubSeq(tail, l + 1, Len(tail)) = SubSeq(s, k + l + 1, Len(s))
<1>. DEFINE tail == SubSeq(s, k + 1, Len(s))
            left == SubSeq(tail, l + 1, Len(tail))
            right == SubSeq(s, k + l + 1, Len(s))
<1>1. /\ k + 1 \in Nat \ {0} /\ l + 1 \in Nat \ {0} /\ k + l + 1 \in Nat \ {0}
      /\ Len(s) \in Nat
  OBVIOUS
<1>2. /\ tail \in Seq(U) /\ Len(tail) = Len(s) - k
      /\ \A i \in 1 .. Len(s) - k : tail[i] = s[k + i]
  BY <1>1, Slice
<1>. HIDE DEF tail
<1>3. /\ left \in Seq(U) /\ Len(left) = Len(s) - k - l
      /\ \A i \in 1 .. Len(s) - k - l : left[i] = tail[l + i]
  BY <1>1, <1>2, Slice
<1>4. /\ right \in Seq(U) /\ Len(right) = Len(s) - k - l
      /\ \A i \in 1 .. Len(s) - k - l : right[i] = s[k + l + i]
  BY <1>1, Slice
<1>. HIDE DEF left, right
<1>5. ASSUME NEW i \in 1 .. Len(s) - k - l PROVE left[i] = right[i]
  <2>1. l + i \in 1 .. Len(s) - k /\ k + (l + i) = k + l + i
    BY <1>1
  <2>2. tail[l + i] = s[k + (l + i)]
    BY <1>2, <2>1
  <2>. QED
    BY <1>3, <1>4, <2>1, <2>2
<1>6. left = right
  BY <1>3, <1>4, <1>5, SeqEqual
<1>. QED
  BY <1>6 DEF left, right, tail

\* strtok takes the word and the space behind it.
LEMMA WordRead ==
  ASSUME NEW U, NEW s \in Seq(U), NEW k \in Nat, NEW w \in Seq(U),
         FieldIn(s, k, Len(s), "SP", w), Len(w) # 0, k + Len(w) < Len(s)
  PROVE  /\ Token(SubSeq(s, k + 1, Len(s))) = w
         /\ Behind(SubSeq(s, k + 1, Len(s)))
              = SubSeq(s, k + Len(w) + 1 + 1, Len(s))
<1>. DEFINE tail == SubSeq(s, k + 1, Len(s))
<1>1. /\ k + 1 \in Nat \ {0} /\ Len(s) \in Nat /\ Len(w) \in Nat
      /\ k <= Len(s) /\ Len(s) <= Len(s)
  BY DEF FieldIn
<1>2. /\ tail \in Seq(U) /\ Len(tail) = Len(s) - k
      /\ \A i \in 1 .. Len(s) - k : tail[i] = s[k + i]
  <2>. DEFINE m == k + 1
              N == Len(s)
  <2>1. m \in Nat \ {0} /\ N \in Nat /\ N <= Len(s)
    BY <1>1
  <2>. HIDE DEF m, N
  <2>2. /\ SubSeq(s, m, N) \in Seq(U)
        /\ Len(SubSeq(s, m, N)) = IF m <= N THEN N - m + 1 ELSE 0
        /\ \A i \in 1 .. N - m + 1 : SubSeq(s, m, N)[i] = s[m + i - 1]
    BY <2>1, Slice
  <2>3. m = k + 1 /\ N = Len(s) /\ tail = SubSeq(s, m, N)
    BY DEF m, N
  <2>. HIDE DEF tail
  <2>4. /\ IF m <= N THEN N - m + 1 = N - k ELSE N - k = 0
        /\ N - m + 1 = N - k
    BY <1>1, <2>3
  <2>5. \A i \in 1 .. N - k : m + i - 1 = k + i
    BY <1>1, <2>3
  <2>. QED
    BY <2>2, <2>3, <2>4, <2>5
<1>3. UpTo(tail, "SP") = w
  BY <1>1, FieldIs
<1>4. SubSeq(tail, Len(w) + 1 + 1, Len(tail))
        = SubSeq(s, k + (Len(w) + 1) + 1, Len(s))
  <2>1. Len(w) + 1 \in Nat /\ k + (Len(w) + 1) <= Len(s)
    BY <1>1
  <2>. QED
    BY <1>1, <2>1, TailOfTail
<1>. HIDE DEF tail
<1>5. SkipSpaces(tail) = tail
  <2>1. 1 \in 1 .. Len(w) /\ 1 \in 1 .. Len(s) - k
    BY <1>1
  <2>2. tail[1] # "SP" /\ Len(tail) > 0
    BY <1>1, <1>2, <2>1 DEF FieldIn, Continues
  <2>. QED
    BY <1>2, <2>2, NoSpacesInFront
<1>6. Token(tail) = w
  BY <1>3, <1>5 DEF Token
<1>7. Len(w) + 2 = Len(w) + 1 + 1 /\ k + (Len(w) + 1) = k + Len(w) + 1
  BY <1>1
<1>8. Behind(tail) = SubSeq(s, k + Len(w) + 1 + 1, Len(s))
  BY <1>4, <1>5, <1>6, <1>7 DEF Behind
<1>. QED
  BY <1>6, <1>8 DEF tail

\* m is the line of generic_message up to its carriage return, k bytes long.
IsLine(m, n, t, k) ==
  /\ k = Len(n) + Len(t) + 8
  /\ m[1] = "MSG" /\ m[2] = "SP" /\ m[3] = "FROM" /\ m[4] = "SP"
  /\ Continues(m, 4, n) /\ m[Len(n) + 5] = "SP"
  /\ m[Len(n) + 6] = "IS" /\ m[Len(n) + 7] = "SP"
  /\ Continues(m, Len(n) + 7, t) /\ m[k] = "CR"

\* What generic_message puts around the name and the text.
Framing(a, b, e) == /\ a = <<"MSG", "SP", "FROM", "SP">>
                    /\ b = <<"SP", "IS", "SP">>
                    /\ e = <<"CR", "NL">>

\* The line that generic_message composes.
LEMMA LineBytes ==
  ASSUME NEW U, NEW a \in Seq(U), NEW n \in Seq(U), NEW b \in Seq(U),
         NEW t \in Seq(U), NEW e \in Seq(U)
  PROVE  /\ a \o n \o b \o t \o e \in Seq(U)
         /\ Framing(a, b, e) =>
              /\ Len(a \o n \o b \o t \o e) = Len(n) + Len(t) + 9
              /\ IsLine(a \o n \o b \o t \o e, n, t, Len(n) + Len(t) + 8)
              /\ Last(a \o n \o b \o t \o e) = "NL"
<1>. DEFINE l == a \o n \o b
            m == l \o t \o e
<1>1. /\ l \in Seq(U) /\ Len(l) = Len(a) + Len(n) + Len(b)
      /\ Len(n) \in Nat
      /\ \A i \in 1 .. Len(a) : l[i] = a[i]
      /\ \A i \in 1 .. Len(n) : l[Len(a) + i] = n[i]
      /\ \A i \in 1 .. Len(b) : l[Len(a) + Len(n) + i] = b[i]
  <2>1. l \in Seq(U) /\ Len(n) \in Nat /\ HasThree(l, a, n, b)
    BY ThreeJoined
  <2>. HIDE DEF l
  <2>. QED
    BY <2>1 DEF HasThree
<1>. HIDE DEF l
<1>2. /\ m \in Seq(U) /\ Len(m) = Len(l) + Len(t) + Len(e)
      /\ Len(t) \in Nat
      /\ \A i \in 1 .. Len(l) : m[i] = l[i]
      /\ \A i \in 1 .. Len(t) : m[Len(l) + i] = t[i]
      /\ \A i \in 1 .. Len(e) : m[Len(l) + Len(t) + i] = e[i]
  <2>1. l \in Seq(U) /\ t \in Seq(U) /\ e \in Seq(U)
    BY <1>1
  <2>2. m \in Seq(U) /\ Len(t) \in Nat /\ HasThree(m, l, t, e)
    BY <2>1, ThreeJoined
  <2>. HIDE DEF m
  <2>. QED
    BY <2>2 DEF HasThree
<1>. HIDE DEF m
<1>3. ASSUME Framing(a, b, e)
      PROVE  /\ Len(m) = Len(n) + Len(t) + 9
             /\ IsLine(m, n, t, Len(n) + Len(t) + 8)
             /\ Last(m) = "NL"
  <2>1. /\ Len(a) = 4 /\ Len(b) = 3 /\ Len(e) = 2
        /\ a[1] = "MSG" /\ a[2] = "SP" /\ a[3] = "FROM" /\ a[4] = "SP"
        /\ b[1] = "SP" /\ b[2] = "IS" /\ b[3] = "SP"
        /\ e[1] = "CR" /\ e[2] = "NL"
    BY <1>3 DEF Framing
  <2>2. /\ Len(l) = Len(n) + 7
        /\ l[1] = "MSG" /\ l[2] = "SP" /\ l[3] = "FROM" /\ l[4] = "SP"
        /\ \A i \in 1 .. Len(n) : l[4 + i] = n[i]
        /\ l[4 + Len(n) + 1] = "SP" /\ l[4 + Len(n) + 2] = "IS"
        /\ l[4 + Len(n) + 3] = "SP"
    BY <1>1, <2>1
  <2>3. /\ m[1] = "MSG" /\ m[2] = "SP" /\ m[3] = "FROM" /\ m[4] = "SP"
        /\ \A i \in 1 .. Len(n) : m[4 + i] = n[i]
        /\ m[4 + Len(n) + 1] = "SP" /\ m[4 + Len(n) + 2] = "IS"
        /\ m[4 + Len(n) + 3] = "SP"
    <3>1. \A i \in 1 .. Len(n) + 7 : m[i] = l[i]
      BY <1>2, <2>2
    <3>2. /\ 1 \in 1 .. Len(n) + 7 /\ 2 \in 1 .. Len(n) + 7
          /\ 3 \in 1 .. Len(n) + 7 /\ 4 \in 1 .. Len(n) + 7
          /\ \A i \in 1 .. Len(n) + 3 : 4 + i \in 1 .. Len(n) + 7
      BY <1>1
    <3>3. /\ 4 + Len(n) + 1 \in 1 .. Len(n) + 7
          /\ 4 + Len(n) + 2 \in 1 .. Len(n) + 7
          /\ 4 + Len(n) + 3 \in 1 .. Len(n) + 7
          /\ \A i \in 1 .. Len(n) : i \in 1 .. Len(n) + 3
      BY <1>1
    <3>. QED
      BY <2>2, <3>1, <3>2, <3>3
  <2>4. /\ Len(m) = Len(n) + Len(t) + 9
        /\ \A i \in 1 .. Len(t) : m[Len(n) + 7 + i] = t[i]
        /\ m[Len(n) + 7 + Len(t) + 1] = "CR"
        /\ m[Len(n) + 7 + Len(t) + 2] = "NL"
    BY <1>1, <1>2, <2>1, <2>2
  <2>5. /\ 4 + Len(n) + 1 = Len(n) + 5 /\ 4 + Len(n) + 2 = Len(n) + 6
        /\ 4 + Len(n) + 3 = Len(n) + 7
        /\ Len(n) + 7 + Len(t) + 1 = Len(n) + Len(t) + 8
        /\ Len(n) + 7 + Len(t) + 2 = Len(n) + Len(t) + 9
    BY <1>1, <1>2
  <2>. QED
    BY <2>3, <2>4, <2>5 DEF IsLine, Continues, Last
<1>. QED
  BY <1>2, <1>3 DEF m, l

\* strtok finds the end of the line, and nothing of it but the end is lost.
LEMMA LineUpToEnd ==
  ASSUME NEW U, NEW m \in Seq(U), NEW n, NEW t, NEW k \in Nat,
         Len(n) \in Nat, Len(t) \in Nat,
         IsLine(m, n, t, k), Len(m) = k + 1, m[k + 1] = "NL",
         Printable(n), Printable(t)
  PROVE  /\ UpTo(m, "NL") \in Seq(U) /\ Len(UpTo(m, "NL")) = k
         /\ IsLine(UpTo(m, "NL"), n, t, k)
<1>. DEFINE l == UpTo(m, "NL")
<1>1. /\ l \in Seq(U) /\ Len(l) <= Len(m)
      /\ \A i \in 1 .. Len(l) : l[i] = m[i] /\ m[i] # "NL"
      /\ Len(l) < Len(m) => m[Len(l) + 1] = "NL"
  BY UpToFacts
<1>. HIDE DEF l
<1>2. Len(l) \in Nat
  BY <1>1
<1>3. k = Len(n) + Len(t) + 8
  BY DEF IsLine
<1>4. ASSUME NEW i \in 1 .. k PROVE m[i] # "NL"
  <2>1. CASE i <= 4
    BY <2>1 DEF IsLine
  <2>2. CASE i \in 5 .. Len(n) + 4
    <3>1. i - 4 \in 1 .. Len(n) /\ 4 + (i - 4) = i
      BY <2>2
    <3>2. m[4 + (i - 4)] = n[i - 4]
      BY <3>1 DEF IsLine, Continues
    <3>. QED
      BY <3>1, <3>2 DEF Printable
  <2>3. CASE i \in Len(n) + 5 .. Len(n) + 7
    BY <2>3 DEF IsLine
  <2>4. CASE i \in Len(n) + 8 .. Len(n) + Len(t) + 7
    <3>1. i - Len(n) - 7 \in 1 .. Len(t) /\ Len(n) + 7 + (i - Len(n) - 7) = i
      BY <2>4
    <3>2. m[Len(n) + 7 + (i - Len(n) - 7)] = t[i - Len(n) - 7]
      BY <3>1 DEF IsLine, Continues
    <3>. QED
      BY <3>1, <3>2 DEF Printable
  <2>5. CASE i = k
    BY <2>5 DEF IsLine
  <2>. QED
    BY <1>3, <2>1, <2>2, <2>3, <2>4, <2>5
<1>5. Len(l) = k
  <2>1. k + 1 \notin 1 .. Len(l)
    BY <1>1
  <2>2. Len(l) < Len(m) => Len(l) + 1 \notin 1 .. k
    BY <1>1, <1>4
  <2>. QED
    BY <1>1, <1>2, <2>1, <2>2
<1>6. IsLine(l, n, t, k)
  <2>1. \A i \in 1 .. k : l[i] = m[i]
    BY <1>1, <1>5
  <2>2. /\ 1 \in 1 .. k /\ 2 \in 1 .. k /\ 3 \in 1 .. k /\ 4 \in 1 .. k
        /\ Len(n) + 5 \in 1 .. k /\ Len(n) + 6 \in 1 .. k
        /\ Len(n) + 7 \in 1 .. k /\ k \in 1 .. k
    BY <1>3
  <2>3. /\ \A i \in 1 .. Len(n) : 4 + i \in 1 .. k
        /\ \A i \in 1 .. Len(t) : Len(n) + 7 + i \in 1 .. k
    BY <1>3
  <2>4. Continues(l, 4, n) /\ Continues(l, Len(n) + 7, t)
    BY <2>1, <2>3 DEF IsLine, Continues
  <2>. QED
    BY <2>1, <2>2, <2>4 DEF IsLine
<1>. QED
  BY <1>1, <1>5, <1>6 DEF l

\* handle_server_message takes the line apart word by word.
LEMMA LineRead ==
  ASSUME NEW U, NEW l \in Seq(U), NEW n \in Seq(U), NEW t \in Seq(U),
         IsLine(l, n, t, Len(l)), {"MSG", "FROM", "IS", "CR"} \subseteq U,
         Len(n) \in Nat \ {0}, Len(t) \in Nat,
         \A i \in 1 .. Len(n) : n[i] # "SP"
  PROVE  LET from == Behind(l)
             name_is == Behind(from)
             is == Behind(name_is)
         IN  /\ Token(from) = <<"FROM">> /\ Token(name_is) = n
             /\ Token(is) = <<"IS">> /\ Behind(is) = t \o <<"CR">>
<1>. DEFINE tail(j) == SubSeq(l, j + 1, Len(l))
<1>1. /\ Len(l) = Len(n) + Len(t) + 8 /\ Len(l) \in Nat
  BY DEF IsLine
<1>2. ASSUME NEW j \in Nat, NEW c \in U, c # "SP", j + 2 <= Len(l),
             l[j + 1] = c, l[j + 2] = "SP"
      PROVE  Token(tail(j)) = <<c>> /\ Behind(tail(j)) = tail(j + 2)
  <2>. DEFINE w == <<c>>
  <2>1. w \in Seq(U) /\ Len(w) = 1 /\ w[1] = c
    OBVIOUS
  <2>. HIDE DEF w
  <2>2. FieldIn(l, j, Len(l), "SP", w)
    BY <1>1, <1>2, <2>1 DEF FieldIn, Continues
  <2>3. /\ Len(w) # 0 /\ j + Len(w) < Len(l)
        /\ j + Len(w) + 1 + 1 = j + 2 + 1
    BY <1>1, <1>2, <2>1
  <2>4. Token(tail(j)) = w
    BY <2>1, <2>2, <2>3, WordRead
  <2>5. Behind(tail(j)) = tail(j + 2)
    <3>1. Behind(tail(j)) = SubSeq(l, j + Len(w) + 1 + 1, Len(l))
      BY <2>1, <2>2, <2>3, WordRead
    <3>. QED
      BY <2>3, <3>1
  <2>. QED
    BY <2>4, <2>5 DEF w
<1>3. l = tail(0)
  BY WholeSlice
<1>4. Behind(l) = tail(2)
  <2>1. "MSG" \in U /\ 0 + 2 <= Len(l) /\ l[0 + 1] = "MSG" /\ l[0 + 2] = "SP"
    BY <1>1 DEF IsLine
  <2>. HIDE DEF tail
  <2>2. Behind(tail(0)) = tail(0 + 2)
    BY <1>2, <2>1
  <2>. QED
    BY <1>3, <2>2
<1>5. Token(tail(2)) = <<"FROM">> /\ Behind(tail(2)) = tail(4)
  <2>1. "FROM" \in U /\ 2 + 2 <= Len(l) /\ l[2 + 1] = "FROM" /\ l[2 + 2] = "SP"
    BY <1>1 DEF IsLine
  <2>. HIDE DEF tail
  <2>2. Token(tail(2)) = <<"FROM">> /\ Behind(tail(2)) = tail(2 + 2)
    BY <1>2, <2>1
  <2>. QED
    BY <2>2
<1>6. Token(tail(4)) = n /\ Behind(tail(4)) = tail(Len(n) + 5)
  <2>1. FieldIn(l, 4, Len(l), "SP", n)
    BY <1>1 DEF IsLine, FieldIn
  <2>2. /\ Len(n) # 0 /\ 4 + Len(n) < Len(l) /\ 4 \in Nat
        /\ 4 + Len(n) + 1 = Len(n) + 5
    BY <1>1
  <2>3. Token(tail(4)) = n /\ Behind(tail(4)) = tail(4 + Len(n) + 1)
    BY <2>1, <2>2, WordRead
  <2>. HIDE DEF tail
  <2>. QED
    BY <2>2, <2>3
<1>7. /\ Token(tail(Len(n) + 5)) = <<"IS">>
      /\ Behind(tail(Len(n) + 5)) = tail(Len(n) + 7)
  <2>1. /\ "IS" \in U /\ Len(n) + 5 \in Nat /\ Len(n) + 5 + 2 <= Len(l)
        /\ Len(n) + 5 + 1 = Len(n) + 6 /\ Len(n) + 5 + 2 = Len(n) + 7
    BY <1>1
  <2>2. l[Len(n) + 6] = "IS" /\ l[Len(n) + 7] = "SP"
    BY DEF IsLine
  <2>. HIDE DEF tail
  <2>. QED
    BY <1>2, <2>1, <2>2
<1>8. tail(Len(n) + 7) = t \o <<"CR">>
  <2>1. /\ Len(n) + 7 + 1 \in Nat \ {0} /\ Len(l) <= Len(l)
        /\ Len(n) + 7 + 1 <= Len(l)
    BY <1>1
  <2>. DEFINE left  == tail(Len(n) + 7)
              right == t \o <<"CR">>
  <2>2. /\ left \in Seq(U)
        /\ Len(left) = Len(l) - (Len(n) + 7 + 1) + 1
        /\ \A i \in 1 .. Len(l) - (Len(n) + 7 + 1) + 1 :
             left[i] = l[Len(n) + 7 + 1 + i - 1]
    BY <1>1, <2>1, Slice
  <2>3. <<"CR">> \in Seq(U) /\ Len(<<"CR">>) = 1 /\ <<"CR">>[1] = "CR"
    OBVIOUS
  <2>4. /\ right \in Seq(U) /\ Len(right) = Len(t) + 1
        /\ \A i \in 1 .. Len(t) : right[i] = t[i]
        /\ right[Len(t) + 1] = "CR"
    BY <2>3, Joined
  <2>. HIDE DEF left, right
  <2>5. Len(l) - (Len(n) + 7 + 1) + 1 = Len(t) + 1
    BY <1>1
  <2>6. \A i \in 1 .. Len(t) + 1 : Len(n) + 7 + 1 + i - 1 = Len(n) + 7 + i
    BY <1>1
  <2>7. Len(left) = Len(t) + 1
        /\ \A i \in 1 .. Len(t) + 1 : left[i] = l[Len(n) + 7 + i]
    BY <2>2, <2>5, <2>6
  <2>8. /\ \A i \in 1 .. Len(t) : l[Len(n) + 7 + i] = t[i]
        /\ l[Len(n) + 7 + (Len(t) + 1)] = "CR"
    <3>1. Len(n) + 7 + (Len(t) + 1) = Len(l)
      BY <1>1
    <3>. QED
      BY <3>1 DEF IsLine, Continues
  <2>9. \A i \in 1 .. Len(t) + 1 : i \in 1 .. Len(t) \/ i = Len(t) + 1
    OBVIOUS
  <2>10. \A i \in 1 .. Len(t) + 1 : left[i] = right[i]
    BY <2>4, <2>7, <2>8, <2>9
  <2>11. left = right
    BY <2>2, <2>4, <2>7, <2>10, SeqEqual
  <2>. QED
    BY <2>11 DEF left, right
<1>. HIDE DEF tail
<1>. QED
  BY <1>4, <1>5, <1>6, <1>7, <1>8

\* A text is valid with its carriage return, one character shorter than the
\* limit (supportTCP.c:32).
LEMMA ContentValid ==
  ASSUME NEW U, NEW t \in Seq(U), "CR" \in U, Printable(t), Len(t) < MaxContent
  PROVE  is_valid_content(t \o <<"CR">>)
<1>. DEFINE e == <<"CR">>
            c == t \o e
<1>1. e \in Seq(U) /\ Len(e) = 1 /\ e[1] = "CR"
  OBVIOUS
<1>. HIDE DEF e
<1>2. /\ Len(t) \in Nat /\ Len(c) = Len(t) + 1
      /\ \A i \in 1 .. Len(t) : c[i] = t[i]
      /\ c[Len(t) + 1] = "CR"
  <2>1. t \in Seq(U) /\ e \in Seq(U)
    BY <1>1
  <2>2. /\ Len(t) \in Nat /\ Len(c) = Len(t) + Len(e)
        /\ \A i \in 1 .. Len(t) : c[i] = t[i]
        /\ \A i \in 1 .. Len(e) : c[Len(t) + i] = e[i]
    BY <2>1, Joined
  <2>. HIDE DEF c
  <2>. QED
    BY <1>1, <2>2
<1>. HIDE DEF c
<1>3. \A i \in 1 .. Len(c) : i \in 1 .. Len(t) \/ i = Len(t) + 1
  BY <1>2
<1>4. Len(c) \in 1 .. MaxContent
  BY <1>2, LinesAssumption
<1>5. \A i \in 1 .. Len(c) : c[i] \notin {"nul", "ctl"}
  BY <1>2, <1>3 DEF Printable
<1>. QED
  BY <1>4, <1>5 DEF is_valid_content, c, e

\* A valid name is still valid when it is cut to the size of a pointer.
LEMMA NameCut ==
  ASSUME NEW U, NEW s \in Seq(U), is_valid_dname(s), ~Contains(s, "SP")
  PROVE  /\ Cut(s, PointerSize - 1) \in Seq(U)
         /\ Len(Cut(s, PointerSize - 1)) \in Nat \ {0}
         /\ Len(Cut(s, PointerSize - 1)) <= PointerSize - 1
         /\ Printable(Cut(s, PointerSize - 1))
         /\ is_valid_dname(Cut(s, PointerSize - 1))
         /\ \A i \in 1 .. Len(Cut(s, PointerSize - 1)) :
              Cut(s, PointerSize - 1)[i] # "SP"
<1>. DEFINE n == Cut(s, PointerSize - 1)
<1>1. PointerSize - 1 \in Nat /\ PointerSize - 1 >= 1
  BY LinesAssumption
<1>2. /\ n \in Seq(U)
      /\ Len(n) = IF Len(s) < PointerSize - 1 THEN Len(s) ELSE PointerSize - 1
      /\ \A i \in 1 .. Len(n) : n[i] = s[i]
  BY <1>1, CutFacts
<1>. HIDE DEF n
<1>3. Len(s) \in 1 .. MaxName /\ Printable(s) /\ Len(s) \in Nat
  BY DEF is_valid_dname
<1>4. /\ Len(n) \in Nat \ {0} /\ Len(n) <= PointerSize - 1
      /\ Len(n) <= Len(s) /\ Len(n) \in 1 .. MaxName
  BY <1>1, <1>2, <1>3, SizesAssumption
<1>5. Printable(n) /\ \A i \in 1 .. Len(n) : n[i] # "SP"
  BY <1>2, <1>3, <1>4 DEF Printable, Contains
<1>. QED
  BY <1>2, <1>4, <1>5 DEF is_valid_dname, n

\* What is short enough is not cut.
LEMMA NotCut ==
  ASSUME NEW U, NEW s \in Seq(U), NEW n \in Nat, Len(s) <= n
  PROVE  Cut(s, n) = s
<1>1. /\ Cut(s, n) \in Seq(U) /\ Len(Cut(s, n)) = Len(s)
      /\ \A i \in 1 .. Len(s) : Cut(s, n)[i] = s[i]
  BY CutFacts
<1>. QED
  BY <1>1, SeqEqual

\* A MSG line is shown with the name and the text as they were typed, for every
\* text below the limit and every valid name that is shorter than a pointer and
\* has no space (TCP.c:528-536, 304-320).
THEOREM TcpIsShownAsSent == Spec => []TcpShownAsSent
<1>1. Inputs => TcpShownAsSent
  <2>. DEFINE U  == Chars \cup {"MSG", "FROM", "IS", "SP", "CR", "NL"}
              n  == Cut(name, PointerSize - 1)
              a  == <<"MSG", "SP", "FROM", "SP">>
              b  == <<"SP", "IS", "SP">>
              m  == a \o n \o b \o text \o EndOfLine
              l  == UpTo(m, "NL")
  <2>. SUFFICES ASSUME Inputs, is_valid_dname(name), Len(name) < PointerSize,
                       ~Contains(name, "SP"),
                       Printable(text), Len(text) < MaxContent
                PROVE  ReceiveLine(generic_message(text, name))
                         = Shown(name, text \o <<"CR">>)
    BY Zenon DEF TcpShownAsSent
  <2>1. name \in Seq(U) /\ text \in Seq(U)
    BY SeqMonotonic DEF Inputs
  <2>2. /\ a \in Seq(U) /\ b \in Seq(U) /\ EndOfLine \in Seq(U)
        /\ {"MSG", "FROM", "IS", "CR"} \subseteq U
    BY DEF EndOfLine
  <2>. HIDE DEF U
  <2>3. /\ n \in Seq(U) /\ Len(n) \in Nat \ {0} /\ Len(n) <= PointerSize - 1
        /\ Printable(n) /\ is_valid_dname(n)
        /\ \A i \in 1 .. Len(n) : n[i] # "SP"
    BY <2>1, NameCut
  <2>4. Len(text) \in Nat /\ n = name
    <3>1. PointerSize - 1 \in Nat /\ Len(name) <= PointerSize - 1
      BY <2>1, LinesAssumption
    <3>. QED
      BY <2>1, <3>1, NotCut
  <2>. DEFINE k == Len(n) + Len(text) + 8
  <2>. HIDE DEF n
  <2>5. /\ m \in Seq(U) /\ Len(m) = k + 1
        /\ IsLine(m, n, text, k) /\ m[k + 1] = "NL"
    <3>1. /\ m \in Seq(U) /\ Len(m) = Len(n) + Len(text) + 9
          /\ IsLine(m, n, text, Len(n) + Len(text) + 8)
          /\ Last(m) = "NL"
      <4>1. Framing(a, b, EndOfLine)
        BY DEF EndOfLine, Framing
      <4>. HIDE DEF a, b
      <4>2. /\ a \in Seq(U) /\ n \in Seq(U) /\ b \in Seq(U)
            /\ text \in Seq(U) /\ EndOfLine \in Seq(U)
        BY <2>1, <2>2, <2>3
      <4>. QED
        <5>. HIDE DEF m, k
        <5>1. m = a \o n \o b \o text \o EndOfLine
          BY DEF m
        <5>2. m \in Seq(U)
          BY <5>1, <4>2, LineBytes
        <5>3. Len(m) = Len(n) + Len(text) + 9
          BY <5>1, <4>1, <4>2, LineBytes
        <5>4. IsLine(m, n, text, Len(n) + Len(text) + 8)
          BY <5>1, <4>1, <4>2, LineBytes
        <5>5. Last(m) = "NL"
          BY <5>1, <4>1, <4>2, LineBytes
        <5>. QED
          BY <5>2, <5>3, <5>4, <5>5
    <3>2. k + 1 = Len(n) + Len(text) + 9
      BY <2>3, <2>4
    <3>. HIDE DEF m
    <3>. QED
      BY <3>1, <3>2 DEF Last
  <2>6. generic_message(text, name) = m
    <3>1. generic_message(text, name) = Cut(m, MaxLine)
      BY <2>3, Zenon DEF generic_message, n
    <3>. HIDE DEF m
    <3>2. Len(m) <= MaxLine /\ MaxLine \in Nat
      BY <2>3, <2>4, <2>5, LinesAssumption
    <3>3. Cut(m, MaxLine) = m
      BY <2>5, <3>2, NotCut
    <3>. QED
      BY <3>1, <3>3
  <2>. HIDE DEF m
  <2>7. /\ l \in Seq(U) /\ Len(l) = k /\ IsLine(l, n, text, k)
    <3>1. k \in Nat
      BY <2>3, <2>4
    <3>. HIDE DEF k
    <3>. QED
      BY <2>3, <2>4, <2>5, <3>1, LineUpToEnd
  <2>. HIDE DEF l, k
  <2>. DEFINE from    == Behind(l)
              name_is == Behind(from)
              is      == Behind(name_is)
  <2>8. /\ Token(from) = <<"FROM">> /\ Token(name_is) = n
        /\ Token(is) = <<"IS">> /\ Behind(is) = text \o <<"CR">>
    BY <2>1, <2>2, <2>3, <2>4, <2>7, LineRead
  <2>. HIDE DEF from, name_is, is
  <2>9. is_valid_content(text \o <<"CR">>)
    BY <2>1, <2>2, ContentValid
  <2>10. ReceiveLine(m) = IF /\ Token(from) = <<"FROM">> /\ Token(is) = <<"IS">>
                             /\ is_valid_dname(Token(name_is))
                             /\ is_valid_content(Behind(is))
                          THEN Shown(Token(name_is), Behind(is))
                          ELSE Bad("malformed")
    BY Zenon DEF ReceiveLine, from, name_is, is, l
  <2>. QED
    BY <2>3, <2>4, <2>6, <2>8, <2>9, <2>10
<1>. QED
  BY <1>1, InputsHold, PTL

-----------------------------------------------------------------------------
(* The command line.                                                       *)

\* A set of positions that is not empty has a last one.
LEMMA GreatestElement ==
  ASSUME NEW N \in Nat, NEW T, T \subseteq 1 .. N, T # {}
  PROVE  \E x \in T : \A y \in T : x >= y
<1>. DEFINE below == {N - x : x \in T}
<1>1. below \subseteq Nat /\ below # {}
  <2>1. \A x \in T : N - x \in Nat
    OBVIOUS
  <2>2. PICK x : x \in T
    OBVIOUS
  <2>3. N - x \in below
    BY <2>2
  <2>. QED
    BY <2>1, <2>3
<1>2. PICK z \in below : \A y \in below : z <= y
  <2>. HIDE DEF below
  <2>. QED
    BY <1>1, LeastElement
<1>3. PICK x \in T : z = N - x
  BY <1>2
<1>4. ASSUME NEW y \in T PROVE x >= y
  <2>1. N - y \in below
    OBVIOUS
  <2>2. N - x <= N - y
    BY <1>2, <1>3, <2>1
  <2>. QED
    BY <1>3, <2>2
<1>. QED
  BY <1>4

\* The loop over argv has a state behind each argument.
LEMMA ReadingStep ==
  ASSUME NEW N \in Nat, Len(argv) = N
  PROVE  /\ Reading(argv)[0] = Defaults
         /\ \A n \in 1 .. N :
              Reading(argv)[n] = Read(Reading(argv)[n - 1], argv[n])
<1>. DEFINE Obeys(f, k) ==
              f = [n \in 0 .. k |-> IF n = 0 THEN Defaults
                                    ELSE Read(f[n - 1], argv[n])]
            S == {k \in Nat : \E f : Obeys(f, k)}
<1>1. 0 \in S
  <2>1. Obeys([n \in 0 .. 0 |-> Defaults], 0)
    OBVIOUS
  <2>. HIDE DEF Obeys
  <2>. QED
    BY <2>1
<1>2. ASSUME NEW k \in Nat, k \in S PROVE k + 1 \in S
  <2>1. PICK f : Obeys(f, k)
    BY <1>2
  <2>. DEFINE g == [n \in 0 .. k + 1 |-> IF n <= k THEN f[n]
                                         ELSE Read(f[k], argv[k + 1])]
  <2>2. \A n \in 0 .. k : g[n] = f[n]
    OBVIOUS
  <2>3. ASSUME NEW n \in 0 .. k + 1
        PROVE  g[n] = IF n = 0 THEN Defaults ELSE Read(g[n - 1], argv[n])
    <3>1. CASE n = 0
      BY <2>1, <3>1
    <3>2. CASE n \in 1 .. k
      <4>1. g[n] = f[n] /\ g[n - 1] = f[n - 1]
        BY <2>2, <3>2
      <4>2. f[n] = Read(f[n - 1], argv[n])
        BY <2>1, <3>2
      <4>. QED
        BY <3>2, <4>1, <4>2
    <3>3. CASE n = k + 1
      <4>1. g[k] = f[k] /\ g[k + 1] = Read(f[k], argv[k + 1])
        BY <2>2
      <4>. QED
        BY <3>3, <4>1
    <3>. QED
      BY <3>1, <3>2, <3>3
  <2>4. Obeys(g, k + 1)
    BY <2>3
  <2>. HIDE DEF Obeys, g
  <2>. QED
    BY <2>4
<1>3. \E f : Obeys(f, N)
  <2>. HIDE DEF Obeys
  <2>1. N \in S
    <3>. HIDE DEF S
    <3>. QED
      BY <1>1, <1>2, SetInduction
  <2>. QED
    BY <2>1
<1>4. Obeys(Reading(argv), N)
  <2>1. Reading(argv) = CHOOSE f : Obeys(f, N)
    BY DEF Reading
  <2>. HIDE DEF Obeys
  <2>. QED
    BY <1>3, <2>1, Zenon
<1>. HIDE DEF S
<1>. QED
  BY <1>4

\* Behind n arguments, k is the last of them that is not an option with a value.
EndsInOptions(n, k) == /\ k \in 0 .. n
                       /\ k # 0 => argv[k] \notin ValueOptions
                       /\ \A i \in k + 1 .. n : argv[i] \in ValueOptions

\* Before counts the options with a value that stand right before i.
LEMMA BeforeFacts ==
  ASSUME NEW U, argv \in Seq(U), NEW n \in Nat, n <= Len(argv), NEW i, i = n + 1
  PROVE  Before(i) \in 0 .. n /\ EndsInOptions(n, n - Before(i))
<1>. DEFINE s == SubSeq(argv, 1, n)
            I == {j \in 1 .. Len(s) : s[j] \notin ValueOptions}
            k == IF I # {} THEN Max(I) ELSE 0
<1>1. /\ Len(s) = n /\ \A j \in 1 .. n : s[j] = argv[j]
  <2>1. 1 \in Nat \ {0}
    OBVIOUS
  <2>. QED
    BY <2>1, Slice
<1>2. Before(i) = n - k
  <2>1. LastOther(s) = k
    BY Zenon DEF LastOther, SelectLastInSeq
  <2>2. i - 1 = n
    OBVIOUS
  <2>3. Before(i) = i - 1 - LastOther(SubSeq(argv, 1, i - 1))
    BY Zenon DEF Before
  <2>. HIDE DEF k
  <2>. QED
    BY <2>1, <2>2, <2>3, Zenon
<1>. HIDE DEF s
<1>3. /\ I \subseteq 1 .. n
      /\ \A j \in I : argv[j] \notin ValueOptions
      /\ \A j \in 1 .. n : j \notin I => argv[j] \in ValueOptions
  BY <1>1
<1>. HIDE DEF I
<1>4. EndsInOptions(n, k)
  <2>1. CASE I = {}
    BY <1>3, <2>1 DEF EndsInOptions
  <2>2. CASE I # {}
    <3>1. \E x \in I : \A y \in I : x >= y
      BY <1>3, <2>2, GreatestElement
    <3>2. k \in I /\ \A y \in I : k >= y
      BY <2>2, <3>1 DEF Max
    <3>. HIDE DEF k
    <3>3. k \in 1 .. n /\ \A j \in k + 1 .. n : j \in 1 .. n /\ j \notin I
      BY <1>3, <3>2
    <3>. QED
      BY <1>3, <3>2, <3>3 DEF EndsInOptions
  <2>. QED
    BY <2>1, <2>2
<1>. HIDE DEF k
<1>5. k \in 0 .. n
  BY <1>4 DEF EndsInOptions
<1>6. n - (n - k) = k /\ n - k \in 0 .. n
  BY <1>5
<1>. QED
  BY <1>2, <1>4, <1>6

\* The first argument is no value; one behind an option that takes a value is,
\* unless that option is a value itself.
LEMMA ValueStep ==
  ASSUME NEW U, argv \in Seq(U)
  PROVE  /\ ~IsValue(1)
         /\ \A n \in Nat : n + 1 <= Len(argv) =>
              (IsValue(n + 2) <=> argv[n + 1] \in ValueOptions /\ ~IsValue(n + 1))
<1>1. ~IsValue(1)
  <2>1. 0 \in Nat /\ 0 <= Len(argv) /\ 0 + 1 = 1
    OBVIOUS
  <2>2. Before(1) \in 0 .. 0
    BY <2>1, BeforeFacts
  <2>. QED
    BY <2>2 DEF IsValue
<1>2. ASSUME NEW n \in Nat, n + 1 <= Len(argv)
      PROVE  IsValue(n + 2) <=> argv[n + 1] \in ValueOptions /\ ~IsValue(n + 1)
  <2>. DEFINE b == Before(n + 1)
              c == Before(n + 2)
  <2>1. /\ b \in 0 .. n /\ EndsInOptions(n, n - b)
        /\ c \in 0 .. n + 1 /\ EndsInOptions(n + 1, n + 1 - c)
    <3>1. n <= Len(argv) /\ n + 1 \in Nat /\ n + 2 = n + 1 + 1
      BY <1>2
    <3>2. b \in 0 .. n /\ EndsInOptions(n, n - b)
      BY <3>1, BeforeFacts
    <3>3. \A j \in Nat : \A i : j <= Len(argv) /\ i = j + 1 =>
            Before(i) \in 0 .. j /\ EndsInOptions(j, j - Before(i))
      BY BeforeFacts
    <3>. QED
      BY <1>2, <3>1, <3>2, <3>3
  <2>. HIDE DEF b, c
  <2>2. CASE argv[n + 1] \notin ValueOptions
    <3>1. c = 0
      BY <2>1, <2>2 DEF EndsInOptions
    <3>. QED
      BY <2>2, <3>1 DEF IsValue, c
  <2>3. CASE argv[n + 1] \in ValueOptions
    <3>1. c = b + 1
      <4>. DEFINE k == n - b
                  l == n + 1 - c
      <4>1. k \in 0 .. n /\ l \in 0 .. n + 1 /\ l # n + 1
        BY <2>1, <2>3 DEF EndsInOptions
      <4>2. /\ k # 0 => argv[k] \notin ValueOptions
            /\ l # 0 => argv[l] \notin ValueOptions
            /\ \A i \in k + 1 .. n : argv[i] \in ValueOptions
            /\ \A i \in l + 1 .. n + 1 : argv[i] \in ValueOptions
        BY <2>1 DEF EndsInOptions
      <4>. HIDE DEF k, l
      <4>3. ~(k < l) /\ ~(l < k)
        BY <4>1, <4>2
      <4>4. k = l
        BY <4>1, <4>3
      <4>. QED
        BY <2>1, <4>4 DEF k, l
    <3>2. (b + 1) % 2 = 1 <=> b % 2 # 1
      BY <2>1
    <3>. QED
      BY <2>3, <3>1, <3>2 DEF IsValue, b, c
  <2>. QED
    BY <2>2, <2>3
<1>. QED
  BY <1>1, <1>2

\* A state of the loop has these fields and no others.
IsState(st) == st = [t |-> st.t, s |-> st.s, p |-> st.p, d |-> st.d, r |-> st.r,
                     value_of |-> st.value_of, end |-> st.end]

\* What becomes of a variable when the value of option o arrives.
Put(o, option, old, new) == IF o = option THEN new ELSE old

\* An argument is stored as the value of the option before it.
Stored(new, st, a) ==
  /\ IsState(new) /\ new.value_of = "" /\ new.end = st.end
  /\ new.t = Put(st.value_of, "-t", st.t, a)
  /\ new.s = Put(st.value_of, "-s", st.s, a)
  /\ new.p = Put(st.value_of, "-p", st.p, atoi(a) % Values16)
  /\ new.d = Put(st.value_of, "-d", st.d, atoi(a) % Values16)
  /\ new.r = Put(st.value_of, "-r", st.r, atoi(a) % Values8)
\* An option is kept until its value comes.
Marked(new, st, a) ==
  /\ IsState(new) /\ new.value_of = a /\ new.end = st.end
  /\ new.t = st.t /\ new.s = st.s
  /\ new.p = st.p /\ new.d = st.d /\ new.r = st.r

\* Behind an option with a value the argument is stored, even if it looks
\* like an option (main.c:74-88).
LEMMA ReadValue ==
  ASSUME NEW st, NEW a, st.end = "no", st.value_of \in ValueOptions
  PROVE  Stored(Read(st, a), st, a)
<1>1. st.value_of # ""
  BY DEF ValueOptions
<1>2. Read(st, a) = Store(st, a)
  BY <1>1 DEF Read
<1>3. Stored(Store(st, a), st, a)
  BY DEF Stored, Store, Put, IsState
<1>. QED
  BY <1>2, <1>3

\* Otherwise an option with a value waits for it.
LEMMA ReadOption ==
  ASSUME NEW st, NEW a, IsState(st), st.end = "no", st.value_of = "",
         a \in ValueOptions
  PROVE  Marked(Read(st, a), st, a)
<1>1. Read(st, a) = [st EXCEPT !.value_of = a]
  BY DEF Read
<1>. QED
  BY <1>1 DEF IsState, Marked

\* Otherwise -h ends the loop.
LEMMA ReadHelp ==
  ASSUME NEW st, IsState(st), st.end = "no", st.value_of = ""
  PROVE  Read(st, "-h").end = "help"
<1>1. Read(st, "-h") = [st EXCEPT !.end = "help"]
  BY DEF Read, ValueOptions
<1>. QED
  BY <1>1 DEF IsState

\* Anything else is skipped, and so is everything behind -h.
LEMMA ReadOther ==
  ASSUME NEW st, NEW a, st.end # "no" \/ st.value_of = "",
         st.end = "no" => a \notin ValueOptions /\ a # "-h"
  PROVE  Read(st, a) = st
  BY DEF Read

\* What the first n arguments say: the positions of the values of an option,
\* the last of them, what stands there, and the option that waits for a value.
GivenIn(o, n)  == {i \in 2 .. n : IsValue(i) /\ argv[i - 1] = o}
Latest(S)      == CHOOSE i \in S : \A j \in S : j <= i
LastOf(o, n, default) ==
  IF GivenIn(o, n) = {} THEN default ELSE argv[Latest(GivenIn(o, n))]
LastNumber(o, n, default, width) ==
  IF GivenIn(o, n) = {} THEN default
  ELSE atoi(argv[Latest(GivenIn(o, n))]) % width
HelpedIn(n)    == \E i \in 1 .. n : argv[i] = "-h" /\ ~IsValue(i)
ValueOf(n)     == IF IsValue(n + 1) THEN argv[n] ELSE ""

\* A new argument is behind those before it.
LEMMA LatestIs ==
  ASSUME NEW n \in Nat, NEW S, S \subseteq 1 .. n
  PROVE  Latest(S \cup {n + 1}) = n + 1
<1>. DEFINE T == S \cup {n + 1}
            m == Latest(T)
<1>1. n + 1 \in T /\ \A j \in T : j \in Nat /\ j <= n + 1
  OBVIOUS
<1>. HIDE DEF T
<1>2. m \in T /\ \A j \in T : j <= m
  BY <1>1 DEF Latest
<1>. HIDE DEF m
<1>3. m \in Nat /\ m <= n + 1 /\ n + 1 <= m
  BY <1>1, <1>2
<1>4. m = n + 1
  BY <1>3
<1>. QED
  BY <1>4 DEF m, T

\* One more argument is the latest value of the option before it.
LEMMA GivenStep ==
  ASSUME NEW U, argv \in Seq(U), NEW n \in Nat, NEW o
  PROVE  IF IsValue(n + 1) /\ argv[n] = o
         THEN GivenIn(o, n + 1) # {} /\ Latest(GivenIn(o, n + 1)) = n + 1
         ELSE GivenIn(o, n + 1) = GivenIn(o, n)
<1>1. CASE IsValue(n + 1) /\ argv[n] = o
  <2>1. n # 0
    BY <1>1, ValueStep
  <2>2. GivenIn(o, n + 1) = GivenIn(o, n) \cup {n + 1}
    BY <1>1, <2>1 DEF GivenIn
  <2>3. GivenIn(o, n) \subseteq 1 .. n
    BY DEF GivenIn
  <2>4. Latest(GivenIn(o, n) \cup {n + 1}) = n + 1
    BY <2>3, LatestIs
  <2>. QED
    BY <1>1, <2>2, <2>4
<1>2. CASE ~(IsValue(n + 1) /\ argv[n] = o)
  <2>1. GivenIn(o, n + 1) = GivenIn(o, n)
    BY <1>2 DEF GivenIn
  <2>. QED
    BY <1>2, <2>1
<1>. QED
  BY <1>1, <1>2

\* One more argument changes the value of that option only.
LEMMA LastStep ==
  ASSUME NEW U, argv \in Seq(U), NEW n \in Nat, NEW o, NEW default, NEW width
  PROVE  /\ LastOf(o, n + 1, default)
              = IF IsValue(n + 1) /\ argv[n] = o THEN argv[n + 1]
                ELSE LastOf(o, n, default)
         /\ LastNumber(o, n + 1, default, width)
              = IF IsValue(n + 1) /\ argv[n] = o THEN atoi(argv[n + 1]) % width
                ELSE LastNumber(o, n, default, width)
<1>1. CASE IsValue(n + 1) /\ argv[n] = o
  <2>1. GivenIn(o, n + 1) # {} /\ Latest(GivenIn(o, n + 1)) = n + 1
    BY <1>1, GivenStep
  <2>. QED
    BY <1>1, <2>1, Zenon DEF LastOf, LastNumber
<1>2. CASE ~(IsValue(n + 1) /\ argv[n] = o)
  <2>1. GivenIn(o, n + 1) = GivenIn(o, n)
    BY <1>2, GivenStep
  <2>. QED
    BY <1>2, <2>1, Zenon DEF LastOf, LastNumber
<1>. QED
  BY <1>1, <1>2

\* What the loop has made of the first n arguments.
Agrees(st, n) ==
  /\ IsState(st) /\ st.end = "no" /\ st.value_of = ValueOf(n)
  /\ st.t = LastOf("-t", n, "") /\ st.s = LastOf("-s", n, "")
  /\ st.p = LastNumber("-p", n, DefaultPort, Values16)
  /\ st.d = LastNumber("-d", n, DefaultTimeout, Values16)
  /\ st.r = LastNumber("-r", n, DefaultRetries, Values8)
\* The invariant of the loop.
ReadSoFar(n) == IF HelpedIn(n) THEN Reading(argv)[n].end = "help"
                ELSE Agrees(Reading(argv)[n], n)

\* It holds before the first argument: everything has its default.
LEMMA NothingRead ==
  ASSUME NEW U, argv \in Seq(U)
  PROVE  ReadSoFar(0)
<1>1. Reading(argv)[0] = Defaults
  BY ReadingStep
<1>2. ~HelpedIn(0) /\ ~IsValue(0 + 1)
  BY ValueStep DEF HelpedIn
<1>3. \A o : GivenIn(o, 0) = {}
  BY DEF GivenIn
<1>4. /\ \A o, default : LastOf(o, 0, default) = default
      /\ \A o, default, width : LastNumber(o, 0, default, width) = default
      /\ ValueOf(0) = ""
  BY <1>2, <1>3, Zenon DEF LastOf, LastNumber, ValueOf
<1>5. Agrees(Defaults, 0)
  BY <1>4 DEF Agrees, Defaults, IsState
<1>. QED
  BY <1>1, <1>2, <1>5, Zenon DEF ReadSoFar

\* What stands before a value is an option that takes one.
LEMMA OptionBefore ==
  ASSUME NEW U, argv \in Seq(U), NEW n \in Nat, n <= Len(argv), IsValue(n + 1)
  PROVE  n # 0 /\ argv[n] \in ValueOptions /\ ValueOf(n) = argv[n]
<1>1. n # 0
  BY ValueStep
<1>2. n - 1 \in Nat /\ n - 1 + 1 = n /\ n - 1 + 2 = n + 1
  BY <1>1
<1>3. IsValue(n - 1 + 2) => argv[n - 1 + 1] \in ValueOptions
  BY <1>2, ValueStep
<1>. QED
  BY <1>1, <1>2, <1>3 DEF ValueOf

\* An argument keeps it.
LEMMA OneMoreRead ==
  ASSUME NEW U, argv \in Seq(U), NEW n \in Nat, n + 1 <= Len(argv), ReadSoFar(n)
  PROVE  ReadSoFar(n + 1)
<1>. DEFINE st  == Reading(argv)[n]
            new == Reading(argv)[n + 1]
            a   == argv[n + 1]
<1>1. new = Read(st, a)
  <2>1. n + 1 \in 1 .. Len(argv) /\ n + 1 - 1 = n
    OBVIOUS
  <2>2. new = Read(Reading(argv)[n + 1 - 1], a)
    BY <2>1, ReadingStep
  <2>. QED
    BY <2>1, <2>2
<1>2. /\ IsValue(n + 2) <=> a \in ValueOptions /\ ~IsValue(n + 1)
      /\ n + 1 + 1 = n + 2
  BY ValueStep
<1>3. HelpedIn(n + 1) <=> HelpedIn(n) \/ (a = "-h" /\ ~IsValue(n + 1))
  BY DEF HelpedIn
<1>4. ValueOf(n + 1) = IF a \in ValueOptions /\ ~IsValue(n + 1) THEN a ELSE ""
  BY <1>2 DEF ValueOf
<1>5. /\ \A o, default :
           LastOf(o, n + 1, default)
             = IF IsValue(n + 1) /\ argv[n] = o THEN a ELSE LastOf(o, n, default)
      /\ \A o, default, width :
           LastNumber(o, n + 1, default, width)
             = IF IsValue(n + 1) /\ argv[n] = o THEN atoi(a) % width
               ELSE LastNumber(o, n, default, width)
  BY LastStep
<1>6. IF HelpedIn(n) THEN st.end = "help" ELSE Agrees(st, n)
  BY Zenon DEF ReadSoFar
<1>7. SUFFICES IF HelpedIn(n + 1) THEN new.end = "help" ELSE Agrees(new, n + 1)
  BY Zenon DEF ReadSoFar
<1>. HIDE DEF st, new, a
<1>8. CASE HelpedIn(n)
  <2>1. Read(st, a) = st
    BY <1>6, <1>8, ReadOther
  <2>. QED
    BY <1>1, <1>3, <1>6, <1>8, <2>1
<1>9. CASE ~HelpedIn(n) /\ IsValue(n + 1)
  <2>1. argv[n] \in ValueOptions /\ ValueOf(n) = argv[n]
    BY <1>9, OptionBefore
  <2>. DEFINE o == argv[n]
  <2>2. st.end = "no" /\ st.value_of = o
    BY <1>6, <1>9, <2>1 DEF Agrees
  <2>3. Stored(new, st, a)
    BY <1>1, <2>1, <2>2, ReadValue
  <2>4. /\ LastOf("-t", n + 1, "") = Put(o, "-t", st.t, a)
        /\ LastOf("-s", n + 1, "") = Put(o, "-s", st.s, a)
    BY <1>5, <1>6, <1>9, Zenon DEF Agrees, Put
  <2>5. /\ LastNumber("-p", n + 1, DefaultPort, Values16)
             = Put(o, "-p", st.p, atoi(a) % Values16)
        /\ LastNumber("-d", n + 1, DefaultTimeout, Values16)
             = Put(o, "-d", st.d, atoi(a) % Values16)
        /\ LastNumber("-r", n + 1, DefaultRetries, Values8)
             = Put(o, "-r", st.r, atoi(a) % Values8)
    <3>1. ASSUME NEW option, NEW default, NEW width
          PROVE  LastNumber(option, n + 1, default, width)
                   = Put(o, option, LastNumber(option, n, default, width),
                         atoi(a) % width)
      BY <1>5, <1>9, Zenon DEF Put
    <3>2. /\ st.p = LastNumber("-p", n, DefaultPort, Values16)
          /\ st.d = LastNumber("-d", n, DefaultTimeout, Values16)
          /\ st.r = LastNumber("-r", n, DefaultRetries, Values8)
      BY <1>6, <1>9 DEF Agrees
    <3>. HIDE DEF o
    <3>. QED
      BY <3>1, <3>2, Zenon
  <2>6. ValueOf(n + 1) = ""
    BY <1>4, <1>9
  <2>7. Agrees(new, n + 1)
    BY <2>2, <2>3, <2>4, <2>5, <2>6, Zenon DEF Agrees, Stored
  <2>. QED
    BY <1>3, <1>9, <2>7
<1>10. CASE ~HelpedIn(n) /\ ~IsValue(n + 1)
  <2>1. IsState(st) /\ st.end = "no" /\ st.value_of = ""
    BY <1>6, <1>10 DEF Agrees, ValueOf
  <2>2. /\ LastOf("-t", n + 1, "") = st.t /\ LastOf("-s", n + 1, "") = st.s
        /\ LastNumber("-p", n + 1, DefaultPort, Values16) = st.p
        /\ LastNumber("-d", n + 1, DefaultTimeout, Values16) = st.d
        /\ LastNumber("-r", n + 1, DefaultRetries, Values8) = st.r
    BY <1>5, <1>6, <1>10, Zenon DEF Agrees
  <2>3. CASE a \in ValueOptions
    <3>1. Marked(new, st, a)
      BY <1>1, <2>1, <2>3, ReadOption
    <3>2. ValueOf(n + 1) = a
      BY <1>4, <1>10, <2>3
    <3>3. Agrees(new, n + 1)
      BY <2>1, <2>2, <3>1, <3>2, Zenon DEF Agrees, Marked
    <3>4. a # "-h"
      BY <2>3 DEF ValueOptions
    <3>. QED
      BY <1>3, <1>10, <3>3, <3>4
  <2>4. CASE a = "-h"
    BY <1>1, <1>3, <1>10, <2>1, <2>4, ReadHelp
  <2>5. CASE a \notin ValueOptions /\ a # "-h"
    <3>1. new = st
      BY <1>1, <2>1, <2>5, ReadOther
    <3>2. ValueOf(n + 1) = ""
      BY <1>4, <2>5
    <3>3. Agrees(new, n + 1)
      BY <2>1, <2>2, <3>1, <3>2, Zenon DEF Agrees
    <3>. QED
      BY <1>3, <1>10, <2>5, <3>3
  <2>. QED
    BY <2>3, <2>4, <2>5
<1>. QED
  BY <1>8, <1>9, <1>10

\* It holds behind the last argument.
LEMMA AllRead ==
  ASSUME NEW U, argv \in Seq(U)
  PROVE  ReadSoFar(Len(argv))
<1>. DEFINE S == {n \in Nat : n <= Len(argv) => ReadSoFar(n)}
<1>1. 0 \in S
  BY NothingRead
<1>2. ASSUME NEW n \in Nat, n \in S PROVE n + 1 \in S
  BY <1>2, OneMoreRead
<1>3. Nat \subseteq S
  <2>. HIDE DEF S
  <2>. QED
    BY <1>1, <1>2, SetInduction
<1>. QED
  BY <1>3

\* For every command line the loop over argv and the dispatch do what the
\* positions of the options mean: the last value counts, -h goes before
\* everything, and a missing value is undefined (main.c:26-41, 72-96).
THEOREM ArgumentsDoAgree == Spec => []ArgumentsAgree
<1>1. Inputs => ArgumentsAgree
  <2>. SUFFICES ASSUME Inputs PROVE ArgumentsAgree
    OBVIOUS
  <2>. DEFINE N  == Len(argv)
              st == Reading(argv)[N]
              t  == Value("-t", "")
              s  == Value("-s", "")
              p  == NumberOf("-p", DefaultPort, Values16)
              d  == NumberOf("-d", DefaultTimeout, Values16)
              r  == NumberOf("-r", DefaultRetries, Values8)
              v  == ValueOf(N)
  <2>1. argv \in Seq(Args)
    BY DEF Inputs
  <2>2. \A o : Given(o) = GivenIn(o, N)
    BY Zenon DEF Given, GivenIn
  <2>3. /\ \A o, default : LastOf(o, N, default) = Value(o, default)
        /\ \A o, default, width :
             LastNumber(o, N, default, width) = NumberOf(o, default, width)
    <3>. HIDE DEF N
    <3>1. \A o, default :
            Value(o, default) = IF Given(o) = {} THEN default
                                ELSE argv[Latest(Given(o))]
      BY Zenon DEF Value, Latest
    <3>2. \A o, default : LastOf(o, N, default) = Value(o, default)
      BY <2>2, <3>1, Zenon DEF LastOf
    <3>3. \A o, default, width :
            LastNumber(o, N, default, width) = NumberOf(o, default, width)
      BY <2>2, <3>1, Zenon DEF LastNumber, NumberOf
    <3>. QED
      BY <3>2, <3>3
  <2>4. Helped <=> HelpedIn(N)
    BY Zenon DEF Helped, HelpedIn
  <2>5. IF HelpedIn(N) THEN st.end = "help" ELSE Agrees(st, N)
    BY <2>1, AllRead, Zenon DEF ReadSoFar
  <2>6. /\ Helped => st.end = "help"
        /\ ~Helped =>
             /\ st.t = t /\ st.s = s /\ st.p = p /\ st.d = d /\ st.r = r
             /\ st.value_of = v /\ st.end = "no"
    BY <2>3, <2>4, <2>5, Zenon DEF Agrees
  <2>7. v # "" <=> IsValue(N + 1)
    <3>1. N \in Nat /\ N <= Len(argv)
      BY <2>1
    <3>. HIDE DEF N
    <3>2. IsValue(N + 1) => argv[N] \in ValueOptions /\ v = argv[N]
      BY <2>1, <3>1, OptionBefore
    <3>3. ~IsValue(N + 1) => v = ""
      BY DEF ValueOf
    <3>. QED
      BY <3>2, <3>3 DEF ValueOptions
  <2>. HIDE DEF N, st, t, s, p, d, r, v
  <2>8. main(argv) =
          IF st.end = "help" THEN <<"help">>
          ELSE IF st.value_of # "" THEN <<"undefined">>
          ELSE IF st.t = "" \/ st.s = "" THEN <<"usage">>
          ELSE IF st.t = "tcp" THEN <<"tcp", st.s, st.p>>
          ELSE IF st.t = "udp" THEN <<"udp", st.s, st.p, st.d, st.r>>
          ELSE <<"invalid">>
    BY Zenon DEF main, process_arguments, st, N
  <2>9. main(argv) =
           IF Helped THEN <<"help">>
           ELSE IF IsValue(N + 1) THEN <<"undefined">>
           ELSE IF t = "" \/ s = "" THEN <<"usage">>
           ELSE IF t = "tcp" THEN <<"tcp", s, p>>
           ELSE IF t = "udp" THEN <<"udp", s, p, d, r>>
           ELSE <<"invalid">>
    BY <2>6, <2>7, <2>8
  <2>. QED
    BY <2>9, Zenon DEF ArgumentsAgree, N, t, s, p, d, r
<1>. QED
  BY <1>1, InputsHold, PTL

-----------------------------------------------------------------------------
(* The fields of AUTH and JOIN.                                            *)

\* A server that splits has a state behind each character.
LEMMA SplittingStep ==
  ASSUME NEW s, NEW c, NEW N \in Nat, Len(s) = N
  PROVE  /\ Splitting(s, c)[0] = [done |-> <<>>, field |-> <<>>]
         /\ \A n \in 1 .. N :
              Splitting(s, c)[n] = Separate(Splitting(s, c)[n - 1], s[n], c)
<1>. DEFINE base == [done |-> <<>>, field |-> <<>>]
            Obeys(f, k) ==
              f = [n \in 0 .. k |-> IF n = 0 THEN base
                                    ELSE Separate(f[n - 1], s[n], c)]
            S == {k \in Nat : \E f : Obeys(f, k)}
<1>0. Splitting(s, c) = CHOOSE f : Obeys(f, N)
  BY DEF Splitting
<1>. HIDE DEF base
<1>1. 0 \in S
  <2>1. Obeys([n \in 0 .. 0 |-> base], 0)
    OBVIOUS
  <2>. HIDE DEF Obeys
  <2>. QED
    BY <2>1
<1>2. ASSUME NEW k \in Nat, k \in S PROVE k + 1 \in S
  <2>1. PICK f : Obeys(f, k)
    BY <1>2
  <2>. DEFINE g == [n \in 0 .. k + 1 |-> IF n <= k THEN f[n]
                                         ELSE Separate(f[k], s[k + 1], c)]
  <2>2. \A n \in 0 .. k : g[n] = f[n]
    OBVIOUS
  <2>3. ASSUME NEW n \in 0 .. k + 1
        PROVE  g[n] = IF n = 0 THEN base ELSE Separate(g[n - 1], s[n], c)
    <3>1. CASE n = 0
      BY <2>1, <3>1
    <3>2. CASE n \in 1 .. k
      <4>1. g[n] = f[n] /\ g[n - 1] = f[n - 1]
        BY <2>2, <3>2
      <4>2. f[n] = Separate(f[n - 1], s[n], c)
        BY <2>1, <3>2
      <4>. QED
        BY <3>2, <4>1, <4>2
    <3>3. CASE n = k + 1
      <4>1. g[k] = f[k] /\ g[k + 1] = Separate(f[k], s[k + 1], c)
        BY <2>2
      <4>. QED
        BY <3>3, <4>1
    <3>. QED
      BY <3>1, <3>2, <3>3
  <2>4. Obeys(g, k + 1)
    BY <2>3
  <2>. HIDE DEF Obeys, g
  <2>. QED
    BY <2>4
<1>3. \E f : Obeys(f, N)
  <2>. HIDE DEF Obeys
  <2>1. N \in S
    <3>. HIDE DEF S
    <3>. QED
      BY <1>1, <1>2, SetInduction
  <2>. QED
    BY <2>1
<1>4. Obeys(Splitting(s, c), N)
  <2>. HIDE DEF Obeys
  <2>. QED
    BY <1>0, <1>3, Zenon
<1>. HIDE DEF S
<1>. QED
  BY <1>4 DEF base

\* A server that has read p has found the fields done and, so far, f.
Found(p, c, done, f) == Splitting(p, c)[Len(p)] = [done |-> done, field |-> f]

\* It begins with no field.
LEMMA NothingFound ==
  ASSUME NEW c
  PROVE  Found(<<>>, c, <<>>, <<>>)
<1>1. Len(<<>>) = 0 /\ 0 \in Nat
  OBVIOUS
<1>. QED
  BY <1>1, SplittingStep DEF Found

\* A separator ends a field, any other character belongs to it.
LEMMA OneMoreFound ==
  ASSUME NEW U, NEW p \in Seq(U), NEW c, NEW x \in U, NEW done, NEW f,
         Found(p, c, done, f)
  PROVE  IF x = c THEN Found(Append(p, x), c, Append(done, f), <<>>)
         ELSE Found(Append(p, x), c, done, Append(f, x))
<1>. DEFINE q == Append(p, x)
            N == Len(p)
            S == {n \in Nat : n <= N => Splitting(q, c)[n] = Splitting(p, c)[n]}
<1>1. /\ N \in Nat /\ Len(q) = N + 1 /\ N + 1 \in Nat
      /\ \A i \in 1 .. N : q[i] = p[i]
      /\ q[N + 1] = x
  OBVIOUS
<1>. HIDE DEF q
<1>2. /\ Splitting(p, c)[0] = [done |-> <<>>, field |-> <<>>]
      /\ \A n \in 1 .. N :
           Splitting(p, c)[n] = Separate(Splitting(p, c)[n - 1], p[n], c)
  BY <1>1, SplittingStep
<1>3. /\ Splitting(q, c)[0] = [done |-> <<>>, field |-> <<>>]
      /\ \A n \in 1 .. N + 1 :
           Splitting(q, c)[n] = Separate(Splitting(q, c)[n - 1], q[n], c)
  BY <1>1, SplittingStep
<1>. HIDE DEF N
<1>4. 0 \in S
  BY <1>2, <1>3
<1>5. ASSUME NEW n \in Nat, n \in S PROVE n + 1 \in S
  <2>. SUFFICES ASSUME n + 1 <= N
                PROVE  Splitting(q, c)[n + 1] = Splitting(p, c)[n + 1]
    OBVIOUS
  <2>1. Splitting(q, c)[n] = Splitting(p, c)[n]
    BY <1>1, <1>5
  <2>2. n + 1 \in 1 .. N /\ n + 1 \in 1 .. N + 1 /\ n + 1 - 1 = n
    BY <1>1
  <2>. QED
    BY <1>1, <1>2, <1>3, <2>1, <2>2
<1>6. Splitting(q, c)[N] = Splitting(p, c)[N]
  <2>1. N \in S
    <3>. HIDE DEF S
    <3>. QED
      BY <1>1, <1>4, <1>5, SetInduction
  <2>. QED
    BY <1>1, <2>1
<1>7. Splitting(q, c)[N + 1] = Separate([done |-> done, field |-> f], x, c)
  <2>1. N + 1 \in 1 .. N + 1 /\ N + 1 - 1 = N
    BY <1>1
  <2>2. Splitting(p, c)[N] = [done |-> done, field |-> f]
    BY DEF Found, N
  <2>. QED
    BY <1>1, <1>3, <1>6, <2>1, <2>2
<1>. HIDE DEF S
<1>8. IF x = c THEN Found(q, c, Append(done, f), <<>>)
      ELSE Found(q, c, done, Append(f, x))
  BY <1>1, <1>7 DEF Found, Separate
<1>. QED
  BY <1>8 DEF q

\* A beginning is longer by one character than the one before it.
LEMMA Longer ==
  ASSUME NEW U, NEW w \in Seq(U), NEW n \in Nat, n + 1 <= Len(w)
  PROVE  /\ w[n + 1] \in U /\ SubSeq(w, 1, n) \in Seq(U)
         /\ SubSeq(w, 1, n + 1) = Append(SubSeq(w, 1, n), w[n + 1])
<1>. DEFINE v == SubSeq(w, 1, n)
            l == SubSeq(w, 1, n + 1)
            x == w[n + 1]
<1>1. 1 \in Nat \ {0} /\ n + 1 \in Nat /\ n <= Len(w) /\ x \in U
  OBVIOUS
<1>2. /\ v \in Seq(U) /\ Len(v) = n
      /\ \A i \in 1 .. n : v[i] = w[i]
  BY <1>1, Slice
<1>3. /\ l \in Seq(U) /\ Len(l) = n + 1
      /\ \A i \in 1 .. n + 1 : l[i] = w[i]
  BY <1>1, Slice
<1>. HIDE DEF v, l
<1>4. /\ Append(v, x) \in Seq(U) /\ Len(Append(v, x)) = n + 1
      /\ \A i \in 1 .. n : Append(v, x)[i] = w[i]
      /\ Append(v, x)[n + 1] = w[n + 1]
  BY <1>1, <1>2
<1>5. \A i \in 1 .. n + 1 : i \in 1 .. n \/ i = n + 1
  OBVIOUS
<1>. HIDE DEF x
<1>6. l = Append(v, x)
  BY <1>3, <1>4, <1>5, SeqEqual
<1>. QED
  BY <1>1, <1>2, <1>6 DEF v, l, x

\* A character is added to what is joined by adding it to its end.
AddedLast(p, v, x) == Append(p \o v, x) = p \o Append(v, x)

\* That is so for every sequence.
LEMMA AppendToJoined ==
  ASSUME NEW U, NEW p \in Seq(U), NEW v \in Seq(U), NEW x \in U
  PROVE  AddedLast(p, v, x)
<1>1. p \o v \in Seq(U) /\ <<x>> \in Seq(U)
  OBVIOUS
<1>2. Append(p \o v, x) = (p \o v) \o <<x>> /\ Append(v, x) = v \o <<x>>
  BY <1>1, AppendIsConcat
<1>. QED
  BY <1>1, <1>2, ConcatAssociative DEF AddedLast

\* No character of w separates.
Unbroken(w, c) == \A i \in 1 .. Len(w) : w[i] # c

\* Reading a word without separator adds it to the field.
LEMMA WordFound ==
  ASSUME NEW U, NEW p \in Seq(U), NEW c, NEW done, NEW f \in Seq(U),
         Found(p, c, done, f), NEW w \in Seq(U), Unbroken(w, c)
  PROVE  Found(p \o w, c, done, f \o w)
<1>. DEFINE v(n) == SubSeq(w, 1, n)
            S == {n \in Nat : n <= Len(w) =>
                                Found(p \o v(n), c, done, f \o v(n))}
<1>1. 0 \in S
  <2>1. v(0) = <<>>
    OBVIOUS
  <2>2. p \o v(0) = p /\ f \o v(0) = f
    BY <2>1, ConcatEmptySeq
  <2>. HIDE DEF v
  <2>. QED
    BY <2>2
<1>2. ASSUME NEW n \in Nat, n \in S PROVE n + 1 \in S
  <2>. SUFFICES ASSUME n + 1 <= Len(w)
                PROVE  Found(p \o v(n + 1), c, done, f \o v(n + 1))
    OBVIOUS
  <2>. DEFINE x == w[n + 1]
  <2>1. n <= Len(w) /\ n + 1 \in 1 .. Len(w) /\ x # c
    BY DEF Unbroken
  <2>2. x \in U /\ v(n) \in Seq(U) /\ v(n + 1) = Append(v(n), x)
    BY Longer
  <2>. HIDE DEF v, x
  <2>3. Found(p \o v(n), c, done, f \o v(n))
    BY <1>2, <2>1
  <2>4. p \o v(n) \in Seq(U)
    BY <2>2, ConcatProperties
  <2>5. Found(Append(p \o v(n), x), c, done, Append(f \o v(n), x))
    BY <2>1, <2>2, <2>3, <2>4, OneMoreFound
  <2>6. AddedLast(p, v(n), x) /\ AddedLast(f, v(n), x)
    BY <2>2, AppendToJoined
  <2>. QED
    BY <2>2, <2>5, <2>6 DEF AddedLast
<1>3. Len(w) \in S
  <2>1. Len(w) \in Nat
    OBVIOUS
  <2>. HIDE DEF S
  <2>. QED
    BY <1>1, <1>2, <2>1, SetInduction
<1>4. Found(p \o v(Len(w)), c, done, f \o v(Len(w)))
  <2>. HIDE DEF v
  <2>. QED
    BY <1>3
<1>5. v(Len(w)) = w
  BY WholeSlice
<1>. HIDE DEF v, S
<1>. QED
  BY <1>4, <1>5

\* A field and its terminator.
LEMMA FieldFound ==
  ASSUME NEW U, NEW p \in Seq(U), NEW done, NEW f \in Seq(U),
         Found(p, "nul", done, f), "nul" \in U,
         NEW w \in Seq(U), Unbroken(w, "nul")
  PROVE  /\ p \o Field(w) \in Seq(U)
         /\ Found(p \o Field(w), "nul", Append(done, f \o w), <<>>)
<1>1. p \o w \in Seq(U) /\ f \o w \in Seq(U)
  BY ConcatProperties
<1>2. Found(p \o w, "nul", done, f \o w)
  BY WordFound
<1>3. Found(Append(p \o w, "nul"), "nul", Append(done, f \o w), <<>>)
  BY <1>1, <1>2, OneMoreFound
<1>4. Append(w, "nul") = Field(w) /\ Field(w) \in Seq(U)
  BY AppendIsConcat DEF Field
<1>5. AddedLast(p, w, "nul")
  BY AppendToJoined
<1>. QED
  BY <1>3, <1>4, <1>5, ConcatProperties DEF AddedLast

\* A word of the protocol between two fields.
LEMMA WordBetween ==
  ASSUME NEW U, NEW p \in Seq(U), NEW done, NEW f, Found(p, "SP", done, f),
         "SP" \in U, NEW x \in U, x # "SP"
  PROVE  /\ p \o <<"SP", x, "SP">> \in Seq(U)
         /\ Found(p \o <<"SP", x, "SP">>, "SP",
                  Append(Append(done, f), <<x>>), <<>>)
<1>. DEFINE p1 == Append(p, "SP")
            p2 == Append(p1, x)
            p3 == Append(p2, "SP")
            e  == <<>>
<1>1. p1 \in Seq(U) /\ p2 \in Seq(U) /\ p3 \in Seq(U)
  OBVIOUS
<1>2. p3 = p \o <<"SP", x, "SP">>
  OBVIOUS
<1>3. Append(e, x) = <<x>>
  OBVIOUS
<1>. HIDE DEF e
<1>4. Found(p1, "SP", Append(done, f), e)
  BY OneMoreFound DEF e
<1>. HIDE DEF p1
<1>5. Found(p2, "SP", Append(done, f), Append(e, x))
  BY <1>1, <1>4, OneMoreFound
<1>. HIDE DEF p2
<1>6. Found(p3, "SP", Append(Append(done, f), Append(e, x)), e)
  BY <1>1, <1>5, OneMoreFound DEF e
<1>. HIDE DEF p3
<1>. QED
  BY <1>1, <1>2, <1>3, <1>6 DEF e

\* A field is added to the tuple of those before it, as the first ...
LEMMA First == \A a : Append(<<>>, a) = <<a>>
OBVIOUS

\* ... as the second ...
LEMMA Second == \A a, b : Append(<<a>>, b) = <<a, b>>
<1>. TAKE a, b
<1>. DEFINE U == {a, b}
            s == Append(<<a>>, b)
            t == <<a, b>>
<1>1. s \in Seq(U) /\ t \in Seq(U) /\ Len(s) = 2 /\ Len(t) = 2
  OBVIOUS
<1>2. s[1] = a /\ s[2] = b
  OBVIOUS
<1>3. t[1] = a /\ t[2] = b
  OBVIOUS
<1>. HIDE DEF U, s, t
<1>4. \A i \in 1 .. Len(s) : s[i] = t[i]
  BY <1>1, <1>2, <1>3
<1>5. s = t
  BY <1>1, <1>4, SeqEqual
<1>. QED
  BY <1>5 DEF s, t

\* ... as the third ...
LEMMA Third == \A a, b, d : Append(<<a, b>>, d) = <<a, b, d>>
<1>. TAKE a, b, d
<1>. DEFINE U == {a, b, d}
            s == Append(<<a, b>>, d)
            t == <<a, b, d>>
<1>1. s \in Seq(U) /\ t \in Seq(U) /\ Len(s) = 3 /\ Len(t) = 3
  OBVIOUS
<1>2. s[1] = a /\ s[2] = b /\ s[3] = d
  OBVIOUS
<1>3. t[1] = a /\ t[2] = b /\ t[3] = d
  OBVIOUS
<1>. HIDE DEF U, s, t
<1>4. \A i \in 1 .. Len(s) : s[i] = t[i]
  BY <1>1, <1>2, <1>3
<1>5. s = t
  BY <1>1, <1>4, SeqEqual
<1>. QED
  BY <1>5 DEF s, t

\* ... as the fourth ...
LEMMA Fourth == \A a, b, d, e : Append(<<a, b, d>>, e) = <<a, b, d, e>>
<1>. TAKE a, b, d, e
<1>. DEFINE U == {a, b, d, e}
            s == Append(<<a, b, d>>, e)
            t == <<a, b, d, e>>
<1>1. s \in Seq(U) /\ t \in Seq(U) /\ Len(s) = 4 /\ Len(t) = 4
  OBVIOUS
<1>2. s[1] = a /\ s[2] = b /\ s[3] = d /\ s[4] = e
  OBVIOUS
<1>3. t[1] = a /\ t[2] = b /\ t[3] = d /\ t[4] = e
  OBVIOUS
<1>. HIDE DEF U, s, t
<1>4. \A i \in 1 .. Len(s) : s[i] = t[i]
  BY <1>1, <1>2, <1>3
<1>5. s = t
  BY <1>1, <1>4, SeqEqual
<1>. QED
  BY <1>5 DEF s, t

\* ... as the fifth ...
LEMMA Fifth == \A a, b, d, e, f : Append(<<a, b, d, e>>, f) = <<a, b, d, e, f>>
<1>. TAKE a, b, d, e, f
<1>. DEFINE U == {a, b, d, e, f}
            s == Append(<<a, b, d, e>>, f)
            t == <<a, b, d, e, f>>
<1>1. s \in Seq(U) /\ t \in Seq(U) /\ Len(s) = 5 /\ Len(t) = 5
  OBVIOUS
<1>2. s[1] = a /\ s[2] = b /\ s[3] = d /\ s[4] = e /\ s[5] = f
  OBVIOUS
<1>3. t[1] = a /\ t[2] = b /\ t[3] = d /\ t[4] = e /\ t[5] = f
  OBVIOUS
<1>. HIDE DEF U, s, t
<1>4. \A i \in 1 .. Len(s) : s[i] = t[i]
  BY <1>1, <1>2, <1>3
<1>5. s = t
  BY <1>1, <1>4, SeqEqual
<1>. QED
  BY <1>5 DEF s, t

\* ... and as the sixth.
LEMMA Sixth ==
  \A a, b, d, e, f, g : Append(<<a, b, d, e, f>>, g) = <<a, b, d, e, f, g>>
<1>. TAKE a, b, d, e, f, g
<1>. DEFINE U == {a, b, d, e, f, g}
            s == Append(<<a, b, d, e, f>>, g)
            t == <<a, b, d, e, f, g>>
<1>1. s \in Seq(U) /\ t \in Seq(U) /\ Len(s) = 6 /\ Len(t) = 6
  OBVIOUS
<1>2. s[1] = a /\ s[2] = b /\ s[3] = d /\ s[4] = e /\ s[5] = f /\ s[6] = g
  OBVIOUS
<1>3. t[1] = a /\ t[2] = b /\ t[3] = d /\ t[4] = e /\ t[5] = f /\ t[6] = g
  OBVIOUS
<1>. HIDE DEF U, s, t
<1>4. \A i \in 1 .. Len(s) : s[i] = t[i]
  BY <1>1, <1>2, <1>3
<1>5. s = t
  BY <1>1, <1>4, SeqEqual
<1>. QED
  BY <1>5 DEF s, t

\* What is found when the message ends.
LEMMA EndFound ==
  ASSUME NEW m, NEW c, NEW done, NEW f, Found(m, c, done, f)
  PROVE  Split(m, c) = Append(done, f)
BY DEF Found, Split

\* A datagram of two fields, and the header before the first of them.
LEMMA TwoFields ==
  ASSUME NEW U, "nul" \in U,
         NEW h \in Seq(U), NEW a \in Seq(U), NEW b \in Seq(U),
         Unbroken(h, "nul"), Unbroken(a, "nul"), Unbroken(b, "nul")
  PROVE  /\ h \o Field(a) \o Field(b) \in Seq(U)
         /\ Found(h \o Field(a) \o Field(b), "nul", <<h \o a, b>>, <<>>)
<1>. DEFINE e == <<>>
<1>1. e \in Seq(U) /\ Found(e, "nul", e, e)
  BY NothingFound
<1>2. e \o h = h /\ e \o b = b
  BY ConcatEmptySeq
<1>. HIDE DEF e
<1>3. Found(e \o h, "nul", e, e \o h)
  BY <1>1, WordFound
<1>4. Found(h, "nul", e, h)
  BY <1>2, <1>3
<1>5. /\ h \o Field(a) \in Seq(U)
      /\ Found(h \o Field(a), "nul", Append(e, h \o a), e)
  BY <1>4, FieldFound DEF e
<1>6. /\ h \o Field(a) \o Field(b) \in Seq(U)
      /\ Found(h \o Field(a) \o Field(b), "nul",
               Append(Append(e, h \o a), e \o b), e)
  <2>. DEFINE p == h \o Field(a)
  <2>. HIDE DEF p
  <2>1. p \in Seq(U) /\ Found(p, "nul", Append(e, h \o a), e)
    BY <1>5 DEF p
  <2>2. /\ p \o Field(b) \in Seq(U)
        /\ Found(p \o Field(b), "nul", Append(Append(e, h \o a), e \o b), e)
    BY <1>1, <2>1, FieldFound DEF e
  <2>. QED
    BY <2>2 DEF p
<1>7. Append(Append(e, h \o a), b) = <<h \o a, b>>
  <2>. DEFINE y == h \o a
  <2>. HIDE DEF y
  <2>1. Append(e, y) = <<y>> /\ Append(<<y>>, b) = <<y, b>>
    BY First, Second, Zenon DEF e
  <2>. QED
    BY <2>1, Zenon DEF y
<1>. QED
  BY <1>2, <1>6, <1>7 DEF e

\* A line up to the name: its first word, the id and AS.
LEMMA LineBegun ==
  ASSUME NEW U, {"SP", "AS"} \subseteq U, NEW x \in U, x # "SP",
         NEW d \in Seq(U), NEW n \in Seq(U),
         Unbroken(d, "SP"), Unbroken(n, "SP")
  PROVE  /\ <<x, "SP">> \o d \o <<"SP", "AS", "SP">> \o n \in Seq(U)
         /\ Found(<<x, "SP">> \o d \o <<"SP", "AS", "SP">> \o n, "SP",
                  <<<<x>>, d, <<"AS">>>>, n)
<1>. DEFINE e  == <<>>
            p1 == <<x, "SP">>
            p2 == p1 \o d
            p3 == p2 \o <<"SP", "AS", "SP">>
            p4 == p3 \o n
<1>1. e \in Seq(U) /\ Found(e, "SP", e, e)
  BY NothingFound
<1>2. /\ Append(e, x) = <<x>> /\ Append(<<x>>, "SP") = p1
      /\ Append(e, <<x>>) = <<<<x>>>>
  BY First, Second, Zenon
<1>3. e \o d = d /\ e \o n = n
  BY ConcatEmptySeq
<1>4. Append(e, x) \in Seq(U) /\ p1 \in Seq(U)
  OBVIOUS
<1>. HIDE DEF e, p1
<1>5. Found(Append(e, x), "SP", e, Append(e, x))
  BY <1>1, OneMoreFound
<1>6. Found(Append(Append(e, x), "SP"), "SP", Append(e, Append(e, x)), e)
  BY <1>4, <1>5, OneMoreFound DEF e
<1>7. Found(p1, "SP", <<<<x>>>>, e)
  BY <1>2, <1>6
<1>8. p2 \in Seq(U) /\ Found(p2, "SP", <<<<x>>>>, d)
  <2>1. Found(p1 \o d, "SP", <<<<x>>>>, e \o d)
    BY <1>1, <1>4, <1>7, WordFound
  <2>2. p1 \o d \in Seq(U)
    BY <1>4, ConcatProperties
  <2>. QED
    BY <1>3, <2>1, <2>2
<1>. HIDE DEF p2
<1>9. /\ p3 \in Seq(U)
      /\ Found(p3, "SP", Append(Append(<<<<x>>>>, d), <<"AS">>), e)
  BY <1>8, WordBetween DEF e
<1>. HIDE DEF p3
<1>10. /\ p4 \in Seq(U)
       /\ Found(p4, "SP", Append(Append(<<<<x>>>>, d), <<"AS">>), n)
  <2>. DEFINE y == Append(Append(<<<<x>>>>, d), <<"AS">>)
  <2>. HIDE DEF y
  <2>1. Found(p3 \o n, "SP", y, e \o n)
    BY <1>1, <1>9, WordFound DEF y
  <2>2. p3 \o n \in Seq(U)
    BY <1>9, ConcatProperties
  <2>. QED
    BY <1>3, <2>1, <2>2 DEF y
<1>11. /\ Append(<<<<x>>>>, d) = <<<<x>>, d>>
       /\ Append(<<<<x>>, d>>, <<"AS">>) = <<<<x>>, d, <<"AS">>>>
  BY Second, Third, Zenon
<1>. HIDE DEF p4
<1>12. Found(p4, "SP", <<<<x>>, d, <<"AS">>>>, n)
  BY <1>10, <1>11
<1>. QED
  BY <1>10, <1>12 DEF p4, p3, p2, p1

\* The datagrams of AUTH and JOIN are split into the fields they were composed
\* of, in the order of the protocol.
LEMMA DatagramsApart ==
  ASSUME NEW U, {"AUTH", "JOIN", "id", "nul"} \subseteq U,
         NEW d \in Seq(U), NEW n \in Seq(U), NEW t \in Seq(U),
         Unbroken(d, "nul"), Unbroken(n, "nul"), Unbroken(t, "nul")
  PROVE  /\ Split(AuthMessage(d, t, n), "nul")
              = <<<<"AUTH", "id", "id">> \o d, n, t, <<>>>>
         /\ Split(JoinMessage(d, n), "nul")
              = <<<<"JOIN", "id", "id">> \o d, n, <<>>>>
<1>. DEFINE a == Header("AUTH")
            j == Header("JOIN")
            e == <<>>
<1>1. a \in Seq(U) /\ j \in Seq(U) /\ Unbroken(a, "nul") /\ Unbroken(j, "nul")
  BY DEF Header, Unbroken
<1>2. "nul" \in U /\ e \in Seq(U)
  OBVIOUS
<1>3. e \o t = t
  BY ConcatEmptySeq
<1>. HIDE DEF a, j, e
<1>4. ASSUME NEW h \in Seq(U), Unbroken(h, "nul")
      PROVE  /\ Split(h \o Field(d) \o Field(n), "nul") = <<h \o d, n, e>>
             /\ Split(h \o Field(d) \o Field(n) \o Field(t), "nul")
                  = <<h \o d, n, t, e>>
  <2>. DEFINE p == h \o Field(d) \o Field(n)
              y == h \o d
  <2>. HIDE DEF p, y
  <2>1. p \in Seq(U) /\ Found(p, "nul", <<y, n>>, e)
    BY <1>2, <1>4, TwoFields DEF p, y, e
  <2>2. Split(p, "nul") = Append(<<y, n>>, e)
    BY <2>1, EndFound
  <2>3. Found(p \o Field(t), "nul", Append(<<y, n>>, e \o t), e)
    BY <1>2, <2>1, FieldFound DEF e
  <2>4. Split(p \o Field(t), "nul") = Append(Append(<<y, n>>, t), e)
    <3>1. Split(p \o Field(t), "nul") = Append(Append(<<y, n>>, e \o t), e)
      BY <2>3, EndFound, Zenon
    <3>. QED
      BY <1>3, <3>1, Zenon
  <2>5. Append(<<y, n>>, e) = <<y, n, e>>
    BY Third, Zenon
  <2>6. Append(<<y, n>>, t) = <<y, n, t>>
    BY Third, Zenon
  <2>7. Append(<<y, n, t>>, e) = <<y, n, t, e>>
    BY Fourth, Zenon
  <2>. QED
    BY <2>2, <2>4, <2>5, <2>6, <2>7, Zenon DEF p, y
<1>5. AuthMessage(d, t, n) = a \o Field(d) \o Field(n) \o Field(t)
  BY Zenon DEF AuthMessage, a
<1>6. JoinMessage(d, n) = j \o Field(d) \o Field(n)
  BY Zenon DEF JoinMessage, j
<1>7. /\ Split(a \o Field(d) \o Field(n) \o Field(t), "nul") = <<a \o d, n, t, e>>
      /\ Split(j \o Field(d) \o Field(n), "nul") = <<j \o d, n, e>>
  BY <1>1, <1>4, Zenon
<1>8. a = <<"AUTH", "id", "id">> /\ j = <<"JOIN", "id", "id">> /\ e = <<>>
  BY Zenon DEF a, j, e, Header
<1>. QED
  BY <1>5, <1>6, <1>7, <1>8, Zenon

\* So is the line of a JOIN ...
LEMMA JoinLineApart ==
  ASSUME NEW U, {"JOIN", "SP", "AS", "CR", "NL"} \subseteq U,
         NEW d \in Seq(U), NEW n \in Seq(U),
         Unbroken(d, "SP"), Unbroken(n, "SP")
  PROVE  Split(join_message(d, n), "SP")
           = <<<<"JOIN">>, d, <<"AS">>, n \o EndOfLine>>
<1>. DEFINE p == <<"JOIN", "SP">> \o d \o <<"SP", "AS", "SP">> \o n
            y == <<<<"JOIN">>, d, <<"AS">>>>
            w == n \o EndOfLine
<1>1. EndOfLine \in Seq(U) /\ Unbroken(EndOfLine, "SP")
  BY DEF EndOfLine, Unbroken
<1>2. p \in Seq(U) /\ Found(p, "SP", y, n)
  BY LineBegun
<1>3. join_message(d, n) = p \o EndOfLine
  BY Zenon DEF join_message
<1>. HIDE DEF p, y
<1>4. Found(p \o EndOfLine, "SP", y, w)
  BY <1>1, <1>2, WordFound
<1>. HIDE DEF w
<1>5. Split(join_message(d, n), "SP") = Append(y, w)
  BY <1>3, <1>4, EndFound
<1>6. Append(y, w) = <<<<"JOIN">>, d, <<"AS">>, w>>
  <2>1. \A a, b : Append(<<a, d, b>>, w) = <<a, d, b, w>>
    BY Fourth, Zenon
  <2>. QED
    BY <2>1, Zenon DEF y
<1>. QED
  BY <1>5, <1>6, Zenon DEF w

\* ... and of an AUTH that the client does not refuse.
LEMMA AuthLineApart ==
  ASSUME NEW U, {"AUTH", "SP", "AS", "USING", "CR", "NL"} \subseteq U,
         NEW d \in Seq(U), NEW n \in Seq(U), NEW t \in Seq(U),
         Unbroken(d, "SP"), Unbroken(n, "SP"), auth_message(d, t, n) # <<>>
  PROVE  Split(auth_message(d, t, n), "SP")
           = <<<<"AUTH">>, d, <<"AS">>, n, <<"USING">>, t \o EndOfLine>>
<1>. DEFINE p == <<"AUTH", "SP">> \o d \o <<"SP", "AS", "SP">> \o n
            q == p \o <<"SP", "USING", "SP">>
            y == <<<<"AUTH">>, d, <<"AS">>>>
            u == <<"USING">>
            w == t \o EndOfLine
            e == <<>>
<1>1. /\ EndOfLine \in Seq(U) /\ Unbroken(EndOfLine, "SP")
      /\ e \in Seq(U)
  BY DEF EndOfLine, Unbroken
<1>2. p \in Seq(U) /\ Found(p, "SP", y, n)
  BY LineBegun
<1>3. is_valid_secret(t) /\ auth_message(d, t, n) = q \o t \o EndOfLine
  BY Zenon DEF auth_message
<1>4. Unbroken(t, "SP")
  BY <1>3 DEF is_valid_secret, AllAlnum, Unbroken
<1>5. e \o t = t
  BY ConcatEmptySeq
<1>. HIDE DEF p, y
<1>6. q \in Seq(U) /\ Found(q, "SP", Append(Append(y, n), u), e)
  BY <1>2, WordBetween
<1>. HIDE DEF q, u, e
<1>7. q \o t \in Seq(U) /\ Found(q \o t, "SP", Append(Append(y, n), u), t)
  <2>1. Found(q \o t, "SP", Append(Append(y, n), u), e \o t)
    BY <1>1, <1>4, <1>6, WordFound
  <2>2. q \o t \in Seq(U)
    BY <1>6, ConcatProperties
  <2>. QED
    BY <1>5, <2>1, <2>2
<1>8. Found(q \o t \o EndOfLine, "SP", Append(Append(y, n), u), w)
  <2>. DEFINE l == q \o t
  <2>1. l \in Seq(U) /\ Found(l, "SP", Append(Append(y, n), u), t)
    BY <1>7
  <2>. HIDE DEF l, w
  <2>2. Found(l \o EndOfLine, "SP", Append(Append(y, n), u), t \o EndOfLine)
    BY <1>1, <2>1, WordFound
  <2>. QED
    BY <2>2 DEF l, w
<1>. HIDE DEF w
<1>9. Split(auth_message(d, t, n), "SP") = Append(Append(Append(y, n), u), w)
  <2>. DEFINE l == q \o t \o EndOfLine
              z == Append(Append(y, n), u)
  <2>1. Split(l, "SP") = Append(z, w)
    <3>1. Found(l, "SP", z, w)
      BY <1>8
    <3>. HIDE DEF l, z
    <3>. QED
      BY <3>1, EndFound
  <2>2. auth_message(d, t, n) = q \o t \o EndOfLine
    BY <1>3, Zenon
  <2>. QED
    BY <2>1, <2>2, Zenon
<1>10. \A a, b : Append(Append(Append(<<a, d, b>>, n), u), w)
                   = <<a, d, b, n, u, w>>
  <2>. SUFFICES ASSUME NEW a, NEW b
                PROVE  Append(Append(Append(<<a, d, b>>, n), u), w)
                         = <<a, d, b, n, u, w>>
    OBVIOUS
  <2>1. Append(<<a, d, b>>, n) = <<a, d, b, n>>
    BY Fourth, Zenon
  <2>2. Append(<<a, d, b, n>>, u) = <<a, d, b, n, u>>
    BY Fifth, Zenon
  <2>3. Append(<<a, d, b, n, u>>, w) = <<a, d, b, n, u, w>>
    BY Sixth, Zenon
  <2>. QED
    BY <2>1, <2>2, <2>3, Zenon
<1>. QED
  BY <1>9, <1>10, Zenon DEF y, u, w

\* Whatever name and secret are typed, the server finds the fields of AUTH and
\* JOIN in the order of the protocol; on TCP unless the name has a space or the
\* client refuses the command (UDP.c:704-711, 749-754; TCP.c:482-485, 508).
THEOREM FieldsAreApart == Spec => []FieldsApart
<1>1. Inputs => FieldsApart
  <2>. DEFINE U  == Chars \cup {"AUTH", "JOIN", "id", "x", "-", "AS", "USING",
                                "SP", "CR", "NL", "nul"}
              d  == <<"x", "-">>
  <2>. SUFFICES ASSUME Inputs PROVE FieldsApart
    OBVIOUS
  <2>1. name \in Seq(Chars) /\ text \in Seq(Chars)
    BY DEF Inputs
  <2>2. Unbroken(name, "nul") /\ Unbroken(text, "nul")
    BY <2>1, CharsAssumption DEF Unbroken
  <2>3. name \in Seq(U) /\ text \in Seq(U)
    BY <2>1, SeqMonotonic
  <2>4. d \in Seq(U) /\ Unbroken(d, "nul") /\ Unbroken(d, "SP")
    BY DEF Unbroken
  <2>5. {"AUTH", "JOIN", "id", "AS", "USING", "SP", "CR", "NL", "nul"} \subseteq U
    OBVIOUS
  <2>6. ~Contains(name, "SP") => Unbroken(name, "SP")
    BY DEF Contains, Unbroken
  <2>. HIDE DEF U, d
  <2>7. /\ Split(AuthMessage(d, text, name), "nul")
             = <<<<"AUTH", "id", "id">> \o d, name, text, <<>>>>
        /\ Split(JoinMessage(d, name), "nul")
             = <<<<"JOIN", "id", "id">> \o d, name, <<>>>>
    BY <2>2, <2>3, <2>4, <2>5, DatagramsApart
  <2>8. ASSUME ~Contains(name, "SP")
        PROVE  Split(join_message(d, name), "SP")
                 = <<<<"JOIN">>, d, <<"AS">>, name \o EndOfLine>>
    BY <2>3, <2>4, <2>5, <2>6, <2>8, JoinLineApart
  <2>9. ASSUME ~Contains(name, "SP"), auth_message(d, text, name) # <<>>
        PROVE  Split(auth_message(d, text, name), "SP")
                 = <<<<"AUTH">>, d, <<"AS">>, name, <<"USING">>,
                     text \o EndOfLine>>
    BY <2>3, <2>4, <2>5, <2>6, <2>9, AuthLineApart
  <2>. QED
    BY <2>7, <2>8, <2>9, Zenon DEF FieldsApart, d
<1>. QED
  BY <1>1, InputsHold, PTL

=============================================================================
