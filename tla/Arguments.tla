------------------------------ MODULE Arguments ------------------------------
(***************************************************************************)
(* process_arguments and the dispatch in main: what an argument vector     *)
(* makes the program do.                                                   *)
(***************************************************************************)
EXTENDS Naturals, Sequences, SequencesExt

ValueOptions == {"-t", "-s", "-p", "-d", "-r"}

\* 0 for a text without digits; numerals of the checked command lines.
atoi(a) == CASE a = "300" -> 300 [] a = "65537" -> 65537 [] OTHER -> 0

\* The number of values of a uint16_t and of a uint8_t.
Values16 == 65536
Values8  == 256

DefaultPort    == 4567
DefaultTimeout == 250
DefaultRetries == 3

\* The globals of main.c, the option whose value comes next, and how it ends.
Defaults == [t |-> "", s |-> "", p |-> DefaultPort, d |-> DefaultTimeout,
             r |-> DefaultRetries, value_of |-> "", end |-> "no"]

\* argv[++i]: the value is stored, narrowed to the width of the variable.
Store(st, a) ==
  LET put(option, old, new) == IF st.value_of = option THEN new ELSE old
  IN  [t |-> put("-t", st.t, a), s |-> put("-s", st.s, a),
       p |-> put("-p", st.p, atoi(a) % Values16),
       d |-> put("-d", st.d, atoi(a) % Values16),
       r |-> put("-r", st.r, atoi(a) % Values8),
       value_of |-> "", end |-> st.end]

\* Mutant: an option among the values is taken for an option again.
ReadGreedily(st, a) ==
  CASE st.end # "no"                          -> st
    [] st.end = "no" /\ a \in ValueOptions    -> [st EXCEPT !.value_of = a]
    [] st.end = "no" /\ a \notin ValueOptions ->
         IF st.value_of # "" THEN Store(st, a)
         ELSE IF a = "-h" THEN [st EXCEPT !.end = "help"] ELSE st

Read(st, a) ==
  IF st.end # "no" THEN st
  ELSE IF st.value_of # "" THEN Store(st, a)
  ELSE IF a \in ValueOptions THEN [st EXCEPT !.value_of = a]
  ELSE IF a = "-h" THEN [st EXCEPT !.end = "help"]
  ELSE st

\* The loop over argv: the state behind each argument.
Reading(argv) ==
  LET st[n \in 0 .. Len(argv)] ==
        IF n = 0 THEN Defaults ELSE Read(st[n - 1], argv[n])
  IN  st

process_arguments(argv) == Reading(argv)[Len(argv)]

\* strcpy and atoi of the null pointer that ends argv: undefined.
main(argv) ==
  LET st == process_arguments(argv)
  IN  IF st.end = "help" THEN <<"help">>
      ELSE IF st.value_of # "" THEN <<"undefined">>
      ELSE IF st.t = "" \/ st.s = "" THEN <<"usage">>
      ELSE IF st.t = "tcp" THEN <<"tcp", st.s, st.p>>
      ELSE IF st.t = "udp" THEN <<"udp", st.s, st.p, st.d, st.r>>
      ELSE <<"invalid">>

=============================================================================
