# ipk24-chat client: TLA+ models, checks and proofs

The repository is a chat client in C for the IPK24-CHAT protocol: `main.c` parses the
arguments and starts either the UDP client (`UDP.c`, three threads, its own
stop-and-wait delivery) or the TCP client (`TCP.c`, two threads). These modules model
both clients, the formats of their messages and the command line, check them with TLC,
and prove with TLAPS the safety properties that TLC finds to hold. Line numbers below are those of
`src/UDP.c` unless a file is named.

## 1. Inventory

| component | state it keeps | operations | modelled by |
|---|---|---|---|
| shared memory of the UDP client | the queue `pending_messages`, the flags, `mutex`, two condition variables, `server_addr`, `last_message_id` | `generate_message_id`; append to and remove from the queue | `UdpState` |
| command thread | the input line, `u_current_command`, `u_dname` | `process_commands`, `u_handle_command`, `u_send_*` | `UdpCommandThread` |
| send thread | `retransmission_count`, the copy it sends | `send_message_thread` | `UdpSendThread` |
| receive thread | the datagram it works on | `receive_messages`, `process_server_response`, `send_confirmation_message`, `send_error_message` | `UdpReceiveThread` |
| main thread, signals, cancellation | pending cancellations | `connect_to_server_udp`, `sigint_handler`, `pthread_cancel` | `UdpLifecycle` |
| chat server (external) | ids seen, verdicts given | CONFIRM, REPLY, MSG, ERR, BYE | `UdpServer` |
| UDP message formats | — | bytes of each message, offsets and lengths checked on receipt | `UdpFormats`, `Formats` |
| TCP main thread | `AUTH_FLAG` and five more flags, `current_command`, `dname` | `connect_to_server_tcp`, `handle_command` and the handlers it calls | `TcpState`, `TcpMainThread` |
| TCP listener | the piece of the stream it works on | `listen_to_server`, `handle_server_message`, `send_error_and_close_connection` | `TcpListener` |
| TCP signal handler | — | `t_sigint_holder` | `TcpClient` |
| TCP chat server (external) | requests answered | REPLY, other lines, closing | `TcpServer` |
| TCP lines and validation | — | composition, `strtok`, `is_valid_*` in `supportTCP.c` | `TcpFormats`, `Formats` |
| arguments | `main.c` globals | `process_arguments`, `main` | `Arguments`, `Formats` |
| socket wrappers | — | `errorproc.c`: one system call, exit on failure | `MainConnect` |

**Interaction.** The command thread appends a message and then waits for `have_sent`
(and after `/auth` first for `AUTH_VER` or `result_auth_flag`). The send thread
transmits slot 0, clears `confirmation_received`, sleeps for the timeout, and then
either sets `have_sent`, or counts a failure and tries again, or gives up. The receive
thread removes a confirmed message from the queue and sets `confirmation_received`, and
turns a REPLY into `AUTH_VER` or `result_auth_flag`. `mutex` is held by the receive
thread while it handles a datagram and around the two appends of a BYE, but *not* around
the appends of the user's messages or the send thread's reads. Flags are set and
signalled without the mutex of the wait. `quit` and `quit_requested` stop the command
and send threads; whichever leaves its loop first ends the process, the command thread by
`exit`, the send thread by cancelling everybody.

**Interaction in the TCP client.** The main thread reads a line, sends at once, and
waits for one or two conditions: the verdict on an `/auth` or `/join`, which the listener
sets, and `t_msg_condition`, which it has mostly set itself. The listener's `recv` cuts
the stream anywhere, and what it got is handled as one message. It signals without a
mutex, and ends the process itself (ERR, BYE, `shutdown`, `close`, `exit`) while the
main thread may be sending.

**What is hard.** Races on the queue, on the id counter and on the flags; lost wakeups;
lost, repeated, delayed and reordered datagrams against a timeout and retransmission;
three ways of ending (the user, the server, giving up) that overlap; cancellation of
threads that hold a mutex or have a BYE yet to send. In TCP: a byte stream taken for messages, flags
that outlive their wait, SIGPIPE. In the formats: lengths that wrap, buffers that
still hold an earlier message, and arrays filled without measuring what goes into them. `PROJECT.json` lists these hazards
line by line with the properties that watch them.

**What makes it correct.**
* command thread: nothing but AUTH before the server has accepted one; one message at a
  time; a requested end says BYE unless the thread is cancelled on its way there;
* send thread: each message reaches the server once, in order; retrying ends;
* receive thread: a session's messages go to the session's port; the count of the queue
  never drops below zero; the client says goodbye before it stops;
* all: the process ends once it is to end;
* TCP: one request at a time; nothing but AUTH before one is accepted; an answer lets the
  user go on; a BYE at the end;
* formats: what one client sends another shows, as long as it fits into the arrays it is
  composed in; of a MSG nothing else is shown.

## 2. Modules

```
UdpState            variables, messages, mutex, network, queue and id primitives
  UdpCommandThread  UdpSendThread  UdpReceiveThread  UdpLifecycle  UdpServer
    UdpClient       Init, Next, Spec, FairSpec; TypeOK, safety, liveness
      UdpOutbox     refinement mapping: UdpClient implements Outbox
      UdpClaims     what the docs say and the code does not do
      UdpTypeProofs -> UdpAuthProofs            theorems: types; what precedes acceptance
                    -> UdpEndProofs -> UdpQueueProofs    the end; the bound of the queue
                       -> UdpOutboxProofs                Outbox is implemented
Outbox              abstract specification of what the queue promises the user

TcpState            variables, send
  TcpMainThread -> TcpListener -> TcpServer    each EXTENDS the one before
    TcpClient       Init, Next, Spec, FairSpec, the signal handler; properties
      TcpDialogue   refinement mapping: TcpClient implements Dialogue
        TcpProofs   theorems: types, the gate, the end; nothing is left over,
                    Dialogue is implemented
Dialogue            abstract specification of what the server may rely on: one request
                    at a time, only AUTH before one is accepted, ERR and BYE at any time

UdpFormats -> TcpFormats    pure operators: composing and reading messages
Arguments                   pure operators: the command line
  Formats                   types every short input and checks the operators
    FormatsProofs           theorems: the same for every input
    FormatsClaims           what the README says of names and the code does not do
```

### How state and actions correspond to the code

Each global has a variable of the same name. Locals and control are `pc[t]` (where
thread `t` is), `draft[t]` (the `PendingMessage` it composes or sends), `slot[t]` (a
count it has loaded), `line`, `response`, `script`. The threads are `cmd`, `snd`, `rcv`
and `sig`, the main thread on which the signal handler runs.

**Granularity.** An action runs a thread from one access of shared memory, or one
blocking call, to the next. The Makefile compiles without optimisation, so every mention
of a global is a memory access, and the data races of the code become interleavings:
* `pending_messages[pending_messages_count++] = m` is three actions: load the count
  (`push`), store count + 1 (`pushCount`), fill the slot (`pushSlot`);
  `pending_messages_count--` is two (`load`, `dec`); `last_message_id++` is two.
* `pthread_cond_wait` is a test of the flag (`authTest`, `msgTest`), the moment before
  the thread sleeps (`authPark`, `msgPark`) and the sleep. A signal wakes a sleeping
  thread only. Spurious wakeups are possible.
* A cancellation request takes effect at the cancellation points of
  `CancellationPoint`; the mutex stays with a thread that dies.
* `pthread_mutex_destroy` has no effect on a held mutex; a destroyed one can be
  "locked" by anybody, as in glibc, where the call returns at once with `EINVAL`.

Merged, because what could happen in between makes no difference to the properties: a
flag and the signal after it (the waiter tests the flag first, and the tests in between
are covered by `park`); a flag's last test and its reset (no other thread reads
`have_sent` or `result_auth_flag`; a second set in between is absorbed as one before
it); reading a line and the dispatch on it; the search in the queue and the shift, whose
only concurrent writer appends behind; the send thread's test of the count and its copy
of slot 0; setting `quit` and `receive_thread_active` when giving up.

`process_server_response` is a *script*: for each kind of datagram the sequence of
effects it performs, each effect one action. `MSG` is a well-formed message, `BADMSG` one
the client refuses (too short, unprintable, too long), `JUNK` an unknown type.

**Data.** A line is one of fourteen `LineKinds`: the cases `process_commands` and
`u_handle_command` tell apart. A message is its type, id, the number of the line it came
from (`body`) and the line that set the display name in it (`name`).

**Network and server.** `toServer` and `toClient` only grow: a datagram may be received
any number of times, in any order, or never, which covers loss, repetition, delay and
reordering. The server (external) confirms a message, acts on its first receipt and
answers a request with a REPLY of either outcome; `SrvNotify` puts all of `Notices`
into the network at once, since nobody is obliged to receive them.

### The TCP client

Each global has a variable of the same name; the locals are `line`, `got` (the piece
`handle_server_message` works on), `script` (what the listener still does before `exit`)
and `waits` (the conditions the main thread still has to wait for: `<<"auth", "msg">>`
after an `/auth`). A line is one of eleven `LineKinds`; `badAuth` and `badJoin` lack a
field or have an invalid one, `badRename` is a name whose first seven characters are not
printable, `noRename` has no name, an empty line is a `msg`. A wait is a test, a moment
before the sleep and a sleep, as in the UDP client. `Send` has the outcomes of `send` on
a socket: the bytes leave; the descriptor is closed and nothing happens; or SIGPIPE.
An action is one blocking call or one access that another thread can notice.

`stream` holds the lines the server has sent. `LstRecv` takes any number of whole lines
and possibly the beginning of the next. Only the first is handled; the others are gone,
as `handle_server_message` stops at the first line feed. The rest of a line cut before is
no message (`JUNK`). A line cut short is continued by whatever the buffer held: `Cut`
lists what it may then be taken for. A NOK can become an OK only if an OK line has been
in the buffer, so only when `AUTH_FLAG` is up. All this is for texts which do not
themselves contain lines of the protocol. `pthread_join` of the listener by itself
(TCP.c:591) returns `EDEADLK` at once in glibc.

`lost` is a history variable: a REPLY was received behind another line, or came between
the main thread's test and its sleep. Merged: reading a line and the two tests of
`AUTH_FLAG` (only an answer to a request raises it, and none is outstanding); a flag's
last test and its reset, for the same reason; a flag and its signal; the tokens of a line.

### The formats

`UdpFormats` and `TcpFormats` are operators over sequences of bytes or characters: the
packets and lines the client composes, and what it shows of the ones it receives, given
the bytes that follow in memory (`stale`). `size_t` wraps at `SizeSpace`, of which no more
is used than that it is larger than two buffers. A word of the TCP protocol is one
character, as nothing looks inside it, and the space is `"SP"`. MSG and ERR are composed in
`char message[MAX_MSG_LENGTH]` and copied to a slot of the same size (785-807), and of what
goes into them only the content of a MSG is measured: `InArray` makes the result
`Undefined` when the whole is longer. `Reading(argv)` is the
state of the loop of `process_arguments` behind each argument. `Formats` types an input one character or argument at a
time, so that its reachable states are all inputs up to the bounds.

### Left out

TCP: a failing `pthread_create`; a signal before the first `fgets`; a message that begins
with the word `Unknown` after an unknown command (ignored by TCP.c:243); a line of nothing
but spaces from the server; a cut of the stream right in front of a line feed, which
`sscanf` skips at the beginning of the next piece (TCP.c:248; in the model what is left of
a line is always an unknown message); a failing `send` other than by SIGPIPE; an input line beyond 1499
characters (`fgets` hands it over as two lines). Formats and arguments: the sizes of the
buffers `sscanf`, `sprintf` and `strcpy` write to, other than those of MSG and ERR in `UDP.c`.

UDP:

`u_id`, `u_secret`, `current_MessageID`, `retry_count`, `current_retry_timeout`,
`waiting_for_auth_reply` (never read) and `retransimission_quit` (never set);
`eof_handler` (never called). Output, and stdio calls as cancellation points. A torn
copy of a `PendingMessage` (a slot is read or written in one step). A second signal: the
handler runs at most once. Failing `pthread_create`. A failing `sendto` whose error is only
printed: it is a lost datagram; the one that ends the send thread is `SndSendFails`. The fixed-size buffers of `sscanf` and
`strcpy`.

## 3. Runs

Constants that bound a run: `MaxLines` lines read, `MaxIds` ids drawn before the server
stops sending what ends the session, `MaxRetrans` (option `-r`), `MaxPending` slots. The
array has 150 slots; `QueueBound` shows that four are ever used, so runs with
`MaxPending = 4` lose nothing, and the type invariant would report an access beyond.
`MaxIds` is needed since each ERR or BYE received makes the client draw two ids more.
Ids are 16 bits wide in every run and proof.

`ClosedWindows` is a set of labels at which no other thread takes a step. With `{}` the
run is the program at full granularity; a run that closes windows answers its question
for the remaining interleavings in exchange for more lines or more ways of ending.

| run | question | bounds | shows |
|---|---|---|---|
| `udp_session` | sessions, every interleaving | 2 lines of 12 kinds, all windows open | `TypeOK`, `AuthGate`, `SessionPort`, `QueueBound` |
| `udp_outbox` | does the queue keep its promise over several messages, also when a call fails? | 3 lines, failing calls; an append, the handling of a datagram and giving up are one step each | `ImplementsOutbox`, `QueueBound` |
| `udp_ending` | end of file, a read error, a signal and giving up together | 2 lines, appends and removals in one step | `QueueBound`, `ByeUnlessCancelled` |
| `udp_server_ends` | the server ends or breaks the session, repeatedly | 1 line, all windows open | `Announced` |
| `udp_liveness` | does everything that must end, end? | 1 line, end of file, BYE from the server; appends in one step | `StopEnds`, `RetriesEnd` |
| `tcp_client` | a TCP session, every interleaving, a stream cut between and within lines | 3 lines of 7 kinds, the answers and 1 other line of 4 kinds | `TcpTypeOK`, `TcpGate`, `EndsWithBye`, `NoVerdictLeftOver`, `ImplementsDialogue`, `AnswerReturns` |
| `formats` | do the pure functions compute what they are meant to? | names and texts of up to 3 of 4 characters, datagrams of up to 7 of 3 bytes, command lines of up to 6 of 7 arguments | `UdpShownAsSent`, `StaleNeverShown`, `TcpShownAsSent`, `FieldsApart`, `ArgumentsAgree` |

Two lines are the least in which a message can leave something behind for the next (a
stale slot, a late CONFIRM, a repeated REPLY, `u_current_command` overwritten); three let
a message disturb the one after next. One failure beyond the first transmission
(`MaxRetrans = 2`) already separates retrying from giving up.

**Bounds of `tcp_client`.** Three lines are an `/auth`, a `/join` and a line that could
find something left over; one line of the server's own is enough to come before an answer,
behind it, or in two pieces. Left out of the cfg are kinds that act like another one in it:
`help` and `unknown` are a `badRename` that ends in one wait, `rename` and `noRename`
leave the name as it is, `ERR` ends like a `BYE` cut before its carriage return, and
`BADERR` like `BADMSG`.

**Bounds of `formats`.** The lengths are scaled so that each limit lies within them, one
below and one above: names of 2, contents of 3, a buffer of 8 (a name and a text of
three characters together fit with their header, one more overruns it), a line of 13 (the
longest message that TCP promises to show fits, one character more does not), a pointer of
3 bytes, so that a name of 2 is sent whole and one of 3 is cut, as 7 and 8 in the code. What
is behind a datagram varies in its first three bytes, where a name of the greatest length
could end.

**What the formats promise, and where it ends.** `StaleNeverShown` holds thanks to the
wrap: a MSG whose name is not terminated is refused because its content length is then
enormous. It is about MSG only: an ERR without terminator is shown with what lies behind it
(281-292). `UdpShownAsSent` ends at the sender's arrays: a name and a content that are each
of legal length can be longer together than the 1400 bytes of `message` and
`PendingMessage.message`, which are then overrun (785-807), and nothing is promised of what is
sent. `TcpShownAsSent` ends at the names and texts that TCP does not carry: a name
of eight characters or more loses its end (TCP.c:528), one with a space moves the word `IS`, and a
content of 1400 characters, to which the carriage return is added, is malformed for the
receiver and ends its session; README.md:189 says that a longer one is truncated, and the
code sends it whole (TCP.c:525-536). The run `claim_rename` shows that README.md:68 is not
kept. A REPLY of fewer than six bytes is undefined, as is an option without value.

**Why `ImplementsOutbox` closes windows.** With all of them open the promise is broken:
`claim_ready` shows how. While the count is raised and the slot not yet filled the send
thread transmits the *previous* message again; its CONFIRM removes the new message,
which is never sent. The run shows for three lines that with appends, datagram handling
and giving up uninterrupted each message arrives once, in order, and the next is taken
only after it has arrived; the theorem `OutboxImplemented` (section 4) has every
window open and names the schedules that break the promise, for any number of lines.

`udp_outbox` also lets calls fail: after a failing `sendto` the send thread is gone for good (834),
lines are still queued, and nothing is sent twice or out of order.

**Claims.** Five runs (`claim_*`, modules `UdpClaims` and `FormatsClaims`) state what the
README or a comment says and show a behaviour of the code that refutes it:

| run | said at | what happens |
|---|---|---|
| `claim_confirmed` | 820 | a CONFIRM before the flag is cleared, or after it was read, is never signalled; the client hangs |
| `claim_verdict` | 454 | lost wakeup: verified, and asleep for ever |
| `claim_ready` | README.md:87, 89 | a message is removed unsent by the CONFIRM of another |
| `claim_ids` | 78 | two messages with one id |
| `claim_rename` | README.md:68, 156-162 | a name as long as a pointer has bytes loses its last character over TCP |

`NewNameIsUsed` is about every name and every text that the clients accept; TLC stops at the
shortest counterexample, the cut of TCP.c:528 (pointers of 2 bytes, names of up to 3). A name with a space (TCP.c:306) and, over UDP,
a name and a text too long for the array (801) break it as well.

The models contain more departures that have no run of their own:
* a second copy of the REPLY that refused one `/auth` ends the wait of the next (269);
* the command thread may be cancelled before the BYE of its end of file (455, 891), and
  the process may end before the BYE of giving up (856, README.md:87);
* it may hang on the mutex of a cancelled receive thread (536), which `StopEnds` excuses;
* after a malformed `/auth` (UDP 614, TCP.c:393) or `/join` (TCP.c:441) no line is read;
* an overlong message ends the UDP client, untruncated and unsent (777, README.md:188);
* TCP lines that arrive together are lost but for the first (TCP.c:172, where the comment
  at 160 says that each message is processed); a lost REPLY leaves the client waiting;
* a verdict between the test and the sleep is lost in TCP as in UDP (TCP.c:107);
* before the first command every line of the server is dropped, malformed ones too
  (TCP.c:243, README.md:80);
* when the server closes the connection only the listener ends (TCP.c:178);
* an overlong text leaves the TCP client as it was typed (TCP.c:534, README.md:189).

`QueueBound` counts the end of the session in: an end adds at most three to the one
message pending (a line typed meanwhile and two BYEs). `ByeUnlessCancelled`
promises a BYE unless the send thread cancelled the command thread or, in runs with failing
calls, one of them ended the process first, and `StopEnds` promises an end unless the mutex was lost with the receive thread. `Announced` excludes the two silent ends, an overlong line and giving up.

**Fairness.** `FairSpec` has weak fairness of each thread's own steps, of the running
signal handler and of cancellation: the operating system schedules runnable threads,
and sleeps end. Nothing is assumed of the user
(`CmdRead`, `CmdEof`, `CmdReadError`), the arrival of a signal, the network and server
(`RcvReceive`, server steps), spurious wakeups or failing calls. `SndStep` as a whole is
fair; failing there needs `IoErrors`, which no liveness run sets. Where a liveness run closes windows they
are ones a thread passes through and cannot return to without the user, so that
weak fairness of the others is not weakened by them.

In TCP the fair steps are those of the main thread other than `MainConnect` and
`MainRead`, of the listener with `recv` (TCP delivers what was sent), and of a running
signal handler. Not the user, the server, signals, spurious wakeups, failing calls.

`EndsWithBye` and `TcpGate` are needed beside `ImplementsDialogue`: in the dialogue the
client may take leave, but need not, and it has no `AUTH_FLAG`. `AnswerReturns` excuses the two ways in which the
code loses an answer; that a REPLY in pieces is none of them (its second piece is an unknown
message, which ends the process) is part of what it shows.

**Deadlock** is not checked: the process ends, or waits for a user who types nothing more.

## 4. Theorems

All proofs are checked by TLAPS with no assumption but those on the constants. Of the
clients (`ConstantsAssumption`, `TcpConstants`): they have the types declared, `MaxRetrans`
fits in eight bits, and there are at least four slots. Of the formats: a name and what
frames it fit into the buffer, and a `size_t` is far above it (`SizesAssumption`: 20 + 4,
1400 and 2^64 in the code); the longest MSG line fits into its array (`LinesAssumption`:
8 + 1400 + 7 of 1500); `recvfrom` cuts a datagram to the buffer (`DatagramAssumption`); what
is typed holds no terminator (`CharsAssumption`). They hold for every set of lines and notices, every bound, every choice of closed windows, with or
without signals and failures. Only `OutboxImplemented` has hypotheses beside these, which it states.

* `UdpTypeProofs!TypeCorrect`: `Spec => []TypeOK`. `TypeOK` is not inductive: storing
  count - 1 needs the loaded count to be positive, and composing a message needs the line to be
  one that is queued. `LocalsReady` adds these facts; `pc["rcv"] = "load"` implies a
  positive count because the receive thread found a match below it and no other
  thread lowers it. `TypeInv == TypeOK /\ LocalsReady` is inductive, one lemma per thread
  with one step per action.
* `UdpAuthProofs!AuthGateHolds`: `Spec => []AuthGate`. The invariant is `GateInv`: either
  the server has accepted an AUTH, or the client is *quiet* (no JOIN or MSG being composed,
  queued or on the network, `AUTH_VER` down) and nothing that could verify it is under way
  (no positive REPLY in the network, in `response` or in the script). `QuietNext`: every
  step but `RcvVerify` keeps the quiet.
* `UdpAuthProofs!SessionPortHolds`: `Spec => []SessionPort`. The invariant `PortInv`: the
  port has been stored, or the client is quiet and in every script the port comes before
  the flag.
* `UdpEndProofs!ByeSaid`: `Spec => []ByeUnlessCancelled`. The invariant `ByeInv`: once
  `quit_requested` is set a BYE has been sent, or is on its way in a thread that is going to
  send it (`ByeComing`), or the command thread was cancelled; and the process has not exited
  while the command thread lives unless a call failed.
* `UdpEndProofs!EndAnnounced`: `Spec => []Announced`. `AnnounceInv` looks into the script:
  in every script `quit` stands behind a `send`, and what is composed to be sent is an ERR
  or a BYE; the other writers of `quit`, an overlong line and giving up, are those excused.
* `UdpQueueProofs!QueueIsBounded`: `Spec => []QueueBound`. The bound is a sum of four
  0/1 terms (`Bound`): the message given up, the one of the user, the two BYEs. `CountBounded`
  says that the count *and every copy of it that is still to be written back* are below
  it, as three threads store what they loaded some steps before. That the user's term is 0
  when he is asked for a line is `StageInv`: until the send thread gives up, a message is
  in one stage at a time (pending, confirmed, about to release the command thread), so that
  `have_sent` is raised once for each. `LimitInv` and `CmdByeInv` fix who may be composing a
  BYE, and when.
* `UdpQueueProofs!SlotsInBounds`: no thread fills a slot outside `pending_messages`,
  although the index was loaded before and nothing tests for a full array.
* `TcpProofs!TcpTypeCorrect`: `Spec => []TcpTypeOK`. That the listener never runs out of
  steps while it takes leave needs `ScriptEnds`: every farewell ends in `exit`, and none is
  left behind it.
* `TcpProofs!TcpGateHolds`: `Spec => []TcpGate`. The invariant `GateInv`: the server has
  accepted an AUTH, or the client is *quiet* (`AUTH_FLAG` is down, no OK is in the stream
  or being handled, and a handler runs for an `/auth` only). The step that needs care is
  `recv`: what the buffer held before may complete a REPLY cut short, but an OK comes of
  that only where an OK has been received.
* `TcpProofs!TcpEndsWithBye`: `Spec => []EndsWithBye`. The invariant `EndInv`: whoever is
  about to end (main on its way out, the handler, the listener with a shut socket) has
  said BYE or has lost the server, and a listener that has not still has its BYE before
  `shutdown` and `exit`. `SendEnds` shows that SIGPIPE is raised only behind another BYE or
  on a connection the server has closed.
* `TcpProofs!NothingLeftOver`: `Spec => []NoVerdictLeftOver`. `VerdictInv`: for
  each request there is one verdict, and it is in one place at a time (asked for, in the
  stream, in the listener's hands, noted in a flag), and in none unless the main thread
  waits for it. `WaitInv` says that the command the listener sees is the one waited
  for, so that the flag that goes up is the one that is reset.
* `TcpProofs!DialogueImplemented`: `Spec => ImplementsDialogue`, the refinement.
  `NextMaps` maps every step: a handler's send to `Ask` or `Say` (nothing is pending by
  `VerdictInv`, accepted by `GateInv`), the server's REPLY to `Answer`, ERR and BYE to
  `TakeLeave`, and all others to a stutter.
* `UdpOutboxProofs!OutboxImplemented`: `Spec /\ []Undisturbed => ImplementsOutbox`, the
  refinement at full granularity, with every window open. It does not hold of `Spec`
  alone, and `Undisturbed` names what is in the way, as three conditions on the schedule:
  no two threads are between loading and storing `last_message_id` at the same time
  (`claim_ids` shows what happens otherwise); no CONFIRM takes a message out of the queue
  between the moment the command thread has stored the raised count and the moment it
  fills the slot (`claim_ready`: a repeated CONFIRM of the previous message matches what is
  still in the slot, and the new one is lost); the ids do not wrap around. All other
  races of the queue, the flags and the network, with signals, failing calls and giving
  up, are therefore harmless to the promise. The invariant `OutboxInv` says: an id
  belongs to one message, and the one to be drawn next to none (`IdInv`, over all the places
  a message can be in); what was served is a beginning of what was queued, and of the rest
  only the next message can be on the network or in the send thread's hands (`WireInv`);
  a CONFIRM is of a message that was served, or of a BYE or an ERR (`ConfirmInv`); until
  the send thread gives up only the last message can be unserved, and it is then the head
  of the queue (`HeadInv`, on top of `StageInv`); an end once begun is not taken back
  (`ClosingInv`). `NextMaps` maps filling the slot to `Submit`, the server's first receipt
  to `Deliver`, the beginning of the end to `Close`, all else to a stutter.
* `FormatsProofs!StaleIsNeverShown`: `Spec => []StaleNeverShown`, of what is taken for a
  MSG. Either the name ends
  within the datagram, and then everything that is shown is within it (`OwnName`,
  `OwnText`), or the offset of the content is beyond the end, the subtraction wraps, and
  the length it gives is larger than any buffer (`Unterminated`). `OwnBytes` says so for
  every content of the buffer; `Stale` names those that the run tries.
* `FormatsProofs!UdpIsShownAsSent`, `FormatsProofs!TcpIsShownAsSent`: what is composed is
  taken apart again: over UDP for every name and text that fit into the sender's array
  (`Fits`), over TCP for every name shorter than a pointer and without a space and every text
  below the limit. The lemmas say where each part of
  a message lies (`Carries`, `IsReply`, `IsLine`), that reading up to a separator
  finds the field that is there (`FieldRead`, `FieldUnique`), and that this does not depend
  on what lies behind it (`FieldMoved`); `LineRead` does it for one `strtok` after the
  other.
* `FormatsProofs!FieldsAreApart`: `Spec => []FieldsApart`. `Found(p, c, done, f)` is what
  a server has found that has read `p`; reading one character more (`OneMoreFound`), a word
  (`WordFound`), a field (`FieldFound`) keeps it true of what is composed so far.
* `FormatsProofs!ArgumentsDoAgree`: `Spec => []ArgumentsAgree`. `ReadSoFar(n)` is the
  invariant of the loop over `argv`: behind `n` arguments the variables hold what the
  positions of the options among them say, or `-h` has been met. `ValueStep` is the fact
  it turns on: an argument is a value exactly if the one before it is an option that takes
  one and is not itself a value. What `atoi` computes is never used.

`SessionPort` and `AuthGate` are safety results of one writer and many readers; they show that the
code's only ordering device, program order in `process_server_response`, suffices on a
machine with sequentially consistent memory, which is also what the models assume.

What a function computes character by character is out of reach of the induction theorems
of the library, which take an operator. `SetInduction` takes their place: a set of naturals
that has 0, and with each number the next, has them all; it follows from the
well-foundedness of the naturals. That a recursive function has the values its definition
names is proved first, by the same means (`ReadingStep`, `SplittingStep`).

**Checked only, on the bounds above:** the liveness properties `StopEnds`, `RetriesEnd` and
`AnswerReturns`: liveness under fairness and `ENABLED` are out of the prover's reach. No
module uses `RECURSIVE`.

## 5. Plan

All the safety properties of the passing runs are theorems (`ImplementsOutbox` under the
conditions of `OutboxImplemented`). What could follow: that
`UdpClient` keeps `QueueBound` and `AuthGate` with a second signal; the sizes of the other
buffers that `sscanf`, `sprintf` and `strcpy` write to; and, when the code serialises the
append and `generate_message_id`, `OutboxImplemented` without its conditions.
