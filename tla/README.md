# A TLA+ development of frobd

frobd speaks a point-of-sale protocol: a peer sends frames (STX, message, ETX,
LRC), the program acknowledges each with an ACK or NAK byte and answers it. It
is one process with one thread, in which eight coroutines take turns on a
small runtime of the repository's own (`multitasking/`). An earlier program for
the same protocol, one loop over select(2), is still in the repository as
`frob.c`. This directory holds modules for the runtime, for the program on top
of it, for its messages and for the earlier program, TLC configurations
that check them on small instances, and proofs, checked by TLAPS, that the safety
properties hold for any number of tasks, any traffic, any message and any buffer.

## The system

| part | state | operations | talks to |
|---|---|---|---|
| context ring (`contextring.c`) | doubly linked ring of contexts, a cursor | `insert`, `shrink` | the scheduler's loop |
| runtime (`suspendables.c`) | `s_current`, per task `visited`, slots `s_iow[]`, event sets `s_iop`, `s_io_surrended` | `sus_read`, `sus_write`, `sus_lend`, `sus_borrow`, `sus_return`, `sus_disable`, `sus_ioloop`, `sus_exit`, `sus_runall` | every task, select(2) |
| event loop (`eventloop.c`) | the deadline | wait for ever, until a deadline, or not at all | `sus_ioloop` |
| `fsm_wireformat` | machine state, `buf`, `p`, `start`, `lrc` | read, scan, lend a frame | fd 7; lends slot 0 |
| `fsm_frontend_foreign` | static machine state `cs`, `p`, `pe` | borrow, scan, write ACK/NAK, lend on | slot 0, fd 6; lends slot 1 |
| `fsm_frontend_timer` | — | read a timer nothing arms | timerfd |
| `autoresponder` | the answer | borrow, parse, answer, write, return | slot 1; fd 1 or 7 |
| `sighandler`, `s6_notify`, `controller` | — | read signals; return at once | signalfd |
| serializer (`serialization.c`) | cursor, free space | write a message piece by piece, or bail | autoresponder |
| parsers (`fsm/header.rl`, `body.rl`, `attrs.rl` under `utils.c`'s `parse_message`) | cursor, machine state, where the last field began | header, body, attributes | autoresponder, `serialize`'s assert |
| file reading (`utils.c`'s `slurp`, `eread`) | a buffer being filled | read until the end of the file or of the buffer | autoresponder, `frob.c`'s start |
| frame parser (`frame.rl`) | machine state, over calls | find a frame among the bytes of a read | legacy engine, `serialize`'s assert |
| legacy select engine (`frob.c`) | channels with buffers, event sets, two timers, `ack`, `ping`, pings left | wait, write, read, then one handler per input | built by no rule of the Makefile |

What is hard here is not parallelism, of which there is none, but order. A
`sus_` call may suspend, and everything may have happened when it returns: a
buffer lent to one task is lent on to another; a descriptor is closed while a
task waits for it; the event sets are replaced in every round; a task ends and
the ring shrinks under the loop that walks it; the deadline closes every
descriptor under every task. What makes each part correct:

* ring: it stays a ring, and turns are fair whatever ends;
* runtime: a buffer has one user at a time, asserts cannot fail, an event is
  watched if and only if a task waits for it, a task that can go on does;
* framing: what is lent is the frame, however the stream is cut;
* messages: written whole or not at all, parsed back as they were written,
  nothing left unread, and no answer that the program's own asserts refuse;
* program: every good frame is acknowledged, then answered, with the answer
  to that frame; every bad one is refused; the program ends when told to.
* legacy engine: the same, and what is to be written is watched; a missing
  acknowledge or ping answer is noticed; no assert fails for a peer that keeps
  to the protocol.

## The modules

`RunQueue` – the scheduler's promise: the tasks as a sequence, the running one
at its head. `Switch` is a suspension, `Leave` an ending, `Insert` a
registration. `Leave` rotates twice because the code does: `shrink` moves the
cursor, then `sus_runall`'s `for` does.

`ContextRing` – `contextring.c` with its pointers: `next`, `prev` and the
cursor. Its property `RunQueueSpec` is the refinement of `RunQueue`, with the
chain of `next` links from the cursor as the queue. `since` is a history
variable that counts turns, for the properties about fairness of turns.

`Sus` – the runtime, `EXTENDS RunQueue`. A step is what one task does inside
one `sus_` call up to its suspension or its return; `wait[t]` says inside which
call a task is suspended. `sus_lend` is thus `Lend` (call to suspension),
`LendWaits` (once more around its loop) and `LendReturns`; `sus_borrow` is
`BorrowFails`, `BorrowWaits`, `BorrowTakes`; `sus_read` and `sus_write` are
`IoWaits`, `IoAgain` (EAGAIN) and `IoDone`; `sus_ioloop` is `IoLoopStarts`,
`IoLoopResumes`, and select's three outcomes. `held` records what a borrower
got. `Suspend` counts `visited` and aborts at its limit. A failed assert or an
exit is a value of `process`. `SusNext` lets the tasks make any calls their
side of the contract allows: one lender, one borrower, returned as borrowed.

`Handover` – the abstract slot: offered, taken, given back, regained, and
closed only in between. `Sus` implements it (`HandoverSpec`).

`Frobd` – the program: the tasks of `main.c`'s array over an instance of `Sus`,
each action the code of one task between two suspensions or one byte of its
Ragel machine; and the peer, select(2), signals and the clock. A byte is a
member of a small alphabet; "ok" and "bad" stand for an LRC that does and does
not match, and a message is the one byte named after its type. A read fills
`buf` from its start and leaves the machine where it was; `start` keeps its
index into the buffer. Pointers into `buf` are indices, so a loan is a pair of
an index and a (possibly negative) length. Entering `exec` in the error state
has two outcomes (`WireStuck`, `FrontStuck`): the generated switch has no case
for it. `Runtime` states that all of this is one behaviour of `Sus`.

`Message` – `serialize()` and `parse_message()` over one text. `Pieces` is the list
of what `serialize` appends for a type (a field and its delimiter are two pieces);
`Copies` is one `XCOPY`, `Bails` the way out when a piece does not fit, `Seals` the
asserts at the end, which hand the frame and its text to the parsers. A serializer is
called before `XCOPY` compares, so a step also says how far the buffer was written
(`reach`): `serialize_string` is told the room and ignores it, and `stpncpy` writes
the whole array, string and zeros, whatever follows (`Touched`). Each Ragel machine is a
list of fields with a character class, a delimiter and the number of them that
makes the state final (`extract_t` ... `extract_k`); `FieldExtracted` is one field's
entering and leaving actions, `BodyExtracted` is where the machine stops. `c` is
the pointer of `action C`: it moves on the first byte of a field, so an empty field is
copied from where an earlier one began. 0 is uninitialized: the copy then yields
anything or faults (`FieldFaults`, `AttributeFaults`). In `attrs.rl`, which is
`AttributeExtracted` and `AttributesEnd`, the index `i` is counted twice or three times for
each unit (`Counts`), because `COPY` mentions its argument that often.

`Slurp` – `xslurp` in front of the parser, `EXTENDS Message`: a file that is read in
portions into a buffer (`ReadsSome`), `eread`'s verdict, and then `parse_message` on
the text. It adds `file` and what is left of it, `rest`, to the variables of `Message`.

`Frame` – `frame.rl`: `Step` is the machine over classes of bytes, `Exec` a run of it
with the actions that set `start` and `end`, `frob_frame_process` the function. The
state `cs` is handed in and out because the C struct keeps it between calls.

`Engine` – `frob.c`, `EXTENDS Frame`. A round goes through `pc`: "select" (`WaitForIo`),
"io" (`PerformPendingIo`, channel by channel in the order of `enum channel`, `todo` being
those still to visit) and "process" (`process_signal`, `process_master`, `process_main`).
Each step is one handler; `process_main` is one step for each frame among the bytes
read, so that what a frame leaves behind meets the next one. `buf[c]` is what lies
before the channel's `cur`, and `wset` and `rset` are the sets as the code has them
between calls of select: `rset` keeps only what is stale, since `reset_fdsets` puts
the open inputs in again. A failed assert, `EXITF`, `ABORTF` or return of `main` is a value of
`process`. Two bytes stand for a message MAIN gets, its STX and its type. Acknowledges and
prompts are appended without a look at the room, as `commission_ack_on_main` and `MCOPY` do it:
`Capacity` is what `free_space` counts in an empty buffer, one byte less than there are,
and an append behind that last byte ends in "overrun", since what follows `buf` is
the next channel's `fd`. An answer goes through `serialize`, which refuses, returns 0 for
no room at all (taken for success), or leaves the array with its padding (`Skipped`, `AnswerFails`).
`console` says what `start_master_channel` finds: a terminal for each direction ("tty"), one descriptor for
both ("shared": `CO_MASTER` is visited first and reads the line, the second read, for
`CI_MASTER`, waits for the next one, `Blocked`), or none (-1, given to `FD_SET`). Two
kinds of peers are in one model: a polite one sends when everything before is
settled, acknowledges and answers pings before a timer runs out; a rude one does
anything at any time. `due`, `unpaid`, `astray`, `regular`, `jammed` are history: what the
peer has still to get, and whether that can still be said.
What a request calls for is computed from its bytes one by one (`CalledFor`), not by
`process_main`'s own way of cutting frames out of what it read.

`SusProofs`, `ContextRingProofs`, `FrobdProofs`, `MessageProofs`, `EngineProofs` – the
theorems about `Sus`, `ContextRing`, `Frobd`, `Slurp` with `Message`, and `Engine` with
`Frame`. `PeerProofs`, on top of `EngineProofs` – the engine with a polite peer;
`AnswerProofs`, on top of that – what the engine tells any peer.
`SequenceLemmas` – facts about numbers and sequences that four of them use. `MCSus`,
`MCContextRing`, `MCFrobd`, `MCMessage`, `MCEngine` – instances for TLC.

Definitions under a comment that starts with "Slip" are wrong variants of a
neighbour: with one of them in its place a property must fail, which is how
each property is known to say something about the code.

## What is checked

| run | instance | shows |
|---|---|---|
| `MCSus` | 3 tasks chained over 2 slots and the loop, any initial order, 2 buffers, lengths 0 and 1, 1 descriptor, visit limit 2 | `TypeOK`, `HandoverSafe`, `OpenWhileLent`, `ContractHolds`, `WatchedHaveWaiters`; each slot is a `Handover` |
| `MCContextRing` | 5 tasks | `RingIntact`, `BoundedBypass` (at most one extra turn per ending), refinement of `RunQueue` |
| `MCFrobdSession` | `Mixed` traffic in up to 2 sends, cut anywhere, a buffer of 4 bytes, UCSPI client, deadline, hang-up | `FrobdTypeOK`, `LoanChain`, `SelectOnlyOpen`, `BufferStable`, `AckBeforeReply`, `ReplyFits`; the program is a behaviour of `Sus` |
| `MCFrobdEnd` | 2 whole sends, 1 signal, 1 EAGAIN, deadline | `FrontendOutlivesWire`, `FirstFrameAnswered`, `DeadlineEndsProgram` |
| `MCMessage` | 19 types, each with up to two unusual members, 24 buffer sizes; every type followed by up to 3 arbitrary bytes; 4 files read into 6 buffers | `WholeOrRefused`, `SlackSuffices`, `RoundTrip`, `AnswersParse`, `AllConsumed`, `CursorInside`, `WholeFile` |
| `MCEngine` | `frob.c` with polite peers (3 sends; or 1 with a console, 2 SIGINTs and 3 lines) under each kind of timeout and of console, rude peers (2 sends; 1 with a signal and pings; 1 with a full pipe, a signal and each kind of console) | `PoliteSafe`, `OutputWatched`, `WaitsGuarded`, `AnswersExact`, `RequestsAnswered`, `HangUpEnds` |

Bounds. Two slots and three tasks are what the program has; a task that is
both a borrower and a lender (the frontend) occurs only with two slots. Five
tasks let two neighbours end and still leave a ring in which a bypass shows.
Two sends are enough for a frame to meet the state an earlier one left, and
one signal, one EAGAIN and one hang-up occur at every point of the session.
`MaxSends`, `MaxSignals` and `MaxAgain` bound the world, `VisitLimit` is 100 in
`Frobd` as in the code and 2 in `MCSus`, where only reaching it matters; `BufSize`
stands for 1024 and is 16, or 4 where reads are to be cut by it.
`FrontendOutlivesWire` is checked with whole frames only: a cut one lends a negative
length, which `MCFrobdSplitFrame` is about. In `MCMessage` the sizes 0 to 20 let the buffer end inside the
shorter messages at every piece, in the middle of a hex field included, and 40,
100, 250 let the long ones end somewhere and fit; `Width` is 5: of the three bytes that
follow every string none, some or all lie in its padding. `Patient` makes
the peer wait for the program between sends, `Split` lets reads end anywhere. The
files of `MCMessage` are shorter than, as long as, and longer than a buffer.

`Engine`'s `Capacity` is 6 for 4095: two acknowledges and two answers fill MAIN, and
two lines of three symbols fill the console, which never empties its own. Proofs need
it to be 4 at least. `Cuts`
are 3 and 4: a frame cut before its ETX and before its LRC, the two places that
matter to a machine whose pointers are of one call. Two sends of a rude peer let
a frame meet the machine, the timers and the flags an earlier one left. `budget`
bounds sends, full pipes, interrupts and typed lines; `pings_left` starts at 2 as in
the code. MAIN's input is taken to be large enough for what is read at once.

Fairness. The only fairness is `WF_vars(Program)`: the process is one thread and
takes its next step if it has one. Nothing is assumed of the peer, of signals
or of the clock. select(2) that waits for an event which never comes is a
program without a step. In `Engine` select's timeout is a step of the program
(`Pings`, `PingsExhausted`, `SelectPolls`), because the kernel does let it pass, but not
while a polite peer owes something; nothing makes the peer send or a timer expire.
`Sus`, `ContextRing` and `RunQueue` have no fairness.

## Where the code disagrees with the repository's own words

Six runs expect a violation; each property quotes a test or comment.

* `MCFrobdBadLrc` – a frame with a bad LRC gets no NAK (`message_ack.exp:6`): the
  wire machine lends ETX, the frontend's machine knows NAK and never uses ETX.
* `MCFrobdSplitFrame` – a good frame in two reads gets no ACK (`message_ack.exp:12`): `start`
  points into bytes that are overwritten.
* `MCFrobdOrder` – the process sleeps in select(2) with a task that could go on,
  because of the order of tasks (`sus.h:31`).
* `MCMessageTight` – a message that fits is written past its buffer (`ut.t:420`): the padding of
  its last strings. `SlackSuffices` says how much room more is always enough.
* `MCMessageT4` – the assert of `serialize` that takes a T4 apart (`serialization.c:235`) copies from
  a pointer nobody has set: the machine of T4 stops at the first US, and the first
  attribute it leaves is empty.
* `MCEngineConsole` – ^D on a console with one descriptor (`frob.c:377`) is read by the output channel,
  where "We can read only from input channels" (`frob.c:600`) fails.

`FirstFrameAnswered` names one more: after EAGAIN `sus_write` suspends without
asking for its descriptor, so the answer may wait as long as the peer does.
Without `budget.again < MaxAgain` the property fails. `BoundedBypass` says how far the
scheduler is from the round-robin of `sus.h:31`: an ending costs the successor a
turn.

Three more things the modules show and no run is about. The content of a frame leaves the
frontend's static machine in its error state; entered again it stays there or recovers,
as the build has it (`FrontStuck`), so a second good frame may get no ACK. Garbage in front of
a frame, in the same read, is lent along with it, because `buf` is lent from its start: the
frontend's machine fails on it, and `garbage.exp` would too. And the assert marked EDEADLK
(`suspendables.c:55`) needs no deadlock to fail: `sus_ioloop` suspends once in every round,
as the waiting tasks do, and nothing they do sets `visited` back. After a hundred rounds
in which another task did make progress the first of them to suspend fails it, and that is
`sus_ioloop` unless the ring has shrunk.

`Engine` shows more of `frob.c`, in the ways a rude peer's process ends, and its
properties say where they stop:

* Nothing is sent again: the timer of a missing acknowledge asks for a write of
  a buffer that the first write has emptied, and line 568 fails (`WritesNothing`),
  as would `retransmission.exp`. The timer is noticed (`WaitsGuarded`), not what it is for.
* A ping's timer may close MAIN in the round that read from it. The bit left in `rset`
  makes select fail (`SelectFails`), where line 428 wants to "exit gracefully".
* Whatever MAIN sends while an acknowledge or T2 is missing, a second ping for
  instance, starts a running timer again and fails line 421.
* `select` forgets an output that is full (`jammed`): `OutputWatched` is stated up to there.
* An empty frame, a frame cut before its LRC, and one cut earlier leave the machine
  in an error or final state from which only a restart helps, or fail line 510
  (`AnswersExact` is stated up to there: `regular`).
* A read that begins with NAK is taken like one that begins with ACK, and on the
  console as well as on MAIN (line 620 does not look at the channel).
* SIGALRMs of both timers in one read of the signalfd count once.
* `AckOverruns`: more frames in one read than MAIN's array has bytes for acknowledges take its
  cursor beyond what lines 200 and 206 assert, and then write over the next channel's `fd`;
  an answer's padding may do so earlier (`AnswerFails`).
* The console's own buffer is never emptied; once full it reads as closed.
* With a console that has one descriptor the process may wait for the user while MAIN has
  something to read and its peer may have hung up: `RequestsAnswered` and `HangUpEnds` except `Blocked`.
* A NAK typed there takes back what is on MAIN after it was found ready, and the
  write of nothing ends the process (`Doomed` in `AnswerProofs`).

`RoundTrip` leaves out T4, whose versions are written with US and read with FS;
S2, which is written without the `trx_id` it is read with; and empty fields, which
are read as a copy of an earlier field.

## What is proved

Thirty-one theorems, for every value of the constants that the named assumptions
allow. An assumption says no more than the code does:

| assumption | says | because |
|---|---|---|
| `TaskAssumption`, `SlotAssumption`, `DataAssumption`, `LimitAssumption` (`Sus`) | finitely many tasks; lender and borrower of a slot are two tasks and not the loop; the null pointer is no buffer | `main.c`'s array and slots |
| `OrderAssumption` (`ContextRing`) | the array has a task, and none twice | `main.c`'s array |
| `PointerAssumption` (`ContextRing`, `Frobd`) | the null pointer is no node, and no place in the buffer; the two slots differ | C |
| `TrafficAssumption`, `OptionAssumption` (`Frobd`) | what the peer sends are sequences of bytes; sizes and bounds are numbers, flags are Booleans | read(2), the options of the model |
| `WidthAssumption`, `MessagesAssumption` (`Message`), `BuffersAssumption`, `FilesAssumption` (`Slurp`) | sizes are numbers; members of a message, texts and files are sequences of bytes, and a message has the members of its type | their C types |
| `PrintedAssumption` (`Message`) | a member is something its serializer prints: a string that fits its array, the digits of "%u", a flag, the code or number of an enum, bytes in hex | `serialization.c` |
| `CapacityAssumption`, `CutsAssumption`, `RequestsAssumption`, `SettingsAssumption` (`Engine`) | `free_space` counts at least four symbols in an empty buffer (4095 bytes); requests are sequences of symbols, none of them empty; a setting has one of the two manners, three timeouts and three consoles | `frob.h`, the world of the model |
| `ReplyAssumption` (`Engine`) | the reply recorded with a request is what `CalledFor` computes from its bytes, and no request ends inside a frame | the model's own bookkeeping: without it `due` would be compared with something arbitrary; a frame that a read cuts is another matter (`Cuts`) |
| `PoliteAssumption` (`Engine`) | what a polite peer sends at a time is noise or one frame, spoilt or with a message there is code for | it is part of what makes that peer polite; on an S2, K0 or B3 `frob.c` ends itself (`Unhandled`) |

TLC evaluates all of them on the runs' instances.

### The runtime (`SusProofs`)

* `TypeCorrect` : `SusSpec => []TypeOK`. By three parts (turns, slots, events) and
  one lemma each for `Suspend`, `Proceed`/`GiveUp`, `Exit` and `Die`.
* `HandoverCorrect` : `[]HandoverSafe`, inductive together with `TypeOK`. The argument:
  a task outside `sus_lend` has no buffer out (`NothingLent`), so whatever it does
  leaves every slot it is not a party to as it was (`Undisturbed`); the lender
  inside `sus_lend` makes no step while its buffer is out but `LendWaits`.
* `ContractCorrect` : `[]ContractHolds`. Not inductive alone: each assert is a
  consequence of `HandoverSafe` in the state before the call.
* `WatchedCorrect` : `[]WatchedHaveWaiters`, inductive with `TypeOK`; it needs that
  no event is both asked for and reported in a round, which is its first conjunct.
* `LoansNotRefused` : `[]OpenWhileLent`.
* `ImplementsHandover` : `SusSpec => HandoverSpec`, the refinement. Its invariant is
  `RefInv`: `HandoverSafe` gives each step its phase, and `OpenWhileLent` is needed
  because `sus_return` clears `disabled` along with the rest of the struct.

### The ring (`ContextRingProofs`)

`RingTypes`, `RingStaysIntact`, `RingImplementsQueue` (the refinement of `RunQueue`) and
`BypassIsBounded`, for an array of any length. The invariant is
`RingInv == TypeOK /\ Closed /\ Placed /\ NoTurnYet /\ Fair(Chain)`.

* `Closed` says of the pointers what the program relies on: there is a sequence of
  different nodes, with the cursor first, whose neighbours are linked both ways and
  whose last is linked to its first (`Linked`). `RingIntact` alone is not inductive,
  because it says of no node where it is. A turn (`Stepping`), an insertion (`Inserting`)
  and a removal (`Shrinking`) are lemmas about the links of any such sequence; they
  cover the rings of one and two nodes, where neighbours coincide.
* `ChainIs` is the bridge: walking `next` from the cursor reads that sequence back.
* `Placed` bounds the ring by what was inserted, which is what makes that walk (of at
  most as many hops as the array is long) long enough.
* `Fair` is `BoundedBypass` with the place in the ring taken into account. Without it
  the bound is not inductive: a task may be ahead by the whole allowance only if it
  will not be the next to have a turn, and an ending is what shifts two places.
* `NoTurnYet` carries `Fair` over the insertions.

### The program (`FrobdProofs`)

`ProgramUsesRuntime` shows that the eight tasks of `main.c`, whatever the peer sends and
however a read cuts it, are a behaviour of `Sus` (`Runtime`): each action calls the
runtime as its contract asks, the stutters are what no `sus_` call is part of. So the
theorems of `SusProofs` are theorems about the program; `ProgramKeepsContract` is the
one used most. On top of it `TypesCorrect`, `LoansChained`, `BufferIsStable`,
`SelectsOnlyOpen`, `RepliesFit` and `AcknowledgedFirst`, for every buffer size, visit limit,
timeout and descriptor of the peer. The inductive invariant `Inv` has these parts:

* `Sound`: the runtime's invariants, taken over from `SusProofs` and not proved again:
  only the steps' being steps of `Sus` is shown here;
* `Place`: where each task can be, and in which call it is suspended there; without it
  an action's guard on `pc` says nothing about the slots;
* `WireData`, `FrontData`, `RespData`: the machines' pointers against the buffer and the
  loan, by place. `FrontData` bounds `p` and `pe` by what was borrowed, from which
  `LoanChain` follows for the lending on;
* `AckedData`: what `fsm_frontend_foreign` has written last when it lends a frame on, which
  `AckBeforeReply` needs one step earlier than it says;
* `Files`: what is open, by whether the deadline has passed and `fsm_wireformat` has closed
  its descriptor, and that a signal that is reported is there to be read.

`FrontendEndsLast` is the only theorem with a hypothesis beyond the constants' types,
`UncutFrames`: the peer sends whole frames, reads do not end in the middle of one
(`Split` is FALSE), and what may be waiting fits the buffer. The property is false
otherwise: a cut frame lends a negative length, which ends the
frontend (see above). `MCFrobdEnd` is an instance that meets the hypothesis. Its invariant
adds `Uncut` (what is on its way), `Aligned` (how the machine stands in what it has read),
`Positive` (no loan has a negative length) and `Ending`.

### Messages (`MessageProofs`)

`AllOrNothing`, `PaddingIsBounded`, `CursorStaysInside`, `AcceptedIsRead` and `FileIsWhole`, of `SlurpSpec`, which
has serializing, parsing and reading of files, for every message, text, file and
buffer size. `MessageInv` is `Typed` and

* `Origins`: which of a message, a file and a text is worked on in each place;
* `Reading`: what was read and the `rest` make the file, and a file that was accepted is
  shorter than its buffer;
* `Serializing`: the text so far and the pieces left make the whole encoding (`Left`,
  `Copied`), and `refused` means that the encoding is longer than the buffer. `WholeOrRefused`
  speaks of the end only and does not say why the middle leads there;
* `Reached`, which carries `SlackSuffices`: the last string of the pieces left still has its
  delimiter, ETX and LRC behind it, so that its array ends at most `Width - 3` behind them;
* `CursorInside` and `AllConsumed` themselves.

### The round trip (`MessageProofs`, second half)

`SerializedSurvives` (`[]RoundTrip`) and `AnswersAreParsed` (`[]AnswersParse`), for every message that
the printers can produce and every buffer size. The layout of a message is in the
code twice, in `serialization.c` and in `body.rl`; `Match` compares the two: the same names
and delimiters, and for each field a kind and a class that go together (`Pairs`). One
lemma for each pair says that what the printer of that kind writes is read to its end
by the machine of that class. The two properties speak of the end of a walk over the
fields; the invariant `RoundTripInv` says why the walk leads there:

* `AtHeader`: parsing begins at the token;
* `AtField`: when the machine begins field `k`, its cursor is where `serialize` began that field
  (`Place(m, k)`), and what it has copied so far is what the message has so far;
* `AtUnits`: where the machine has stopped. That is the end of the text, but for a T4, whose
  versions the machine for additional attributes takes, and for a T2 with an empty
  version. These cases are why `RoundTrip` excludes what it does.

The class of an optional field reads an empty one without noticing, which is where
`got` holds a copy of an earlier field: `Survives` asks for fields that are not empty.

### The legacy engine (`EngineProofs`, `PeerProofs`, `AnswerProofs`)

`EngineTypes` (with the bounds of the buffers), `OutputsAreWatched` and `WaitsAreBounded`, for
any peer, polite or rude, any console, cuts, capacity and budget. `EngineInv` is `Base`, `Unopened`
and `Bounds`. `Base` is type correctness (`Outer`, `Inner`), `WaitsGuarded` and

* `Wiring`: the signalfd stays open, and a connection has both its descriptors or none;
* `Stage`: `perform_pending_io` has yet to visit exactly the outputs in the write set; the
  handlers begin with an empty one, and `process_signal`, the only one to close
  a descriptor, comes first. That is why no closed descriptor reaches select's write set;
* `Delivered`: what was read of the signalfd is handled in the same round, so that the
  signals of one read never meet those of another in the buffer, and a timer's signal is
  on the way in every step between its expiry and the resend;
* `Watched`: `OutputWatched` for every step of a round instead of for select alone.

`Unopened` says that there is no console as long as SIGINT is blocked. `Bounds` is the
arithmetic of the buffers: MAIN may hold one byte more than `free_space` counts, an
acknowledge, since an answer is appended only if it fits and every frame's
acknowledge is one byte after which the next one finds it so (`AckOverruns`).

`PoliteIsSafe` (`[]PoliteSafe`), for any requests, settings, capacity, user and time of SIGINT, with
a console that has a descriptor for each direction (`Separate`; any other one until SIGINT
is read). The process may return, be killed by SIGINT, or end in the fault of a T4. `PoliteSafe` is about `process` alone and says nothing of when a timer runs or
what a buffer holds, so `PeerInv` says, on top of `EngineInv`, that a polite peer's process
has ended well or is `Orderly`:

* `Calm`: no signal of a timer, no full output, the frame machine at its start, and always
  a ping left: a peer that answers gives each ping back;
* `Watching`: what select is to watch is open, and what is watched has something to write
  (the asserts of `perform_pending_write`);
* `Connected`: the connection is closed only when nothing is on its way, and what is read of
  MAIN is processed in the same round;
* `Phase`: the five places of an exchange (`Listening`, `Requested`, `Answering`, `AwaitsAck`,
  `AwaitsPong`). A timer runs only while its answer is owed, and the program writes only
  in `Answering`, where none runs: that is why `alarm_set` never finds its timer running.

`Prompted` says that the console has at most the prompt of the last line to write.
`Listening` says of the bytes read that they hold at most one frame, with nothing but
noise behind it (`OneFrame`): once it is taken, no second follows in the same round.

`AnswersAreExact` (`[]AnswersExact`), for any peer, requests, settings and capacity. `CalledFor`
says what bytes call for by hearing them one by one with `Step`; `process_main` takes them frame
by frame, with the pointers `frame.rl` sets, a frame's message being what is between
two of them, and starts the machine anew for each. `AnswersExact` compares the two but says
nothing of what is in between. `AnswersInv`, inductive on top of `EngineInv`, does:

* `Sums`: what was written and not yet sent, followed by what `CalledFor` makes of the bytes read
  and not yet processed and of those still on their way (`Unread`), is what is due, in that
  order; S1 and S2 in MAIN's output and in the payment channel are what is `unpaid`.
  Each step moves something from one term to the next: a send adds to both sides, a
  read leaves `Unread` as it is, a frame goes from `Unread` to the outputs, a write from the outputs
  to the peer. Once the machine will run into its error state, there may be more due
  than is ever said (`Balance`);
* `Uncut`: the machine is at its start and there are whole requests in what was read and in each
  request on its way, so that reads and frames may take them apart anywhere in between;
* `Handed`: what was read is handed to `process_main` in the same round, so that there is
  nothing unread when select is entered; with `Watched` nothing is unwritten either;
* `Silent`: neither a prompt nor what is in the payment channel is an answer;
* `Remains`: after the connection is closed there is still the payment channel;
* `Typing`: what the user typed, read by a shared console's output, is no answer;
* `Doomed`, in place of the rest: a NAK typed there has taken MAIN's output back while it is
  being watched. The answers are lost, and the very next step ends the process.

`FirstCalled` and `FirstOfMore` are the bridge between the two ways to read bytes: what
`CalledFor` hears of some bytes is the call of the first frame that
`frob_frame_process` finds in them, followed by what it hears of the bytes behind that
frame. `CalledConcat` is the same for requests after one another, `FlattenConcat` and
`KeepConcat` for the sequences they are made of.

### How the proofs are laid out

For each component: lemmas about its operators, one lemma `...Keeps` for each
action (or group of actions that disturb the same parts), one that puts
them together over `Next`, and the theorems as consequences. In `FrobdProofs` an action
is first reduced to what it touches (`...Touches`), because most parts of `Inv` belong to one task.

Functions defined by recursion (the walk `Hop`, `FlattenSeq`, `Frame`'s run, `CalledFor`) are reasoned about without
induction: the least number at which a statement about them would be wrong
(`LeastNat`, from the well-foundedness of the naturals) is shown not to exist.
`JoinsExist` builds `FlattenSeq` prefix by prefix that way, `FrameTyped` the machine's run.

### Only model-checked

* Liveness: `FirstFrameAnswered`, `DeadlineEndsProgram`, `RequestsAnswered`, `HangUpEnds`. These need
  fairness and ENABLED, which are out of the prover's reach.
* The violations, of course.

## What is left out

* A write is whole or fails; the program ignores short writes.
* A read fails only after the surrender; a write fails only on a closed
  descriptor. The peer that hangs up goes on reading (no SIGPIPE, no EPIPE).
* In `Frobd`, contents of messages: parsing is the dispatch by type, serializing
  is taken to succeed (for a T4 it may fault, see `Message`), the parameter file is one that loads. An
  LRC above 127 compared as a signed char is not seen.
* In `Message`, the width of integers (a member is its digits), arrays of different
  sizes (`Width` is that of all), and what lies beyond an array that is overrun: the
  index of `attrs.rl` may pass `attr[18]` by two, which lie in the padding of the struct.
* Signals before `sighandler` has blocked them.
* Asserts are enabled, as the Makefile builds it (`-DNDEBUG` is commented out).
* Allocation of stacks, logging, the resource limit.
* In `Engine`: the channels that are never opened (STORAGE, UI, DEVICE and with it
  `process_device`), SIGPWR, the UCSPI log, a terminal that is MAIN's input as well as the console's, the reuse of a closed descriptor's number, a
  short or failing write (the process exits), and the bytes of MAIN's input beyond 4096.
* Not modelled at all: the conversions of types and digits in `utils.c`, the dialogue
  machines (`protocol.rl`, `first_level.rl`, `b1-b4.rl`, drawn as graphs only),
  `crypto_tpm12.c`, the output of `log.c`.

## Plan

Done: `RunQueue`, `Handover`, `Sus`, `ContextRing`, `Frobd`, `Message`, `Slurp`, `Frame`, `Engine`,
and the proofs of all their safety properties. Left: short writes in `Frobd`, and bytes with their
real LRC, for the signed comparison.
