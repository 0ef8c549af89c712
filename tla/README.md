# A TLA+ model of pYsabelle

pYsabelle is an asyncio client of the Isabelle server: it starts or finds a
server process, speaks the server's line protocol over one TCP connection,
multiplexes any number of concurrent commands on it, and offers a session façade
on top. This directory models the parts of it in which orders of events matter,
model-checks them with TLC and proves their safety properties with TLAPS.

Paths below are relative to `src/src/pysabelle/`.

## 1. Inventory

| component | source | state it keeps | operations | hard behaviour |
|---|---|---|---|---|
| Task dispatcher | `raw/dispatcher.py` | `_sync_reply`, `_cmd_lock`, `_pending`, `_loop_task` | `run_sync`, `run_async`, `start`, `stop`, reader loop | callers, reader, callbacks, `stop()` and server interleave at every `await`; timeouts; cancellation; a connection that goes down for all callers at once |
| Transport | `raw/transport.py` | stream reader and writer | `open`, `send`, `receive`, `close` | back pressure; a message read in two halves; end of stream; sizes at their limit |
| Raw protocol | `raw/protocol.py` | none (immutable `RawReply`) | `parse`, `json`, the `is_…` tests | unreadable messages |
| Raw commands | `raw/commands.py` | none | one method per server command | none of its own: each is one `run_sync` or `run_async` |
| Wire types | `raw/types.py` | none (dataclasses) | `from_dict`, `to_dict`, `ok`, `errors` | absent, empty and false fields; nested objects of which one key is missing |
| Exceptions | `raw/`, `server/`, `session/exceptions.py` | none | constructors | none |
| Server process manager | `server/server_process.py` | `_info`, `_owns_process` | `start`, `stop`, `is_running` | several managers, and people, start and stop servers of one name; check-then-act on a listing; startup timeout racing the ready line |
| Client | `client/client.py` | transport, dispatcher, optional server manager | `start`, `connect`, `stop_server`, context manager | failure between two acquisitions; teardown of several parts of which one fails |
| Session | `session/session.py` | `_closed` | `start`, `connect`, commands, `close` | a command under way while another task closes; failure of a step of `close` |
| Callbacks | `session/callbacks.py` | none | routing of NOTE payloads | payloads have no tag and are told apart by their keys |
| Façade, docs, examples | `__init__.py` files, `docs/`, `tests/` | none | none | the examples need an Isabelle installation |

How they interact. A session owns a client; a client owns a transport, a
dispatcher on it, and perhaps a server manager. Commands call the dispatcher,
which writes to the transport under `_cmd_lock`; a single reader task takes
messages from the transport and settles futures that callers await; NOTE
callbacks are awaited *by the reader* and may call commands again. Server
managers share nothing but the operating system: they see and order servers by
name, through the `isabelle server` command.

What makes each part correct:

* dispatcher: every caller gets the answer to its own command or an exception;
  nobody waits for a future that nothing can settle; a future is settled once;
  a NOTE is not delivered for a task that has ended; a lost connection and a
  `stop()` release those who wait;
* server manager: no server is left that nobody will stop, no server of
  somebody else is stopped, and every call ends;
* transport: the stream stays aligned with message boundaries;
* protocol, commands, wire types and callbacks: a message says what the server
  meant, an argument what the caller meant, and a payload reaches the callback it
  is for;
* client and session: what was acquired is released once, whatever step fails;
  no command is sent on a closed session.

## 2. Modules

| module | role |
|---|---|
| `Dispatcher` | `TaskDispatcher` with its transport and the server's end of the connection |
| `DispatcherProofs` | theorems about `Dispatcher`: its inductive invariant and the properties that follow |
| `DispatcherProgressProofs` | theorems about `Dispatcher`: what is still to come for those who wait |
| `IndependentCalls` | abstract: what `run_sync` and `run_async` promise, one call at a time |
| `IndependentCallsProofs` | `Dispatcher` implements `IndependentCalls` |
| `ServerProcess` | `IsabelleServerProcess`, and the choice of a server by `IsabelleClient` |
| `ServerProcessProofs` | theorems about `ServerProcess` |
| `Session` | `IsabelleSession`, with the opening of `IsabelleClient`, on top of `Dispatcher` |
| `MCSession` | `Session` for TLC: one `load_and_purge` and its purge |
| `SessionProofs` | theorems about `Session` |
| `SessionLifecycle` | abstract: in which order a session takes, uses and gives back what it holds |
| `SessionLifecycleProofs` | `Session` implements `SessionLifecycle` and, through its dispatcher, `IndependentCalls` |
| `Transport` | the receiving half of `Transport`, `RawReply.parse`, and the stream they read |
| `MessageStream` | abstract: what `Transport.receive()` promises, a queue of messages |
| `TransportProofs` | theorems about `Transport`; it implements `MessageStream` |
| `Payloads` | `from_dict` and `to_dict` of the wire types, and the NOTE handlers, as operators |
| `Conversation` | `IsabelleClient` and `RawCommands` on top of `Transport` and `Payloads` |
| `MCConversation` | `Conversation` for TLC: messages, and what they say |
| `ConversationProofs` | theorems about `Conversation` |

Two towers stand on the dispatcher's code. `Dispatcher` and `Session` have any number
of callers and a wire of whole messages: they are about who gets what. `Transport`,
`Payloads` and `Conversation` have one caller, who finds the command lock free, and a
wire of units that arrive in pieces: they are about what is said. What one leaves out
the other has.

### Dispatcher

A caller is an asyncio task, and a step of it is the code between two of its
suspension points, because nothing else runs in between on one event loop.
`pc[c]` names the suspension point (`lock`: queued for `_cmd_lock`; `drain`:
in `Transport.send`; `sync`: awaiting the immediate reply; `reglock`: queued
for the lock a second time, to register; `term`: awaiting the shielded terminal
future) or how the call ended.

* `lockq` is the `asyncio.Lock`: its holder followed by its waiters, in FIFO
  order. A released lock is handed to the first waiter, who runs later; a
  newcomer takes the lock only when nobody is queued (`Enter`, `Granted`,
  `Accepted`, `Registers`).
* `syncReply` is `_sync_reply`, `pending` is `_pending`. A call arms and
  registers at most one future each, so futures are named by their call
  (`syncFut`, `term`).
* `reader` is `_loop_task`, `noting` the callback it awaits, `nested` the
  command that callback has issued. `DispatchSync`, `DispatchNote`,
  `DispatchTerminal` are the branches of `_dispatch`; `ReaderCrashes` is
  `_reader_loop`'s `except Exception` with `_fail_all`; `StopBegins`,
  `ReaderCancelled`, `StopEnds` are the steps of `_stop` with `_cancel_all`.
* Messages are records of a kind, a task and, for the properties only, the
  command they answer: `command` is never read by an action.
* A call may be made before `start()`; it waits for a reader (`Call`). A `stop()` with no
  reader to wait for goes straight to `_cancel_all`. One `stop()` is modelled at a time: a
  second one would wait for the same reader and find nothing left to settle. A callback
  that calls `stop()` would wait for the reader that waits for it; that callback is left out.
* The server (`Serve`, `Notes`, `Finishes`) answers commands in order, each
  accepted task with NOTEs and at most one end. `Close` loses any suffix of what was under way;
  `Garble` and a reader cancelled in the middle of a message leave something
  on the stream that does not parse.

`Faults` selects the disturbances: cancellation of callers, `stop()`, loss of
the connection, unreadable messages, back pressure, and callbacks that issue
commands.

`IndependentCalls` says the same to a caller without lock, registry, reader or
stream: a call is issued, given at most one immediate and one terminal reply, and
ends once, as these, a timeout, a cancellation or a lost connection say. The mapping
(`Independent` in `Dispatcher`) reads `stage` off `pc`, what a call was given off its
two futures, and `lost` off the abandoned calls: immediate replies carry no id, so
the promise that a reply answers the call's own command only stands while nobody has
left before the reply. `Answers` allows `lost` to become false again, because the late
reply to an abandoned command can put the matching right.

### ServerProcess

Managers of one server name and the server processes of that name. A step is
the code from one `isabelle server` command to the next: `pc[m]` says which
command comes next, so whatever a listing said may be out of date when it is
acted upon.

* `info` and `owns` are `_info` and `_owns_process`; `child` and `queue` are
  the locals `proc` and `result_q` of a `start()` that waits (`Reads` is the
  step of its thread).
* `state[p]` is the life of a process. A child that comes up while the name is
  taken prints the line of the server there is, and ends (`Serves`); both lines
  match `SERVER_READY_RE`, and `line[p]` is the server it names.
* `spawner`, `stopper`, `replacer`, `refused` record who did what, for the
  properties; no action reads them.
* The kinds of manager follow the constructor: `Plain`, `Attaching`
  (`assume_existing`), `Forcing` (`force_start`), and `Reusing`, the one that
  `IsabelleClient.start(reuse_existing=True)` makes by looking first (`Resolve`).
  A `Reusing` manager starts once, and can be told to stop only when its
  `start()` has returned, because no client exists before.
* `Faults`: a listing that fails, a `Popen` that raises, a child that exits, a server
  that crashes, an order to stop that is refused, a server started by hand. The commands
  `isabelle server -l` and `-x` are run without a timeout; that they return is assumed.

### Session

`Session` extends `Dispatcher`: its specification composes the methods of a
session with the dispatcher they call, so that a `close()` meets commands at
any of their suspension points.

* A method is named by the first command it sends, which is a call of
  `Dispatcher`: `Opening` is the `session_start` of `_open_session`, `Uses` are
  `session_build` and `use_theories`, `Loads` the uses that belong to a
  `load_and_purge`, with the purge that follows (`PurgeOf`), `Closers` the
  `session_stop` of each call of `close()`. `method[c]` says where the method is:
  at its command, at its purge, in `dispatcher.stop()`, in `transport.close()`,
  or over.
* `_guard` and the sending of the command (or the queueing for the lock) are
  one step, because there is no suspension between them (`Invoke`, `Purging`,
  `CloseCalled`). For the same reason what a method does after its command is
  taken before anything else of the event loop: `Resuming` are the methods
  whose command has ended, and all other steps of the loop wait until there are
  none (`Calm`). Only the server goes on meanwhile.
* `client` is the progress of opening, `server` whether a server manager owns a
  server that `stop()` will end, `transport` the socket, `closed` is `_closed`.
  Each acquisition may fail and leaves what was acquired before it
  (`ServerStarts`, `Connects`, `Handshakes`, `Opened`).
* A method is called by a task of its own or by a NOTE callback (`Issues`).
  `close()` included: the callback is awaited by the reader, so such a
  `close()` waits for the reader that waits for it.
* A result that does not decode, and the `TheoryLoadError` of `use_theories`,
  are choices (`Answered`, `StopFailed`); `StopFailed` on a result needs the
  result of another command, which cancellation makes possible (finding 2).

`Session` assumes `Timed = {}`: the `timeout` parameters of the methods are
accepted and never passed on.

`SessionLifecycle` is the promise without methods, lock or futures: server, socket and
reader are taken one upon the other before anything is sent; the session stands from the
result of `session_start` to the return of `session_stop`; each command is sent once, while
it stands and before any `session_stop`; and then socket and server go, the socket never
before the reader. The mapping (`Lifecycle` in `Session`) reads `held` off `server`,
`transport`, `reader` and the progress of opening and closing, and `sent` off the
futures that have been armed. A reader may end with its connection at any time, and an
opening that fails, or a `close()` that raises, leaves what it holds, so the promise
allows both; that these are the only leaks is `OnlyRaisingLeaks` and the note on hazard
`session/session.py:207`.

### Transport

The stream is a sequence of units: words, whole numbers (runs of digits) and line
feeds; each counts for one byte, so lengths are numbers of units. `stream` is all that
the server has written, `arrived` how much of it the `StreamReader` has, `at` how much
is consumed. `reading` is where `_read_one` is suspended: in `readline` or in
`readexactly`; each action is the code from there to the next suspension or to the end
of `receive()`.

* The server's framing is external: a message of up to `ShortLimit` units without a line
  feed is a line (`IsShort`), another one follows its length, and that length may count a line
  feed after the text (`Frames`), as the docstring of `_read_one` says.
* Each framing has a limit of its own: lines that of `readline()`, bodies that of
  `_read_one` (`Accepts`). `OverLimit` tells the abstract queue which messages may be
  refused, and says the same of the two framings; nothing else may be.
* `ReadsHeader`, `RefusesBody`, `ReadsLine`, `ReadsBody` are the branches of
  `_read_one`; `OverrunsLine` is the limit of `readline()`, which drops the line if it
  has all of it and otherwise its buffer; `ReachesEnd` the end of the stream, at which
  `readline()` returns a line without its line feed; `MeetsReset` a broken
  connection; `ReceiveCancelled` the cancelled reader, which forgets a header.
* `sent`, `ends`, `taken` and `intact` are for the properties; no step of
  the client reads them. `intact` turns false when a message is refused half-way, cut or lost.

`MessageStream` is the promise: a queue of messages of which `receive()` takes the
first one whole, until a message over the limits, the loss of the connection or a
cancellation. In `Transport`, `Messages` maps the queue to what was sent and not
taken.

### Payloads

A JSON object is a function from its keys. A class is the predicate "its `from_dict`
returns": a missing key of those it demands is the `KeyError` the code raises, at
any depth (`NodeResultEntry` needs a `NodeStatus`, and so on). A `to_dict` maps a record
with the fields of the dataclass to the object that is sent. `BuildNote` and
`UseTheoriesNote` are the handlers of `session/callbacks.py`: what, if anything, is given
to which callback; a `KeyError` in a handler is caught there. The last part states
the same payloads as the docstrings of `raw/types.py` describe them, for the properties
only.

### Conversation

`Conversation` extends `Transport`: a client from its password to the end of its
`async with`, a program that issues commands one after the other (`Calls`, `Concludes`,
`Registers`, `Ends` are `run_sync` and `run_async` between their suspensions, with the
argument and the decoding of `RawCommands`), the reader loop (`Awaits`, `Continues`,
`Dispatches`, `Crashes`), and the server.

* `ShakesHands` is the answer to the password: a reply that is not OK closes the
  socket, an exception of `receive()` leaves it open (`client = "failed"`).
* `sync` and `armed` are the future of the immediate reply and whether `_sync_reply`
  still is it; `pending` and `term` the one entry of `_pending` and its future. A
  program may call before it enters its `async with`: `connect()` returns a client
  without a reader, and its commands hang until there is one.
* `Dispatches` takes what `receive()` returns and routes it in the same step: nothing is
  awaited in between, because callbacks are atomic here (`Dispatcher` has the ones that
  take their time).
* `IsImmediate` is the test that tells a reply to a command from what its task sends.
  That the server keeps to it, one OK or ERROR for each command and none from a task,
  is `KindsAssumption`.
* `Readable`: the reader loop parses the payload of every reply for its log, so one
  that is not JSON ends the loop as an exception of `receive()` does.
* `Leaves` is the end of the `async with`, or the cancellation of the program inside
  it, at any suspension; `LoopCancelled`, `Stops`, `ClosesSocket`, `StopsServer` are the
  steps of `__aexit__`.
* On a connection that is gone a write may raise or go unnoticed (`Calls`).

## 3. Runs

| run | what it asks | what it shows |
|---|---|---|
| `dispatcher_failures` | two calls, all disturbances, a second reader, all kinds of end | replies match while nobody left before one; registry entries are open, futures settle once, NOTEs precede the end; whoever holds the lock can go on or is owed its reply, and the end of a registered task is not dropped; each call looks as if it were alone (`IndependentCalls`) |
| `dispatcher_liveness` | two synchronous calls and one with a timeout, cancellation, `stop()`, a lost connection, under fairness | writes and replies never overlap in the queue for the lock; calls end on a sound connection; loss and `stop()` release those who are registered |
| `dispatcher_dropped_end` | finding | see below |
| `dispatcher_shifted_replies` | finding | see below |
| `dispatcher_stop` | finding | see below |
| `dispatcher_callback` | finding | see below |
| `server_managers` | a plain and a reusing manager, three processes, all faults | no orphans, others are spared, calls end |
| `session_close` | a `load_and_purge` with a callback and two `close()`, cancellation, a lost connection | nothing is sent after `session_stop`, a task's end goes to the call that started it, `stop()` strands nobody, a complete `close()` leaves nothing, methods under way end, and what the session holds is a stack (`SessionLifecycle`) |
| `conversation` | one client, two commands of six methods, a stream in pieces, both framings, limits, end and reset of the connection | the stream is a queue of messages (`MessageStream`), no message waits for the next, no fragment is read and none makes or ends a task, the one reply outstanding is that of the command that awaits it, arguments, NOTEs and results arrive as what they are, commands and the exit end, and nothing is left |
| `session_closed_twice` | finding | see below |
| `server_stops_another` | finding | see below |
| `server_reuse_replaces` | finding | see below |

Bounds, and why they are enough. Two calls show every conflict over the lock
and the armed future; the third in `dispatcher_liveness` makes a queue of two, so
that hand-over, cancellation inside the queue and re-queueing for registration
meet. `MaxNotes` bounds NOTEs and unreadable messages together; two are one
before and one after any other event. `MaxStarts = 2` gives the reader that
follows a crash or a stop. Three server processes are one's own, another's, and
the one that comes after; `MaxServers` also keeps one process in reserve for
each `start()` under way, so the bound never blocks a `Popen`. In
`session_close` one method that sends two commands, two closers and one NOTE are
enough for a close that is queued behind, between and after the two commands,
and for one that comes from the callback; two closers show the second one. Larger
instances (two methods) only add to what queues for the lock, which
`dispatcher_liveness` shows with three. In `conversation` two commands (`MaxCalls`) are one that
meets what the other has left on the stream; `MaxTraffic = 3` adds a NOTE to two
commands, or two to one. `ShortLimit = 3`, `MaxBody = 5` and `MaxLine = 2` are small so that
messages of two to five units are a line, a line over the limit, a body that is longer than a
line may be, and a body over the limit if its line feed is counted. The messages of `MCConversation` have at least one of each kind the
code tells apart: an OK with a task, without one, and without a payload; NOTEs with a
progress, a message, a status of nodes, of another task, without a task, without JSON, and
one with the keys of a progress but no message; results that decode and that lack a key; a FAILED
that is an interrupt and one that is not. `help`, `echo` and `cancel` only differ from the two
synchronous commands of the run in what they return.

Deadlock is not checked: when all calls have ended and nobody makes another, or
all managers are idle, the system rightly stops. That calls do not hang is what
the liveness properties say.

Fairness. `Dispatcher!Fairness`: the event loop runs each ready task and each
due timer (weak fairness of each caller's own steps, the reader's, and
`stop()`'s), and the server answers and ends its tasks. Nothing makes anybody
call, cancel, stop, or break the connection. The liveness properties of
`dispatcher_liveness` are about callbacks that issue no commands ("callback" is not among
its `Faults`): one that does keeps the reader from everything else (finding 7), so
that neither a call's end nor the release on a lost connection could be promised. `ServerProcess!FairSpec`: a caller
goes on with its call, so a wait with a deadline reaches it. No fairness for
servers or faults. `Session!SessionFairSpec`: each method goes on when its command
has ended, each caller and the reader go on (that is the event loop); nothing is
asked of the server, of opening, or of anybody who might call a method.
`Conversation!Fairness`: the program goes on when its future is settled, the reader when
there is something to read, `__aexit__` with its steps (the event loop), what is under
way arrives, and the server answers the commands it has received. Nothing makes it
finish a task or anybody call, leave or break the connection, so
`SyncCommandEnds` is about immediate replies while the reader runs. Weak fairness is enough because each of these steps stays
enabled until taken.

## 4. Findings

Each is a run that TLC finds violated, of a property that quotes a docstring.

1. `dispatcher_dropped_end`: between the OK and `_register_task` the reader may
   dispatch the task's FINISHED, which is dropped; a call without a timeout
   waits for ever (`raw/dispatcher.py:300`; docstring at 254). On a
   standing connection it is the only way: the end of a registered task is not lost
   (`EndsReachRegistered`).
2. `dispatcher_shifted_replies`: a caller cancelled before its immediate reply
   leaves that reply to the next command (`raw/dispatcher.py:115`; docstring at 210).
   With neither cancellation nor `stop()`, on a connection that stays up and can be read,
   it does not happen, however many callers there are (`UndisturbedRepliesMatch`), nor
   to a client that issues its commands one after the other and gives none of them up
   (`RepliesAreNotShifted`).
3. `dispatcher_stop`: `stop()` does not reach a call whose task was accepted and that
   queues for the lock to register it, behind another command: `_cancel_all` releases that
   command, and the call registers after it and waits for ever
   (`raw/dispatcher.py:75` and `:300`; docstring at 63). With a free lock this does not happen: the
   OK has queued the caller's wakeup before `stop()` can cancel the reader, and the
   event loop runs what is ready in order; the property asks for the queued call only.
4. `server_stops_another`: `_owns_process` outlives the process, and `stop()`
   ends whatever server has the name (`server/server_process.py:216`; docstring at 210).
5. `server_reuse_replaces`: a client that asked to reuse a server replaces the
   one that comes up between its look and its `start()` (`client/client.py:128`;
   docstring at 97).
6. `session_closed_twice`: `close()` sets `_closed` before `session_stop`; when
   that fails, the dispatcher, the socket and the server stay, and a second
   `close()` reports success without doing anything
   (`session/session.py:402`; docstring at 391). Only a `close()` that raises gets there
   (`OnlyRaisingLeaks`).
7. `dispatcher_callback`: a command that the callback of a NOTE issues never gets its
   reply, on a connection that stays up: the reader that would dispatch it awaits the
   callback (`raw/dispatcher.py:135`; docstring at 210).

## 5. Proofs

The eight proof modules prove every safety property, every action property and
all three refinements of the passing runs for every value of the constants, from the named
assumptions alone: disjoint sets of calls or managers, `NoCall` and `Someone`
outside them, bounds that are naturals, and `Faults` among its choices; for a
session, that its commands are calls of the right kind and that each
`load_and_purge` has a purge of its own; for the transport, that words, numbers and the line feed
are different, and that a message begins with a word and does not end with a line feed
(`TextsAssumption`); for a conversation, that what the server says is among its messages
(`MessagesAssumption`), that it answers commands and nothing else with OK or ERROR
(`KindsAssumption`), that what is left of a payload that is cut is not JSON, as with
objects and strings (`JsonAssumption`), and that arguments have the fields of their dataclass, with
`None` only in those that are optional (`ArgumentsAssumption`). Nothing is assumed to be finite.

`Dispatcher`. The properties are not inductive. What is needed besides:

* `LockInv`: the lock queue has no duplicates and holds exactly the calls that
  are suspended in or before an `async with`; only its head is inside;
* `SyncInv`: armed, waiting and settled immediate futures agree with `pc`;
* `WireInv`: what is on the wire in both directions. While no call is
  abandoned, the command of the one armed call is in at most one place:
  written, answered or settled. This is what makes matching by position right;
* `TermInv`: the registry, the terminal futures and `pc` agree, and a task is
  registered by at most one call;
* `NoteInv`: a callback's task stays registered while the reader awaits it;
* `OwnInv`: until a reply has been lost to its caller, every immediate reply is
  the one to the command of the future it settles.

`IInv` is their conjunction with `TypeOK`. The proof has one lemma per action
(and per part of the invariant it can disturb); `Inductive` combines them, and
the property theorems follow from it.

What can still happen to those who wait is the subject of `DispatcherProgressProofs`. It
holds the part of the liveness properties that needs no fairness: what somebody waits for
is there, or still to come.

* `ArmedInv` says that the reply to the armed call is owed while its future is open: its
  command is on the wire, or its answer is, or something on the stream does not parse, or
  the connection is gone. With `IInv`, which has the armed call inside the lock, this
  gives `LockIsNotKept`, the core of `SyncCallsEnd`.
* `EndsReachRegistered` follows from `IInv`: while a call is registered, the one place that
  takes its task's end off the stream gives it to the call, and all that takes the entry
  out of the registry settles its future.
* `QuietInv`, under the hypothesis of `UndisturbedRepliesMatch`, says that the reader never
  stops, that no immediate future is cancelled or failed, and that an open one has its
  caller: nothing is abandoned. The hypothesis is about `Faults` alone: without cancelled
  callers, `stop()`, a lost connection and unreadable messages, and with timeouts, back
  pressure and callbacks that issue commands.

`ServerProcess`. Besides the properties themselves, `SpawnInv` relates a
starting process to the call that waits for it, `CallInv` says that such a call
has no other live process, and `OwnerInv` that ownership implies having spawned and
that attaching managers never have. From these: a process is spawned only when
nothing of this manager lives, and `stop()` on a name that is taken while one's
own server lives meets exactly that server.

`Session`. `SessionImplementsDispatcher` shows that every step of a session is a
step of its dispatcher or leaves it unchanged, so the invariants above hold
under the methods of a session as well, and the session's own invariant may use
them. `SessionInv` adds:

* `CloserInv`: at most one `close()` goes past the flag; its method and its
  command keep step; nothing is issued on a closed session;
* `OrderInv`: every other command is ahead of `session_stop`, in the queue while
  that waits for the lock, and past the point it has reached afterwards. The
  lock is FIFO, a command asks for it twice (to send and to register), and
  nobody queues once the flag is set: this is why `_guard`, looked at long
  before a command is sent, suffices;
* `StoppedInv`: after `dispatcher.stop()` the registry is empty and each caller
  that is suspended has its outcome; after the last step of `close()` the socket
  is closed and no server is owned.

A command may be issued before there is a reader, but not by a session: `ReaderInv` has one
from `start()` on, and so the `stop()` of a `close()` waits for it or finds it ended.

From these: `StopIsSentLast`, `StopReachesEveryCall`, `CompleteCloseIsQuiet`.
`OrderInv` also shows what finding 3 needs: a `stop()` that does not come
after a `session_stop` in the same queue.

`SessionLifecycle`. `SessionIsAStack` is a step simulation under `SessionInv`, which
gives that `session_stop` is sent last, and two more invariants: `CallsInv` (only
`session_start` is issued before the session is open) and `StageInv` (what each stage of
opening holds). `SessionCallsAreIndependent` composes
`SessionImplementsDispatcher` with `ImplementsIndependent`: what is proved of
callers one by one is true of the methods of a session. `OnlyRaisingLeaks` needs
`FlagInv`: the flag is up only if some `close()` has issued its `session_stop`, so that a second
one returns early only beside one that is under way, has raised, or has cleaned up.

`IndependentCalls`. `ImplementsIndependent` is a step simulation under `IInv`, with one more
invariant, `TaskInv`: a terminal future belongs to a call whose immediate reply gave it a
task, and immediate futures are settled with an OK or an ERROR. Each action of
`Dispatcher` is one of a few kinds of change (arming, enrolling, aborting, moving on,
settling one or all), and each kind is a step of `IndependentCalls` or a stutter. `OwnInv`
is what the abstract `Answers` needs: a reply is the call's own while none was lost.

`Transport`. The invariant `TIInv` adds to the types where messages lie:

* `StreamInv`: the i-th message lies in the stream between the ends of its neighbours, as
  one of its frames;
* `PositionInv`: while nothing was lost, what is consumed is a whole number of messages,
  or those and the header of the next one when its body is being read.

A frame of the first kind has its first line feed at its end and does not begin with a
number; a frame of the second kind begins with a number and a line feed (`FramesDiffer`). Hence the
first line feed past `at` ends the line or the header of the next message however much
has arrived, and `Stripped` makes the same text of both framings (`StrippedText`).
From these: `ImplementsMessages` and `NoMessageWaits`.

`Conversation`. `ConversationUsesTransport` shows that its steps are steps of its transport.
`CInv` adds to `TIInv`: `Stages` (what goes with each stage of the client), `Futures` (who
awaits what: an entry of the registry is the open future of the command's own task),
`Accepted` (the first message was an OK before anybody could call), `StaysInStep` (the
reader loop ends with the first exception, so one that runs is in step with the messages, or at the
end of the stream), `Owed` (on a standing connection the immediate replies that are
requested, on the stream or unread are exactly that of the command that awaits one) and
`HeardInv` (what the callbacks were given since the registration). `Owed` gives
`RepliesAreNotShifted`. `WholeInv` gives `TasksGetWholeMessages`: what `receive()` makes of
a line that the end of the stream cuts short is a beginning of the message, and by
`JsonAssumption` it is the name alone, which has no task, or is not readable
(`CutIsNotRead`); and a reader that is no longer in step finds nothing to read. An
immediate reply that has no task, such as the one to `cancel`, may still be such a rest.
`ArgumentsArrive` and `ResultsDecode` compare `to_dict` and `from_dict` with the
documentation for all payloads, field by field.

Only model-checked: the liveness properties (`SyncCallsEnd`, `TimedCallsEnd`,
`LossReleasesTasks`, `StopReleases`, `CallsEnd`, `CloseReleases`, `SyncCommandEnds`,
`ExitCompletes`), since fairness and `ENABLED` are out of the prover's reach.

## 6. Not modelled

* The bytes of what the client sends (`encode_long_message`, `encode_short_message`): the server
  reads them. Its length does not count the line feed that follows, where the lengths that
  `receive()` reads may; how a server treats that line feed is outside the repository.
* Characters: UTF-8, carriage returns, blanks between the name of a reply and its
  argument. A message that consists of digits only would be taken for a length; the
  server's messages begin with a name.
* Payloads that are no JSON object are treated as an object without keys, as `get` and the
  handlers do; the type of a value (a status that is no object) is not looked at.
* `Position` and `PurgeTheoriesResults` (every key has a default), `ErrorMessage`, `TaskId`, and the properties
  `ok`, `errors`, `is_error` of the wire types.
* The cancellation of `connect()` and of `__aexit__` themselves (that of `close()` is in `Session`).
* Attributes and texts of exceptions, logging, packaging, documentation, and the
  examples, which need an Isabelle installation.

## 7. Plan

Every part that keeps state, or that decides who gets what, has its module. What is left
would deepen rather than widen:

1. One composition of the two towers: concurrent callers over the stream of units. `MessageStream`,
   which `Transport` is proved to implement, is a queue like the wire of `Dispatcher`, but
   that `Dispatcher`'s wire implements `MessageStream` in turn is not stated yet.
2. The safety cores of the remaining liveness properties, as `LockHolderCanGoOn` is that of
   `SyncCallsEnd`: for `CloseReleases`, that whoever `stop()` has released can go on; for
   `ExitCompletes`, that no step of `__aexit__` waits for anything but the one before it;
   for `CallsEnd`, that a manager inside a call has a step whatever the servers do.
3. Attributes of exceptions, which would turn the hazards at `raw/dispatcher.py:308` and
   `:309` into properties.
