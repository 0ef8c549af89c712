------------------------------ MODULE Dispatcher ------------------------------
(***************************************************************************)
(* The command multiplexer of pYsabelle (class TaskDispatcher): one reader  *)
(* task routes the replies of a single TCP connection to any number of      *)
(* concurrent callers of run_sync and run_async.                            *)
(*                                                                         *)
(* Callers are asyncio tasks.  A step of a caller is the code between two   *)
(* of its suspension points; the reader, the callers, the task that calls   *)
(* stop() and the server interleave.  A call arms its sync future, and      *)
(* registers its terminal future, at most once, so the call itself names    *)
(* both futures.  The server gives every task it accepts a fresh UUID; the  *)
(* call whose command created the task stands for it.                       *)
(***************************************************************************)
EXTENDS Naturals, Sequences, SequencesExt

CONSTANTS
    SyncCalls,    \* calls of run_sync
    AsyncCalls,   \* calls of run_async
    Timed,        \* the async calls made with a timeout
    Noting,       \* the async calls made with an on_note callback
    NoCall,       \* None: no call, no task id
    MaxNotes,     \* bound: NOTE messages the server sends
    MaxStarts,    \* bound: times the reader task is created
    Endings,      \* bound: the terminal replies the server sends
    Faults        \* which disturbances the environment may cause

Calls == SyncCalls \cup AsyncCalls

ASSUME CallsAssumption ==
    /\ SyncCalls \cap AsyncCalls = {}
    /\ Timed \subseteq AsyncCalls
    /\ Noting \subseteq AsyncCalls
    /\ NoCall \notin Calls
ASSUME BoundsAssumption == MaxNotes \in Nat /\ MaxStarts \in Nat
ASSUME EndingsAssumption == Endings \subseteq {"FINISHED", "FAILED", "INTERRUPT"}
ASSUME FaultsAssumption ==
    Faults \subseteq {"cancel", "stop", "close", "garble", "backpressure", "callback"}

VARIABLES
    pc,           \* where each call is suspended, or how it ended
    lockq,        \* _cmd_lock: its holder, then the tasks queued for it
    syncReply,    \* _sync_reply: the call whose future is armed
    syncFut,      \* the future each call got from _arm_sync_reply
    term,         \* the future each call got from _register_task
    pending,      \* _pending: for each task, the call registered for it
    reader,       \* _loop_task
    noting,       \* the call whose callback the reader is awaiting
    nested,       \* the call that callback has issued and is awaiting
    stopper,      \* the task that runs stop()
    starts,       \* reader tasks created so far
    connected,    \* the peer still has the connection open
    toServer,     \* commands written and not yet handled by the server
    fromServer,   \* replies sent and not yet read
    job,          \* what the server does for each task
    notes         \* NOTE messages sent so far

clientVars == <<pc, lockq, syncReply, syncFut, term, pending>>
readerVars == <<reader, noting, nested>>
serverVars == <<connected, toServer, fromServer, job, notes>>
vars == <<clientVars, readerVars, stopper, starts, serverVars>>

-----------------------------------------------------------------------------
(* Replies and futures *)

\* A FAILED reply whose message is "Interrupt" is told apart because run_async
\* raises another exception for it; GARBLED is any message on which receive()
\* or RawReply.json() raises.
ReplyKind == {"OK", "ERROR", "NOTE", "FINISHED", "FAILED", "INTERRUPT", "GARBLED"}

\* "command" is the call that the reply answers; the code cannot see it.
RawReply == [kind : ReplyKind, task : Calls \cup {NoCall}, command : Calls \cup {NoCall}]
Reply(k, t, c) == [kind |-> k, task |-> t, command |-> c]
Garbled == Reply("GARBLED", NoCall, NoCall)

IsSyncReply(r) == r.kind \in {"OK", "ERROR"}
IsTerminal(r) == r.kind \in {"FINISHED", "FAILED", "INTERRUPT"}

Future == [state : {"none", "pending", "result", "exception", "cancelled"},
           reply : RawReply]
NoFuture == [state |-> "none", reply |-> Garbled]
NewFuture == [state |-> "pending", reply |-> Garbled]
WithResult(r) == [state |-> "result", reply |-> r]
\* Mutant: the exception is handed over as if it were the reply.
WithoutAsResult(outcome) == [state |-> "result", reply |-> [exception |-> outcome]]
Without(outcome) == [state |-> outcome, reply |-> Garbled]
Done(f) == f.state \in {"result", "exception", "cancelled"}

Ended == {"returned", "command_error", "protocol_error", "connection_error",
          "reader_error", "timeout", "task_cancelled", "cancelled"}
Suspended == {"lock", "drain", "sync", "reglock", "term"}

-----------------------------------------------------------------------------
Init ==
    /\ pc = [c \in Calls |-> "idle"]
    /\ lockq = << >>
    /\ syncReply = NoCall
    /\ syncFut = [c \in Calls |-> NoFuture]
    /\ term = [c \in Calls |-> NoFuture]
    /\ pending = [t \in Calls |-> NoCall]
    /\ reader = "none" /\ noting = NoCall /\ nested = NoCall
    /\ stopper = "idle" /\ starts = 0
    /\ connected = TRUE /\ toServer = << >> /\ fromServer = << >>
    /\ job = [c \in Calls |-> "none"] /\ notes = 0

-----------------------------------------------------------------------------
(* run_sync and run_async *)

\* The head of the queue holds the lock, or has just been handed it.
Holds(c) == lockq # << >> /\ lockq[1] = c

\* With the lock held (queue = <<c, ...>>): arm the future, write the command,
\* wait for the buffer to drain and then for the reply.  After the peer is gone
\* the write either goes unnoticed or raises; raising releases the lock and
\* leaves the future armed.
Transmit(c, queue) ==
    /\ syncReply' = c
    /\ syncFut' = [syncFut EXCEPT ![c] = NewFuture]
    /\ \/ /\ lockq' = queue
          /\ pc' = [pc EXCEPT ![c] = "sync"]
       \/ /\ "backpressure" \in Faults
          /\ lockq' = queue
          /\ pc' = [pc EXCEPT ![c] = "drain"]
       \/ /\ ~connected
          /\ lockq' = Tail(queue)
          /\ pc' = [pc EXCEPT ![c] = "connection_error"]
    /\ toServer' = IF connected THEN Append(toServer, c) ELSE toServer
    /\ UNCHANGED <<term, pending>>

Queue(c) ==
    /\ lockq' = Append(lockq, c)
    /\ pc' = [pc EXCEPT ![c] = "lock"]
    /\ UNCHANGED <<syncReply, syncFut, term, pending, toServer>>

\* A new command takes a free lock at once and queues for one that is not.
Enter(c) ==
    /\ pc[c] = "idle"
    /\ IF lockq = << >> THEN Transmit(c, <<c>>) ELSE Queue(c)
    /\ UNCHANGED <<reader, noting, stopper, starts, connected, fromServer, job, notes>>

\* A command may be issued before there is a reader; it waits for one.
Call(c) == Enter(c) /\ UNCHANGED nested

\* A NOTE callback issues a command of its own and awaits it.
CallFromNote(c) ==
    /\ "callback" \in Faults
    /\ noting # NoCall /\ nested = NoCall
    /\ Enter(c)
    /\ nested' = c

\* Mutant: the lock is not waited for.
GrantedUnlocked(c) ==
    /\ pc[c] = "lock"
    /\ Transmit(c, lockq)
    /\ UNCHANGED <<readerVars, stopper, starts, connected, fromServer, job, notes>>

Granted(c) ==
    /\ pc[c] = "lock" /\ Holds(c)
    /\ Transmit(c, lockq)
    /\ UNCHANGED <<readerVars, stopper, starts, connected, fromServer, job, notes>>

Drained(c) ==
    /\ pc[c] = "drain"
    /\ \/ pc' = [pc EXCEPT ![c] = "sync"] /\ UNCHANGED lockq
       \/ /\ ~connected
          /\ pc' = [pc EXCEPT ![c] = "connection_error"]
          /\ lockq' = Tail(lockq)
    /\ UNCHANGED <<syncReply, syncFut, term, pending>>
    /\ UNCHANGED <<readerVars, stopper, starts, serverVars>>

\* How a future that was settled without a reply ends its caller.
Failure(f) == IF f.state = "exception" THEN "reader_error" ELSE "cancelled"

\* Mutant: run_async takes any OK for the end of its command.
SyncOutcomeAnyOK(c) ==
    LET f == syncFut[c] IN
    IF f.state # "result" THEN Failure(f)
    ELSE IF f.reply.kind = "ERROR" THEN "command_error" ELSE "returned"

\* How a call that has left the first "async with" ends without a task to wait
\* for; run_sync returns any OK, run_async wants one that carries a task id.
SyncOutcome(c) ==
    LET f == syncFut[c] IN
    IF f.state # "result" THEN Failure(f)
    ELSE IF f.reply.kind = "ERROR" THEN "command_error"
    ELSE IF c \in SyncCalls THEN "returned" ELSE "protocol_error"

HasTask(c) ==
    /\ c \in AsyncCalls
    /\ syncFut[c].state = "result" /\ syncFut[c].reply.kind = "OK"
    /\ syncFut[c].reply.task # NoCall

\* Mutant: the lock is not released when the server answers ERROR.
ConcludesLocked(c) ==
    /\ pc[c] = "sync" /\ Done(syncFut[c]) /\ ~HasTask(c)
    /\ pc' = [pc EXCEPT ![c] = SyncOutcome(c)]
    /\ lockq' = IF SyncOutcome(c) = "command_error" THEN lockq ELSE Tail(lockq)
    /\ UNCHANGED <<syncReply, syncFut, term, pending>>
    /\ UNCHANGED <<readerVars, stopper, starts, serverVars>>

Concludes(c) ==
    /\ pc[c] = "sync" /\ Done(syncFut[c]) /\ ~HasTask(c)
    /\ pc' = [pc EXCEPT ![c] = SyncOutcome(c)]
    /\ lockq' = Tail(lockq)
    /\ UNCHANGED <<syncReply, syncFut, term, pending>>
    /\ UNCHANGED <<readerVars, stopper, starts, serverVars>>

\* Mutant: the task is registered under an id of the client's own.
RegisterOwnId(c) ==
    /\ pending' = [pending EXCEPT ![c] = c]
    /\ term' = [term EXCEPT ![c] = NewFuture]
    /\ pc' = [pc EXCEPT ![c] = "term"]

\* _register_task, then the await of the shielded terminal future.
Register(c) ==
    /\ pending' = [pending EXCEPT ![syncFut[c].reply.task] = c]
    /\ term' = [term EXCEPT ![c] = NewFuture]
    /\ pc' = [pc EXCEPT ![c] = "term"]

\* The OK of an async command: the lock is released and asked for again, which
\* succeeds at once only when nobody is queued for it.
Accepted(c) ==
    /\ pc[c] = "sync" /\ HasTask(c)
    /\ \/ Len(lockq) = 1 /\ lockq' = << >> /\ Register(c)
       \/ /\ Len(lockq) > 1
          /\ lockq' = Append(Tail(lockq), c)
          /\ pc' = [pc EXCEPT ![c] = "reglock"]
          /\ UNCHANGED <<term, pending>>
    /\ UNCHANGED <<syncReply, syncFut, readerVars, stopper, starts, serverVars>>

Registers(c) ==
    /\ pc[c] = "reglock" /\ Holds(c)
    /\ lockq' = Tail(lockq)
    /\ Register(c)
    /\ UNCHANGED <<syncReply, syncFut, readerVars, stopper, starts, serverVars>>

TermOutcome(c) ==
    LET f == term[c] IN
    IF f.state # "result" THEN Failure(f)
    ELSE CASE f.reply.kind = "FINISHED" -> "returned"
           [] f.reply.kind = "INTERRUPT" -> "task_cancelled"
           [] OTHER -> "command_error"

Completed(c) ==
    /\ pc[c] = "term" /\ Done(term[c])
    /\ pc' = [pc EXCEPT ![c] = TermOutcome(c)]
    /\ UNCHANGED <<lockq, syncReply, syncFut, term, pending>>
    /\ UNCHANGED <<readerVars, stopper, starts, serverVars>>

\* wait_for gives up; shield keeps the registered future as it is.  When the
\* reply comes in the same turn of the event loop, the timeout may still win.
TimesOut(c) ==
    /\ pc[c] = "term" /\ c \in Timed
    /\ pc' = [pc EXCEPT ![c] = "timeout"]
    /\ UNCHANGED <<lockq, syncReply, syncFut, term, pending>>
    /\ UNCHANGED <<readerVars, stopper, starts, serverVars>>

\* Cancelling the task of call c where it is suspended: out of the lock or its
\* queue; the future it awaits is cancelled, unless it is the shielded one.
CancelCall(c) ==
    /\ pc[c] \in Suspended
    /\ pc' = [pc EXCEPT ![c] = "cancelled"]
    /\ IF pc[c] = "term"
         THEN UNCHANGED lockq
         ELSE \E i \in DOMAIN lockq : lockq[i] = c /\ lockq' = RemoveAt(lockq, i)
    /\ syncFut' = IF pc[c] = "sync" /\ ~Done(syncFut[c])
                    THEN [syncFut EXCEPT ![c] = Without("cancelled")]
                    ELSE syncFut
    /\ UNCHANGED <<syncReply, term, pending>>

Cancel(c) ==
    /\ "cancel" \in Faults /\ c # nested
    /\ CancelCall(c)
    /\ UNCHANGED <<readerVars, stopper, starts, serverVars>>

-----------------------------------------------------------------------------
(* The reader task *)

\* _start creates the task unless one is running.  A new reader takes its first
\* step after a stop() that was waiting for the old one, so it is started then.
Start ==
    /\ reader \in {"none", "done"} /\ stopper = "idle" /\ starts < MaxStarts
    /\ reader' = "running" /\ starts' = starts + 1
    /\ UNCHANGED <<clientVars, noting, nested, stopper, serverVars>>

\* Mutant: callbacks run as tasks of their own, the reader goes on.
ReceivesMeanwhile ==
    /\ reader = "running"
    /\ fromServer # << >>
    /\ fromServer' = Tail(fromServer)
    /\ UNCHANGED <<reader, nested, stopper, starts, connected, toServer, job, notes>>

\* The reader is at receive() and takes the next message of the stream.
Message == Head(fromServer)
Receives ==
    /\ reader = "running" /\ noting = NoCall
    /\ fromServer # << >>
    /\ fromServer' = Tail(fromServer)
    /\ UNCHANGED <<reader, nested, stopper, starts, connected, toServer, job, notes>>

\* OK and ERROR go to the armed future if it still waits.
DispatchSync ==
    /\ Receives /\ IsSyncReply(Message)
    /\ IF syncReply # NoCall /\ ~Done(syncFut[syncReply])
         THEN /\ syncFut' = [syncFut EXCEPT ![syncReply] = WithResult(Message)]
              /\ syncReply' = NoCall
         ELSE UNCHANGED <<syncFut, syncReply>>
    /\ UNCHANGED <<pc, lockq, term, pending, noting>>

\* NOTE: the reader awaits the callback registered for the task, if there is one.
DispatchNote ==
    /\ Receives /\ Message.kind = "NOTE"
    /\ LET t == Message.task IN
         noting' = IF t # NoCall /\ pending[t] \in Noting THEN pending[t] ELSE NoCall
    /\ UNCHANGED clientVars

\* Mutant: the entry is looked up and left in the registry.
DispatchTerminalNoPop ==
    /\ Receives /\ IsTerminal(Message)
    /\ LET t == Message.task IN
         IF t # NoCall /\ pending[t] # NoCall
           THEN term' = IF Done(term[pending[t]])
                          THEN term
                          ELSE [term EXCEPT ![pending[t]] = WithResult(Message)]
           ELSE UNCHANGED term
    /\ UNCHANGED <<pc, lockq, syncReply, syncFut, pending, noting>>

\* FINISHED and FAILED: pop the entry and settle its future.
DispatchTerminal ==
    /\ Receives /\ IsTerminal(Message)
    /\ LET t == Message.task IN
         IF t # NoCall /\ pending[t] # NoCall
           THEN /\ pending' = [pending EXCEPT ![t] = NoCall]
                /\ term' = IF Done(term[pending[t]])
                             THEN term
                             ELSE [term EXCEPT ![pending[t]] = WithResult(Message)]
           ELSE UNCHANGED <<pending, term>>
    /\ UNCHANGED <<pc, lockq, syncReply, syncFut, noting>>

\* The callback returns or raises; the reader goes on in both cases.
NoteDone ==
    /\ reader = "running" /\ noting # NoCall
    /\ nested # NoCall => pc[nested] \in Ended
    /\ noting' = NoCall /\ nested' = NoCall
    /\ UNCHANGED <<clientVars, reader, stopper, starts, serverVars>>

\* Mutants: the registry is emptied and its futures stay open; the armed future
\* is settled although its caller has cancelled it.
SettleSyncOnly(outcome) ==
    /\ IF syncReply # NoCall /\ ~Done(syncFut[syncReply])
         THEN /\ syncFut' = [syncFut EXCEPT ![syncReply] = Without(outcome)]
              /\ syncReply' = NoCall
         ELSE UNCHANGED <<syncFut, syncReply>>
    /\ UNCHANGED term
    /\ pending' = [t \in Calls |-> NoCall]

SettleUnchecked(outcome) ==
    /\ IF syncReply # NoCall
         THEN /\ syncFut' = [syncFut EXCEPT ![syncReply] = Without(outcome)]
              /\ syncReply' = NoCall
         ELSE UNCHANGED <<syncFut, syncReply>>
    /\ term' = [c \in Calls |->
                  IF \E t \in Calls : pending[t] = c THEN Without(outcome) ELSE term[c]]
    /\ pending' = [t \in Calls |-> NoCall]

\* _fail_all and _cancel_all: every waiting future is settled with the same
\* outcome and the registry is emptied.
SettleAll(outcome) ==
    /\ IF syncReply # NoCall /\ ~Done(syncFut[syncReply])
         THEN /\ syncFut' = [syncFut EXCEPT ![syncReply] = Without(outcome)]
              /\ syncReply' = NoCall
         ELSE UNCHANGED <<syncFut, syncReply>>
    /\ term' = [c \in Calls |->
                  IF (\E t \in Calls : pending[t] = c) /\ ~Done(term[c])
                    THEN Without(outcome) ELSE term[c]]
    /\ pending' = [t \in Calls |-> NoCall]

\* receive() raises at the end of the stream or on a message it cannot read, or
\* the JSON of the message does not parse.
ReaderCrashes ==
    /\ reader = "running" /\ noting = NoCall
    /\ \/ /\ fromServer = << >> /\ ~connected
          /\ UNCHANGED fromServer
       \/ /\ fromServer # << >> /\ Head(fromServer) = Garbled
          /\ fromServer' = Tail(fromServer)
    /\ SettleAll("exception")
    /\ reader' = "done"
    /\ UNCHANGED <<pc, lockq, noting, nested, stopper, starts, connected, toServer, job, notes>>

-----------------------------------------------------------------------------
(* The task that runs stop() *)

\* A running reader is cancelled and awaited; with none to wait for, stop() does
\* not suspend and goes straight to _cancel_all.  A second stop() meanwhile would
\* wait for the same reader and find nothing left to settle.
StopBegins ==
    /\ "stop" \in Faults /\ stopper = "idle"
    /\ \/ /\ reader = "running"
          /\ reader' = "cancelling" /\ stopper' = "waiting"
          /\ UNCHANGED clientVars
       \/ /\ reader \in {"none", "done"}
          /\ SettleAll("cancelled")
          /\ UNCHANGED <<pc, lockq, reader, stopper>>
    /\ UNCHANGED <<noting, nested, starts, serverVars>>

\* CancelledError reaches the reader where it is suspended.  In a callback it
\* cancels the command the callback awaits; in receive() it may fall between
\* the two halves of a message and leave a stream that no longer parses.
ReaderCancelled ==
    /\ reader = "cancelling"
    /\ reader' = "done" /\ noting' = NoCall /\ nested' = NoCall
    /\ IF nested # NoCall /\ pc[nested] \in Suspended
         THEN CancelCall(nested)
         ELSE UNCHANGED clientVars
    /\ \/ UNCHANGED fromServer
       \/ /\ noting = NoCall /\ fromServer # << >>
          /\ fromServer' = [fromServer EXCEPT ![1] = Garbled]
    /\ UNCHANGED <<stopper, starts, connected, toServer, job, notes>>

StopEnds ==
    /\ stopper = "waiting" /\ reader = "done"
    /\ SettleAll("cancelled")
    /\ stopper' = "idle"
    /\ UNCHANGED <<pc, lockq, readerVars, starts, serverVars>>

-----------------------------------------------------------------------------
(* The Isabelle server, as the client relies on it: replies to commands in     *)
(* order, and for each accepted async command NOTEs and one terminal reply.    *)

\* A bare OK to an async command is a reply run_async guards against.
Serve ==
    /\ connected /\ toServer # << >>
    /\ toServer' = Tail(toServer)
    /\ LET c == Head(toServer) IN
         \/ /\ fromServer' = Append(fromServer, Reply("ERROR", NoCall, c))
            /\ UNCHANGED job
         \/ /\ c \in AsyncCalls
            /\ fromServer' = Append(fromServer, Reply("OK", c, c))
            /\ job' = [job EXCEPT ![c] = "running"]
         \/ /\ c \in SyncCalls \/ "garble" \in Faults
            /\ fromServer' = Append(fromServer, Reply("OK", NoCall, c))
            /\ UNCHANGED job
    /\ UNCHANGED <<clientVars, readerVars, stopper, starts, connected, notes>>

Notes(c) ==
    /\ connected /\ job[c] = "running" /\ notes < MaxNotes
    /\ fromServer' = Append(fromServer, Reply("NOTE", c, c))
    /\ notes' = notes + 1
    /\ UNCHANGED <<clientVars, readerVars, stopper, starts, connected, toServer, job>>

Finishes(c) ==
    /\ connected /\ job[c] = "running"
    /\ \E k \in Endings :
          fromServer' = Append(fromServer, Reply(k, c, c))
    /\ job' = [job EXCEPT ![c] = "ended"]
    /\ UNCHANGED <<clientVars, readerVars, stopper, starts, connected, toServer, notes>>

\* The connection goes down: what was under way in either direction may be lost.
Close ==
    /\ "close" \in Faults /\ connected
    /\ connected' = FALSE
    /\ toServer' = << >>
    /\ \E n \in 0..Len(fromServer) : fromServer' = SubSeq(fromServer, 1, n)
    /\ UNCHANGED <<clientVars, readerVars, stopper, starts, job, notes>>

\* A message that does not parse; it counts against the bound on NOTEs.
Garble ==
    /\ "garble" \in Faults /\ connected /\ notes < MaxNotes
    /\ fromServer' = Append(fromServer, Garbled)
    /\ notes' = notes + 1
    /\ UNCHANGED <<clientVars, readerVars, stopper, starts, connected, toServer, job>>

-----------------------------------------------------------------------------
CallStep(c) ==
    \/ Granted(c) \/ Drained(c) \/ Concludes(c) \/ Accepted(c) \/ Registers(c)
    \/ Completed(c)

ReaderStep ==
    DispatchSync \/ DispatchNote \/ DispatchTerminal \/ ReaderCrashes \/ NoteDone

Next ==
    \/ \E c \in Calls : Call(c) \/ CallFromNote(c) \/ CallStep(c) \/ Cancel(c)
    \/ \E c \in Timed : TimesOut(c)
    \/ Start \/ ReaderStep
    \/ StopBegins \/ ReaderCancelled \/ StopEnds
    \/ Serve \/ Close \/ Garble
    \/ \E c \in AsyncCalls : Notes(c) \/ Finishes(c)

Spec == Init /\ [][Next]_vars

\* The event loop runs every task that is ready and every timer that is due; a
\* started dispatcher reads; the server answers commands and ends its tasks.
\* Nobody is obliged to make a call, to cancel, to stop or to break anything.
Fairness ==
    /\ \A c \in Calls : WF_vars(CallStep(c))
    /\ \A c \in Timed : WF_vars(TimesOut(c))
    /\ WF_vars(ReaderStep) /\ WF_vars(ReaderCancelled) /\ WF_vars(StopEnds)
    /\ WF_vars(Serve) /\ \A c \in AsyncCalls : WF_vars(Finishes(c))

FairSpec == Spec /\ Fairness

-----------------------------------------------------------------------------
(* Properties *)

TypeOK ==
    /\ pc \in [Calls -> {"idle"} \cup Suspended \cup Ended]
    /\ lockq \in Seq(Calls)
    /\ syncReply \in Calls \cup {NoCall}
    /\ syncFut \in [Calls -> Future] /\ term \in [Calls -> Future]
    /\ pending \in [Calls -> Calls \cup {NoCall}]
    /\ reader \in {"none", "running", "cancelling", "done"}
    /\ noting \in Calls \cup {NoCall} /\ nested \in Calls \cup {NoCall}
    /\ stopper \in {"idle", "waiting"} /\ starts \in 0..MaxStarts
    /\ connected \in BOOLEAN
    /\ toServer \in Seq(Calls) /\ fromServer \in Seq(RawReply)
    /\ job \in [Calls -> {"none", "running", "ended"}] /\ notes \in 0..MaxNotes

\* A call that waits for its immediate reply is the one whose future is armed,
\* and it is alone on the wire: no other call is between its write and its reply
\* (the lock around lines 229-232 and 276-279).
NoLostSyncFuture ==
    \A c \in Calls : pc[c] \in {"drain", "sync"} =>
        /\ Holds(c)
        /\ ~Done(syncFut[c]) => syncReply = c

\* A call that waits for the end of its task can still be reached: as long as its
\* future is open, the registry maps its task to it.  Neither another
\* registration, a settled future nor clear() may drop the entry first.
NoLostTerminalFuture ==
    \A c \in Calls : pc[c] = "term" /\ ~Done(term[c]) =>
        pending[syncFut[c].reply.task] = c

\* The registry only holds open futures, each once, so the "if not fut.done()"
\* tests of lines 155, 168 and 180 never skip an entry.
PendingIsOpen ==
    \A t \in Calls : pending[t] # NoCall =>
        /\ term[pending[t]].state = "pending"
        /\ \A u \in Calls : pending[u] = pending[t] => u = t

\* The calls that ended, or will end, without the immediate reply they waited for.
Abandoned ==
    {c \in Calls : \/ syncFut[c].state \in {"cancelled", "exception"}
                   \/ syncFut[c].state = "pending" /\ pc[c] \in Ended}

RepliesMatch ==
    \A c \in Calls :
        /\ syncFut[c].state = "result" => syncFut[c].reply.command = c
        /\ term[c].state = "result" => term[c].reply.command = c

\* Replies carry no command, they are matched by position only.  As long as no
\* call was abandoned before its reply, every call gets the reply to its own
\* command, and the terminal reply of its own task.
OwnReply == Abandoned = {} => RepliesMatch

\* Whatever was abandoned before, a call only gets the terminal reply of the
\* task it was told about.
TaskReply ==
    \A c \in Calls : term[c].state = "result" =>
        /\ term[c].reply.task = syncFut[c].reply.task
        /\ IsTerminal(term[c].reply)

\* While a callback runs, its task is still registered and open: no NOTE is
\* delivered for a task whose end its caller has been told.
NoteBeforeEnd ==
    noting # NoCall => \E t \in Calls : pending[t] = noting

\* Once a future has an outcome it keeps it, whoever else would settle it: the
\* reader, _fail_all, _cancel_all or a cancelled caller.
FuturesSettleOnce ==
    [][\A c \in Calls : /\ Done(syncFut[c]) => syncFut'[c] = syncFut[c]
                        /\ Done(term[c]) => term'[c] = term[c]]_vars

\* Something that the reader stops at is still to come.
Unreadable == \E i \in DOMAIN fromServer : fromServer[i] = Garbled

\* The reply that call c waits for is still to come: as its command, as its answer, or
\* as a message that cannot be read; and so is the end of a lost connection.
ReplyOwed(c) ==
    \/ ~connected \/ Unreadable
    \/ \E i \in DOMAIN toServer : toServer[i] = c
    \/ \E i \in DOMAIN fromServer :
          IsSyncReply(fromServer[i]) /\ fromServer[i].command = c

\* The command lock is not held for good.  Its holder has just been given it, or its
\* reply is there, or the armed future is the one of its command and the reply to that
\* command has not been consumed: no reply is skipped while somebody waits for it, and
\* nobody leaves with the lock (lines 229-232, 276-279 and 299-301).
LockHolderCanGoOn ==
    lockq # << >> =>
        LET h == Head(lockq) IN
        \/ pc[h] \in {"lock", "reglock"}
        \/ pc[h] \in {"drain", "sync"} /\ Done(syncFut[h])
        \/ pc[h] \in {"drain", "sync"} /\ syncReply = h /\ ReplyOwed(h)

\* The end of the task that call c was told about is still to come.
EndOwed(c) ==
    LET t == syncFut[c].reply.task IN
    \/ ~connected \/ Unreadable \/ job[t] = "running"
    \/ \E i \in DOMAIN fromServer :
          IsTerminal(fromServer[i]) /\ fromServer[i].task = t

\* The registration is the only gap through which the end of a task is lost (line 300):
\* once a call is registered and the end is still to come, it stays so until the call
\* has an outcome or has left, whatever is lost, spoilt, settled or started again.
RegisteredEndsArrive ==
    [][\A c \in Calls : pc[c] = "term" /\ ~Done(term[c]) /\ EndOwed(c) =>
          pc'[c] # "term" \/ Done(term'[c]) \/ EndOwed(c)']_vars

-----------------------------------------------------------------------------
(* The abstract specification *)

\* What a caller has been given: nothing as long as its future is open.
Given(f) == IF Done(f) THEN f ELSE NoFuture

\* A call is under way from its command to the reply, then waits for its task.
Stage(c) ==
    CASE pc[c] \in {"lock", "drain", "sync"} -> "issued"
      [] pc[c] \in {"reglock", "term"} -> "accepted"
      [] OTHER -> pc[c]

Independent == INSTANCE IndependentCalls WITH
    NoAnswer <- NoFuture,
    stage <- [c \in Calls |-> Stage(c)],
    immediate <- [c \in Calls |-> Given(syncFut[c])],
    terminal <- [c \in Calls |-> Given(term[c])],
    lost <- Abandoned # {}

\* To its caller a call looks as if it were alone on the connection, whatever the
\* lock, the registry, the reader and the other calls do: replies are given once,
\* to the call whose they are, and decide alone how it ends.
ImplementsIndependentCalls == Independent!Spec

-----------------------------------------------------------------------------
(* Liveness, under FairSpec *)

Undisturbed == connected /\ stopper = "idle" /\ reader = "running"

\* The first three are about an instance whose callbacks issue no commands ("callback"
\* is not among its Faults): one that does keeps the reader from everybody (finding 7).

\* With a healthy connection every synchronous command is answered, whichever
\* other calls queue for the lock or are cancelled around it.
SyncCallsEnd ==
    []<>~Undisturbed \/ \A c \in SyncCalls : pc[c] # "idle" ~> pc[c] \in Ended

\* An async command with a timeout ends, even if its terminal reply was dropped.
TimedCallsEnd ==
    []<>~Undisturbed \/ \A c \in Timed : pc[c] # "idle" ~> pc[c] \in Ended

\* The caller has left and the future it waited for, if any, has an outcome.
Released(c) == pc[c] \in Ended /\ Done(term[c])

\* A lost connection is noticed: every registered future is settled, without
\* the help of a timeout, and the caller that waits for it is woken.
LossReleasesTasks ==
    \A c \in AsyncCalls :
        (~connected /\ reader = "running" /\ \E t \in Calls : pending[t] = c) ~> Released(c)

\* stop() settles every registered future, and the one a caller waits for with
\* the lock held; it cancels a callback that keeps the reader from ending.
StopReleases ==
    /\ \A c \in AsyncCalls :
         (stopper = "waiting" /\ \E t \in Calls : pending[t] = c) ~> Released(c)
    /\ \A c \in Calls : (stopper = "waiting" /\ pc[c] = "sync") ~> Done(syncFut[c])

-----------------------------------------------------------------------------
(* What the docstrings say, and the code does not do *)

\* run_async: "the future returned completes when FINISHED or FAILED arrives".
CompletesOnTerminal ==
    []<>~Undisturbed \/ \A c \in AsyncCalls : job[c] = "ended" ~> pc[c] \in Ended

\* run_sync: "Execute a synchronous command and return its immediate reply".
RepliesAlwaysMatch == RepliesMatch

\* _stop: "Stop the reader loop and cancel all pending tasks".  The task of c has been
\* accepted and is under way, and c queues for the lock, to register it, behind another
\* command that still waits for its reply.
StopCancelsTasks ==
    \A c \in AsyncCalls, h \in Calls :
        (/\ stopper = "waiting" /\ Holds(h) /\ syncReply = h
         /\ pc[c] = "reglock" /\ job[c] = "running")
            ~> pc[c] \in Ended

\* run_sync: "Execute a synchronous command and return its immediate reply", of a
\* command that a NOTE callback issues, on a connection that stays up.
CallbackCommandsReturn ==
    []<>~Undisturbed \/ \A c \in SyncCalls : nested = c ~> pc[c] \in Ended

=============================================================================
