------------------------------- MODULE Session -------------------------------
(***************************************************************************)
(* IsabelleSession on top of IsabelleClient and the dispatcher: opening,    *)
(* the methods that send commands, and close(), all of which may be under   *)
(* way in several tasks at once.                                            *)
(*                                                                         *)
(* A method is named by the (first) command it sends, so the commands are   *)
(* the calls of module Dispatcher, whose steps are the steps of this module *)
(* too.  What a method does after a command has returned belongs to the     *)
(* same turn of the event loop: nothing else in the loop runs before it.    *)
(***************************************************************************)
EXTENDS Dispatcher, FiniteSets

CONSTANTS
    Opening,   \* the session_start of _open_session
    Uses,      \* use_theories and session_build
    Loads,     \* the uses that belong to a load_and_purge
    Purges,    \* purge_theories
    PurgeOf,   \* the purge with which each load_and_purge ends
    Closers    \* session_stop, one for each call of close()

\* The commands of their own: those the user asks for with a method.
Commands == Uses \cup (Purges \ {PurgeOf[u] : u \in Loads})

\* The session passes no timeout on to the dispatcher, and it stops the dispatcher
\* and closes the connection itself.
ASSUME SessionAssumption ==
    /\ Opening \in AsyncCalls /\ Timed = {}
    /\ Uses \subseteq AsyncCalls \ {Opening}
    /\ Closers \subseteq AsyncCalls \ ({Opening} \cup Uses)
    /\ Purges \subseteq SyncCalls
    /\ Loads \subseteq Uses /\ PurgeOf \in [Loads -> Purges]
    /\ {"stop", "close"} \subseteq Faults
    /\ \A u, v \in Loads : PurgeOf[u] = PurgeOf[v] => u = v

VARIABLES
    client,     \* how far IsabelleClient.start or connect and _open_session are
    server,     \* the server manager: owning a server, stopped, or none to stop
    transport,  \* the socket
    closed,     \* _closed
    method      \* where each method is

sessionVars == <<client, server, transport, closed, method>>
allVars == <<vars, sessionVars>>

Over == {"returned", "raised"}

SessionInit ==
    /\ Init
    /\ client = "new" /\ server = "none" /\ transport = "none"
    /\ closed = FALSE
    /\ method = [c \in Calls |-> "idle"]

\* The methods whose command has ended: they go on before anything else.
Resuming ==
    {c \in Calls : \/ method[c] = "command" /\ pc[c] \in Ended
                   \/ method[c] = "purge" /\ pc[PurgeOf[c]] \in Ended}
Calm == Resuming = {}

Goes(c, to) == method' = [method EXCEPT ![c] = to]

-----------------------------------------------------------------------------
(* Opening *)

\* IsabelleClient.start: the server manager starts a server, attaches to one, which
\* it will not stop, or raises.
ServerStarts ==
    /\ client = "new"
    /\ \/ client' = "server" /\ server' \in {"owning", "none"}
       \/ client' = "failed" /\ UNCHANGED server
    /\ UNCHANGED <<vars, transport, closed, method>>

\* Transport.open, after start or at once in IsabelleClient.connect.
Connects ==
    /\ client \in {"new", "server"}
    /\ \/ client' = "handshake" /\ transport' = "open"
       \/ client' = "failed" /\ UNCHANGED transport
    /\ UNCHANGED <<vars, server, closed, method>>

\* The password is accepted; or refused, and the socket is closed; or receive()
\* raises, and it is not.
Handshakes ==
    /\ client = "handshake"
    /\ \/ client' = "connected" /\ UNCHANGED transport
       \/ client' = "failed" /\ transport' = "closed"
       \/ client' = "failed" /\ UNCHANGED transport
    /\ UNCHANGED <<vars, server, closed, method>>

StartReader ==
    /\ client = "connected" /\ Start
    /\ client' = "reading"
    /\ UNCHANGED <<server, transport, closed, method>>

Opens ==
    /\ client = "reading" /\ Calm /\ Call(Opening)
    /\ client' = "opening" /\ Goes(Opening, "command")
    /\ UNCHANGED <<server, transport, closed>>

\* session_start has ended: there is a session now, or an exception.
Opened ==
    /\ Opening \in Resuming
    /\ client' = IF pc[Opening] = "returned" THEN "open" ELSE "failed"
    /\ Goes(Opening, IF pc[Opening] = "returned" THEN "returned" ELSE "raised")
    /\ UNCHANGED <<vars, server, transport, closed>>

-----------------------------------------------------------------------------
(* build, use_theories, purge_theories, load_and_purge *)

\* A method is called by a task of its own or by a NOTE callback.
Issues(c) == Call(c) \/ CallFromNote(c)

\* _guard, and the command is sent or queues for the lock in the same turn.
Invoke(c) ==
    /\ client = "open" /\ Calm /\ method[c] = "idle"
    /\ IF closed
         THEN Goes(c, "raised") /\ UNCHANGED vars
         ELSE Goes(c, "command") /\ Issues(c)
    /\ UNCHANGED <<client, server, transport, closed>>

\* A command has ended with a result or an exception; a result that is not ok
\* may raise TheoryLoadError, and a load_and_purge without nodes ends here.
Answered(c) ==
    /\ c \in Resuming /\ method[c] = "command"
    /\ \/ pc[c] = "returned" /\ Goes(c, "returned")
       \/ (pc[c] # "returned" \/ c \in Uses) /\ Goes(c, "raised")
    /\ UNCHANGED <<vars, client, server, transport, closed>>

\* Mutant: the session is not looked at again.
PurgesUnguarded(u) ==
    /\ u \in Resuming /\ method[u] = "command" /\ pc[u] = "returned"
    /\ Goes(u, "purge") /\ Call(PurgeOf[u])
    /\ UNCHANGED <<client, server, transport, closed>>

\* load_and_purge goes on with purge_theories, which guards for itself.
Purging(u) ==
    /\ u \in Resuming /\ method[u] = "command" /\ pc[u] = "returned"
    /\ IF closed
         THEN Goes(u, "raised") /\ UNCHANGED vars
         ELSE Goes(u, "purge") /\ Call(PurgeOf[u])
    /\ UNCHANGED <<client, server, transport, closed>>

\* Mutant: the exception of the command is taken for the outcome of the method.
PurgedAsIs(u) ==
    /\ u \in Resuming /\ method[u] = "purge"
    /\ Goes(u, pc[PurgeOf[u]])
    /\ UNCHANGED <<vars, client, server, transport, closed>>

Purged(u) ==
    /\ u \in Resuming /\ method[u] = "purge"
    /\ Goes(u, IF pc[PurgeOf[u]] = "returned" THEN "returned" ELSE "raised")
    /\ UNCHANGED <<vars, client, server, transport, closed>>

-----------------------------------------------------------------------------
(* close *)

\* Mutant: the dispatcher is stopped without waiting for session_stop.
CloseStopsFirst(k) ==
    /\ client = "open" /\ Calm /\ method[k] = "idle"
    /\ IF closed
         THEN Goes(k, "returned") /\ UNCHANGED vars
         ELSE Goes(k, IF reader = "running" THEN "dispatcher" ELSE "transport") /\ StopBegins
    /\ closed' = TRUE
    /\ UNCHANGED <<client, server, transport>>

\* The first call marks the session and sends session_stop; any other returns.
CloseCalled(k) ==
    /\ client = "open" /\ Calm /\ method[k] = "idle"
    /\ IF closed
         THEN Goes(k, "returned") /\ UNCHANGED vars
         ELSE Goes(k, "command") /\ Issues(k)
    /\ closed' = TRUE
    /\ UNCHANGED <<client, server, transport>>

\* session_stop has raised, or has been given the result of another command, which
\* need not decode: close() raises and leaves everything as it is.
StopFailed(k) ==
    /\ k \in Resuming
    /\ pc[k] # "returned" \/ term[k].reply.command # k
    /\ Goes(k, "raised")
    /\ UNCHANGED <<vars, client, server, transport, closed>>

\* Mutant: dispatcher.stop() is not awaited.
StopsUnawaited(k) ==
    /\ k \in Resuming /\ pc[k] = "returned"
    /\ StopBegins
    /\ Goes(k, "transport")
    /\ UNCHANGED <<client, server, transport, closed>>

\* dispatcher.stop() waits for a running reader, and for nothing else.
StopsDispatcher(k) ==
    /\ k \in Resuming /\ pc[k] = "returned"
    /\ StopBegins
    /\ Goes(k, IF reader = "running" THEN "dispatcher" ELSE "transport")
    /\ UNCHANGED <<client, server, transport, closed>>

DispatcherStopped(k) ==
    /\ Calm /\ method[k] = "dispatcher" /\ StopEnds
    /\ Goes(k, "transport")
    /\ UNCHANGED <<client, server, transport, closed>>

\* wait_closed returns: the connection is down.  The manager is told to stop,
\* which raises when the servers cannot be listed.
TransportClosed(k) ==
    /\ Calm /\ method[k] = "transport"
    /\ IF connected THEN Close ELSE UNCHANGED vars
    /\ transport' = "closed"
    /\ \/ Goes(k, "returned") /\ server' = IF server = "owning" THEN "stopped" ELSE server
       \/ server = "owning" /\ Goes(k, "raised") /\ UNCHANGED server
    /\ UNCHANGED <<client, closed>>

\* close() cancelled in wait_closed: the connection goes down, and the manager is
\* not told to stop.  In dispatcher.stop() a CancelledError is taken for the
\* reader's and has no effect.
CloseCancelled(k) ==
    /\ Calm /\ "cancel" \in Faults /\ method[k] = "transport"
    /\ IF connected THEN Close ELSE UNCHANGED vars
    /\ transport' = "closed"
    /\ Goes(k, "raised")
    /\ UNCHANGED <<client, server, closed>>

-----------------------------------------------------------------------------
(* The dispatcher and the server go on by themselves *)

LoopStep ==
    /\ Calm
    /\ \/ \E c \in Calls : CallStep(c) \/ Cancel(c)
       \/ ReaderStep \/ ReaderCancelled
    /\ UNCHANGED sessionVars

\* The connection matters from the moment that somebody reads from it.
ServerStep ==
    /\ reader # "none"
    /\ \/ Serve \/ Close \/ Garble
       \/ \E c \in AsyncCalls : Notes(c) \/ Finishes(c)
    /\ UNCHANGED sessionVars

MethodStep(c) ==
    \/ c \in Commands /\ Answered(c)
    \/ c \in Loads /\ (Purging(c) \/ Purged(c))
    \/ c \in Closers /\ (StopFailed(c) \/ StopsDispatcher(c)
                         \/ DispatcherStopped(c) \/ TransportClosed(c))

SessionNext ==
    \/ ServerStarts \/ Connects \/ Handshakes \/ StartReader \/ Opens \/ Opened
    \/ \E c \in Commands : Invoke(c)
    \/ \E k \in Closers : CloseCalled(k) \/ CloseCancelled(k)
    \/ \E c \in Calls : MethodStep(c)
    \/ LoopStep \/ ServerStep

SessionSpec == SessionInit /\ [][SessionNext]_allVars

\* The event loop runs what is ready, and the server answers (as in Fairness).
SessionFairSpec ==
    /\ SessionSpec
    /\ \A c \in Calls : WF_allVars(MethodStep(c))
    /\ \A c \in Calls : WF_allVars(Calm /\ CallStep(c) /\ UNCHANGED sessionVars)
    /\ WF_allVars(Calm /\ (ReaderStep \/ ReaderCancelled) /\ UNCHANGED sessionVars)

-----------------------------------------------------------------------------
(* Properties *)

SessionTypeOK ==
    /\ client \in {"new", "server", "handshake", "connected", "reading", "opening",
                   "open", "failed"}
    /\ server \in {"none", "owning", "stopped"}
    /\ transport \in {"none", "open", "closed"}
    /\ closed \in BOOLEAN
    /\ method \in [Calls -> {"idle", "command", "purge", "dispatcher", "transport"} \cup Over]

\* Once session_stop is on its way nothing else is sent, neither a command whose
\* _guard was passed before close() nor a second session_stop: what was allowed to
\* send is ahead of it in the queue of the command lock (lines 401-406, 436-439).
NothingAfterStop ==
    [][\A c \in Calls : syncFut[c].state = "none" /\ syncFut'[c].state # "none" =>
          \A k \in Closers : syncFut[k].state = "none"]_allVars

\* When close() goes on to stop the dispatcher, no command is before its
\* registration, where stop() would not reach it.
NoneStranded ==
    \A k \in Closers : method[k] \in {"dispatcher", "transport"} =>
        \A c \in Calls : pc[c] \in {"idle", "term"} \cup Ended

\* A close() that went all the way leaves nothing behind: no reader, socket or
\* owned server, no entry in the registry, and no caller without an outcome.
ClosedIsQuiet ==
    \A k \in Closers : method[k] = "returned" /\ pc[k] = "returned" =>
        /\ reader = "done" /\ transport = "closed" /\ server # "owning"
        /\ \A c \in Calls : pending[c] = NoCall
        /\ \A c \in Calls : pc[c] \in Suspended => Done(term[c])

\* Methods that are under way when close() stops the dispatcher end.
CloseReleases ==
    \A k \in Closers : \A c \in Commands :
        (method[k] = "dispatcher" /\ method[c] \in {"command", "purge"}) ~> method[c] \in Over

\* What a session holds is a stack: it is taken in order before anything is sent,
\* commands are sent only between the result of session_start and the sending of
\* session_stop, and it is given back from the top after session_stop has returned,
\* the socket never before the reader (lines 391-421).
Held ==
    {r \in {"server"} : server = "owning"}
    \cup {r \in {"socket"} : transport = "open"}
    \cup {r \in {"reader"} : reader \in {"running", "cancelling"}}
    \cup {r \in {"session"} : client = "open" /\ \A k \in Closers : pc[k] # "returned"}
Sent == {c \in Calls : syncFut[c].state # "none"}

Lifecycle == INSTANCE SessionLifecycle WITH
    Requests <- Calls \ ({Opening} \cup Closers),
    Stops <- Closers,
    held <- Held,
    sent <- Sent
ImplementsLifecycle == Lifecycle!Spec

-----------------------------------------------------------------------------
(* What the docstring says, and the code does not do *)

\* close: "Stop the session and clean up resources".  When every close() is over and
\* one has reported success, nothing is left.
CloseCleansUp ==
    (/\ \A k \in Closers : method[k] \in {"idle"} \cup Over
     /\ \E k \in Closers : method[k] = "returned")
    => reader # "running" /\ transport = "closed" /\ server # "owning"

=============================================================================
