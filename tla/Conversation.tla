----------------------------- MODULE Conversation -----------------------------
(***************************************************************************)
(* An IsabelleClient from its password to the end of its "async with": one     *)
(* program that issues raw commands one after the other, the reader loop of   *)
(* the dispatcher, and the server, over the byte stream of Transport and with *)
(* the payloads of Payloads.  Dispatcher has the concurrent callers; a sole   *)
(* caller finds the command lock free, so the lock is left out here.          *)
(***************************************************************************)
EXTENDS Transport, Payloads

CONSTANTS
    Json(_),             \* the object that a payload says, None if it is not JSON
    OwnsServer,          \* the client was made with a server to stop
    Methods,             \* the methods of RawCommands that the program calls
    Arguments(_),        \* their arguments
    CallbackSets,        \* the callbacks of the user that may be given with them
    Greetings,           \* what the server may answer to the password
    Answers(_, _),       \* its immediate answers to a command
    Notices(_, _),       \* the NOTEs of a task
    Results(_, _),       \* the ends of a task
    MaxCalls,            \* bound: commands the program issues
    MaxTraffic           \* bound: those commands and the NOTEs the server sends

SyncMethods == {"help", "echo", "shutdown", "cancel", "purge_theories"}
AsyncMethods == {"session_build", "session_start", "session_stop", "use_theories"}

ASSUME MethodsAssumption == Methods \subseteq SyncMethods \cup AsyncMethods
ASSUME MessagesAssumption ==
    /\ Greetings \subseteq Texts
    /\ \A m \in Methods, n \in 1..MaxCalls :
        Answers(m, n) \cup Notices(m, n) \cup Results(m, n) \subseteq Texts

\* The protocol: a command is answered with OK or ERROR, its task sends neither.
ASSUME KindsAssumption ==
    \A m \in Methods, n \in 1..MaxCalls :
        /\ \A t \in Answers(m, n) : t[1] \in {OK, ERROR}
        /\ \A t \in Notices(m, n) \cup Results(m, n) : t[1] \notin {OK, ERROR}

\* A payload is an object or a string: what is left of one that is cut is not JSON.
ASSUME JsonAssumption ==
    \A t \in Texts : \A n \in 2..Len(t) - 1 : Json(Tail(SubSeq(t, 1, n))) = None

\* The fields of the dataclasses; the ones that are not Optional are not None.
ASSUME ArgumentsAssumption ==
    \A m \in Methods : \A a \in Arguments(m) :
        /\ m \in {"session_build", "session_start"} =>
            /\ DOMAIN a = {"session", "preferences", "options", "dirs", "include_sessions",
                           "verbose", "print_mode"}
            /\ None \notin {a.options, a.dirs, a.include_sessions, a.print_mode}
            /\ a.verbose \in BOOLEAN \ {None}
        /\ m = "purge_theories" =>
            /\ DOMAIN a = {"session_id", "theories", "master_dir", "all"}
            /\ a.theories # None /\ a.all \in BOOLEAN \ {None}
ASSUME OwnsAssumption == OwnsServer \in BOOLEAN
ASSUME CallsAssumption == MaxCalls \in Nat /\ MaxTraffic \in Nat

VARIABLES
    client,      \* how far the client has come
    socket,      \* the writer is "open" or "closed"
    owned,       \* the client still has a server to stop
    loop,        \* _loop_task
    pc,          \* where the program is suspended: "idle", "sync" or "term"
    made,        \* commands issued so far
    command,     \* the method and the arguments of the last one
    sync,        \* the future of the immediate reply
    armed,       \* it is _sync_reply
    pending,     \* the task in _pending, or None
    term,        \* its future
    registered,  \* how many messages had been taken when it was registered
    heard,       \* what the user's callbacks were given
    result,      \* how the last command ended
    requests,    \* the commands that the server has not answered
    jobs,        \* the tasks that it runs
    notes        \* NOTEs sent so far

clientVars == <<client, socket, owned, loop>>
callVars == <<pc, made, command, sync, armed, pending, term, registered, heard, result>>
serverVars == <<requests, jobs, notes>>
conversationVars == <<clientVars, callVars, serverVars>>
vars == <<transportVars, conversationVars>>

-----------------------------------------------------------------------------
(* Replies and futures *)

Pending == Outcome("pending", << >>)
CancelledFuture == Outcome("cancelled", << >>)
Settled(f) == f.is \in {"reply", "raised", "cancelled"}

Kind(text) == text[1]

\* Mutant: an ERROR is not routed.
IsOK(text) == Kind(text) = OK

IsImmediate(text) == Kind(text) \in {OK, ERROR}
Payload(text) == IF Len(text) = 1 THEN [k \in {} |-> None] ELSE Json(Tail(text))
TaskId(text) == Get(Payload(text), "task", None)

\* Without the message the command did not leave; it is a result without a reply.
Ended(how, f) == [is |-> how, text |-> f.text]

NoCommand == [method |-> "none", args |-> None, wire |-> None, callbacks |-> {}]

-----------------------------------------------------------------------------
Init ==
    /\ TransportInit
    /\ client = "handshake" /\ socket = "open" /\ owned = OwnsServer /\ loop = "none"
    /\ pc = "idle" /\ made = 0 /\ command = NoCommand
    /\ sync = Nothing /\ armed = FALSE /\ pending = None /\ term = Nothing
    /\ registered = 0 /\ heard = {} /\ result = Nothing
    /\ requests = << >> /\ jobs = {} /\ notes = 0

-----------------------------------------------------------------------------
(* The server and the network *)

Greets ==
    /\ sent = << >>
    /\ \E t \in Greetings : Sends(t)
    /\ UNCHANGED conversationVars

\* Commands are answered in order; one that is accepted becomes a task.
Serves ==
    /\ requests # << >>
    /\ LET r == Head(requests) IN
       \E t \in Answers(r.method, r.call) :
        /\ Sends(t)
        /\ jobs' = jobs \cup {j \in {r} : r.method \in AsyncMethods /\ Kind(t) = OK}
    /\ requests' = Tail(requests)
    /\ UNCHANGED <<clientVars, callVars, notes>>

Notes ==
    /\ made + notes < MaxTraffic
    /\ \E j \in jobs : \E t \in Notices(j.method, j.call) : Sends(t)
    /\ notes' = notes + 1
    /\ UNCHANGED <<clientVars, callVars, requests, jobs>>

Finishes ==
    /\ \E j \in jobs :
        /\ \E t \in Results(j.method, j.call) : Sends(t)
        /\ jobs' = jobs \ {j}
    /\ UNCHANGED <<clientVars, callVars, requests, notes>>

Network == (Arrives \/ GoesDown) /\ UNCHANGED conversationVars

-----------------------------------------------------------------------------
(* Connecting *)

\* Mutant: any reply opens the connection.
AcceptsAny(reply) == reply.is = "reply"

AcceptsPassword(reply) == reply.is = "reply" /\ Kind(reply.text) = OK

\* receive() is called for the answer to the password, or by the reader loop.
Awaits ==
    /\ client = "handshake" \/ (loop = "running" /\ client # "stopping")
    /\ StartsReceive
    /\ UNCHANGED conversationVars

Continues ==
    /\ client # "stopping"
    /\ ReadsHeader
    /\ UNCHANGED conversationVars

\* Another reply closes the socket; an exception of receive() leaves it open.
ShakesHands ==
    /\ client = "handshake"
    /\ Receives
    /\ \/ /\ AcceptsPassword(outcome')
          /\ client' = "connected" /\ UNCHANGED socket
       \/ /\ outcome'.is = "reply" /\ ~AcceptsPassword(outcome')
          /\ client' = "refused" /\ socket' = "closed"
       \/ /\ outcome'.is = "raised"
          /\ client' = "failed" /\ UNCHANGED socket
    /\ UNCHANGED <<owned, loop, callVars, serverVars>>

Enters ==
    /\ client = "connected" /\ pc = "idle"
    /\ client' = "entered" /\ loop' = "running"
    /\ UNCHANGED <<transportVars, socket, owned, callVars, serverVars>>

-----------------------------------------------------------------------------
(* The program *)

\* The argument of a command on the wire: cancel, session_stop and echo send theirs
\* as they are, and None stands for no argument.
Argument(method, a) ==
    CASE method \in {"session_build", "session_start"} -> SessionBuildArgs(a)
      [] method = "use_theories" -> UseTheoriesArgs(a)
      [] method = "purge_theories" -> PurgeTheoriesArgs(a)
      [] OTHER -> a

\* Mutant: the future of the last command is awaited again.
ArmsNothing == armed' = TRUE /\ UNCHANGED sync

Arms == armed' = TRUE /\ sync' = Pending

\* A command is written and its reply awaited; on a connection that is gone the
\* write goes unnoticed or raises.
Calls(method) ==
    /\ client \in {"connected", "entered"} /\ pc = "idle"
    /\ made < MaxCalls /\ made + notes < MaxTraffic
    /\ \E a \in Arguments(method), cbs \in CallbackSets :
        command' = [method |-> method, args |-> a, wire |-> Argument(method, a),
                    callbacks |-> IF method \in AsyncMethods THEN cbs ELSE {}]
    /\ made' = made + 1
    /\ Arms /\ term' = Nothing /\ heard' = {}
    /\ \/ pc' = "sync" /\ result' = Nothing
       \/ /\ link # "up"
          /\ pc' = "idle" /\ result' = Ended("connection_error", Nothing)
    /\ requests' = IF link = "up" THEN Append(requests, [call |-> made', method |-> method])
                   ELSE requests
    /\ UNCHANGED <<transportVars, clientVars, pending, registered, jobs, notes>>

\* How a command ends without a task: with an exception, or with its result.
SyncEnd ==
    IF sync.is # "reply" THEN sync.is
    ELSE IF Kind(sync.text) = ERROR THEN "command_error"
    ELSE IF command.method \in SyncMethods THEN "returned" ELSE "protocol_error"

HasTask ==
    /\ command.method \in AsyncMethods
    /\ sync.is = "reply" /\ Kind(sync.text) = OK /\ TaskId(sync.text) # None

Concludes ==
    /\ pc = "sync" /\ Settled(sync) /\ ~HasTask
    /\ pc' = "idle" /\ result' = Ended(SyncEnd, sync)
    /\ UNCHANGED <<transportVars, clientVars, serverVars>>
    /\ UNCHANGED <<made, command, sync, armed, pending, term, registered, heard>>

\* The task is registered; the reader may have been faster than that.
Registers ==
    /\ pc = "sync" /\ HasTask
    /\ pc' = "term" /\ pending' = TaskId(sync.text) /\ term' = Pending
    /\ registered' = taken
    /\ UNCHANGED <<transportVars, clientVars, serverVars>>
    /\ UNCHANGED <<made, command, sync, armed, heard, result>>

TermEnd ==
    IF term.is # "reply" THEN term.is
    ELSE IF Kind(term.text) = FAILED
    THEN IF Get(Payload(term.text), "message", None) = "Interrupt"
         THEN "task_cancelled" ELSE "command_error"
    ELSE IF Decodes(command.method, Payload(term.text)) THEN "returned" ELSE "key_error"

Ends ==
    /\ pc = "term" /\ Settled(term)
    /\ pc' = "idle" /\ result' = Ended(TermEnd, term)
    /\ UNCHANGED <<transportVars, clientVars, serverVars>>
    /\ UNCHANGED <<made, command, sync, armed, pending, term, registered, heard>>

-----------------------------------------------------------------------------
(* The reader loop *)

\* What the handler that goes with the command gives to the user's callbacks.  What
\* they raise is caught; a callback that takes its time is module Dispatcher's.
Hears(d) ==
    IF command.method = "use_theories" THEN UseTheoriesNote(d, command.callbacks)
    ELSE IF "progress" \in command.callbacks THEN BuildNote(d) ELSE {}

\* Mutant: the task of a reply is not looked at.
TrackedAny(text) == pending # None

Tracked(text) == pending # None /\ TaskId(text) = pending

\* The reply is read, or it is one whose payload is not JSON: json() raises too.
Readable(o) == o.is = "reply" /\ Payload(o.text) # None

\* Mutant: only the futures of tasks are settled.
SettleTasksOnly(f) ==
    /\ UNCHANGED <<sync, armed>>
    /\ term' = (IF pending # None THEN f ELSE term) /\ pending' = None

\* Mutant: only the future of the immediate reply is settled.
SettleSyncOnly(f) ==
    /\ sync' = (IF armed /\ sync = Pending THEN f ELSE sync)
    /\ armed' = (armed /\ sync # Pending)
    /\ UNCHANGED <<term, pending>>

\* Whatever is awaited gets an exception, or is cancelled.
SettleAll(f) ==
    /\ sync' = (IF armed /\ sync = Pending THEN f ELSE sync)
    /\ armed' = (armed /\ sync # Pending)
    /\ term' = (IF pending # None THEN f ELSE term) /\ pending' = None

\* Mutant: the loop goes on after an exception.
LoopGoesOn == UNCHANGED loop

LoopEnds == loop' = "crashed"

\* An exception ends the loop.
Crashes ==
    /\ loop = "running" /\ client # "stopping" /\ Receives /\ ~Readable(outcome')
    /\ LoopEnds /\ SettleAll(Raised)
    /\ UNCHANGED <<client, socket, owned, serverVars>>
    /\ UNCHANGED <<pc, made, command, registered, heard, result>>

\* A reply is read and routed by its kind and its task.
Dispatches ==
    /\ loop = "running" /\ client # "stopping" /\ Receives /\ Readable(outcome')
    /\ LET r == outcome'.text IN
       /\ IF IsImmediate(r) /\ armed /\ sync = Pending
          THEN sync' = outcome' /\ armed' = FALSE
          ELSE UNCHANGED <<sync, armed>>
       /\ IF Kind(r) = NOTE /\ Tracked(r)
          THEN heard' = heard \cup {[message |-> taken', is |-> x] : x \in Hears(Payload(r))}
          ELSE UNCHANGED heard
       /\ IF Kind(r) \in {FINISHED, FAILED} /\ Tracked(r)
          THEN term' = outcome' /\ pending' = None
          ELSE UNCHANGED <<term, pending>>
    /\ UNCHANGED <<clientVars, serverVars>>
    /\ UNCHANGED <<pc, made, command, registered, result>>

-----------------------------------------------------------------------------
(* Leaving *)

\* The program comes to the end of its "async with", or is cancelled inside it:
\* stop() cancels the reader and waits for it.
Leaves ==
    /\ client = "entered"
    /\ client' = "stopping"
    /\ pc' = "idle"
    /\ result' = (IF pc = "idle" THEN result ELSE Ended("cancelled", Nothing))
    /\ sync' = (IF pc = "sync" /\ sync = Pending THEN CancelledFuture ELSE sync)
    /\ UNCHANGED <<transportVars, socket, owned, loop, serverVars>>
    /\ UNCHANGED <<made, command, armed, pending, term, registered, heard>>

\* Mutant: the loop takes its cancellation for an error and goes on.
LoopIgnoresCancellation ==
    /\ client = "stopping" /\ loop = "running"
    /\ IF reading = "no" THEN UNCHANGED transportVars ELSE ReceiveCancelled
    /\ UNCHANGED conversationVars

LoopCancelled ==
    /\ client = "stopping" /\ loop = "running"
    /\ loop' = "cancelled"
    /\ IF reading = "no" THEN UNCHANGED transportVars ELSE ReceiveCancelled
    /\ UNCHANGED <<client, socket, owned, callVars, serverVars>>

\* stop() then settles what is still awaited.
Stops ==
    /\ client = "stopping" /\ loop # "running"
    /\ client' = "stopped"
    /\ SettleAll(CancelledFuture)
    /\ UNCHANGED <<transportVars, socket, owned, loop, serverVars>>
    /\ UNCHANGED <<pc, made, command, registered, heard, result>>

ClosesSocket ==
    /\ client = "stopped"
    /\ client' = "closed" /\ socket' = "closed"
    /\ UNCHANGED <<transportVars, owned, loop, callVars, serverVars>>

StopsServer ==
    /\ client = "closed"
    /\ client' = "left" /\ owned' = FALSE
    /\ UNCHANGED <<transportVars, socket, loop, callVars, serverVars>>

-----------------------------------------------------------------------------
Program == (\E m \in Methods : Calls(m)) \/ Concludes \/ Registers \/ Ends
Reader == Awaits \/ Continues \/ Crashes \/ Dispatches
Exit == LoopCancelled \/ Stops \/ ClosesSocket \/ StopsServer
Server == Greets \/ Serves \/ Notes \/ Finishes

Next == Server \/ Network \/ Reader \/ ShakesHands \/ Enters \/ Program \/ Leaves \/ Exit

Spec == Init /\ [][Next]_vars

\* The event loop runs what is ready, the network delivers, the server answers the
\* commands it has received.
Fairness ==
    /\ WF_vars(Concludes \/ Registers \/ Ends) /\ WF_vars(Reader) /\ WF_vars(Exit)
    /\ WF_vars(Arrives /\ UNCHANGED conversationVars) /\ WF_vars(Serves)
FairSpec == Spec /\ Fairness

-----------------------------------------------------------------------------
(* Properties *)

\* The type of every variable; a command is awaited on the future of its stage.
ConversationTypeOK ==
    /\ client \in {"handshake", "refused", "failed", "connected", "entered",
                   "stopping", "stopped", "closed", "left"}
    /\ socket \in {"open", "closed"} /\ owned \in BOOLEAN
    /\ loop \in {"none", "running", "crashed", "cancelled"}
    /\ pc \in {"idle", "sync", "term"} /\ made \in 0..MaxCalls
    /\ command.method \in Methods \cup {"none"} /\ command.callbacks \subseteq UNION CallbackSets
    /\ {sync.is, term.is} \subseteq {"nothing", "pending", "reply", "raised", "cancelled"}
    /\ armed \in BOOLEAN /\ registered \in Nat /\ notes \in 0..MaxTraffic
    /\ heard \subseteq [message : Nat, is : {"TheoryProgress", "Message", "nodes_status"}]
    /\ requests \in Seq([call : 1..MaxCalls, method : Methods])
    /\ jobs \subseteq [call : 1..MaxCalls, method : Methods \cap AsyncMethods]
    /\ pc = "sync" => made > 0 /\ sync.is # "nothing"
    /\ pc = "term" => HasTask /\ term.is # "nothing"

\* The reader loop never takes a fragment for a message: once it is out of step, the
\* connection is gone and it has consumed all that had arrived, so the line that a
\* lost connection cuts short is the last it returns.
ReadsNoFragments ==
    loop = "running" /\ ~intact => link # "up" /\ (link = "ended" => at = arrived)

\* No command is written before the server has accepted the password.
CommandsAfterOK == made > 0 => sent # << >> /\ Kind(sent[1]) = OK

\* A reply does not say whose it is: on a standing connection the replies that are
\* still to come are the one of the command that is awaited and no other, whatever
\* the tasks of earlier commands send in between.
Unread == {n \in taken + 1..Len(sent) : Kind(sent[n]) \in {OK, ERROR}}

OneReplyOwed ==
    intact /\ link = "up" /\ client \in {"connected", "entered"} /\ loop # "crashed" =>
        IF pc = "sync" /\ sync = Pending
        THEN \/ requests = <<[call |-> made, method |-> command.method]>> /\ Unread = {}
             \/ requests = << >> /\ \E n \in Unread : Unread = {n}
        ELSE requests = << >> /\ Unread = {}

\* The reply that makes a task and the one that ends it are whole messages of the
\* server, and the second is of that task: a line that a lost connection cuts short, which
\* receive() returns like any other, does neither.
IsSent(text) == \E n \in DOMAIN sent : sent[n] = text

TasksAreWhole ==
    /\ pc = "term" => IsSent(sync.text)
    /\ term.is = "reply" => IsSent(term.text) /\ TaskId(term.text) = TaskId(sync.text)

\* After "async with" nothing is left, however far a command had come: no reader, no
\* read under way, no socket, no server of one's own, no future that somebody awaits.
LeftIsQuiet ==
    client = "left" =>
        /\ loop # "running" /\ reading = "no" /\ socket = "closed" /\ ~owned
        /\ pc = "idle" /\ pending = None /\ sync # Pending /\ term # Pending

\* From its registration to its end each documented NOTE of a task is given once, as
\* what it is, to the callback that wants it, whatever came before it on the stream;
\* and nothing but NOTEs of the task is.
Wanted(is) ==
    IF is = "nodes_status"
    THEN command.method = "use_theories" /\ "nodes_status" \in command.callbacks
    ELSE "progress" \in command.callbacks

OwnNote(n) ==
    /\ Kind(sent[n]) = NOTE /\ Payload(sent[n]) # None
    /\ TaskId(sent[n]) = TaskId(sync.text)

NotesHeard ==
    intact =>
        /\ \A h \in heard : h.message \in registered + 1..taken /\ OwnNote(h.message)
        /\ term = Pending =>
            \A n \in registered + 1..taken :
                \A is \in {"TheoryProgress", "Message", "nodes_status"} :
                    OwnNote(n) /\ DocumentedNote(Payload(sent[n]), is) /\ Wanted(is)
                        => {h \in heard : h.message = n} = {[message |-> n, is |-> is]}

\* The server takes the arguments of a command for what its caller meant, those that
\* are left out included: the defaults are those of the documentation.
ArgsArrive ==
    command.method \in {"session_build", "session_start", "use_theories", "purge_theories"} =>
        \A key \in DOMAIN command.args :
            Get(command.wire, key, Get(Default, key, None)) =
                Meant(command.args, key)

\* A command whose task ends with a result as documented never fails to decode it.
DocumentedResultsDecode ==
    result.is = "key_error" => ~DocumentedResult(command.method, Payload(result.text))

\* While the reader loop runs, the immediate reply of a command, or the end of the
\* connection, reaches its caller: a reply over the limits, one that says nothing,
\* and the shutdown that is not answered included.
SyncCommandEnds == pc = "sync" /\ loop = "running" ~> pc # "sync"

\* The end of "async with" is reached.
ExitCompletes == client = "stopping" ~> client = "left"

=============================================================================
