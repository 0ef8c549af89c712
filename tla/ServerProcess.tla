---------------------------- MODULE ServerProcess ----------------------------
(***************************************************************************)
(* The lifecycle of the Isabelle server (class IsabelleServerProcess, and   *)
(* the part of IsabelleClient that picks and stops a server).               *)
(*                                                                         *)
(* Managers live in different operating system processes and share nothing  *)
(* but the servers: every question and every order goes through a command   *)
(* "isabelle server", which knows servers by name only.  The managers here  *)
(* are those of one name; a step is the code from one such command to the   *)
(* next, so that anything may happen between two of them.                   *)
(***************************************************************************)
EXTENDS Naturals, FiniteSets

CONSTANTS
    Plain,        \* managers without assume_existing and force_start
    Attaching,    \* managers with assume_existing
    Forcing,      \* managers with force_start
    Reusing,      \* managers that IsabelleClient.start(reuse_existing=True) makes
    Someone,      \* whoever starts a server without a manager
    MaxServers,   \* bound: server processes ever started
    Faults        \* which failures the environment may cause

Managers == Plain \cup Attaching \cup Forcing \cup Reusing
Servers == 1..MaxServers
NoServer == 0

ASSUME ManagersAssumption ==
    /\ Plain \cap (Attaching \cup Forcing \cup Reusing) = {}
    /\ Attaching \cap (Forcing \cup Reusing) = {} /\ Forcing \cap Reusing = {}
    /\ Someone \notin Managers
ASSUME ServersAssumption == MaxServers \in Nat
ASSUME FaultsAssumption == Faults \subseteq {"list", "spawn", "exit", "crash", "refuse", "someone"}

VARIABLES
    mode,     \* _assume_existing and _force_start
    pc,       \* the command the manager runs next; "idle" between two calls
    info,     \* _info: the server it names
    owns,     \* _owns_process
    child,    \* proc: the process that _wait_for_ready waits for
    queue,    \* result_q: what its thread has found
    state,    \* of each server process
    spawner,  \* who started it
    stopper,  \* the manager whose stop() ended it
    replacer, \* the manager whose force_start ended it
    refused,  \* the servers that were ordered to stop and did not
    line      \* the server named in the ready line it printed

managerVars == <<mode, pc, info, owns, child, queue>>
serverVars == <<state, spawner, stopper, replacer, refused, line>>
vars == <<managerVars, serverVars>>

-----------------------------------------------------------------------------
(* The servers of this name, as "isabelle server" treats them *)

\* What "isabelle server -l" lists under the name: one server, or none.
Listed == {p \in Servers : state[p] = "running"}
Known == IF Listed = {} THEN NoServer ELSE CHOOSE p \in Listed : TRUE

\* The process that the next Popen makes.
IsNext(p) == state[p] = "unused" /\ \A q \in Servers : q < p => state[q] # "unused"

\* A child starts to serve, if the name is free; else it names the one there is
\* and ends.  Both print the same kind of line.
Serves(p) ==
    /\ state[p] = "starting"
    /\ state' = [state EXCEPT ![p] = IF Listed = {} THEN "running" ELSE "dead"]
    /\ line' = [line EXCEPT ![p] = IF Listed = {} THEN p ELSE Known]
    /\ UNCHANGED <<managerVars, spawner, stopper, replacer, refused>>

Exits(p) ==
    /\ "exit" \in Faults /\ state[p] = "starting"
    /\ state' = [state EXCEPT ![p] = "dead"]
    /\ UNCHANGED <<managerVars, spawner, stopper, replacer, refused, line>>

\* A server goes away for reasons of its own.
Crashes(p) ==
    /\ "crash" \in Faults /\ state[p] = "running"
    /\ state' = [state EXCEPT ![p] = "dead"]
    /\ UNCHANGED <<managerVars, spawner, stopper, replacer, refused, line>>

\* The bound on server processes: one is kept for each start() under way.
Spare ==
    Cardinality({p \in Servers : state[p] = "unused"})
        > Cardinality({m \in Managers : pc[m] \in {"start", "replace", "poll", "spawn"}})

\* A server started by hand.
SomeoneStarts(p) ==
    /\ "someone" \in Faults /\ Spare /\ IsNext(p) /\ Listed = {}
    /\ state' = [state EXCEPT ![p] = "running"]
    /\ spawner' = [spawner EXCEPT ![p] = Someone]
    /\ UNCHANGED <<managerVars, stopper, replacer, refused, line>>

\* "isabelle server -x" ends whatever server has the name now, or fails to, which
\* the code does not look at (check=False).
StopListed(log, m) ==
    \/ /\ state' = [p \in Servers |-> IF p \in Listed THEN "dead" ELSE state[p]]
       /\ log' = [p \in Servers |-> IF p \in Listed THEN m ELSE log[p]]
       /\ UNCHANGED refused
    \/ /\ "refuse" \in Faults
       /\ refused' = refused \cup Listed
       /\ UNCHANGED <<state, log>>

-----------------------------------------------------------------------------
Init ==
    /\ mode = [m \in Managers |->
                 CASE m \in Plain -> "plain" [] m \in Attaching -> "attach"
                   [] m \in Forcing -> "force" [] OTHER -> "reuse"]
    /\ pc = [m \in Managers |-> "idle"]
    /\ info = [m \in Managers |-> NoServer]
    /\ owns = [m \in Managers |-> FALSE]
    /\ child = [m \in Managers |-> NoServer]
    /\ queue = [m \in Managers |-> "empty"]
    /\ state = [p \in Servers |-> "unused"]
    /\ spawner = [p \in Servers |-> Someone]
    /\ stopper = [p \in Servers |-> Someone]
    /\ replacer = [p \in Servers |-> Someone]
    /\ refused = {}
    /\ line = [p \in Servers |-> NoServer]

Goes(m, to) == pc' = [pc EXCEPT ![m] = to] /\ UNCHANGED <<child, queue>>

\* A call returns or raises; what was local to it is gone.
Ends(m) ==
    /\ pc' = [pc EXCEPT ![m] = "idle"]
    /\ child' = [child EXCEPT ![m] = NoServer]
    /\ queue' = [queue EXCEPT ![m] = "empty"]

\* "isabelle server -l" fails; in the first command of a call this changes nothing.
ListFails(m) ==
    /\ "list" \in Faults
    /\ pc[m] \in {"start", "poll"}
    /\ Ends(m)
    /\ UNCHANGED <<mode, info, owns, serverVars>>

-----------------------------------------------------------------------------
(* start() *)

\* IsabelleClient._resolve_server: attach to the server that runs, or replace it.
Resolve(m) ==
    /\ pc[m] = "idle" /\ mode[m] = "reuse" /\ Spare
    /\ mode' = [mode EXCEPT ![m] = IF Listed # {} THEN "attach" ELSE "force"]
    /\ Goes(m, "start")
    /\ UNCHANGED <<info, owns, serverVars>>

\* start() is called: by the client right after Resolve, once; by the owner of any
\* other manager whenever he likes.
Starting(m) == pc[m] = "start" \/ (pc[m] = "idle" /\ m \notin Reusing /\ Spare)

\* Mutant: an attached server is taken for one's own.
AttachOwning(m) ==
    /\ Starting(m) /\ mode[m] = "attach"
    /\ IF Listed = {}
         THEN Ends(m) /\ UNCHANGED <<info, owns>>
         ELSE /\ info' = [info EXCEPT ![m] = Known]
              /\ owns' = [owns EXCEPT ![m] = TRUE]
              /\ Ends(m)
    /\ UNCHANGED <<mode, serverVars>>

Attach(m) ==
    /\ Starting(m) /\ mode[m] = "attach"
    /\ IF Listed = {}
         THEN Ends(m) /\ UNCHANGED <<info, owns>>
         ELSE /\ info' = [info EXCEPT ![m] = Known]
              /\ owns' = [owns EXCEPT ![m] = FALSE]
              /\ Ends(m)
    /\ UNCHANGED <<mode, serverVars>>

Start(m) ==
    /\ Starting(m) /\ mode[m] \in {"plain", "force"}
    /\ IF Listed = {} THEN Goes(m, "spawn")
       ELSE IF mode[m] = "force" THEN Goes(m, "replace")
       ELSE Ends(m)
    /\ UNCHANGED <<mode, info, owns, serverVars>>

\* _stop_external: the order to stop, then is_running until it says no or 10 s
\* have passed.
Replace(m) ==
    /\ pc[m] = "replace"
    /\ StopListed(replacer, m)
    /\ Goes(m, "poll")
    /\ UNCHANGED <<mode, info, owns, spawner, stopper, line>>

Gone(m) ==
    /\ pc[m] = "poll" /\ Listed = {}
    /\ Goes(m, "spawn")
    /\ UNCHANGED <<mode, info, owns, serverVars>>

\* Mutant: only a server that is gone after all ends the wait.
GivesUpWhenGone(m) ==
    /\ pc[m] = "poll" /\ Listed = {}
    /\ Ends(m)
    /\ UNCHANGED <<mode, info, owns, serverVars>>

\* The clock may run out between the last look and the end of the server.
GivesUp(m) ==
    /\ pc[m] = "poll"
    /\ Ends(m)
    /\ UNCHANGED <<mode, info, owns, serverVars>>

\* _spawn: Popen, and the process counts as owned from here on.
Spawn(m) ==
    /\ pc[m] = "spawn"
    /\ \E p \in Servers :
          /\ IsNext(p)
          /\ state' = [state EXCEPT ![p] = "starting"]
          /\ spawner' = [spawner EXCEPT ![p] = m]
          /\ child' = [child EXCEPT ![m] = p]
    /\ owns' = [owns EXCEPT ![m] = TRUE]
    /\ pc' = [pc EXCEPT ![m] = "wait"]
    /\ UNCHANGED <<mode, info, queue, stopper, replacer, refused, line>>

\* Popen raises: what the manager named and owned before stays as it was.
SpawnFails(m) ==
    /\ "spawn" \in Faults
    /\ pc[m] = "spawn"
    /\ Ends(m)
    /\ UNCHANGED <<mode, info, owns, serverVars>>

\* The reader thread: the ready line, or the end of the output without one.
Reads(m) ==
    /\ pc[m] = "wait" /\ queue[m] = "empty"
    /\ \/ /\ line[child[m]] # NoServer
          /\ queue' = [queue EXCEPT ![m] = "info"]
       \/ /\ line[child[m]] = NoServer /\ state[child[m]] = "dead"
          /\ queue' = [queue EXCEPT ![m] = "exception"]
    /\ UNCHANGED <<mode, pc, info, owns, child, serverVars>>

Ready(m) ==
    /\ pc[m] = "wait" /\ queue[m] = "info"
    /\ info' = [info EXCEPT ![m] = line[child[m]]]
    /\ Ends(m)
    /\ UNCHANGED <<mode, owns, serverVars>>

\* Mutant: an exception from the thread is taken for the information.
ExitedEarlyAsInfo(m) ==
    /\ pc[m] = "wait" /\ queue[m] = "exception"
    /\ info' = [info EXCEPT ![m] = Someone]
    /\ Ends(m)
    /\ UNCHANGED <<mode, owns, serverVars>>

ExitedEarly(m) ==
    /\ pc[m] = "wait" /\ queue[m] = "exception"
    /\ Ends(m)
    /\ UNCHANGED <<mode, info, owns, serverVars>>

\* Mutant: the child is left to itself.
TimesOutAlive(m) ==
    /\ pc[m] = "wait" /\ queue[m] = "empty"
    /\ Ends(m)
    /\ UNCHANGED <<mode, info, owns, serverVars>>

\* queue.get times out and the child is killed, whatever it is up to.
TimesOut(m) ==
    /\ pc[m] = "wait" /\ queue[m] = "empty"
    /\ state' = [state EXCEPT ![child[m]] = "dead"]
    /\ Ends(m)
    /\ UNCHANGED <<mode, info, owns, spawner, stopper, replacer, refused, line>>

-----------------------------------------------------------------------------
(* stop() *)

Reset(m) ==
    /\ info' = [info EXCEPT ![m] = NoServer]
    /\ owns' = [owns EXCEPT ![m] = FALSE]

\* A server that is not owned is let go; an owned one is looked for by name.  Only
\* a client whose start() has returned can be asked for stop_server().
Stop(m) ==
    /\ pc[m] = "idle"
    /\ m \in Reusing => info[m] # NoServer
    /\ IF ~owns[m] \/ Listed = {}
         THEN Reset(m) /\ Ends(m)
         ELSE Goes(m, "stop") /\ UNCHANGED <<info, owns>>
    /\ UNCHANGED <<mode, serverVars>>

StopOrder(m) ==
    /\ pc[m] = "stop"
    /\ StopListed(stopper, m)
    /\ Reset(m) /\ Ends(m)
    /\ UNCHANGED <<mode, spawner, replacer, line>>

-----------------------------------------------------------------------------
\* What a manager does inside a call after its first command.
InCall(m) ==
    \/ Replace(m) \/ Gone(m) \/ GivesUp(m) \/ Spawn(m)
    \/ Reads(m) \/ Ready(m) \/ ExitedEarly(m) \/ TimesOut(m)
    \/ StopOrder(m)

Next ==
    \/ \E m \in Managers :
          Resolve(m) \/ Attach(m) \/ Start(m) \/ Stop(m) \/ ListFails(m) \/ SpawnFails(m)
          \/ InCall(m)
    \/ \E p \in Servers : Serves(p) \/ Exits(p) \/ Crashes(p) \/ SomeoneStarts(p)

Spec == Init /\ [][Next]_vars

\* A caller runs its call to the end, and a wait with a deadline reaches it.
FairSpec ==
    Spec /\ \A m \in Managers :
               WF_vars(InCall(m) \/ (pc[m] = "start" /\ (Attach(m) \/ Start(m))))

-----------------------------------------------------------------------------
(* Properties *)

TypeOK ==
    /\ mode \in [Managers -> {"plain", "attach", "force", "reuse"}]
    /\ pc \in [Managers -> {"idle", "start", "replace", "poll", "spawn", "wait", "stop"}]
    /\ info \in [Managers -> Servers \cup {NoServer}]
    /\ owns \in [Managers -> BOOLEAN]
    /\ child \in [Managers -> Servers \cup {NoServer}]
    /\ queue \in [Managers -> {"empty", "info", "exception"}]
    /\ state \in [Servers -> {"unused", "starting", "running", "dead"}]
    /\ spawner \in [Servers -> Managers \cup {Someone}]
    /\ stopper \in [Servers -> Managers \cup {Someone}]
    /\ replacer \in [Servers -> Managers \cup {Someone}]
    /\ refused \subseteq Servers
    /\ line \in [Servers -> Servers \cup {NoServer}]

\* No server is left behind: one that a manager has spawned and that is still
\* alive is the one its start() waits for, or the owned one that stop() will look
\* for; in particular a start() that times out, fails or is raced by another
\* manager leaves no process (lines 284, 350, 356).
NoOrphans ==
    \A p \in Servers : \A m \in Managers :
        spawner[p] = m /\ state[p] \in {"starting", "running"} /\ p \notin refused =>
            owns[m] /\ (info[m] = p \/ (pc[m] = "wait" /\ child[m] = p))

\* A manager whose stop() has ended a server has started one that has ended since,
\* the same or an earlier one: a manager that has only attached ends none, however
\* its calls and those of the others interleave.
StopSparesOthers ==
    \A p \in Servers : \A m \in Managers :
        stopper[p] = m => \E q \in Servers : spawner[q] = m /\ state[q] = "dead"

\* Every call ends: both waits have a deadline.
CallsEnd == \A m \in Managers : pc[m] # "idle" ~> pc[m] = "idle"

-----------------------------------------------------------------------------
(* What the docstrings say, and the code does not do *)

\* stop: "Stop the server if we own it, otherwise just detach".
StopsOwnServer ==
    \A p \in Servers : stopper[p] # Someone => spawner[p] = stopper[p]

\* IsabelleClient.start: "If True, attach to a running server with the given name
\* instead of starting a new one."
ReuseReplacesNone ==
    \A p \in Servers : replacer[p] \notin Reusing

=============================================================================
