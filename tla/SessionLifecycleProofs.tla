------------------------ MODULE SessionLifecycleProofs ------------------------
(***************************************************************************)
(* What a session holds: IsabelleSession takes and gives back its server,     *)
(* socket, reader and session as SessionLifecycle says, and its commands are  *)
(* the independent calls that IndependentCalls describes.                    *)
(***************************************************************************)
EXTENDS SessionProofs, IndependentCallsProofs

-----------------------------------------------------------------------------
(* Opening *)

\* How far each stage of opening has come, and that only session_start has been
\* issued before the session is there.
CallsInv ==
  /\ \A c \in Calls : pc[c] # "idle" =>
        client = "open" \/ (c = Opening /\ client \in {"opening", "failed"})
  /\ pc[Opening] \in Suspended => client = "opening"
  /\ pc[Opening] = "returned" => syncFut[Opening].state # "none"

StageInv ==
  /\ client = "new" => server = "none"
  /\ client \in {"new", "server"} => transport = "none"
  /\ client \in {"handshake", "connected", "reading", "opening"} => transport = "open"
  /\ client \in {"new", "server", "handshake", "connected"} => reader = "none"
  /\ method[Opening] # "purge"

LifeInv == SessionInv /\ CallsInv /\ StageInv

\* A method that goes on, or a close() that has been called, is one of an open session.
LEMMA OnOpenSession ==
  ASSUME LifeInv
  PROVE  /\ \A u \in Loads : u \in Resuming => client = "open"
         /\ \A k \in Closers : k \in Resuming \/ method[k] # "idle" => client = "open"
         /\ \A k \in Closers : pc[k] = "returned" =>
               client = "open" /\ closed /\ syncFut[k].state # "none"
<1> USE DEF LifeInv, SessionInv
<1>1. \A k \in Closers : method[k] # "idle" => client = "open"
  BY DEF CloserInv
<1>2. \A k \in Closers : k \in Resuming => method[k] # "idle"
  BY DEF Resuming
<1>3. ASSUME NEW u \in Loads, u \in Resuming PROVE client = "open"
  <2>1. u \in Calls /\ u # Opening
    BY CommandsAreCalls, ClosersApart
  <2>2. CASE method[u] = "command"
    BY <1>3, <2>1, <2>2 DEF Resuming, CallsInv, Ended
  <2>3. CASE method[u] = "purge"
    <3>1. pc[PurgeOf[u]] \in Ended /\ PurgeOf[u] \in Calls /\ PurgeOf[u] # Opening
      BY <1>3, <2>3, CommandsAreCalls, SessionAssumption, CallsAssumption DEF Resuming, Calls
    <3>2. QED
      BY <3>1 DEF CallsInv, Ended
  <2>4. QED
    BY <1>3, <2>2, <2>3 DEF Resuming
<1>4. \A k \in Closers : pc[k] = "returned" =>
        client = "open" /\ closed /\ syncFut[k].state # "none"
  BY DEF CloserInv
<1>5. QED
  BY <1>1, <1>2, <1>3, <1>4

\* The calls keep to the stages when none is issued.
LEMMA CallsKeep ==
  ASSUME LifeInv, UNCHANGED client, Rests \/ \E c \in Calls : Proceeds(c)
  PROVE  CallsInv'
<1> USE DEF LifeInv, SessionInv, IInv, CallsInv
<1>1. Opening \in Calls /\ Opening \in AsyncCalls
  BY CommandsAreCalls, SessionAssumption
<1>2. CASE Rests
  BY <1>1, <1>2 DEF Rests
<1>3. ASSUME NEW c \in Calls, Proceeds(c) PROVE CallsInv'
  <2>1. PICK to \in Suspended \cup Ended :
           pc' = [pc EXCEPT ![c] = to] /\ (c \in AsyncCalls /\ to = "returned" => pc[c] = "term")
    BY <1>3, ProceedMoves
  <2>2. pc[c] \in Suspended /\ pc[c] # "idle"
    BY <1>3, ProceedMoves DEF Suspended
  <2>3. \A d \in Calls : syncFut[d].state # "none" => syncFut'[d].state # "none"
    BY <1>3, ProceedMoves
  <2>4. \A d \in Calls : pc'[d] = IF d = c THEN to ELSE pc[d]
    BY <2>1 DEF TypeOK
  <2>5. pc'[Opening] = "returned" => syncFut[Opening].state # "none"
    <3>1. pc[Opening] = "term" => syncFut[Opening].state # "none"
      BY <1>1 DEF SyncInv, HasTask
    <3>2. QED
      BY <1>1, <2>1, <2>4, <3>1
  <2>6. QED
    BY <1>1, <2>2, <2>3, <2>4, <2>5
<1>4. QED
  BY <1>2, <1>3

\* A command is issued on an open session, or is the session_start that opens it.
LEMMA CallsIssued ==
  ASSUME LifeInv, NEW d \in Calls, Enter(d),
         \/ d # Opening /\ client = "open" /\ client' = "open"
         \/ d = Opening /\ client = "reading" /\ client' = "opening"
  PROVE  CallsInv'
<1> USE DEF LifeInv, SessionInv, IInv, CallsInv
<1>1. Opening \in Calls
  BY CommandsAreCalls
<1>2. PICK to \in Suspended \cup Ended : to # "returned" /\ pc' = [pc EXCEPT ![d] = to]
  BY EnterMoves
<1>3. \A c \in Calls : pc'[c] = IF c = d THEN to ELSE pc[c]
  BY <1>2 DEF TypeOK
<1>4. \A c \in Calls : c # d => syncFut'[c] = syncFut[c]
  BY EnterMoves
<1>5. CASE d = Opening
  <2>1. \A c \in Calls : pc[c] = "idle"
    BY <1>5
  <2>2. QED
    BY <1>1, <1>2, <1>3, <1>5, <2>1
<1>6. CASE d # Opening
  <2>1. pc[Opening] \notin Suspended
    BY <1>6
  <2>2. QED
    BY <1>1, <1>2, <1>3, <1>4, <1>6, <2>1
<1>7. QED
  BY <1>5, <1>6

\* What is issued, and by whom.
LEMMA CallIsEntered == \A c \in Calls : Call(c) \/ Issues(c) => Enter(c) /\ UNCHANGED reader
  BY DEF Call, Issues, CallFromNote, Enter

LEMMA IssueFacts ==
  ASSUME LifeInv, NEW c \in Calls,
         \/ c \in Commands /\ Invoke(c)
         \/ c \in Closers /\ CloseCalled(c)
         \/ c \in Loads /\ Purging(c)
  PROVE  /\ client = "open" /\ UNCHANGED <<client, server, transport>>
         /\ \/ UNCHANGED vars
            \/ ~closed /\ \E d \in Calls \ {Opening} : Enter(d) /\ UNCHANGED reader
         /\ method'[Opening] = method[Opening]
<1>1. CASE c \in Commands /\ Invoke(c)
  BY <1>1, CommandsAreCalls, ClosersApart, CallIsEntered DEF Invoke, Goes, LifeInv, SessionInv, SessionTypeOK
<1>2. CASE c \in Closers /\ CloseCalled(c)
  BY <1>2, CommandsAreCalls, ClosersApart, CallIsEntered
     DEF CloseCalled, Goes, LifeInv, SessionInv, SessionTypeOK
<1>3. CASE c \in Loads /\ Purging(c)
  <2>1. client = "open"
    BY <1>3, OnOpenSession DEF Purging
  <2>2. PurgeOf[c] \in Calls \ {Opening}
    BY <1>3, CommandsAreCalls, SessionAssumption, CallsAssumption DEF Calls
  <2>3. c # Opening
    BY <1>3, ClosersApart
  <2>4. UNCHANGED <<client, server, transport>> /\ method'[Opening] = method[Opening]
    BY <1>3, <2>3, CommandsAreCalls DEF Purging, Goes, LifeInv, SessionInv, SessionTypeOK
  <2>5. UNCHANGED vars \/ (~closed /\ Call(PurgeOf[c]))
    BY <1>3 DEF Purging
  <2>6. Call(PurgeOf[c]) => Enter(PurgeOf[c]) /\ UNCHANGED reader
    BY <2>2, CallIsEntered
  <2>7. QED
    BY <2>1, <2>2, <2>4, <2>5, <2>6
<1>4. QED
  BY <1>1, <1>2, <1>3

\* The steps of a method that issue nothing.
LEMMA MethodFacts ==
  ASSUME LifeInv, NEW c \in Calls, MethodStep(c) \/ (c \in Closers /\ CloseCancelled(c)),
         ~(c \in Loads /\ Purging(c))
  PROVE  /\ \/ UNCHANGED <<vars, client, server, transport>>
            \/ /\ c \in Closers /\ (StopsDispatcher(c) \/ DispatcherStopped(c))
               /\ client = "open" /\ UNCHANGED <<client, server, transport>>
            \/ /\ c \in Closers /\ (TransportClosed(c) \/ CloseCancelled(c))
               /\ client = "open" /\ UNCHANGED client
         /\ method'[Opening] # "purge"
<1> USE DEF LifeInv, SessionInv, SessionTypeOK, StageInv
<1>1. CASE c \in Commands /\ Answered(c)
  <2>1. c # Opening
    BY <1>1, ClosersApart
  <2>2. QED
    BY <1>1, <2>1, CommandsAreCalls DEF Answered, Goes
<1>2. CASE c \in Loads /\ Purged(c)
  <2>1. c # Opening
    BY <1>2, ClosersApart
  <2>2. QED
    BY <1>2, <2>1, CommandsAreCalls DEF Purged, Goes
<1>3. CASE c \in Closers /\ StopFailed(c)
  <2>1. c # Opening
    BY <1>3, ClosersApart
  <2>2. QED
    BY <1>3, <2>1, CommandsAreCalls DEF StopFailed, Goes
<1>4. CASE c \in Closers /\ (StopsDispatcher(c) \/ DispatcherStopped(c))
  <2>1. c # Opening
    BY <1>4, ClosersApart
  <2>2. client = "open"
    BY <1>4, OnOpenSession DEF StopsDispatcher, DispatcherStopped
  <2>3. method'[Opening] = method[Opening]
    BY <1>4, <2>1, CommandsAreCalls DEF StopsDispatcher, DispatcherStopped, Goes
  <2>4. QED
    BY <1>4, <2>2, <2>3 DEF StopsDispatcher, DispatcherStopped
<1>5. CASE c \in Closers /\ (TransportClosed(c) \/ CloseCancelled(c))
  <2>1. c # Opening
    BY <1>5, ClosersApart
  <2>2. client = "open"
    BY <1>5, OnOpenSession DEF TransportClosed, CloseCancelled
  <2>3. method'[Opening] = method[Opening]
    BY <1>5, <2>1, CommandsAreCalls DEF TransportClosed, CloseCancelled, Goes
  <2>4. QED
    BY <1>5, <2>2, <2>3 DEF TransportClosed, CloseCancelled
<1>6. QED
  BY <1>1, <1>2, <1>3, <1>4, <1>5 DEF MethodStep

\* A reader ends by a crash or by its cancellation.
LEMMA ReaderEndsHow ==
  ASSUME LoopStep \/ ServerStep \/ UNCHANGED allVars, ~UNCHANGED reader
  PROVE  ReaderCrashes \/ ReaderCancelled
<1>1. ASSUME NEW c \in Calls, CallStep(c) \/ Cancel(c) PROVE UNCHANGED reader
  BY <1>1 DEF CallStep, Granted, Drained, Concludes, Accepted, Registers, Completed, Cancel, readerVars
<1>2. ASSUME DispatchSync \/ DispatchNote \/ DispatchTerminal \/ NoteDone PROVE UNCHANGED reader
  <2>1. Receives => UNCHANGED reader
    BY DEF Receives
  <2>2. QED
    BY <1>2, <2>1 DEF DispatchSync, DispatchNote, DispatchTerminal, NoteDone
<1>3. ASSUME Serve \/ Close \/ Garble \/ UNCHANGED allVars PROVE UNCHANGED reader
  BY <1>3 DEF Serve, Close, Garble, readerVars, allVars, vars
<1>4. ASSUME NEW c \in AsyncCalls, Notes(c) \/ Finishes(c) PROVE UNCHANGED reader
  BY <1>4 DEF Notes, Finishes, readerVars
<1>5. QED
  BY <1>1, <1>2, <1>3, <1>4 DEF LoopStep, ServerStep, ReaderStep

\* The event loop and the server start no reader and replace none.
LEMMA LoopKeepsReader ==
  ASSUME LoopStep \/ ServerStep \/ UNCHANGED allVars
  PROVE  /\ UNCHANGED <<client, server, transport, method>>
         /\ \/ UNCHANGED reader
            \/ reader \in {"running", "cancelling"} /\ reader' = "done"
<1>1. UNCHANGED <<client, server, transport, method>>
  BY DEF LoopStep, ServerStep, allVars, sessionVars
<1>2. ReaderCrashes \/ ReaderCancelled => reader \in {"running", "cancelling"} /\ reader' = "done"
  BY DEF ReaderCrashes, ReaderCancelled
<1>3. QED
  BY <1>1, <1>2, ReaderEndsHow

-----------------------------------------------------------------------------
(* The invariant *)

LEMMA LifeStep ==
  ASSUME LifeInv, [SessionNext]_allVars
  PROVE  CallsInv' /\ StageInv'
<1> USE DEF LifeInv, SessionInv, IInv
<1>1. CASE ServerStarts \/ Connects \/ Handshakes
  <2>1. UNCHANGED <<pc, syncFut, reader, method>> /\ client \in {"new", "server", "handshake"}
    BY <1>1 DEF ServerStarts, Connects, Handshakes, vars, clientVars, readerVars
  <2>2. CallsInv'
    BY <2>1, CommandsAreCalls DEF CallsInv, Suspended
  <2>3. StageInv'
    BY <1>1, <2>1 DEF StageInv, ServerStarts, Connects, Handshakes
  <2>4. QED
    BY <2>2, <2>3
<1>2. CASE StartReader
  <2>1. UNCHANGED <<pc, syncFut, method, transport>> /\ client = "connected" /\ client' = "reading"
    BY <1>2 DEF StartReader, Start, clientVars
  <2>2. QED
    BY <2>1, CommandsAreCalls DEF CallsInv, StageInv, Suspended
<1>3. CASE Opens
  <2>1. Enter(Opening) /\ client = "reading" /\ client' = "opening" /\ UNCHANGED transport
    BY <1>3, CommandsAreCalls, CallIsEntered DEF Opens
  <2>2. method'[Opening] = "command"
    BY <1>3, CommandsAreCalls DEF Opens, Goes, SessionTypeOK
  <2>3. QED
    BY <2>1, <2>2, CommandsAreCalls, CallsIssued DEF StageInv
<1>4. CASE Opened
  <2>1. /\ UNCHANGED <<pc, syncFut>> /\ client = "opening"
        /\ client' \in {"open", "failed"} /\ (pc[Opening] # "returned" => client' = "failed")
        /\ pc[Opening] \in Ended /\ (pc[Opening] = "returned" => client' = "open")
    BY <1>4 DEF Opened, Resuming, CloserInv, StageInv, vars, clientVars
  <2>2. method'[Opening] # "purge"
    BY <1>4, CommandsAreCalls DEF Opened, Goes, SessionTypeOK
  <2>3. pc[Opening] \notin Suspended
    BY <2>1 DEF Ended, Suspended
  <2>4. QED
    BY <2>1, <2>2, <2>3, CommandsAreCalls DEF CallsInv, StageInv
<1>5. ASSUME NEW c \in Calls,
             \/ c \in Commands /\ Invoke(c)
             \/ c \in Closers /\ CloseCalled(c)
             \/ c \in Loads /\ Purging(c)
      PROVE  CallsInv' /\ StageInv'
  <2>1. client = "open" /\ client' = "open" /\ method'[Opening] = method[Opening]
    BY <1>5, IssueFacts
  <2>2. CASE UNCHANGED vars
    BY <2>1, <2>2 DEF CallsInv, StageInv, vars, clientVars
  <2>3. ASSUME NEW d \in Calls \ {Opening}, Enter(d) PROVE CallsInv'
    BY <2>1, <2>3, CallsIssued
  <2>4. QED
    BY <1>5, <2>1, <2>2, <2>3, IssueFacts DEF StageInv
<1>6. ASSUME NEW c \in Calls, MethodStep(c) \/ (c \in Closers /\ CloseCancelled(c)),
             ~(c \in Loads /\ Purging(c))
      PROVE  CallsInv' /\ StageInv'
  <2>1. method'[Opening] # "purge"
    BY <1>6, MethodFacts
  <2>2. CASE UNCHANGED <<vars, client, server, transport>>
    BY <2>1, <2>2 DEF CallsInv, StageInv, vars, clientVars, readerVars
  <2>3. CASE ~UNCHANGED <<vars, client, server, transport>>
    <3>1. client = "open" /\ UNCHANGED client
      BY <1>6, <2>3, MethodFacts
    <3>2. StopBegins \/ StopEnds \/ Close \/ UNCHANGED vars
      BY <1>6, <2>3, MethodFacts DEF StopsDispatcher, DispatcherStopped, TransportClosed, CloseCancelled
    <3>3. QED
      BY <2>1, <3>1, <3>2, LoopProceeds, CallsKeep DEF StageInv
  <2>4. QED
    BY <2>2, <2>3
<1>7. CASE LoopStep \/ ServerStep \/ UNCHANGED allVars
  <2>1. Rests \/ \E c \in Calls : Proceeds(c)
    BY <1>7, LoopProceeds DEF allVars
  <2>2. QED
    BY <1>7, <2>1, LoopKeepsReader, CallsKeep DEF StageInv
<1>8. QED
  BY <1>1, <1>2, <1>3, <1>4, <1>5, <1>6, <1>7, CommandsAreCalls DEF SessionNext, MethodStep

\* The invariant holds in every state of a session.
THEOREM LifeInductive == SessionSpec => []LifeInv
<1>1. SessionInit => CallsInv /\ StageInv
  BY CommandsAreCalls DEF SessionInit, Init, CallsInv, StageInv, Suspended
<1>2. SessionInv /\ CallsInv /\ StageInv /\ [SessionNext]_allVars => CallsInv' /\ StageInv'
  BY LifeStep DEF LifeInv
<1>3. QED
  BY <1>1, <1>2, SessionInductive, PTL DEF SessionSpec, LifeInv

-----------------------------------------------------------------------------
(* The refinement *)

\* The session has been started and session_stop has not returned.
Standing == client = "open" /\ \A k \in Closers : pc[k] # "returned"

LEMMA HeldIs ==
  /\ \A r : r \in Held <=>
        \/ r = "server" /\ server = "owning"
        \/ r = "socket" /\ transport = "open"
        \/ r = "reader" /\ reader \in {"running", "cancelling"}
        \/ r = "session" /\ Standing
  /\ \A r : r \in Held' <=>
        \/ r = "server" /\ server' = "owning"
        \/ r = "socket" /\ transport' = "open"
        \/ r = "reader" /\ reader' \in {"running", "cancelling"}
        \/ r = "session" /\ Standing'
  BY DEF Held, Standing

LEMMA HeldStays ==
  ASSUME UNCHANGED <<server, transport, reader>>, Standing' <=> Standing
  PROVE  UNCHANGED Held
  BY HeldIs

LEMMA SentStays == Rests => UNCHANGED Sent
  BY DEF Rests, Sent

\* Before session_start nothing has been sent, and after it nothing else until it ends.
LEMMA SentFirst ==
  ASSUME LifeInv
  PROVE  /\ client \notin {"opening", "open", "failed"} => Sent = {}
         /\ client # "open" => Sent \subseteq {Opening}
         /\ Lifecycle!Stopping <=> \E k \in Closers : syncFut[k].state # "none"
<1> USE DEF LifeInv, SessionInv, IInv
<1>1. \A c \in Calls : syncFut[c].state # "none" => pc[c] # "idle"
  BY DEF SyncInv
<1>2. QED
  BY <1>1, CommandsAreCalls DEF CallsInv, Sent, Lifecycle!Stopping

\* A step that moves no call to "returned" takes no session away.
LEMMA StandingStays ==
  ASSUME UNCHANGED client, \A k \in Closers : pc'[k] = "returned" <=> pc[k] = "returned"
  PROVE  Standing' <=> Standing
  BY DEF Standing

\* A command that is issued is sent at once or queues: on an open session that is not
\* being stopped, or session_start.
LEMMA IssueIsSend ==
  ASSUME LifeInv, NEW d \in Calls \ {Opening}, Enter(d), ~closed, client = "open",
         UNCHANGED <<client, server, transport, reader>>
  PROVE  [Lifecycle!Next]_Lifecycle!vars
<1> USE DEF LifeInv, SessionInv, IInv
<1>1. \A k \in Closers : pc[k] = "idle" /\ syncFut[k].state = "none"
  BY CommandsAreCalls DEF CloserInv, SyncInv
<1>2. Standing /\ ~Lifecycle!Stopping
  BY <1>1, SentFirst DEF Standing
<1>3. \A c \in Calls : pc[c] = "returned" <=> pc'[c] = "returned"
  BY EnterMoves DEF TypeOK
<1>4. UNCHANGED Held
  BY <1>3, CommandsAreCalls, StandingStays, HeldStays
<1>5. d \notin Sent /\ "session" \in Held
  BY <1>2, EnterMoves, HeldIs DEF Sent, SyncInv
<1>6. Sent' = Sent \/ Sent' = Sent \cup {d}
  <2>1. \A c \in Calls : c # d => syncFut'[c] = syncFut[c]
    BY EnterMoves
  <2>2. syncFut[d].state = "none"
    BY EnterMoves DEF SyncInv
  <2>3. CASE syncFut'[d].state = "none"
    BY <2>1, <2>2, <2>3 DEF Sent
  <2>4. CASE syncFut'[d].state # "none"
    BY <2>1, <2>4 DEF Sent
  <2>5. QED
    BY <2>3, <2>4
<1>7. d \in (Calls \ ({Opening} \cup Closers)) \cup Closers
  OBVIOUS
<1>8. QED
  BY <1>2, <1>4, <1>5, <1>6, <1>7 DEF Lifecycle!Next, Lifecycle!Send, Lifecycle!vars

\* session_start is sent when nothing has been.
LEMMA StartIsSend ==
  ASSUME LifeInv, client \in {"reading", "opening"}, Sent = {}, transport = "open",
         UNCHANGED <<server, transport, reader>>, client' \in {"reading", "opening"},
         \A c \in Calls : c # Opening => syncFut'[c] = syncFut[c]
  PROVE  [Lifecycle!Next]_Lifecycle!vars
<1>1. UNCHANGED Held
  <2>1. ~Standing /\ ~Standing'
    BY DEF Standing
  <2>2. QED
    BY <2>1, HeldStays
<1>2. Sent' = {} \/ Sent' = {Opening}
  BY CommandsAreCalls DEF Sent
<1>3. "socket" \in Held
  BY HeldIs
<1>4. QED
  BY <1>1, <1>2, <1>3 DEF Lifecycle!Next, Lifecycle!SendStart, Lifecycle!vars

\* A call that goes on is sent, or returns from session_stop, or neither.
LEMMA ProceedImplements ==
  ASSUME LifeInv, [SessionNext]_allVars, NEW c \in Calls, Proceeds(c),
         UNCHANGED <<client, server, transport, reader>>
  PROVE  [Lifecycle!Next]_Lifecycle!vars
<1> USE DEF LifeInv, SessionInv, IInv
<1>1. PICK to \in Suspended \cup Ended : pc' = [pc EXCEPT ![c] = to]
  BY ProceedMoves
<1>2. pc[c] \in Suspended /\ \A d \in Calls : d # c => syncFut'[d] = syncFut[d] /\ pc'[d] = pc[d]
  BY <1>1, ProceedMoves DEF TypeOK
<1>3. CASE pc[c] = "lock" /\ Holds(c) /\ Transmit(c, lockq)
  <2>1. pc'[c] # "returned" /\ pc[c] # "returned" /\ syncFut[c].state = "none" /\ syncFut'[c].state # "none"
    BY <1>3 DEF Transmit, TypeOK, SyncInv, NewFuture
  <2>2. CASE c = Opening
    <3>1. client = "opening"
      BY <1>2, <2>2 DEF CallsInv
    <3>2. Sent = {} /\ transport = "open"
      BY <2>1, <2>2, <3>1, SentFirst DEF Sent, StageInv
    <3>3. QED
      BY <1>2, <2>2, <3>1, <3>2, StartIsSend
  <2>3. CASE c # Opening
    <3>1. \A k \in Closers : syncFut[k].state = "none"
      BY <2>1, SentLast
    <3>2. client = "open"
      BY <1>3, <2>3 DEF CallsInv
    <3>3. Standing /\ ~Lifecycle!Stopping
      BY <3>1, <3>2, SentFirst, OnOpenSession DEF Standing
    <3>4. UNCHANGED Held
      <4>1. \A k \in Closers : pc'[k] = "returned" <=> pc[k] = "returned"
        BY <1>2, <2>1, CommandsAreCalls
      <4>2. QED
        BY <4>1, StandingStays, HeldStays
    <3>5. c \notin Sent /\ Sent' = Sent \cup {c} /\ "session" \in Held
      BY <1>2, <2>1, <3>3, HeldIs DEF Sent
    <3>6. c \in (Calls \ ({Opening} \cup Closers)) \cup Closers
      BY <2>3
    <3>7. QED
      BY <3>3, <3>4, <3>5, <3>6 DEF Lifecycle!Next, Lifecycle!Send
  <2>4. QED
    BY <2>2, <2>3
<1>4. CASE ~(pc[c] = "lock" /\ Holds(c) /\ Transmit(c, lockq))
  <2>1. syncFut'[c].state = "none" <=> syncFut[c].state = "none"
    <3>1. CASE CancelCall(c)
      BY <3>1 DEF CancelCall, SyncInv, TypeOK, Without
    <3>2. QED
      BY <1>4, <3>1 DEF Proceeds
  <2>2. UNCHANGED Sent
    BY <1>2, <2>1 DEF Sent
  <2>3. CASE Standing' <=> Standing
    BY <2>2, <2>3, HeldStays DEF Lifecycle!vars
  <2>4. CASE ~(Standing' <=> Standing)
    <3>1. c \in Closers /\ to = "returned" /\ Standing /\ ~Standing'
      BY <1>1, <1>2, <2>4, CommandsAreCalls DEF Standing, Suspended, TypeOK
    <3>2. pc'[c] = "returned"
      BY <1>1, <3>1 DEF TypeOK
    <3>3. syncFut[c].state # "none"
      <4>1. CloserInv'
        BY CloserStep
      <4>2. QED
        BY <2>1, <3>1, <3>2, <4>1 DEF CloserInv
    <3>4. Lifecycle!Stopping
      BY <3>1, <3>3, SentFirst
    <3>5. "session" \in Held /\ Held' = Held \ {"session"}
      BY <3>1, HeldIs
    <3>6. QED
      BY <2>2, <3>4, <3>5 DEF Lifecycle!Next, Lifecycle!SessionEnded
  <2>5. QED
    BY <2>3, <2>4
<1>5. QED
  BY <1>3, <1>4

\* What each step of the session does to what is held.
LEMMA OpeningImplements ==
  ASSUME LifeInv, ServerStarts \/ Connects \/ Handshakes \/ StartReader \/ Opens \/ Opened
  PROVE  [Lifecycle!Next]_Lifecycle!vars
<1> USE DEF LifeInv, SessionInv, IInv
<1>1. CASE ServerStarts \/ Connects \/ Handshakes
  <2>1. UNCHANGED <<reader, pc, syncFut>> /\ client \in {"new", "server", "handshake"}
        /\ client' \in {"server", "handshake", "connected", "failed"}
    BY <1>1 DEF ServerStarts, Connects, Handshakes, vars, clientVars, readerVars
  <2>2. ~Standing /\ ~Standing' /\ reader = "none" /\ reader' = "none"
    BY <2>1 DEF Standing, StageInv
  <2>3. Sent = {} /\ UNCHANGED Sent
    BY <2>1, SentFirst DEF Sent
  <2>4. CASE ServerStarts
    <3>1. Held = {} /\ (Held' = {"server"} \/ Held' = Held)
      BY <2>2, <2>4, HeldIs DEF StageInv, ServerStarts
    <3>2. QED
      BY <2>3, <3>1 DEF Lifecycle!Next, Lifecycle!TakeServer, Lifecycle!Take, Lifecycle!vars
  <2>5. CASE Connects
    <3>1. Held \subseteq {"server"} /\ (Held' = Held \cup {"socket"} \/ Held' = Held)
      BY <2>2, <2>5, HeldIs DEF StageInv, Connects
    <3>2. QED
      BY <2>3, <3>1 DEF Lifecycle!Next, Lifecycle!TakeSocket, Lifecycle!Take, Lifecycle!vars
  <2>6. CASE Handshakes
    <3>1. "reader" \notin Held /\ (Held' = Held \ {"socket"} \/ Held' = Held)
      BY <2>2, <2>6, HeldIs DEF Handshakes
    <3>2. QED
      BY <2>3, <3>1 DEF Lifecycle!Next, Lifecycle!Refused, Lifecycle!vars
  <2>7. QED
    BY <1>1, <2>4, <2>5, <2>6
<1>2. CASE StartReader
  <2>1. /\ UNCHANGED <<pc, syncFut, server, transport>> /\ client = "connected" /\ client' = "reading"
        /\ reader' = "running"
    BY <1>2 DEF StartReader, Start, clientVars
  <2>2. ~Standing /\ ~Standing' /\ reader = "none" /\ transport = "open"
    BY <2>1 DEF Standing, StageInv
  <2>3. Sent = {} /\ UNCHANGED Sent
    BY <2>1, SentFirst DEF Sent
  <2>4. "socket" \in Held /\ "reader" \notin Held /\ Held' = Held \cup {"reader"}
    BY <2>1, <2>2, HeldIs
  <2>5. QED
    BY <2>3, <2>4 DEF Lifecycle!Next, Lifecycle!TakeReader, Lifecycle!Take
<1>3. CASE Opens
  <2>1. Enter(Opening) /\ UNCHANGED <<server, transport, reader>>
        /\ client = "reading" /\ client' = "opening"
    BY <1>3, CommandsAreCalls, CallIsEntered DEF Opens
  <2>2. Sent = {} /\ transport = "open"
    BY <2>1, SentFirst DEF StageInv
  <2>3. QED
    BY <2>1, <2>2, CommandsAreCalls, EnterMoves, StartIsSend
<1>4. CASE Opened
  <2>1. /\ UNCHANGED <<pc, syncFut, reader, server, transport>> /\ client = "opening"
        /\ client' = IF pc[Opening] = "returned" THEN "open" ELSE "failed"
    BY <1>4 DEF Opened, Resuming, CloserInv, StageInv, vars, clientVars, readerVars
  <2>2. ~Standing /\ UNCHANGED Sent
    BY <2>1 DEF Standing, Sent
  <2>3. CASE client' = "open"
    <3>1. \A k \in Closers : pc[k] = "idle"
      BY <2>1, CommandsAreCalls, ClosersApart DEF CallsInv
    <3>2. Standing'
      BY <2>1, <2>3, <3>1 DEF Standing
    <3>3. Sent = {Opening}
      <4>1. syncFut[Opening].state # "none"
        BY <2>1, <2>3 DEF CallsInv
      <4>2. QED
        BY <2>1, <4>1, SentFirst, CommandsAreCalls DEF Sent
    <3>4. Held' = Held \cup {"session"}
      BY <2>1, <3>2, HeldIs
    <3>5. QED
      BY <2>2, <3>3, <3>4 DEF Lifecycle!Next, Lifecycle!SessionStarted
  <2>4. CASE client' # "open"
    <3>1. ~Standing'
      BY <2>4 DEF Standing
    <3>2. QED
      BY <2>1, <2>2, <3>1, HeldStays DEF Lifecycle!vars
  <2>5. QED
    BY <2>3, <2>4
<1>5. QED
  BY <1>1, <1>2, <1>3, <1>4

LEMMA ClosingImplements ==
  ASSUME LifeInv, NEW k \in Closers, client = "open", UNCHANGED client,
         \/ (StopsDispatcher(k) \/ DispatcherStopped(k)) /\ UNCHANGED <<server, transport>>
         \/ TransportClosed(k) \/ CloseCancelled(k)
  PROVE  [Lifecycle!Next]_Lifecycle!vars
<1> USE DEF LifeInv, SessionInv, IInv
<1>1. UNCHANGED pc
  BY DEF StopsDispatcher, StopBegins, DispatcherStopped, StopEnds, TransportClosed, CloseCancelled,
         Close, vars, clientVars
<1>2. Standing' <=> Standing
  BY <1>1 DEF Standing
<1>3. CASE (StopsDispatcher(k) \/ DispatcherStopped(k)) /\ UNCHANGED <<server, transport>>
  <2>1. UNCHANGED Sent
    <3>1. CASE UNCHANGED clientVars
      BY <3>1 DEF Sent, clientVars
    <3>2. CASE SettleAll("cancelled") /\ UNCHANGED <<pc, lockq>>
      BY <3>2, SettleAllRests, SentStays
    <3>3. QED
      BY <1>3, <3>1, <3>2 DEF StopsDispatcher, StopBegins, DispatcherStopped, StopEnds
  <2>2. \/ UNCHANGED reader
        \/ reader = "running" /\ reader' = "cancelling"
    BY <1>3 DEF StopsDispatcher, StopBegins, DispatcherStopped, StopEnds, readerVars
  <2>3. UNCHANGED Held
    BY <1>2, <1>3, <2>2, HeldIs
  <2>4. QED
    BY <2>1, <2>3 DEF Lifecycle!vars
<1>4. CASE TransportClosed(k) \/ CloseCancelled(k)
  <2>1. method[k] = "transport" /\ pc[k] = "returned"
    BY <1>4 DEF TransportClosed, CloseCancelled, CloserInv
  <2>2. reader = "done" /\ syncFut[k].state # "none"
    BY <2>1 DEF StoppedInv, Emptied, CloserInv
  <2>3. UNCHANGED <<reader, syncFut>>
    BY <1>4 DEF TransportClosed, CloseCancelled, Close, vars, clientVars, readerVars
  <2>4. ~Standing /\ Lifecycle!Stopping /\ UNCHANGED Sent
    BY <2>1, <2>2, <2>3, SentFirst DEF Standing, Sent
  <2>5. transport' = "closed" /\ (server' = server \/ (server = "owning" /\ server' = "stopped"))
    BY <1>4 DEF TransportClosed, CloseCancelled
  <2>6. Held' = Held \ {"socket"} \/ Held' = Held \ {"socket", "server"}
    <3>1. \A r : r \in Held => r \in {"server", "socket"}
      BY <2>2, <2>4, HeldIs
    <3>2. CASE server' = server
      BY <1>2, <2>2, <2>3, <2>4, <2>5, <3>1, <3>2, HeldIs
    <3>3. CASE server' = "stopped"
      BY <1>2, <2>2, <2>3, <2>4, <2>5, <3>1, <3>3, HeldIs
    <3>4. QED
      BY <2>5, <3>2, <3>3
  <2>7. Held \cap {"session", "reader"} = {}
    BY <2>2, <2>4, HeldIs
  <2>8. QED
    BY <2>4, <2>6, <2>7 DEF Lifecycle!Next, Lifecycle!Leave
<1>5. QED
  BY <1>3, <1>4

LEMMA LoopImplements ==
  ASSUME LifeInv, LoopStep \/ ServerStep \/ UNCHANGED allVars
  PROVE  [Lifecycle!Next]_Lifecycle!vars
<1> USE DEF LifeInv, SessionInv, IInv
<1>1. UNCHANGED <<client, server, transport>>
      /\ (UNCHANGED reader \/ (reader \in {"running", "cancelling"} /\ reader' = "done"))
  BY LoopKeepsReader
<1>2. [SessionNext]_allVars
  BY DEF SessionNext
<1>3. ASSUME NEW c \in Calls, Proceeds(c), UNCHANGED reader PROVE [Lifecycle!Next]_Lifecycle!vars
  BY <1>1, <1>2, <1>3, ProceedImplements
<1>4. CASE Rests
  <2>1. UNCHANGED Sent /\ (Standing' <=> Standing)
    BY <1>1, <1>4, SentStays DEF Rests, Standing
  <2>2. Held' = Held \/ Held' = Held \ {"reader"}
    <3>1. CASE UNCHANGED reader
      BY <1>1, <2>1, <3>1, HeldStays
    <3>2. CASE reader' = "done"
      BY <1>1, <2>1, <3>2, HeldIs
    <3>3. QED
      BY <1>1, <3>1, <3>2
  <2>3. QED
    BY <2>1, <2>2 DEF Lifecycle!Next, Lifecycle!ReaderEnds, Lifecycle!vars
<1>5. CASE ~UNCHANGED reader
  <2>1. reader' = "done" /\ (ReaderCrashes \/ ReaderCancelled)
    BY <1>1, <1>5, ReaderEndsHow
  <2>2. \A c \in Calls : syncFut'[c].state = "none" <=> syncFut[c].state = "none"
    <3>1. CASE ReaderCrashes
      BY <3>1, SettleAllRests DEF ReaderCrashes, Rests
    <3>2. CASE ReaderCancelled
      <4>1. CASE UNCHANGED clientVars
        BY <4>1 DEF clientVars
      <4>2. ASSUME nested # NoCall, CancelCall(nested)
            PROVE  \A c \in Calls : syncFut'[c].state = "none" <=> syncFut[c].state = "none"
        <5>1. nested \in Calls
          BY <4>2 DEF TypeOK
        <5>2. QED
          BY <4>2, <5>1 DEF CancelCall, SyncInv, TypeOK, Without
      <4>3. QED
        BY <3>2, <4>1, <4>2 DEF ReaderCancelled
    <3>3. QED
      BY <2>1, <3>1, <3>2
  <2>3. \A k \in Closers : pc'[k] = "returned" <=> pc[k] = "returned"
    <3>1. CASE UNCHANGED pc
      BY <3>1
    <3>2. CASE nested # NoCall /\ CancelCall(nested)
      BY <3>2, CommandsAreCalls DEF CancelCall, TypeOK, Suspended
    <3>3. QED
      BY <2>1, <3>1, <3>2 DEF ReaderCrashes, ReaderCancelled, clientVars
  <2>4. UNCHANGED Sent /\ (Standing' <=> Standing)
    BY <1>1, <2>2, <2>3, StandingStays DEF Sent
  <2>5. Held' = Held \ {"reader"}
    BY <1>1, <2>1, <2>4, HeldIs
  <2>6. QED
    BY <2>4, <2>5 DEF Lifecycle!Next, Lifecycle!ReaderEnds
<1>6. QED
  BY <1>3, <1>4, <1>5, LoopProceeds DEF allVars

LEMMA StepImplementsLifecycle ==
  ASSUME LifeInv, [SessionNext]_allVars
  PROVE  [Lifecycle!Next]_Lifecycle!vars
<1>1. CASE ServerStarts \/ Connects \/ Handshakes \/ StartReader \/ Opens \/ Opened
  BY <1>1, OpeningImplements
<1>2. CASE UNCHANGED <<vars, client, server, transport>>
  <2>1. UNCHANGED Sent /\ UNCHANGED Held
    BY <1>2 DEF Sent, Held, vars, clientVars, readerVars
  <2>2. QED
    BY <2>1 DEF Lifecycle!vars
<1>3. ASSUME NEW c \in Calls,
             \/ c \in Commands /\ Invoke(c)
             \/ c \in Closers /\ CloseCalled(c)
             \/ c \in Loads /\ Purging(c)
      PROVE  [Lifecycle!Next]_Lifecycle!vars
  <2>1. client = "open" /\ UNCHANGED <<client, server, transport>>
    BY <1>3, IssueFacts
  <2>2. UNCHANGED vars \/ (~closed /\ \E d \in Calls \ {Opening} : Enter(d) /\ UNCHANGED reader)
    BY <1>3, IssueFacts
  <2>3. QED
    BY <1>2, <2>1, <2>2, IssueIsSend
<1>4. ASSUME NEW c \in Calls, MethodStep(c) \/ (c \in Closers /\ CloseCancelled(c)),
             ~(c \in Loads /\ Purging(c))
      PROVE  [Lifecycle!Next]_Lifecycle!vars
  BY <1>2, <1>4, MethodFacts, ClosingImplements
<1>5. CASE LoopStep \/ ServerStep \/ UNCHANGED allVars
  BY <1>5, LoopImplements
<1>6. QED
  BY <1>1, <1>3, <1>4, <1>5, CommandsAreCalls DEF SessionNext, MethodStep

\* IsabelleSession implements SessionLifecycle: server, socket, reader and session are
\* taken in this order before anything is sent, commands are sent only between
\* session_start and session_stop, and what is held is given back from the top.
THEOREM SessionIsAStack == SessionSpec => ImplementsLifecycle
<1>1. SessionInit => Lifecycle!Init
  BY DEF SessionInit, Init, NoFuture, Lifecycle!Init, Held, Sent
<1>2. LifeInv /\ [SessionNext]_allVars => [Lifecycle!Next]_Lifecycle!vars
  BY StepImplementsLifecycle
<1>3. QED
  BY <1>1, <1>2, LifeInductive, PTL DEF SessionSpec, ImplementsLifecycle, Lifecycle!Spec

-----------------------------------------------------------------------------
(* The commands of a session *)

\* The commands of a session are independent calls, whatever its methods do.
THEOREM SessionCallsAreIndependent == SessionSpec => ImplementsIndependentCalls
  BY SessionImplementsDispatcher, ImplementsIndependent, PTL

\* Only close() sets the flag.
LEMMA FlagIsSet ==
  ASSUME [SessionNext]_allVars, ~closed, closed'
  PROVE  \E k \in Closers : CloseCalled(k)
<1>1. ASSUME NEW c \in Calls, MethodStep(c) PROVE UNCHANGED closed
  BY <1>1 DEF MethodStep, Answered, Purging, Purged, StopFailed, StopsDispatcher, DispatcherStopped,
              TransportClosed
<1>2. QED
  BY <1>1 DEF SessionNext, ServerStarts, Connects, Handshakes, StartReader, Opens, Opened, Invoke,
              CloseCancelled, LoopStep, ServerStep, allVars, sessionVars

\* A session that is closed is so by the close() that has sent, or will send,
\* session_stop; one that returns has done so or has found the session closed.
FlagInv ==
  /\ closed => \E k \in Closers : pc[k] # "idle"
  /\ \A k \in Closers : method[k] = "returned" => pc[k] \in {"idle", "returned"}

LEMMA FlagStep ==
  ASSUME SessionInv, FlagInv, [SessionNext]_allVars
  PROVE  FlagInv'
<1> USE DEF SessionInv, IInv
<1>1. ASSUME NEW k \in Closers, CloseCalled(k)
      PROVE  closed \/ (pc[k] = "idle" /\ pc'[k] # "idle")
  BY <1>1, CommandsAreCalls, CallIsEntered, EnterMoves DEF CloseCalled, TypeOK, Suspended, Ended
<1>2. closed' => \E k \in Closers : pc'[k] # "idle"
  <2>1. CASE closed
    BY <2>1, StopMoves DEF FlagInv
  <2>2. CASE ~closed /\ closed'
    <3>1. PICK k \in Closers : CloseCalled(k)
      BY <2>2, FlagIsSet
    <3>2. QED
      BY <1>1, <2>2, <3>1
  <2>3. QED
    BY <2>1, <2>2
<1>3. ASSUME NEW k \in Closers, method'[k] = "returned" PROVE pc'[k] \in {"idle", "returned"}
  <2>1. k \in Calls /\ k \notin Commands /\ k \notin Loads
    BY CommandsAreCalls, ClosersApart
  <2>2. CASE method[k] = "returned"
    <3>1. pc[k] \in {"idle", "returned"} /\ ~Issued(k)
      BY <2>2 DEF FlagInv, Issued, CloseCalled
    <3>2. QED
      BY <3>1, StopMoves DEF Ended
  <2>3. CASE CloseCalled(k)
    <3>1. pc[k] = "idle" /\ (closed => UNCHANGED pc) /\ (~closed => method'[k] = "command")
      BY <2>1, <2>3 DEF CloseCalled, Goes, CloserInv, SessionTypeOK, vars, clientVars
    <3>2. QED
      BY <1>3, <3>1
  <2>4. CASE CloseCancelled(k)
    BY <1>3, <2>1, <2>4 DEF CloseCancelled, Goes, SessionTypeOK
  <2>5. CASE MethodStep(k)
    <3>1. TransportClosed(k)
      BY <1>3, <2>1, <2>5 DEF MethodStep, StopFailed, StopsDispatcher, DispatcherStopped, Goes,
                              SessionTypeOK
    <3>2. pc[k] = "returned"
      BY <3>1 DEF TransportClosed, CloserInv
    <3>3. QED
      BY <3>2, StopMoves DEF Ended
  <2>6. QED
    BY <1>3, <2>2, <2>3, <2>4, <2>5, CloserMoves
<1>4. QED
  BY <1>2, <1>3 DEF FlagInv

\* close() that raises is the only way that a session leaves something behind: if none
\* has raised, then with close() over nothing is left, as its docstring says.
THEOREM OnlyRaisingLeaks ==
  SessionSpec => []((\A k \in Closers : method[k] # "raised") => CloseCleansUp)
<1>1. SessionInit => FlagInv
  BY CommandsAreCalls DEF SessionInit, FlagInv
<1>2. SessionInv /\ FlagInv /\ [SessionNext]_allVars => FlagInv'
  BY FlagStep
<1>3. SessionInv /\ FlagInv => ((\A k \in Closers : method[k] # "raised") => CloseCleansUp)
  <2> SUFFICES ASSUME SessionInv, FlagInv, \A k \in Closers : method[k] # "raised",
                      \A k \in Closers : method[k] \in {"idle"} \cup Over,
                      NEW j \in Closers, method[j] = "returned"
               PROVE  reader # "running" /\ transport = "closed" /\ server # "owning"
    BY DEF CloseCleansUp
  <2>1. PICK k \in Closers : pc[k] # "idle"
    BY DEF SessionInv, CloserInv, FlagInv
  <2>2. method[k] = "returned"
    BY <2>1 DEF SessionInv, CloserInv, Over
  <2>3. pc[k] = "returned"
    BY <2>1, <2>2 DEF FlagInv
  <2>4. QED
    BY <2>2, <2>3 DEF SessionInv, StoppedInv, Emptied
<1>4. QED
  BY <1>1, <1>2, <1>3, SessionInductive, PTL DEF SessionSpec

=============================================================================
