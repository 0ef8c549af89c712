---------------------------- MODULE SessionProofs ----------------------------
(***************************************************************************)
(* Theorems about Session.  Its steps are steps of the dispatcher, so every *)
(* theorem about Dispatcher holds for the dispatcher of a session.          *)
(***************************************************************************)
EXTENDS Session, DispatcherProofs

LEMMA CommandsAreCalls ==
    /\ Opening \in Calls /\ Commands \subseteq Calls /\ Closers \subseteq Calls
    /\ Loads \subseteq Commands
    /\ \A u \in Loads : PurgeOf[u] \in SyncCalls
  BY SessionAssumption, CallsAssumption DEF Commands, Calls

-----------------------------------------------------------------------------
(* A session implements a dispatcher *)

\* Each step of a session is a step of its dispatcher or leaves it alone.
LEMMA SessionStepsDispatcher == [SessionNext]_allVars => [Next]_vars
<1> SUFFICES ASSUME [SessionNext]_allVars PROVE [Next]_vars
  OBVIOUS
<1>1. CASE ServerStarts \/ Connects \/ Handshakes \/ Opened
  BY <1>1 DEF ServerStarts, Connects, Handshakes, Opened
<1>2. CASE StartReader
  BY <1>2 DEF StartReader, Next
<1>3. CASE Opens
  BY <1>3, CommandsAreCalls DEF Opens, Next
<1>4. ASSUME NEW c \in Calls, Issues(c) PROVE Next
  BY <1>4 DEF Issues, Next
<1>5. ASSUME NEW c \in Commands, Invoke(c) PROVE [Next]_vars
  BY <1>4, <1>5, CommandsAreCalls DEF Invoke
<1>6. ASSUME NEW k \in Closers, CloseCalled(k) \/ CloseCancelled(k) PROVE [Next]_vars
  <2>1. CASE CloseCalled(k)
    BY <1>4, <2>1, CommandsAreCalls DEF CloseCalled
  <2>2. CASE CloseCancelled(k)
    BY <2>2 DEF CloseCancelled, Next
  <2>3. QED
    BY <1>6, <2>1, <2>2
<1>7. ASSUME NEW c \in Calls, MethodStep(c) PROVE [Next]_vars
  <2>1. CASE Answered(c) \/ Purged(c) \/ StopFailed(c)
    BY <2>1 DEF Answered, Purged, StopFailed
  <2>2. CASE c \in Loads /\ Purging(c)
    <3>1. PurgeOf[c] \in Calls
      BY <2>2, CommandsAreCalls DEF Calls
    <3>2. QED
      BY <2>2, <3>1 DEF Purging, Next
  <2>3. CASE StopsDispatcher(c) \/ DispatcherStopped(c)
    BY <2>3 DEF StopsDispatcher, DispatcherStopped, Next
  <2>4. CASE TransportClosed(c)
    BY <2>4 DEF TransportClosed, Next
  <2>5. QED
    BY <1>7, <2>1, <2>2, <2>3, <2>4 DEF MethodStep
<1>8. CASE LoopStep
  BY <1>8 DEF LoopStep, Next
<1>9. CASE ServerStep
  BY <1>9 DEF ServerStep, Next
<1>10. CASE UNCHANGED allVars
  BY <1>10 DEF allVars
<1>11. QED
  BY <1>1, <1>2, <1>3, <1>5, <1>6, <1>7, <1>8, <1>9, <1>10 DEF SessionNext

\* Whatever the methods of a session do, its dispatcher behaves as specified.
THEOREM SessionImplementsDispatcher == SessionSpec => Spec
<1>1. SessionInit => Init
  BY DEF SessionInit
<1>2. QED
  BY <1>1, SessionStepsDispatcher, PTL DEF SessionSpec, Spec

-----------------------------------------------------------------------------
(* Type correctness *)

\* A move of one method keeps the methods well typed.
LEMMA GoesTypeOK ==
  ASSUME SessionTypeOK, NEW c \in Calls,
         NEW to \in {"idle", "command", "purge", "dispatcher", "transport"} \cup Over,
         Goes(c, to)
  PROVE  method' \in [Calls -> {"idle", "command", "purge", "dispatcher", "transport"} \cup Over]
  BY DEF SessionTypeOK, Goes

\* A session keeps its types: a method's outcome is one of its own, never that of
\* its command, and the client, the server, the socket and the flag stay in range.
LEMMA SessionTypeStep ==
  ASSUME SessionTypeOK, [SessionNext]_allVars PROVE SessionTypeOK'
<1> USE DEF Over
<1>1. CASE ServerStarts \/ Connects \/ Handshakes \/ StartReader
  BY <1>1 DEF SessionTypeOK, ServerStarts, Connects, Handshakes, StartReader
<1>2. CASE Opens
  <2>1. method' \in [Calls -> {"idle", "command", "purge", "dispatcher", "transport"} \cup Over]
    BY <1>2, CommandsAreCalls, GoesTypeOK DEF Opens
  <2>2. QED
    BY <1>2, <2>1 DEF SessionTypeOK, Opens
<1>3. CASE Opened
  <2>1. method' \in [Calls -> {"idle", "command", "purge", "dispatcher", "transport"} \cup Over]
    BY <1>3, CommandsAreCalls, GoesTypeOK DEF Opened
  <2>2. QED
    BY <1>3, <2>1 DEF SessionTypeOK, Opened
<1>4. ASSUME NEW c \in Commands, Invoke(c) PROVE SessionTypeOK'
  <2>1. method' \in [Calls -> {"idle", "command", "purge", "dispatcher", "transport"} \cup Over]
    BY <1>4, CommandsAreCalls, GoesTypeOK DEF Invoke
  <2>2. QED
    BY <1>4, <2>1 DEF SessionTypeOK, Invoke
<1>5. ASSUME NEW k \in Closers, CloseCalled(k) PROVE SessionTypeOK'
  <2>1. method' \in [Calls -> {"idle", "command", "purge", "dispatcher", "transport"} \cup Over]
    BY <1>5, CommandsAreCalls, GoesTypeOK DEF CloseCalled
  <2>2. QED
    BY <1>5, <2>1 DEF SessionTypeOK, CloseCalled
<1>6. ASSUME NEW k \in Closers, CloseCancelled(k) PROVE SessionTypeOK'
  <2>1. method' \in [Calls -> {"idle", "command", "purge", "dispatcher", "transport"} \cup Over]
    BY <1>6, CommandsAreCalls, GoesTypeOK DEF CloseCancelled
  <2>2. QED
    BY <1>6, <2>1 DEF SessionTypeOK, CloseCancelled
<1>7. ASSUME NEW c \in Calls, MethodStep(c) PROVE SessionTypeOK'
  <2>1. method' \in [Calls -> {"idle", "command", "purge", "dispatcher", "transport"} \cup Over]
    BY <1>7, GoesTypeOK
       DEF MethodStep, Answered, Purging, Purged, StopFailed, StopsDispatcher,
           DispatcherStopped, TransportClosed
  <2>2. /\ client' = client /\ closed' = closed
        /\ server' \in {server, "stopped"} /\ transport' \in {transport, "closed"}
    BY <1>7 DEF MethodStep, Answered, Purging, Purged, StopFailed, StopsDispatcher,
                DispatcherStopped, TransportClosed
  <2>3. QED
    BY <2>1, <2>2 DEF SessionTypeOK
<1>8. CASE LoopStep \/ ServerStep \/ UNCHANGED allVars
  BY <1>8 DEF SessionTypeOK, LoopStep, ServerStep, allVars, sessionVars
<1>9. QED
  BY <1>1, <1>2, <1>3, <1>4, <1>5, <1>6, <1>7, <1>8 DEF SessionNext

\* Every variable of a session keeps its type, for any number of methods.
THEOREM SessionTypeCorrect == SessionSpec => []SessionTypeOK
<1>1. SessionInit => SessionTypeOK
  BY DEF SessionInit, SessionTypeOK
<1>2. QED
  BY <1>1, SessionTypeStep, PTL DEF SessionSpec

-----------------------------------------------------------------------------
(* How the calls of a session move *)

\* A call that has been issued goes on, or is cancelled.
Proceeds(c) ==
    \/ pc[c] = "lock" /\ Holds(c) /\ Transmit(c, lockq)
    \/ /\ UNCHANGED syncFut
       /\ \/ /\ pc[c] \in {"drain", "sync"} /\ Holds(c)
             /\ \/ pc' = [pc EXCEPT ![c] = "sync"] /\ UNCHANGED lockq
                \/ \E to \in Ended :
                      /\ c \in AsyncCalls => to # "returned"
                      /\ pc' = [pc EXCEPT ![c] = to] /\ lockq' = Tail(lockq)
                \/ /\ pc[c] = "sync" /\ Len(lockq) = 1
                   /\ pc' = [pc EXCEPT ![c] = "term"] /\ lockq' = << >>
                \/ /\ pc[c] = "sync"
                   /\ pc' = [pc EXCEPT ![c] = "reglock"] /\ lockq' = Append(Tail(lockq), c)
          \/ /\ pc[c] = "reglock" /\ Holds(c)
             /\ pc' = [pc EXCEPT ![c] = "term"] /\ lockq' = Tail(lockq)
          \/ /\ pc[c] = "term"
             /\ \E to \in Ended : pc' = [pc EXCEPT ![c] = to]
             /\ UNCHANGED lockq
    \/ CancelCall(c)

\* No call moves, and none gets its first future.
Rests ==
    /\ UNCHANGED <<pc, lockq>>
    /\ \A c \in Calls : syncFut'[c].state = "none" <=> syncFut[c].state = "none"

\* The steps of callers.
LEMMA CallProceeds ==
  ASSUME TypeOK, LockInv, NEW c \in Calls, CallStep(c) \/ Cancel(c)
  PROVE  Proceeds(c)
<1>1. CASE Granted(c)
  BY <1>1 DEF Granted, Proceeds
<1>2. CASE Drained(c)
  BY <1>2 DEF Drained, Proceeds, LockInv, Ended
<1>3. CASE Concludes(c)
  <2>1. SyncOutcome(c) \in Ended /\ (c \in AsyncCalls => SyncOutcome(c) # "returned")
    BY CallsAssumption DEF Failure, SyncOutcome, Ended
  <2>2. QED
    BY <1>3, <2>1 DEF Concludes, Proceeds, LockInv
<1>4. CASE Accepted(c)
  BY <1>4 DEF Accepted, Register, Proceeds, LockInv
<1>5. CASE Registers(c)
  BY <1>5 DEF Registers, Register, Proceeds
<1>6. CASE Completed(c)
  <2>1. TermOutcome(c) \in Ended
    BY DEF Failure, TermOutcome, Ended
  <2>2. QED
    BY <1>6, <2>1 DEF Completed, Proceeds
<1>7. CASE Cancel(c)
  BY <1>7 DEF Cancel, Proceeds
<1>8. QED
  BY <1>1, <1>2, <1>3, <1>4, <1>5, <1>6, <1>7 DEF CallStep

\* Settling every future gives none to a call that had none.
LEMMA SettleAllRests ==
  ASSUME TypeOK, SyncInv, NEW outcome \in {"exception", "cancelled"}, SettleAll(outcome),
         UNCHANGED <<pc, lockq>>
  PROVE  Rests
  BY DEF TypeOK, SyncInv, SettleAll, Without, Rests

\* The steps of the event loop and of the server.
LEMMA LoopProceeds ==
  ASSUME TypeOK, LockInv, SyncInv,
         LoopStep \/ ServerStep \/ StopBegins \/ StopEnds \/ Start \/ Close \/ UNCHANGED vars
  PROVE  Rests \/ \E c \in Calls : Proceeds(c)
<1> USE DEF clientVars
<1>1. ASSUME NEW c \in Calls, CallStep(c) \/ Cancel(c) PROVE Proceeds(c)
  BY <1>1, CallProceeds
<1>2. ASSUME UNCHANGED clientVars PROVE Rests
  BY <1>2 DEF Rests
<1>3. CASE Serve \/ Close \/ Garble \/ Start \/ NoteDone \/ DispatchNote \/ DispatchTerminal
  <2>1. UNCHANGED <<pc, lockq, syncFut>>
    BY <1>3 DEF Serve, Close, Garble, Start, NoteDone, DispatchNote, DispatchTerminal
  <2>2. QED
    BY <2>1 DEF Rests
<1>4. ASSUME NEW c \in AsyncCalls, Notes(c) \/ Finishes(c) PROVE Rests
  BY <1>2, <1>4 DEF Notes, Finishes
<1>5. CASE DispatchSync
  <2>1. UNCHANGED <<pc, lockq>>
    BY <1>5 DEF DispatchSync
  <2>2. CASE UNCHANGED syncFut
    BY <2>1, <2>2 DEF Rests
  <2>3. CASE /\ syncReply # NoCall
             /\ syncFut' = [syncFut EXCEPT ![syncReply] = WithResult(Message)]
    <3>1. syncReply \in Calls /\ syncFut[syncReply].state # "none"
      BY <2>3 DEF TypeOK, SyncInv
    <3>2. WithResult(Message).state = "result"
      BY DEF WithResult
    <3>3. QED
      BY <2>1, <2>3, <3>1, <3>2 DEF TypeOK, Rests
  <2>4. QED
    BY <1>5, <2>2, <2>3 DEF DispatchSync
<1>6. CASE ReaderCrashes
  BY <1>6, SettleAllRests DEF ReaderCrashes
<1>7. CASE StopEnds
  BY <1>7, SettleAllRests DEF StopEnds
<1>8. CASE StopBegins
  BY <1>2, <1>8, SettleAllRests DEF StopBegins
<1>9. CASE ReaderCancelled
  BY <1>2, <1>9 DEF ReaderCancelled, TypeOK, Proceeds
<1>10. CASE UNCHANGED vars
  BY <1>2, <1>10 DEF vars
<1>11. QED
  BY <1>1, <1>3, <1>4, <1>5, <1>6, <1>7, <1>8, <1>9, <1>10
     DEF LoopStep, ServerStep, ReaderStep

\* The sets of commands are apart.
LEMMA ClosersApart ==
  /\ Opening \notin Closers /\ Opening \notin Commands /\ Opening \notin Loads
  /\ \A k \in Closers : k \in AsyncCalls /\ k \notin Commands /\ k \notin Loads
  /\ \A u \in Loads : PurgeOf[u] \notin Closers
  BY SessionAssumption, CallsAssumption DEF Commands

\* Only an idle call is issued, and it does not return at once.
LEMMA EnterMoves ==
  ASSUME TypeOK, NEW c \in Calls, Enter(c)
  PROVE  /\ pc[c] = "idle"
         /\ \E to \in Suspended \cup Ended : to # "returned" /\ pc' = [pc EXCEPT ![c] = to]
         /\ \A d \in Calls : d # c => syncFut'[d] = syncFut[d]
  BY DEF TypeOK, Enter, Transmit, Queue, Suspended, Ended

\* Only a suspended call goes on; an async one returns from the end of its task.
LEMMA ProceedMoves ==
  ASSUME TypeOK, NEW c \in Calls, Proceeds(c)
  PROVE  /\ pc[c] \in Suspended
         /\ \E to \in Suspended \cup Ended :
               /\ pc' = [pc EXCEPT ![c] = to]
               /\ c \in AsyncCalls /\ to = "returned" => pc[c] = "term"
         /\ \A d \in Calls : d # c => syncFut'[d] = syncFut[d]
         /\ syncFut[c].state # "none" => syncFut'[c].state # "none"
<1> USE DEF Suspended, Ended
<1>1. CASE pc[c] = "lock" /\ Holds(c) /\ Transmit(c, lockq)
  BY <1>1 DEF TypeOK, Transmit, NewFuture
<1>2. CASE CancelCall(c)
  BY <1>2 DEF TypeOK, CancelCall, Without
<1>3. QED
  BY <1>1, <1>2 DEF Proceeds

-----------------------------------------------------------------------------
(* Who closes, and when *)

\* At most one close() goes past the flag, which is set before its command is
\* issued and only on an open session; its method and its command keep step.
CloserInv ==
  /\ closed => client = "open"
  /\ method[Opening] \in {"command", "purge"} => client = "opening"
  /\ \A k \in Closers :
        /\ pc[k] # "idle" => method[k] # "idle"
        /\ method[k] # "idle" => closed
        /\ method[k] # "purge"
        /\ method[k] \in {"dispatcher", "transport"} => pc[k] = "returned"
        /\ method[k] \in Over => pc[k] \in {"idle"} \cup Ended
        /\ pc[k] = "returned" => syncFut[k].state # "none"
        /\ \A j \in Closers : pc[j] # "idle" /\ pc[k] # "idle" => j = k

\* Commands are issued on a session that is not closed, session_stop by close().
Issued(c) == Enter(c) /\ ~closed /\ (c \in Closers => CloseCalled(c))

\* A step of a session issues a command, takes one further, or moves none.
LEMMA SessionKinds ==
  ASSUME TypeOK, LockInv, SyncInv, CloserInv, [SessionNext]_allVars
  PROVE  Rests \/ \E c \in Calls : Issued(c) \/ Proceeds(c)
<1>1. CASE LoopStep \/ ServerStep \/ StopBegins \/ StopEnds \/ Start \/ Close \/ UNCHANGED vars
  BY <1>1, LoopProceeds
<1>2. ASSUME NEW c \in Calls, Call(c) \/ Issues(c) PROVE Enter(c)
  BY <1>2 DEF Call, Issues, CallFromNote
<1>3. CASE ServerStarts \/ Connects \/ Handshakes \/ StartReader \/ Opened \/ UNCHANGED allVars
  BY <1>1, <1>3 DEF ServerStarts, Connects, Handshakes, StartReader, Opened, allVars
<1>4. CASE Opens
  BY <1>2, <1>4, CommandsAreCalls, ClosersApart DEF Opens, CloserInv, Issued
<1>5. ASSUME NEW c \in Commands, Invoke(c)
      PROVE  Rests \/ \E d \in Calls : Issued(d) \/ Proceeds(d)
  <2>1. c \in Calls /\ c \notin Closers
    BY CommandsAreCalls, ClosersApart
  <2>2. CASE closed
    BY <1>1, <1>5, <2>2 DEF Invoke
  <2>3. CASE ~closed
    BY <1>2, <1>5, <2>1, <2>3 DEF Invoke, Issued
  <2>4. QED
    BY <2>2, <2>3
<1>6. ASSUME NEW k \in Closers, CloseCalled(k) \/ CloseCancelled(k)
      PROVE  Rests \/ \E d \in Calls : Issued(d) \/ Proceeds(d)
  <2>1. CASE CloseCalled(k)
    <3>1. k \in Calls
      BY CommandsAreCalls
    <3>2. CASE closed
      BY <1>1, <2>1, <3>2 DEF CloseCalled
    <3>3. CASE ~closed
      <4>1. Enter(k)
        BY <1>2, <2>1, <3>1, <3>3 DEF CloseCalled
      <4>2. QED
        BY <2>1, <3>1, <3>3, <4>1 DEF Issued
    <3>4. QED
      BY <3>2, <3>3
  <2>2. CASE CloseCancelled(k)
    BY <1>1, <2>2 DEF CloseCancelled
  <2>3. QED
    BY <1>6, <2>1, <2>2
<1>7. ASSUME NEW c \in Calls, MethodStep(c)
      PROVE  Rests \/ \E d \in Calls : Issued(d) \/ Proceeds(d)
  <2>1. CASE c \in Loads /\ Purging(c)
    <3>1. PurgeOf[c] \in Calls /\ PurgeOf[c] \notin Closers
      BY <2>1, CommandsAreCalls, ClosersApart DEF Calls
    <3>2. CASE closed
      BY <1>1, <2>1, <3>2 DEF Purging
    <3>3. CASE ~closed
      BY <1>2, <2>1, <3>1, <3>3 DEF Purging, Issued
    <3>4. QED
      BY <3>2, <3>3
  <2>2. CASE ~(c \in Loads /\ Purging(c))
    <3>1. StopBegins \/ StopEnds \/ Close \/ UNCHANGED vars
      BY <1>7, <2>2 DEF MethodStep, Answered, Purged, StopFailed, StopsDispatcher,
                        DispatcherStopped, TransportClosed
    <3>2. QED
      BY <1>1, <3>1
  <2>3. QED
    BY <2>1, <2>2
<1>8. QED
  BY <1>1, <1>3, <1>4, <1>5, <1>6, <1>7 DEF SessionNext

\* A method of close() is moved by close() alone.
LEMMA CloserMoves ==
  ASSUME SessionTypeOK, [SessionNext]_allVars, NEW k \in Closers
  PROVE  /\ closed => closed'
         /\ method'[k] = method[k] \/ CloseCalled(k) \/ CloseCancelled(k) \/ MethodStep(k)
<1> USE DEF SessionTypeOK
<1>1. CASE UNCHANGED <<method, closed>>
  BY <1>1
<1>2. ASSUME NEW c \in Calls, c # k, NEW to, Goes(c, to) PROVE method'[k] = method[k]
  BY <1>2 DEF Goes
<1>3. CASE ServerStarts \/ Connects \/ Handshakes \/ StartReader \/ LoopStep \/ ServerStep
           \/ UNCHANGED allVars
  BY <1>1, <1>3 DEF ServerStarts, Connects, Handshakes, StartReader, LoopStep, ServerStep,
                    allVars, sessionVars
<1>4. CASE Opens \/ Opened
  BY <1>2, <1>4, CommandsAreCalls, ClosersApart DEF Opens, Opened
<1>5. ASSUME NEW c \in Commands, Invoke(c)
      PROVE  closed' = closed /\ method'[k] = method[k]
  BY <1>2, <1>5, CommandsAreCalls, ClosersApart DEF Invoke
<1>6. ASSUME NEW j \in Closers, CloseCalled(j)
      PROVE  (closed => closed') /\ (method'[k] = method[k] \/ CloseCalled(k))
  BY <1>2, <1>6, CommandsAreCalls DEF CloseCalled
<1>7. ASSUME NEW j \in Closers, CloseCancelled(j)
      PROVE  closed' = closed /\ (method'[k] = method[k] \/ CloseCancelled(k))
  BY <1>2, <1>7, CommandsAreCalls DEF CloseCancelled
<1>8. ASSUME NEW c \in Calls, MethodStep(c)
      PROVE  closed' = closed /\ (method'[k] = method[k] \/ MethodStep(k))
  BY <1>2, <1>8 DEF MethodStep, Answered, Purging, Purged, StopFailed, StopsDispatcher,
                    DispatcherStopped, TransportClosed
<1>9. QED
  BY <1>3, <1>4, <1>5, <1>6, <1>7, <1>8 DEF SessionNext

\* A session that is open stays so, and opening goes on from "opening" alone.
LEMMA OpeningStep ==
  ASSUME SessionTypeOK, CloserInv, [SessionNext]_allVars
  PROVE  /\ closed' => client' = "open"
         /\ method'[Opening] \in {"command", "purge"} => client' = "opening"
<1> USE DEF SessionTypeOK, CloserInv, Over
<1>1. CASE UNCHANGED <<client, method, closed>>
  BY <1>1
<1>2. ASSUME NEW c \in Calls, c # Opening, NEW to, Goes(c, to)
      PROVE  method'[Opening] = method[Opening]
  BY <1>2, CommandsAreCalls DEF Goes
<1>3. CASE ServerStarts \/ Connects \/ Handshakes \/ StartReader
  BY <1>3 DEF ServerStarts, Connects, Handshakes, StartReader
<1>4. CASE Opens
  BY <1>4, CommandsAreCalls DEF Opens, Goes
<1>5. CASE Opened
  BY <1>5, CommandsAreCalls DEF Opened, Goes, Resuming
<1>6. ASSUME NEW c \in Commands, Invoke(c) PROVE UNCHANGED <<client, closed>> /\ method'[Opening] = method[Opening]
  BY <1>2, <1>6, CommandsAreCalls, ClosersApart DEF Invoke
<1>7. ASSUME NEW k \in Closers, CloseCalled(k) \/ CloseCancelled(k)
      PROVE  /\ client' = client /\ method'[Opening] = method[Opening]
             /\ closed' # closed => client = "open"
  BY <1>2, <1>7, CommandsAreCalls, ClosersApart DEF CloseCalled, CloseCancelled
<1>8. ASSUME NEW c \in Calls, MethodStep(c) PROVE UNCHANGED <<client, closed>> /\ method'[Opening] = method[Opening]
  BY <1>2, <1>8, ClosersApart
     DEF MethodStep, Answered, Purging, Purged, StopFailed, StopsDispatcher,
         DispatcherStopped, TransportClosed
<1>9. CASE LoopStep \/ ServerStep \/ UNCHANGED allVars
  BY <1>1, <1>9 DEF LoopStep, ServerStep, allVars, sessionVars
<1>10. QED
  BY <1>3, <1>4, <1>5, <1>6, <1>7, <1>8, <1>9 DEF SessionNext

\* How the command of a close() moves: from idle by CloseCalled, never out of an
\* end, and to "returned" with an immediate future behind it.
LEMMA StopMoves ==
  ASSUME TypeOK, LockInv, SyncInv, CloserInv, [SessionNext]_allVars, NEW k \in Closers
  PROVE  /\ pc[k] = "idle" => pc'[k] = "idle" \/ Issued(k)
         /\ pc[k] # "idle" => pc'[k] # "idle"
         /\ pc[k] \in Ended => pc'[k] = pc[k]
         /\ syncFut[k].state # "none" => syncFut'[k].state # "none" \/ Issued(k)
         /\ pc'[k] = "returned" => pc[k] \in {"returned", "term"}
<1>1. k \in Calls /\ k \in AsyncCalls /\ pc \in [Calls -> {"idle"} \cup Suspended \cup Ended]
  BY CommandsAreCalls, ClosersApart DEF TypeOK
<1>2. CASE Rests
  BY <1>1, <1>2 DEF Rests, Ended
<1>3. ASSUME NEW c \in Calls, Issued(c)
      PROVE  /\ pc[k] = "idle" => pc'[k] = "idle" \/ Issued(k)
             /\ pc[k] # "idle" => pc'[k] # "idle"
             /\ pc[k] \in Ended => pc'[k] = pc[k]
             /\ syncFut[k].state # "none" => syncFut'[k].state # "none" \/ Issued(k)
             /\ pc'[k] = "returned" => pc[k] \in {"returned", "term"}
  BY <1>1, <1>3, EnterMoves DEF Issued, Ended, Suspended
<1>4. ASSUME NEW c \in Calls, Proceeds(c)
      PROVE  /\ pc[k] = "idle" => pc'[k] = "idle"
             /\ pc[k] # "idle" => pc'[k] # "idle"
             /\ pc[k] \in Ended => pc'[k] = pc[k]
             /\ syncFut[k].state # "none" => syncFut'[k].state # "none"
             /\ pc'[k] = "returned" => pc[k] \in {"returned", "term"}
  BY <1>1, <1>4, ProceedMoves DEF Ended, Suspended
<1>5. QED
  BY <1>2, <1>3, <1>4, SessionKinds

LEMMA CloserStep ==
  ASSUME TypeOK, LockInv, SyncInv, SessionTypeOK, CloserInv, [SessionNext]_allVars
  PROVE  CloserInv'
<1>1. SUFFICES ASSUME NEW k \in Closers
               PROVE  /\ pc'[k] # "idle" => method'[k] # "idle"
                      /\ method'[k] # "idle" => closed'
                      /\ method'[k] # "purge"
                      /\ method'[k] \in {"dispatcher", "transport"} => pc'[k] = "returned"
                      /\ method'[k] \in Over => pc'[k] \in {"idle"} \cup Ended
                      /\ pc'[k] = "returned" => syncFut'[k].state # "none"
                      /\ \A j \in Closers : pc'[j] # "idle" /\ pc'[k] # "idle" => j = k
  BY OpeningStep DEF CloserInv
<1>2. /\ k \in Calls /\ k \in AsyncCalls
      /\ pc \in [Calls -> {"idle"} \cup Suspended \cup Ended]
      /\ k \notin Commands /\ k \notin Loads
      /\ method \in [Calls -> {"idle", "command", "purge", "dispatcher", "transport"} \cup Over]
  BY CommandsAreCalls, ClosersApart DEF TypeOK, SessionTypeOK
<1>3. CASE CloseCalled(k)
  <2>1. CASE closed
    <3>1. /\ method[k] = "idle" /\ pc[k] = "idle" /\ UNCHANGED <<pc, syncFut>>
          /\ method'[k] = "returned" /\ closed'
      BY <1>2, <1>3, <2>1 DEF CloseCalled, CloserInv, Goes, vars, clientVars
    <3>2. QED
      BY <3>1 DEF CloserInv, Over
  <2>2. CASE ~closed
    <3>1. /\ \A j \in Closers : pc[j] = "idle"
          /\ method'[k] = "command" /\ closed'
      BY <1>2, <1>3, <2>2 DEF CloseCalled, CloserInv, Goes
    <3>2. Enter(k)
      BY <1>3, <2>2 DEF CloseCalled, Issues, Call, CallFromNote
    <3>3. pc'[k] # "returned" /\ \A j \in Closers : j # k => pc'[j] = "idle"
      BY <1>2, <3>1, <3>2, EnterMoves, CommandsAreCalls
    <3>4. QED
      BY <3>1, <3>3 DEF Over
  <2>3. QED
    BY <2>1, <2>2
<1>4. CASE ~CloseCalled(k)
  <2>1. /\ pc'[k] # "idle" => pc[k] # "idle"
        /\ pc[k] \in Ended => pc'[k] = pc[k]
        /\ syncFut[k].state # "none" => syncFut'[k].state # "none"
        /\ pc'[k] = "returned" => pc[k] \in {"returned", "term"}
    BY <1>4, StopMoves DEF Issued
  <2>2. method'[k] = method[k] \/ CloseCancelled(k) \/ MethodStep(k)
    BY <1>4, CloserMoves
  <2>3. /\ method[k] # "idle" => method'[k] # "idle"
        /\ method'[k] # "idle" => method[k] # "idle"
        /\ method'[k] # "purge"
        /\ method'[k] \in {"dispatcher", "transport"} => pc[k] = "returned"
        /\ method'[k] \in Over => pc[k] \in {"idle"} \cup Ended
    <3>1. CASE method'[k] = method[k]
      BY <3>1 DEF CloserInv
    <3>2. CASE CloseCancelled(k)
      BY <1>2, <3>2 DEF CloseCancelled, Goes, CloserInv, Over, Ended
    <3>3. CASE MethodStep(k)
      BY <1>2, <3>3 DEF MethodStep, StopFailed, StopsDispatcher, DispatcherStopped,
                        TransportClosed, Goes, Resuming, CloserInv, Over, Ended
    <3>4. QED
      BY <2>2, <3>1, <3>2, <3>3
  <2>4. closed => closed'
    BY CloserMoves
  <2>5. pc'[k] = "returned" => syncFut[k].state # "none"
    BY <1>2, <2>1 DEF CloserInv, SyncInv, HasTask
  <2>6. ASSUME NEW j \in Closers, pc'[j] # "idle", pc'[k] # "idle" PROVE j = k
    <3>1. pc[k] # "idle" /\ closed
      BY <2>1, <2>6 DEF CloserInv
    <3>2. pc[j] # "idle"
      BY <2>6, <3>1, StopMoves DEF Issued
    <3>3. QED
      BY <3>1, <3>2 DEF CloserInv
  <2>7. pc[k] = "returned" => pc'[k] = "returned"
    BY <2>1 DEF Ended
  <2>8. pc[k] \in {"idle"} \cup Ended => pc'[k] \in {"idle"} \cup Ended
    BY <1>2, <2>1
  <2>9. QED
    BY <2>1, <2>3, <2>4, <2>5, <2>6, <2>7, <2>8 DEF CloserInv
<1>5. QED
  BY <1>3, <1>4

-----------------------------------------------------------------------------
(* session_stop is the last in the queue *)

Ahead(c, k) == \E i, j \in 1..Len(lockq) : i < j /\ lockq[i] = c /\ lockq[j] = k

\* Every other command is ahead of session_stop: in the queue while session_stop
\* waits for the lock, and past the point that session_stop has reached when it
\* has been sent, has its task, or has returned.
LastInQueue(k, c) ==
  /\ pc[k] = "lock" /\ pc[c] = "lock" => Ahead(c, k)
  /\ pc[k] = "reglock" /\ pc[c] = "reglock" => Ahead(c, k)
  /\ syncFut[k].state # "none" => pc[c] # "lock"
  /\ pc[k] = "reglock" => pc[c] \notin {"drain", "sync"}
  /\ pc[k] \in {"term", "returned"} => pc[c] \notin {"drain", "sync", "reglock"}

OrderInv == \A k \in Closers, c \in Calls : c # k => LastInQueue(k, c)

\* The order of two calls in the queue survives every step of a third.
LEMMA AheadWhenHeadLeaves ==
  ASSUME TypeOK, LockInv, NEW d \in Calls, Holds(d), lockq' = Tail(lockq),
         NEW c \in Calls, NEW k \in Calls, c # d, Ahead(c, k)
  PROVE  Ahead(c, k)'
<1>1. /\ Len(lockq) \in Nat /\ Len(lockq') = Len(lockq) - 1 /\ lockq[1] = d
      /\ \A i \in 1..(Len(lockq) - 1) : lockq'[i] = lockq[i + 1]
  BY QueueFacts DEF Holds
<1>2. PICK i, j \in 1..Len(lockq) : i < j /\ lockq[i] = c /\ lockq[j] = k
  BY DEF Ahead
<1>3. /\ i - 1 \in 1..Len(lockq') /\ j - 1 \in 1..Len(lockq') /\ i - 1 < j - 1
      /\ (i - 1) + 1 = i /\ (j - 1) + 1 = j
  BY <1>1, <1>2
<1>4. lockq'[i - 1] = c /\ lockq'[j - 1] = k
  BY <1>1, <1>2, <1>3
<1>5. QED
  BY <1>3, <1>4 DEF Ahead

LEMMA AheadWhenHeadRequeues ==
  ASSUME TypeOK, LockInv, NEW d \in Calls, Holds(d), lockq' = Append(Tail(lockq), d),
         NEW c \in Calls, NEW k \in Calls, c # d
  PROVE  /\ Ahead(c, k) => Ahead(c, k)'
         /\ InLock(c) => Ahead(c, d)'
<1>1. /\ Len(lockq) \in Nat /\ Len(lockq) > 0 /\ lockq[1] = d
      /\ Tail(lockq) \in Seq(Calls) /\ Len(Tail(lockq)) = Len(lockq) - 1
      /\ \A i \in 1..(Len(lockq) - 1) : Tail(lockq)[i] = lockq[i + 1]
  BY QueueFacts DEF Holds
<1>2. /\ Len(lockq') = Len(lockq) /\ lockq'[Len(lockq)] = d
      /\ \A i \in 1..(Len(lockq) - 1) : lockq'[i] = lockq[i + 1]
  <2>1. /\ Len(Append(Tail(lockq), d)) = Len(Tail(lockq)) + 1
        /\ \A i \in 1..Len(Tail(lockq)) : Append(Tail(lockq), d)[i] = Tail(lockq)[i]
        /\ Append(Tail(lockq), d)[Len(Tail(lockq)) + 1] = d
    BY <1>1, AppendProperties
  <2>2. QED
    BY <1>1, <2>1
<1>3. ASSUME NEW i \in 1..Len(lockq), lockq[i] = c
      PROVE  /\ i - 1 \in 1..(Len(lockq) - 1) /\ (i - 1) + 1 = i
             /\ lockq'[i - 1] = c
  <2>1. i # 1
    BY <1>1, <1>3
  <2>2. i - 1 \in 1..(Len(lockq) - 1) /\ (i - 1) + 1 = i
    BY <1>1, <2>1
  <2>3. QED
    BY <1>2, <1>3, <2>2
<1>4. ASSUME Ahead(c, k) PROVE Ahead(c, k)'
  <2>1. PICK i, j \in 1..Len(lockq) : i < j /\ lockq[i] = c /\ lockq[j] = k
    BY <1>4 DEF Ahead
  <2>2. /\ i - 1 \in 1..Len(lockq') /\ j - 1 \in 1..Len(lockq') /\ i - 1 < j - 1
        /\ j - 1 \in 1..(Len(lockq) - 1) /\ (j - 1) + 1 = j
    BY <1>1, <1>2, <1>3, <2>1
  <2>3. lockq'[i - 1] = c /\ lockq'[j - 1] = k
    BY <1>2, <1>3, <2>1, <2>2
  <2>4. QED
    BY <2>2, <2>3 DEF Ahead
<1>5. ASSUME InLock(c) PROVE Ahead(c, d)'
  <2>1. PICK i \in 1..Len(lockq) : lockq[i] = c
    BY <1>5 DEF InLock
  <2>2. /\ i - 1 \in 1..Len(lockq') /\ Len(lockq) \in 1..Len(lockq')
        /\ i - 1 < Len(lockq)
    BY <1>1, <1>2, <1>3, <2>1
  <2>3. QED
    BY <1>2, <1>3, <2>1, <2>2 DEF Ahead
<1>6. QED
  BY <1>4, <1>5

LEMMA AheadWhenOneLeaves ==
  ASSUME TypeOK, LockInv, NEW p \in 1..Len(lockq), lockq' = RemoveAt(lockq, p),
         NEW c \in Calls, NEW k \in Calls, lockq[p] # c, lockq[p] # k, Ahead(c, k)
  PROVE  Ahead(c, k)'
<1> DEFINE shift(i) == IF i < p THEN i ELSE i - 1
<1>1. /\ Len(lockq) \in Nat /\ Len(lockq') = Len(lockq) - 1
      /\ \A i \in 1..(Len(lockq) - 1) : lockq'[i] = IF i < p THEN lockq[i] ELSE lockq[i + 1]
  <2>1. lockq \in Seq(Calls) /\ Len(lockq) \in Nat
    BY QueueFacts DEF TypeOK
  <2>2. QED
    BY <2>1, RemoveAtLemma
<1>2. PICK i, j \in 1..Len(lockq) : i < j /\ lockq[i] = c /\ lockq[j] = k
  BY DEF Ahead
<1>3. i # p /\ j # p
  BY <1>2
<1>4. /\ shift(i) \in 1..Len(lockq') /\ shift(j) \in 1..Len(lockq') /\ shift(i) < shift(j)
      /\ shift(i) < p => shift(i) = i
      /\ ~(shift(i) < p) => shift(i) + 1 = i
      /\ shift(j) < p => shift(j) = j
      /\ ~(shift(j) < p) => shift(j) + 1 = j
  BY <1>1, <1>2, <1>3
<1>5. lockq'[shift(i)] = c /\ lockq'[shift(j)] = k
  <2> HIDE DEF shift
  <2>1. QED
    BY <1>1, <1>2, <1>4
<1>6. QED
  BY <1>4, <1>5 DEF Ahead

\* What the other calls are when session_stop is, or is not, past the lock.
LEMMA OrderFacts ==
  ASSUME TypeOK, LockInv, SyncInv, CloserInv
  PROVE  /\ \A k \in Closers : /\ pc[k] \in {"reglock", "term", "returned"} =>
                                     syncFut[k].state # "none"
                               /\ pc[k] \in {"idle", "lock"} => syncFut[k].state = "none"
         /\ \A c, d \in Calls : pc[c] \in {"drain", "sync"} /\ pc[d] \in {"drain", "sync"} => c = d
  BY CommandsAreCalls DEF SyncInv, HasTask, CloserInv, LockInv, Holds

\* A new command meets no session_stop; a new session_stop queues behind all.
LEMMA OrderWhenIssued ==
  ASSUME TypeOK, LockInv, SyncInv, CloserInv, OrderInv, NEW d \in Calls, Issued(d)
  PROVE  OrderInv'
<1> SUFFICES ASSUME NEW k \in Closers, NEW c \in Calls, c # k PROVE LastInQueue(k, c)'
  BY DEF OrderInv
<1>1. k \in Calls /\ pc[k] = "idle" /\ syncFut[k].state = "none"
  BY CommandsAreCalls DEF Issued, CloserInv, SyncInv
<1>2. \A e \in Calls : e # d => pc'[e] = pc[e] /\ syncFut'[e] = syncFut[e]
  BY EnterMoves DEF Issued, TypeOK
<1>3. CASE k = d
  <2>1. CASE lockq = << >>
    <3>1. ~InLock(c)
      BY <2>1, EmptySeq DEF InLock
    <3>2. pc[c] \notin {"lock", "drain", "sync", "reglock"} /\ pc'[c] = pc[c]
      BY <1>2, <1>3, <3>1 DEF LockInv
    <3>3. QED
      BY <3>2 DEF LastInQueue
  <2>2. CASE lockq # << >>
    <3>1. /\ lockq' = Append(lockq, k) /\ pc' = [pc EXCEPT ![k] = "lock"]
          /\ syncFut' = syncFut
      BY <1>3, <2>2 DEF Issued, Enter, Queue
    <3>2. pc'[k] = "lock" /\ pc'[c] = pc[c]
      BY <1>1, <3>1 DEF TypeOK
    <3>3. ASSUME pc[c] = "lock" PROVE Ahead(c, k)'
      <4>1. PICK i \in 1..Len(lockq) : lockq[i] = c
        BY <3>3 DEF LockInv, InLock
      <4>2. /\ Len(lockq) \in Nat /\ Len(lockq') = Len(lockq) + 1
            /\ lockq'[i] = c /\ lockq'[Len(lockq) + 1] = k
        BY <1>1, <3>1, <4>1, QueueFacts
      <4>3. i \in 1..Len(lockq') /\ Len(lockq) + 1 \in 1..Len(lockq') /\ i < Len(lockq) + 1
        BY <4>1, <4>2
      <4>4. QED
        BY <4>2, <4>3 DEF Ahead
    <3>4. QED
      BY <1>1, <3>1, <3>2, <3>3 DEF LastInQueue
  <2>3. QED
    BY <2>1, <2>2
<1>4. CASE k # d
  BY <1>1, <1>2, <1>4 DEF LastInQueue
<1>5. QED
  BY <1>3, <1>4

\* The lock is granted: session_stop gets it when no other command waits for it.
LEMMA OrderWhenGranted ==
  ASSUME TypeOK, LockInv, SyncInv, CloserInv, OrderInv, NEW d \in Calls,
         pc[d] = "lock", Holds(d), Transmit(d, lockq)
  PROVE  OrderInv'
<1> SUFFICES ASSUME NEW k \in Closers, NEW c \in Calls, c # k PROVE LastInQueue(k, c)'
  BY DEF OrderInv
<1>1. /\ k \in Calls /\ LastInQueue(k, c) /\ (d # k => LastInQueue(k, d))
      /\ pc \in [Calls -> {"idle"} \cup Suspended \cup Ended] /\ syncFut \in [Calls -> Future]
  BY CommandsAreCalls DEF OrderInv, TypeOK
<1>2. /\ \E to \in {"drain", "sync", "connection_error"} : pc' = [pc EXCEPT ![d] = to]
      /\ syncFut' = [syncFut EXCEPT ![d] = NewFuture]
      /\ lockq' = lockq \/ lockq' = Tail(lockq)
  BY DEF Transmit
<1>3. ASSUME c # d, Ahead(c, k) PROVE Ahead(c, k)'
  <2>1. CASE lockq' = lockq
    BY <1>3, <2>1 DEF Ahead
  <2>2. CASE lockq' = Tail(lockq)
    BY <1>1, <1>3, <2>2, AheadWhenHeadLeaves
  <2>3. QED
    BY <1>2, <2>1, <2>2
<1>4. CASE k = d
  <2>1. ~Ahead(c, d)
    BY QueueFacts DEF Ahead, Holds, LockInv
  <2>2. pc[c] # "lock" /\ pc'[c] = pc[c] /\ pc'[k] \notin {"lock", "reglock", "term", "returned"}
    BY <1>1, <1>2, <1>4, <2>1 DEF LastInQueue
  <2>3. QED
    BY <2>2 DEF LastInQueue
<1>5. CASE k # d
  <2>1. pc'[k] = pc[k] /\ syncFut'[k] = syncFut[k]
        /\ syncFut[k].state = "none" /\ pc[k] \notin {"reglock", "term", "returned"}
    BY <1>1, <1>2, <1>5, OrderFacts DEF LastInQueue
  <2>2. pc'[c] = "lock" => c # d /\ pc[c] = "lock"
    BY <1>1, <1>2
  <2>3. QED
    BY <1>1, <1>3, <2>1, <2>2 DEF LastInQueue
<1>6. QED
  BY <1>4, <1>5

\* The holder waits for its reply, leaves the lock, or asks for it again.
LEMMA OrderWhenAnswered ==
  ASSUME TypeOK, LockInv, SyncInv, CloserInv, OrderInv, NEW d \in Calls,
         pc[d] \in {"drain", "sync"}, Holds(d), UNCHANGED syncFut,
         \/ pc' = [pc EXCEPT ![d] = "sync"] /\ UNCHANGED lockq
         \/ \E to \in Ended :
               /\ d \in AsyncCalls => to # "returned"
               /\ pc' = [pc EXCEPT ![d] = to] /\ lockq' = Tail(lockq)
         \/ /\ pc[d] = "sync" /\ Len(lockq) = 1
            /\ pc' = [pc EXCEPT ![d] = "term"] /\ lockq' = << >>
         \/ /\ pc[d] = "sync"
            /\ pc' = [pc EXCEPT ![d] = "reglock"] /\ lockq' = Append(Tail(lockq), d)
  PROVE  OrderInv'
<1> SUFFICES ASSUME NEW k \in Closers, NEW c \in Calls, c # k PROVE LastInQueue(k, c)'
  BY DEF OrderInv
<1>1. /\ k \in Calls /\ k \in AsyncCalls
      /\ LastInQueue(k, c) /\ (d # k => LastInQueue(k, d))
      /\ pc \in [Calls -> {"idle"} \cup Suspended \cup Ended]
      /\ \A e \in Calls : e # d => pc'[e] = pc[e]
      /\ pc'[d] \in {"sync", "term", "reglock"} \cup Ended
  BY CommandsAreCalls, ClosersApart DEF OrderInv, TypeOK
<1>2. CASE k = d
  <2>1. /\ syncFut[k].state # "none" /\ pc[c] \notin {"lock", "drain", "sync"}
        /\ pc'[c] = pc[c]
    BY <1>1, <1>2, OrderFacts DEF SyncInv, LastInQueue
  <2>2. pc'[k] = "reglock" => lockq' = Append(Tail(lockq), k)
    BY <1>1, <1>2 DEF Ended
  <2>3. pc'[k] = "reglock" /\ pc'[c] = "reglock" => Ahead(c, k)'
    BY <1>1, <1>2, <2>1, <2>2, AheadWhenHeadRequeues DEF LockInv
  <2>4. ASSUME pc'[k] = "term" PROVE pc[c] # "reglock"
    <3>1. Len(lockq) = 1
      BY <1>1, <1>2, <2>4 DEF Ended
    <3>2. ~InLock(c)
      BY <1>2, <3>1 DEF InLock, Holds
    <3>3. QED
      BY <3>2 DEF LockInv
  <2>5. pc'[k] # "returned" /\ pc'[k] # "lock"
    BY <1>1, <1>2 DEF Ended
  <2>6. QED
    BY <2>1, <2>3, <2>4, <2>5 DEF LastInQueue
<1>3. CASE k # d
  <2>1. pc'[k] = pc[k] /\ pc[k] \notin {"reglock", "term", "returned"}
    BY <1>1, <1>3 DEF LastInQueue
  <2>2. pc'[c] = "lock" => c # d /\ pc[c] = "lock"
    BY <1>1 DEF Ended
  <2>3. ASSUME c # d, Ahead(c, k) PROVE Ahead(c, k)'
    <3>1. CASE UNCHANGED lockq
      BY <2>3, <3>1 DEF Ahead
    <3>2. CASE lockq' = Tail(lockq)
      BY <1>1, <2>3, <3>2, AheadWhenHeadLeaves
    <3>3. CASE lockq' = Append(Tail(lockq), d)
      BY <1>1, <2>3, <3>3, AheadWhenHeadRequeues
    <3>4. CASE Len(lockq) = 1
      BY <3>4, <2>3 DEF Ahead
    <3>5. QED
      BY <3>1, <3>2, <3>3, <3>4
  <2>4. QED
    BY <1>1, <2>1, <2>2, <2>3 DEF LastInQueue
<1>4. QED
  BY <1>2, <1>3

\* The head of the queue registers: session_stop does when nobody else is to.
LEMMA OrderWhenRegistered ==
  ASSUME TypeOK, LockInv, SyncInv, CloserInv, OrderInv, NEW d \in Calls,
         pc[d] = "reglock", Holds(d), UNCHANGED syncFut,
         pc' = [pc EXCEPT ![d] = "term"], lockq' = Tail(lockq)
  PROVE  OrderInv'
<1> SUFFICES ASSUME NEW k \in Closers, NEW c \in Calls, c # k PROVE LastInQueue(k, c)'
  BY DEF OrderInv
<1>1. /\ k \in Calls /\ LastInQueue(k, c) /\ (d # k => LastInQueue(k, d))
      /\ \A e \in Calls : e # d => pc'[e] = pc[e]
      /\ pc'[d] = "term"
  BY CommandsAreCalls DEF OrderInv, TypeOK
<1>2. CASE k = d
  <2>1. ~Ahead(c, d)
    BY QueueFacts DEF Ahead, Holds, LockInv
  <2>2. pc[c] \notin {"lock", "drain", "sync", "reglock"} /\ pc'[c] = pc[c]
    BY <1>1, <1>2, <2>1, OrderFacts DEF LastInQueue
  <2>3. QED
    BY <2>2 DEF LastInQueue
<1>3. CASE k # d
  <2>1. c # d /\ Ahead(c, k) => Ahead(c, k)'
    BY <1>1, AheadWhenHeadLeaves
  <2>2. QED
    BY <1>1, <1>3, <2>1 DEF LastInQueue
<1>4. QED
  BY <1>2, <1>3

\* A command ends, or is cancelled wherever it is.
LEMMA OrderWhenEnded ==
  ASSUME TypeOK, LockInv, SyncInv, CloserInv, OrderInv, NEW d \in Calls,
         \/ /\ pc[d] = "term" /\ UNCHANGED <<syncFut, lockq>>
            /\ \E to \in Ended : pc' = [pc EXCEPT ![d] = to]
         \/ CancelCall(d)
  PROVE  OrderInv'
<1> SUFFICES ASSUME NEW k \in Closers, NEW c \in Calls, c # k PROVE LastInQueue(k, c)'
  BY DEF OrderInv
<1>1. /\ k \in Calls /\ LastInQueue(k, c)
      /\ \A e \in Calls : e # d => pc'[e] = pc[e]
      /\ pc'[d] \in Ended /\ (pc'[d] = "returned" => pc[d] = "term")
  BY CommandsAreCalls DEF OrderInv, TypeOK, CancelCall, Ended
<1>2. syncFut'[k].state # "none" => syncFut[k].state # "none"
  BY <1>1 DEF TypeOK, SyncInv, CancelCall, Without
<1>3. ASSUME c # d, k # d, Ahead(c, k) PROVE Ahead(c, k)'
  <2>1. CASE UNCHANGED lockq
    BY <1>3, <2>1 DEF Ahead
  <2>2. CASE lockq' # lockq
    <3>1. PICK p \in DOMAIN lockq : lockq[p] = d /\ lockq' = RemoveAt(lockq, p)
      BY <2>2 DEF CancelCall
    <3>2. p \in 1..Len(lockq)
      BY <3>1 DEF TypeOK
    <3>3. QED
      BY <1>1, <1>3, <3>1, <3>2, AheadWhenOneLeaves
  <2>3. QED
    BY <2>1, <2>2
<1>4. QED
  BY <1>1, <1>2, <1>3 DEF LastInQueue, Ended

LEMMA OrderStep ==
  ASSUME TypeOK, LockInv, SyncInv, CloserInv, OrderInv, [SessionNext]_allVars
  PROVE  OrderInv'
<1>1. CASE Rests
  <2>1. \A c, k \in Calls : Ahead(c, k)' <=> Ahead(c, k)
    BY <1>1 DEF Rests, Ahead
  <2>2. QED
    BY <1>1, <2>1, CommandsAreCalls DEF Rests, OrderInv, LastInQueue
<1>2. ASSUME NEW d \in Calls, Proceeds(d) PROVE OrderInv'
  BY <1>2, OrderWhenGranted, OrderWhenAnswered, OrderWhenRegistered, OrderWhenEnded
     DEF Proceeds
<1>3. QED
  BY <1>1, <1>2, OrderWhenIssued, SessionKinds

-----------------------------------------------------------------------------
(* What a close() that goes all the way leaves *)

Emptied ==
  /\ reader = "done"
  /\ \A t \in Calls : pending[t] = NoCall
  /\ \A c \in Calls : pc[c] \in Suspended => Done(term[c])

\* After dispatcher.stop() there is no reader and no registration, and each caller
\* that is still suspended has its outcome; after that the socket is closed and an
\* owned server told to stop.
StoppedInv ==
  \A k \in Closers : pc[k] = "returned" =>
      /\ method[k] \in {"transport", "returned"} => Emptied
      /\ method[k] = "returned" => transport = "closed" /\ server # "owning"

\* When session_stop has returned, every other command waits for its end or is over.
LEMMA OthersPast ==
  ASSUME TypeOK, LockInv, SyncInv, CloserInv, OrderInv, NEW k \in Closers, pc[k] = "returned"
  PROVE  /\ closed /\ client = "open"
         /\ \A c \in Calls : pc[c] \in {"idle", "term"} \cup Ended
<1>1. closed /\ client = "open" /\ syncFut[k].state # "none"
  BY DEF CloserInv
<1>2. ASSUME NEW c \in Calls PROVE pc[c] \in {"idle", "term"} \cup Ended
  <2>1. CASE c = k
    BY <2>1 DEF Ended
  <2>2. CASE c # k
    <3>1. pc[c] \notin {"lock", "drain", "sync", "reglock"}
      BY <1>1, <2>2 DEF OrderInv, LastInQueue
    <3>2. QED
      BY <3>1 DEF TypeOK, Suspended
  <2>3. QED
    BY <2>1, <2>2
<1>3. QED
  BY <1>1, <1>2

\* From its start on there is a reader task, at work or not.
ReaderInv == client \in {"reading", "opening", "open"} => reader # "none"

LEMMA ReaderKept ==
  ASSUME ReaderInv, CloserInv, [SessionNext]_allVars
  PROVE  ReaderInv'
<1> USE DEF readerVars, clientVars
<1> DEFINE Keeps == reader # "none" => reader' # "none"
<1>1. ASSUME NEW c \in Calls, Call(c) \/ CallFromNote(c) \/ CallStep(c) \/ Cancel(c)
      PROVE  Keeps
  BY <1>1 DEF Call, CallFromNote, Enter, CallStep, Granted, Drained, Concludes, Accepted,
              Registers, Completed, Cancel
<1>2. ASSUME StopBegins \/ StopEnds \/ Serve \/ Close \/ Garble \/ UNCHANGED vars
      PROVE  Keeps
  BY <1>2 DEF StopBegins, StopEnds, Serve, Close, Garble, vars
<1>3. CASE ServerStarts \/ Connects \/ Handshakes \/ UNCHANGED allVars
  BY <1>2, <1>3 DEF ServerStarts, Connects, Handshakes, allVars, sessionVars, ReaderInv
<1>4. CASE StartReader
  BY <1>4 DEF StartReader, Start, ReaderInv
<1>5. CASE Opens
  BY <1>1, <1>5, CommandsAreCalls DEF Opens, ReaderInv
<1>6. CASE Opened
  BY <1>2, <1>6 DEF Opened, Resuming, CloserInv, ReaderInv
<1>7. ASSUME NEW c \in Commands, Invoke(c) PROVE ReaderInv'
  BY <1>1, <1>2, <1>7, CommandsAreCalls DEF Invoke, Issues, ReaderInv
<1>8. ASSUME NEW k \in Closers, CloseCalled(k) \/ CloseCancelled(k) PROVE ReaderInv'
  BY <1>1, <1>2, <1>8, CommandsAreCalls DEF CloseCalled, CloseCancelled, Issues, ReaderInv
<1>9. ASSUME NEW c \in Calls, MethodStep(c) PROVE ReaderInv'
  <2>1. CASE c \in Loads /\ Purging(c)
    <3>1. PurgeOf[c] \in Calls
      BY <2>1, CommandsAreCalls DEF Calls
    <3>2. QED
      BY <1>1, <1>2, <2>1, <3>1 DEF Purging, ReaderInv
  <2>2. CASE ~(c \in Loads /\ Purging(c))
    BY <1>2, <1>9, <2>2 DEF MethodStep, Answered, Purged, StopFailed, StopsDispatcher,
                            DispatcherStopped, TransportClosed, ReaderInv
  <2>3. QED
    BY <2>1, <2>2
<1>10. CASE LoopStep
  <2>1. Keeps
    BY <1>1, <1>10 DEF LoopStep, ReaderStep, DispatchSync, DispatchNote, DispatchTerminal,
                       Receives, ReaderCrashes, NoteDone, ReaderCancelled
  <2>2. QED
    BY <1>10, <2>1 DEF LoopStep, sessionVars, ReaderInv
<1>11. CASE ServerStep
  BY <1>2, <1>11 DEF ServerStep, sessionVars, Notes, Finishes, ReaderInv
<1>12. QED
  BY <1>3, <1>4, <1>5, <1>6, <1>7, <1>8, <1>9, <1>10, <1>11 DEF SessionNext

\* No reader is started on an open session.
LEMMA ReaderStays ==
  ASSUME reader = "done", client = "open", CloserInv, [SessionNext]_allVars
  PROVE  reader' = "done"
<1> USE DEF readerVars, clientVars
<1>1. ASSUME NEW c \in Calls, Call(c) \/ CallFromNote(c) \/ CallStep(c) \/ Cancel(c)
      PROVE  reader' = "done"
  BY <1>1 DEF Call, CallFromNote, Enter, CallStep, Granted, Drained, Concludes, Accepted,
              Registers, Completed, Cancel
<1>2. CASE StopBegins \/ StopEnds \/ Serve \/ Close \/ Garble \/ UNCHANGED vars
  BY <1>2 DEF StopBegins, StopEnds, Serve, Close, Garble, vars
<1>3. CASE ServerStarts \/ Connects \/ Handshakes \/ StartReader \/ Opens \/ UNCHANGED allVars
  BY <1>2, <1>3 DEF ServerStarts, Connects, Handshakes, StartReader, Opens, allVars
<1>4. CASE Opened
  BY <1>2, <1>4 DEF Opened
<1>5. ASSUME NEW c \in Commands, Invoke(c) PROVE reader' = "done"
  BY <1>1, <1>2, <1>5, CommandsAreCalls DEF Invoke, Issues
<1>6. ASSUME NEW k \in Closers, CloseCalled(k) \/ CloseCancelled(k) PROVE reader' = "done"
  BY <1>1, <1>2, <1>6, CommandsAreCalls DEF CloseCalled, CloseCancelled, Issues
<1>7. ASSUME NEW c \in Calls, MethodStep(c) PROVE reader' = "done"
  <2>1. CASE c \in Loads /\ Purging(c)
    <3>1. PurgeOf[c] \in Calls
      BY <2>1, CommandsAreCalls DEF Calls
    <3>2. QED
      BY <1>1, <1>2, <2>1, <3>1 DEF Purging
  <2>2. CASE ~(c \in Loads /\ Purging(c))
    BY <1>2, <1>7, <2>2 DEF MethodStep, Answered, Purged, StopFailed, StopsDispatcher,
                            DispatcherStopped, TransportClosed
  <2>3. QED
    BY <2>1, <2>2
<1>8. CASE LoopStep
  BY <1>1, <1>8 DEF LoopStep, ReaderStep, DispatchSync, DispatchNote, DispatchTerminal,
                    Receives, ReaderCrashes, NoteDone, ReaderCancelled
<1>9. CASE ServerStep
  BY <1>2, <1>9 DEF ServerStep, Notes, Finishes
<1>10. QED
  BY <1>3, <1>4, <1>5, <1>6, <1>7, <1>8, <1>9 DEF SessionNext

\* What has been emptied stays empty.
LEMMA EmptiedStays ==
  ASSUME IInv, CloserInv, OrderInv, [SessionNext]_allVars,
         NEW k \in Closers, pc[k] = "returned", Emptied
  PROVE  Emptied'
<1> USE DEF IInv
<1>1. closed /\ client = "open" /\ \A c \in Calls : pc[c] \in {"idle", "term"} \cup Ended
  BY OthersPast
<1>2. reader = "done" /\ reader' = "done"
  BY <1>1, ReaderStays DEF Emptied
<1>3. /\ \A t \in Calls : pending'[t] = NoCall
      /\ \A c \in Calls : Done(term[c]) => Done(term'[c])
  <2>1. [Next]_vars
    BY SessionStepsDispatcher
  <2>2. CASE UNCHANGED <<pending, term>>
    BY <2>2 DEF Emptied
  <2>3. ASSUME NEW c \in Calls, Arms(c) \/ Aborts(c) PROVE UNCHANGED <<pending, term>>
    BY <2>3 DEF Arms, Aborts, Transmit, CancelCall
  <2>4. ASSUME NEW c \in Calls, Enrols(c) PROVE FALSE
    BY <1>1, <2>4 DEF Enrols, Ended
  <2>5. ASSUME NEW c \in Calls, NEW to, Moves(c, to) PROVE UNCHANGED <<pending, term>>
    BY <2>5 DEF Moves
  <2>6. CASE DispatchSync \/ DispatchTerminal
    BY <1>2, <2>2, <2>6 DEF DispatchSync, DispatchTerminal, Receives
  <2>7. CASE SettlesAll
    BY <2>7 DEF SettlesAll, SettleAll
  <2>8. CASE StreamOnly \/ UNCHANGED clientVars
    BY <2>2, <2>8 DEF StreamOnly, clientVars
  <2>9. QED
    BY <2>1, <2>2, <2>3, <2>4, <2>5, <2>6, <2>7, <2>8, StepKinds
<1>4. ASSUME NEW c \in Calls, pc'[c] \in Suspended PROVE pc[c] \in Suspended
  <2>1. CASE Rests
    BY <1>4, <2>1 DEF Rests
  <2>2. ASSUME NEW d \in Calls, Proceeds(d) PROVE pc[c] \in Suspended
    <3>1. pc[d] \in Suspended /\ \A e \in Calls : e # d => pc'[e] = pc[e]
      BY <2>2, ProceedMoves DEF TypeOK
    <3>2. QED
      BY <1>4, <3>1
  <2>3. ASSUME NEW d \in Calls, Issued(d) PROVE FALSE
    BY <1>1, <2>3 DEF Issued
  <2>4. QED
    BY <2>1, <2>2, <2>3, SessionKinds
<1>5. QED
  BY <1>2, <1>3, <1>4 DEF Emptied

\* dispatcher.stop() reaches every caller, because each has registered or ended.
LEMMA SettleAllEmpties ==
  ASSUME IInv, CloserInv, OrderInv, NEW k \in Closers, pc[k] = "returned",
         SettleAll("cancelled"), UNCHANGED pc, reader' = "done"
  PROVE  Emptied'
<1> USE DEF IInv
<1>1. ASSUME NEW c \in Calls, pc[c] \in Suspended PROVE Done(term'[c])
  <2>1. pc[c] = "term"
    BY <1>1, OthersPast DEF Suspended, Ended
  <2>2. CASE Done(term[c])
    BY <2>2 DEF SettleAll
  <2>3. CASE ~Done(term[c])
    <3>1. syncFut[c].reply.task \in Calls
      BY <2>1, FutureTypes, ReplyTypes DEF SyncInv, HasTask, TypeOK
    <3>2. pending[syncFut[c].reply.task] = c
      BY <2>1, <2>3 DEF TermInv
    <3>3. term'[c] = Without("cancelled")
      BY <2>3, <3>1, <3>2 DEF SettleAll
    <3>4. QED
      BY <3>3 DEF Without, Done
  <2>4. QED
    BY <2>2, <2>3
<1>2. QED
  BY <1>1 DEF Emptied, SettleAll

\* Once the socket is closed and no server is owned, it stays so.
LEMMA ReleasedStays ==
  ASSUME client = "open", CloserInv, transport = "closed", server # "owning",
         [SessionNext]_allVars
  PROVE  transport' = "closed" /\ server' # "owning"
<1>1. CASE UNCHANGED <<transport, server>>
  BY <1>1
<1>2. CASE ServerStarts \/ Connects \/ Handshakes \/ StartReader \/ Opens \/ Opened
  BY <1>2 DEF ServerStarts, Connects, Handshakes, StartReader, Opens, Opened
<1>3. ASSUME NEW c \in Commands, Invoke(c) PROVE UNCHANGED <<transport, server>>
  BY <1>3 DEF Invoke
<1>4. ASSUME NEW k \in Closers, CloseCalled(k) \/ CloseCancelled(k)
      PROVE  transport' = "closed" /\ server' # "owning"
  BY <1>4 DEF CloseCalled, CloseCancelled
<1>5. ASSUME NEW c \in Calls, MethodStep(c)
      PROVE  transport' = "closed" /\ server' # "owning"
  BY <1>5 DEF MethodStep, Answered, Purging, Purged, StopFailed, StopsDispatcher,
              DispatcherStopped, TransportClosed
<1>6. CASE LoopStep \/ ServerStep \/ UNCHANGED allVars
  BY <1>6 DEF LoopStep, ServerStep, allVars, sessionVars
<1>7. QED
  BY <1>2, <1>3, <1>4, <1>5, <1>6 DEF SessionNext

LEMMA StoppedStep ==
  ASSUME IInv, SessionTypeOK, CloserInv, ReaderInv, OrderInv, StoppedInv,
         [SessionNext]_allVars
  PROVE  StoppedInv'
<1> USE DEF IInv
<1>1. SUFFICES ASSUME NEW k \in Closers, pc'[k] = "returned",
                      method'[k] \in {"transport", "returned"}
               PROVE  /\ Emptied'
                      /\ method'[k] = "returned" => transport' = "closed" /\ server' # "owning"
  BY DEF StoppedInv
<1>2. /\ k \in Calls
      /\ k \notin Commands /\ k \notin Loads
      /\ method \in [Calls -> {"idle", "command", "purge", "dispatcher", "transport"} \cup Over]
  BY CommandsAreCalls, ClosersApart DEF SessionTypeOK
<1>3. pc[k] \in {"returned", "term"}
  BY <1>1, StopMoves
<1>4. CASE method'[k] = method[k]
  <2>1. pc[k] = "returned"
    BY <1>1, <1>3, <1>4 DEF CloserInv, Over, Ended
  <2>2. Emptied /\ client = "open"
    BY <1>1, <1>4, <2>1, OthersPast DEF StoppedInv
  <2>3. Emptied'
    BY <2>1, <2>2, EmptiedStays
  <2>4. ASSUME method'[k] = "returned" PROVE transport' = "closed" /\ server' # "owning"
    BY <1>4, <2>1, <2>2, <2>4, ReleasedStays DEF StoppedInv
  <2>5. QED
    BY <2>3, <2>4
<1>5. CASE CloseCalled(k)
  BY <1>3, <1>5 DEF CloseCalled, CloserInv
<1>6. CASE CloseCancelled(k)
  BY <1>1, <1>2, <1>6 DEF CloseCancelled, Goes
<1>7. CASE MethodStep(k)
  <2>1. CASE StopFailed(k)
    BY <1>1, <1>2, <2>1 DEF StopFailed, Goes
  <2>2. CASE StopsDispatcher(k)
    <3>1. pc[k] = "returned" /\ reader # "running" /\ method'[k] = "transport"
      BY <1>1, <1>2, <2>2 DEF StopsDispatcher, Goes
    <3>2. client = "open"
      BY <3>1, OthersPast
    <3>3. SettleAll("cancelled") /\ UNCHANGED pc /\ reader' = "done"
      BY <2>2, <3>1, <3>2 DEF StopsDispatcher, StopBegins, ReaderInv
    <3>4. QED
      BY <3>1, <3>3, SettleAllEmpties
  <2>3. CASE DispatcherStopped(k)
    <3>1. method[k] = "dispatcher" /\ method'[k] = "transport" /\ pc[k] = "returned"
      BY <1>2, <2>3 DEF DispatcherStopped, Goes, CloserInv
    <3>2. SettleAll("cancelled") /\ UNCHANGED pc /\ reader' = "done"
      BY <2>3 DEF DispatcherStopped, StopEnds, readerVars
    <3>3. QED
      BY <3>1, <3>2, SettleAllEmpties
  <2>4. CASE TransportClosed(k)
    <3>1. method[k] = "transport" /\ pc[k] = "returned" /\ Emptied
      BY <2>4 DEF TransportClosed, CloserInv, StoppedInv
    <3>2. Emptied'
      BY <3>1, EmptiedStays
    <3>3. method'[k] = "returned" => transport' = "closed" /\ server' # "owning"
      BY <1>2, <2>4 DEF TransportClosed, Goes
    <3>4. QED
      BY <3>2, <3>3
  <2>5. QED
    BY <1>2, <1>7, <2>1, <2>2, <2>3, <2>4 DEF MethodStep
<1>8. QED
  BY <1>4, <1>5, <1>6, <1>7, CloserMoves

-----------------------------------------------------------------------------
(* The inductive invariant of a session, and what follows from it *)

SessionInv == IInv /\ SessionTypeOK /\ CloserInv /\ ReaderInv /\ OrderInv /\ StoppedInv

\* The inductive invariant: methods, commands, flag, lock queue, registry, reader,
\* socket and server agree in every reachable state of a session.
THEOREM SessionInductive == SessionSpec => []SessionInv
<1>1. SessionInit => CloserInv /\ ReaderInv /\ OrderInv /\ StoppedInv
  BY CommandsAreCalls
     DEF SessionInit, Init, CloserInv, ReaderInv, OrderInv, LastInQueue, StoppedInv, NoFuture, Over
<1>2. CloserInv /\ ReaderInv /\ OrderInv /\ StoppedInv /\ IInv /\ SessionTypeOK /\ [SessionNext]_allVars
        => CloserInv' /\ ReaderInv' /\ OrderInv' /\ StoppedInv'
  BY CloserStep, ReaderKept, OrderStep, StoppedStep DEF IInv
<1>3. SessionSpec => []IInv
  BY SessionImplementsDispatcher, Inductive, PTL
<1>4. QED
  BY <1>1, <1>2, <1>3, SessionTypeCorrect, PTL DEF SessionSpec, SessionInv

\* When a close() goes on to stop the dispatcher, nobody is between issuing a
\* command and registering its task, out of the reach of stop().
THEOREM StopReachesEveryCall == SessionSpec => []NoneStranded
<1>1. SessionInv => NoneStranded
  <2> SUFFICES ASSUME SessionInv, NEW k \in Closers, method[k] \in {"dispatcher", "transport"},
                      NEW c \in Calls
               PROVE  pc[c] \in {"idle", "term"} \cup Ended
    BY DEF NoneStranded
  <2>1. pc[k] = "returned"
    BY DEF SessionInv, CloserInv
  <2>2. QED
    BY <2>1, OthersPast DEF SessionInv, IInv
<1>2. QED
  BY <1>1, SessionInductive, PTL

\* A close() that goes all the way leaves no reader, socket, owned server, registry
\* entry or caller without an outcome, and nothing brings one back.
THEOREM CompleteCloseIsQuiet == SessionSpec => []ClosedIsQuiet
<1>1. SessionInv => ClosedIsQuiet
  BY DEF SessionInv, StoppedInv, Emptied, ClosedIsQuiet
<1>2. QED
  BY <1>1, SessionInductive, PTL

\* A command is sent before session_stop is, or never.
LEMMA SentLast ==
  ASSUME SessionInv, [SessionNext]_allVars, NEW c \in Calls,
         syncFut[c].state = "none", syncFut'[c].state # "none", NEW k \in Closers
  PROVE  syncFut[k].state = "none"
<1> USE DEF SessionInv, IInv
<1>1. k \in Calls
  BY CommandsAreCalls
<1>2. CASE Rests
  BY <1>2 DEF Rests
<1>3. ASSUME NEW d \in Calls, Issued(d) PROVE syncFut[k].state = "none"
  BY <1>1, <1>3 DEF Issued, CloserInv, SyncInv
<1>4. ASSUME NEW d \in Calls, Proceeds(d) PROVE syncFut[k].state = "none"
  <2>1. d = c
    BY <1>4, ProceedMoves
  <2>2. pc[c] = "lock"
    <3>1. CASE CancelCall(d)
      BY <2>1, <3>1 DEF CancelCall, SyncInv, TypeOK
    <3>2. QED
      BY <1>4, <2>1, <3>1 DEF Proceeds
  <2>3. QED
    BY <1>1, <2>2 DEF OrderInv, LastInQueue
<1>5. QED
  BY <1>2, <1>3, <1>4, SessionKinds

\* Nothing is sent once session_stop is: no other command, and no session_stop again.
THEOREM StopIsSentLast == SessionSpec => NothingAfterStop
<1>1. SessionInv /\ [SessionNext]_allVars =>
        (\A c \in Calls : syncFut[c].state = "none" /\ syncFut'[c].state # "none" =>
            \A k \in Closers : syncFut[k].state = "none")
  BY SentLast
<1>2. QED
  BY <1>1, SessionInductive, PTL DEF SessionSpec, NothingAfterStop

=============================================================================
