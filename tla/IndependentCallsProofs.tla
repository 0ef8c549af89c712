------------------------ MODULE IndependentCallsProofs ------------------------
(***************************************************************************)
(* The dispatcher implements IndependentCalls: the step simulation behind   *)
(* the property ImplementsIndependentCalls, for any number of calls.        *)
(***************************************************************************)
EXTENDS DispatcherProofs

-----------------------------------------------------------------------------
(* One more invariant: what settles an immediate future, and who has a task *)

TaskInv ==
    \A c \in Calls :
        /\ term[c].state # "none" => HasTask(c)
        /\ syncFut[c].state = "result" => IsSyncReply(syncFut[c].reply)

LEMMA TaskStep ==
    ASSUME IInv, TaskInv, [Next]_vars
    PROVE  TaskInv'
<1> USE DEF IInv
<1>1. ASSUME NEW c \in Calls, HasTask(c), syncFut'[c] = syncFut[c] PROVE HasTask(c)'
  BY <1>1 DEF HasTask
<1>2. ASSUME NEW c \in Calls, Arms(c) PROVE TaskInv'
  <2>1. ~HasTask(c)
    BY <1>2 DEF Arms, SyncInv, HasTask
  <2>2. UNCHANGED term /\ syncFut' = [syncFut EXCEPT ![c] = NewFuture]
    BY <1>2 DEF Arms, Transmit
  <2>3. QED
    BY <1>1, <2>1, <2>2 DEF TypeOK, TaskInv, NewFuture
<1>3. ASSUME NEW c \in Calls, Enrols(c) PROVE TaskInv'
  <2>1. HasTask(c) /\ UNCHANGED syncFut
    BY <1>3 DEF Enrols, SyncInv
  <2>2. \A d \in Calls : d # c => term'[d] = term[d]
    BY <1>3 DEF Enrols, Register, TypeOK
  <2>3. QED
    BY <1>1, <2>1, <2>2 DEF TaskInv
<1>4. ASSUME UNCHANGED term, \A c \in Calls : HasTask(c) => syncFut'[c] = syncFut[c],
             \A c \in Calls :
                \/ syncFut'[c] = syncFut[c]
                \/ syncFut'[c].state = "result" => IsSyncReply(syncFut'[c].reply)
      PROVE  TaskInv'
  BY <1>1, <1>4 DEF TaskInv, IsSyncReply
<1>5. ASSUME NEW c \in Calls, Aborts(c) PROVE TaskInv'
  BY <1>4, <1>5 DEF TypeOK, Aborts, CancelCall, HasTask, Done, Without, IsSyncReply
<1>6. ASSUME NEW c \in Calls, NEW to, Moves(c, to) PROVE TaskInv'
  BY <1>4, <1>6 DEF Moves
<1>7. CASE DispatchSync
  BY <1>4, <1>7 DEF TypeOK, DispatchSync, HasTask, Done, WithResult
<1>8. ASSUME NEW t \in Calls, pending[t] # NoCall PROVE HasTask(pending[t])
  <2>1. pending[t] \in Calls /\ term[pending[t]].state = "pending"
    BY <1>8 DEF TypeOK, TermInv
  <2>2. QED
    BY <2>1 DEF TaskInv
<1>9. CASE DispatchTerminal
  <2>1. UNCHANGED syncFut
    BY <1>9 DEF DispatchTerminal
  <2>2. \A c \in Calls : term'[c] = term[c] \/ HasTask(c)
    BY <1>8, <1>9, ReceivesType DEF DispatchTerminal, Receives, TypeOK
  <2>3. QED
    BY <1>1, <2>1, <2>2 DEF TaskInv
<1>10. CASE SettlesAll
  <2>1. \A c \in Calls :
           \/ syncFut'[c] = syncFut[c]
           \/ ~HasTask(c) /\ syncFut'[c].state # "result"
    BY <1>10 DEF SettlesAll, SettleAll, TypeOK, HasTask, Done, Without
  <2>2. \A c \in Calls : term'[c] = term[c] \/ HasTask(c)
    BY <1>8, <1>10, CallsAssumption DEF SettlesAll, SettleAll
  <2>3. QED
    BY <1>1, <2>1, <2>2 DEF TaskInv
<1>11. CASE StreamOnly \/ UNCHANGED clientVars
  BY <1>4, <1>11 DEF StreamOnly, clientVars
<1>12. QED
  BY <1>2, <1>3, <1>5, <1>6, <1>7, <1>9, <1>10, <1>11, StepKinds

-----------------------------------------------------------------------------
(* The abstract state of a call *)

\* Nothing that the abstract specification sees has changed.
LEMMA Stutters ==
    ASSUME \A c \in Calls : /\ Stage(c)' = Stage(c)
                            /\ Given(syncFut[c])' = Given(syncFut[c])
                            /\ Given(term[c])' = Given(term[c]),
           Abandoned' = Abandoned
    PROVE  UNCHANGED Independent!vars
  BY DEF Independent!vars

\* One call goes on, and the futures are as they were.
LEMMA GoesTo ==
    ASSUME TypeOK, NEW c \in Calls, NEW to, pc' = [pc EXCEPT ![c] = to]
    PROVE  Independent!Goes(c, Stage(c)')
<1>1. \A d \in Calls : d # c => Stage(d)' = Stage(d)
  BY DEF Stage, TypeOK
<1>2. QED
  BY <1>1 DEF Independent!Goes

\* Moving on one call without touching its future abandons nobody else.
LEMMA AbandonedBy ==
    ASSUME TypeOK, NEW c \in Calls, NEW to, pc' = [pc EXCEPT ![c] = to], UNCHANGED syncFut,
           pc[c] \notin Ended
    PROVE  /\ Abandoned \subseteq Abandoned'
           /\ syncFut[c].state # "pending" \/ to \notin Ended => Abandoned' = Abandoned
           /\ syncFut[c].state = "pending" /\ to \in Ended => c \in Abandoned'
<1>1. \A d \in Calls : d # c => pc'[d] = pc[d]
  BY DEF TypeOK
<1>2. pc'[c] = to
  BY DEF TypeOK
<1>3. QED
  BY <1>1, <1>2 DEF Abandoned

-----------------------------------------------------------------------------
(* Step simulation *)

\* The futures of a call before it is armed, and before it has a task.
LEMMA NotYet ==
    ASSUME IInv, NEW c \in Calls
    PROVE  /\ pc[c] \in {"idle", "lock"} => Given(syncFut[c]) = NoFuture
           /\ pc[c] \in {"idle", "lock", "drain", "sync", "reglock"} => Given(term[c]) = NoFuture
           /\ Given(NewFuture) = NoFuture
  BY DEF IInv, SyncInv, TermInv, Given, Done, Ended, NewFuture

LEMMA TransmitSimulates ==
    ASSUME IInv, NEW c \in Calls, NEW queue, Transmit(c, queue), pc[c] \in {"idle", "lock"}
    PROVE  \/ pc[c] = "idle" /\ Independent!Issues(c)
           \/ pc[c] = "lock" /\ UNCHANGED Independent!vars
           \/ Independent!Leaves(c)
<1> USE DEF IInv
<1>1. /\ syncFut' = [syncFut EXCEPT ![c] = NewFuture] /\ UNCHANGED term
      /\ \/ \E to \in {"sync", "drain"} : pc' = [pc EXCEPT ![c] = to]
         \/ pc' = [pc EXCEPT ![c] = "connection_error"]
  BY DEF Transmit
<1>2. /\ \A d \in Calls : Given(syncFut[d])' = Given(syncFut[d])
      /\ \A d \in Calls : Given(term[d])' = Given(term[d])
      /\ \A d \in Calls : d # c => pc'[d] = pc[d] /\ syncFut'[d] = syncFut[d]
      /\ syncFut'[c].state = "pending" /\ syncFut[c].state = "none" /\ Given(syncFut[c]) = NoFuture
  BY <1>1, NotYet DEF TypeOK, NewFuture, SyncInv
<1>3. CASE \E to \in {"sync", "drain"} : pc' = [pc EXCEPT ![c] = to]
  <2>1. PICK to \in {"sync", "drain"} : pc' = [pc EXCEPT ![c] = to]
    BY <1>3
  <2>2. pc'[c] = to /\ to \notin Ended
    BY <2>1 DEF TypeOK, Ended
  <2>3. Abandoned' = Abandoned
    BY <1>2, <2>2 DEF Abandoned
  <2>4. Stage(c)' = "issued"
    BY <2>2 DEF Stage
  <2>5. CASE pc[c] = "lock"
    <3>1. \A d \in Calls : Stage(d)' = Stage(d)
      BY <1>2, <2>4, <2>5 DEF Stage
    <3>2. QED
      BY <1>2, <2>3, <2>5, <3>1, Stutters
  <2>6. CASE pc[c] = "idle"
    <3>1. Stage(c) = "idle"
      BY <2>6 DEF Stage
    <3>2. QED
      BY <1>2, <2>1, <2>3, <2>4, <2>6, <3>1, GoesTo DEF Independent!Issues
  <2>7. QED
    BY <2>5, <2>6
<1>4. CASE pc' = [pc EXCEPT ![c] = "connection_error"]
  <2>1. pc'[c] = "connection_error" /\ "connection_error" \in Ended
    BY <1>4 DEF TypeOK, Ended
  <2>2. Abandoned' # {}
    BY <1>2, <2>1 DEF Abandoned
  <2>3. Stage(c) \in {"idle", "issued"} /\ Stage(c)' = "connection_error"
    BY <2>1 DEF Stage
  <2>4. QED
    BY <1>2, <1>4, <2>2, <2>3, GoesTo DEF Independent!Leaves
<1>5. QED
  BY <1>1, <1>3, <1>4

\* A step that moves call c on, and leaves the immediate futures alone.
LEMMA MoveSimulates ==
    ASSUME IInv, TaskInv, NEW c \in Calls,
           \/ Drained(c) \/ Concludes(c) \/ Accepted(c) \/ Registers(c) \/ Completed(c)
           \/ c \in Timed /\ TimesOut(c)
    PROVE  \/ UNCHANGED Independent!vars \/ Independent!Leaves(c) \/ Independent!Concludes(c)
           \/ Independent!Accepts(c) \/ Independent!Completes(c) \/ Independent!TimesOut(c)
<1> USE DEF IInv
<1>1. /\ UNCHANGED syncFut
      /\ \A d \in Calls : Given(syncFut[d])' = Given(syncFut[d])
  BY DEF Drained, Concludes, Accepted, Registers, Register, Completed, TimesOut
<1>2. \A d \in Calls : Given(term[d])' = Given(term[d])
  <2>1. CASE UNCHANGED term
    BY <2>1
  <2>2. CASE Register(c) /\ pc[c] \in {"sync", "reglock"}
    BY <2>2, NotYet DEF Register, TypeOK
  <2>3. QED
    BY <2>1, <2>2 DEF Drained, Concludes, Accepted, Registers, Completed, TimesOut
<1>3. UNCHANGED <<[d \in Calls |-> Given(syncFut[d])], [d \in Calls |-> Given(term[d])]>>
  BY <1>1, <1>2
<1>4. HasTask(c) <=> Independent!HasTask(c)
  BY DEF HasTask, Independent!HasTask, Given, Done, NoFuture
<1>5. CASE Drained(c) /\ pc' = [pc EXCEPT ![c] = "sync"]
  <2>1. Abandoned' = Abandoned
    BY <1>1, <1>5, AbandonedBy DEF Drained, Ended
  <2>2. \A d \in Calls : Stage(d)' = Stage(d)
    BY <1>5 DEF Drained, Stage, TypeOK
  <2>3. QED
    BY <1>1, <1>2, <2>1, <2>2, Stutters
<1>6. CASE Drained(c) /\ pc' = [pc EXCEPT ![c] = "connection_error"]
  <2>1. pc[c] = "drain" /\ syncFut[c].state # "none" /\ "connection_error" \in Ended
    BY <1>6 DEF Drained, SyncInv, Ended
  <2>2. Given(syncFut[c]) = NoFuture => syncFut[c].state = "pending"
    BY <2>1 DEF Given, NoFuture, Done, TypeOK, Future
  <2>3. Given(syncFut[c]) # NoFuture => syncFut[c].state # "pending"
    BY DEF Given, Done
  <2>4. IF Given(syncFut[c]) = NoFuture THEN Abandoned' # {} ELSE Abandoned' = Abandoned
    BY <1>1, <1>6, <2>1, <2>2, <2>3, AbandonedBy DEF Ended
  <2>5. Stage(c) = "issued" /\ Stage(c)' = "connection_error"
    BY <1>6, <2>1 DEF Stage, TypeOK
  <2>6. Independent!Goes(c, "connection_error")
    BY <1>6, <2>5, GoesTo
  <2>7. QED
    BY <1>1, <1>2, <2>4, <2>5, <2>6 DEF Independent!Leaves
<1>7. CASE Concludes(c)
  <2>1. pc[c] = "sync" /\ Given(syncFut[c]) = syncFut[c] /\ Stage(c) = "issued"
    BY <1>7 DEF Concludes, Given, Stage
  <2>2. Stage(c)' = SyncOutcome(c)
    BY <1>7 DEF Concludes, Stage, TypeOK, Failure, SyncOutcome
  <2>3. Abandoned' = Abandoned
    BY <1>1, <1>7, AbandonedBy DEF Concludes, Done, Ended
  <2>4. Independent!Goes(c, SyncOutcome(c))
    BY <1>7, <2>2, GoesTo DEF Concludes
  <2>5. CASE syncFut[c].state \in {"exception", "cancelled"}
    <3>1. SyncOutcome(c) = IF syncFut[c].state = "exception" THEN "reader_error" ELSE "cancelled"
      BY <2>5 DEF Failure, SyncOutcome
    <3>2. QED
      BY <1>3, <2>1, <2>3, <2>4, <2>5, <3>1 DEF Independent!Concludes
  <2>6. CASE syncFut[c].state = "result"
    <3>1. syncFut[c].reply.kind \in {"OK", "ERROR"}
      BY <2>6 DEF TaskInv, IsSyncReply
    <3>2. ~Independent!HasTask(c)
      BY <1>4, <1>7 DEF Concludes
    <3>3. QED
      BY <1>3, <2>1, <2>3, <2>4, <2>6, <3>1, <3>2 DEF Independent!Concludes, SyncOutcome
  <2>7. QED
    BY <1>7, <2>5, <2>6 DEF Concludes, Done
<1>8. CASE Accepted(c)
  <2>1. Stage(c) = "issued" /\ Stage(c)' = "accepted"
    BY <1>8 DEF Accepted, Register, Stage, TypeOK
  <2>2. \E to \in {"term", "reglock"} : pc' = [pc EXCEPT ![c] = to]
    BY <1>8 DEF Accepted, Register
  <2>3. Abandoned' = Abandoned
    BY <1>1, <1>8, <2>2, AbandonedBy DEF Accepted, Ended
  <2>4. QED
    BY <1>3, <1>4, <1>8, <2>1, <2>2, <2>3, GoesTo DEF Independent!Accepts, Accepted
<1>9. CASE Registers(c)
  <2>1. \A d \in Calls : Stage(d)' = Stage(d)
    BY <1>9 DEF Registers, Register, Stage, TypeOK
  <2>2. Abandoned' = Abandoned
    <3>1. pc' = [pc EXCEPT ![c] = "term"] /\ pc[c] \notin Ended /\ "term" \notin Ended
      BY <1>9 DEF Registers, Register, Ended
    <3>2. QED
      BY <1>1, <3>1, AbandonedBy
  <2>3. QED
    BY <1>1, <1>2, <2>1, <2>2, Stutters
<1>10. CASE Completed(c)
  <2>1. pc[c] = "term" /\ Given(term[c]) = term[c] /\ Stage(c) = "accepted"
    BY <1>10 DEF Completed, Given, Stage
  <2>2. Stage(c)' = TermOutcome(c)
    BY <1>10 DEF Completed, Stage, TypeOK, Failure, TermOutcome
  <2>3. HasTask(c) /\ syncFut[c].state # "pending"
    BY <2>1 DEF SyncInv, HasTask
  <2>4. Abandoned' = Abandoned
    BY <1>1, <1>10, <2>3, AbandonedBy DEF Completed, Ended
  <2>5. Independent!Goes(c, TermOutcome(c))
    BY <1>10, <2>2, GoesTo DEF Completed
  <2>6. CASE term[c].state \in {"exception", "cancelled"}
    <3>1. TermOutcome(c) = IF term[c].state = "exception" THEN "reader_error" ELSE "cancelled"
      BY <2>6 DEF Failure, TermOutcome
    <3>2. QED
      BY <1>3, <2>1, <2>4, <2>5, <2>6, <3>1 DEF Independent!Completes
  <2>7. CASE term[c].state = "result"
    <3>1. term[c].reply.kind \in {"FINISHED", "FAILED", "INTERRUPT"}
      BY <2>7 DEF TermInv, IsTerminal
    <3>2. QED
      BY <1>3, <2>1, <2>4, <2>5, <2>7, <3>1 DEF Independent!Completes, TermOutcome
  <2>8. QED
    BY <1>10, <2>6, <2>7 DEF Completed, Done
<1>11. CASE c \in Timed /\ TimesOut(c)
  <2>1. Stage(c) = "accepted" /\ Stage(c)' = "timeout"
    BY <1>11 DEF TimesOut, Stage, TypeOK
  <2>2. syncFut[c].state # "pending"
    BY <1>11 DEF TimesOut, SyncInv, HasTask
  <2>3. Abandoned' = Abandoned
    BY <1>1, <1>11, <2>2, AbandonedBy DEF TimesOut, Ended
  <2>4. QED
    BY <1>1, <1>2, <1>11, <2>1, <2>3, GoesTo DEF TimesOut, Independent!TimesOut
<1>12. QED
  BY <1>5, <1>6, <1>7, <1>8, <1>9, <1>10, <1>11 DEF Drained

\* A cancelled caller leaves from wherever it is suspended.
LEMMA CancelSimulates ==
    ASSUME IInv, NEW c \in Calls, CancelCall(c)
    PROVE  Independent!Leaves(c)
<1> USE DEF IInv
<1>1. /\ pc[c] \in Suspended /\ pc' = [pc EXCEPT ![c] = "cancelled"] /\ UNCHANGED term
      /\ \A d \in Calls : d # c => syncFut'[d] = syncFut[d] /\ pc'[d] = pc[d]
      /\ pc'[c] = "cancelled"
  BY DEF CancelCall, TypeOK
<1>2. Stage(c) \in {"issued", "accepted"} /\ Independent!Goes(c, "cancelled")
  <2>1. Stage(c)' = "cancelled" /\ Stage(c) \in {"issued", "accepted"}
    BY <1>1 DEF Stage, Suspended
  <2>2. QED
    BY <1>1, <2>1, GoesTo
<1>3. CASE pc[c] = "sync" /\ ~Done(syncFut[c])
  <2>1. syncFut'[c] = Without("cancelled")
    BY <1>3 DEF CancelCall, TypeOK
  <2>2. /\ Given(syncFut[c]) = NoFuture
        /\ Given(syncFut'[c]) = [NoFuture EXCEPT !.state = "cancelled"]
    BY <1>3, <2>1 DEF Given, Done, Without, NoFuture
  <2>3. [d \in Calls |-> Given(syncFut'[d])] =
            [[d \in Calls |-> Given(syncFut[d])] EXCEPT ![c] = [NoFuture EXCEPT !.state = "cancelled"]]
    BY <1>1, <2>2
  <2>4. Abandoned' # {}
    BY <2>1 DEF Abandoned, Without
  <2>5. QED
    BY <1>1, <1>2, <2>2, <2>3, <2>4 DEF Independent!Leaves
<1>4. CASE ~(pc[c] = "sync" /\ ~Done(syncFut[c]))
  <2>1. UNCHANGED syncFut
    BY <1>4 DEF CancelCall
  <2>2. Abandoned \subseteq Abandoned'
        /\ (syncFut[c].state # "pending" => Abandoned' = Abandoned)
    BY <1>1, <2>1, AbandonedBy DEF Suspended, Ended
  <2>3. Given(syncFut[c]) # NoFuture => syncFut[c].state # "pending"
    BY DEF Given, Done
  <2>4. QED
    BY <1>1, <1>2, <2>1, <2>2, <2>3 DEF Independent!Leaves
<1>5. QED
  BY <1>3, <1>4

\* An immediate reply is given to the call whose future is armed; whose reply it
\* really is follows from the invariants, after the step.
LEMMA DispatchSyncSimulates ==
    ASSUME IInv, OwnReply', DispatchSync
    PROVE  UNCHANGED Independent!vars \/ \E c \in Calls : Independent!Answers(c)
<1> USE DEF IInv
<1>1. /\ Message \in RawReply /\ IsSyncReply(Message)
      /\ UNCHANGED <<pc, term>>
  BY ReceivesType DEF DispatchSync, Receives
<1>2. CASE UNCHANGED syncFut
  BY <1>1, <1>2, Stutters DEF Abandoned, Stage
<1>3. CASE /\ syncReply # NoCall /\ ~Done(syncFut[syncReply])
           /\ syncFut' = [syncFut EXCEPT ![syncReply] = WithResult(Message)]
  <2>1. PICK c \in Calls : c = syncReply
    BY <1>3 DEF TypeOK
  <2>2. /\ syncFut'[c] = WithResult(Message)
        /\ \A d \in Calls : d # c => syncFut'[d] = syncFut[d]
    BY <1>3, <2>1 DEF TypeOK
  <2>3. /\ Given(syncFut[c]) = NoFuture
        /\ Given(syncFut'[c]) = WithResult(Message)
    BY <1>3, <2>1, <2>2 DEF Given, Done, WithResult
  <2>4. [d \in Calls |-> Given(syncFut'[d])] =
            [[d \in Calls |-> Given(syncFut[d])] EXCEPT ![c] = Independent!Answer(Message)]
    BY <2>2, <2>3 DEF Independent!Answer, WithResult
  <2>5. Stage(c) # "idle"
    <3>1. pc[c] # "idle"
      BY <1>3, <2>1 DEF SyncInv
    <3>2. QED
      BY <3>1 DEF Stage
  <2>6. Abandoned' \subseteq Abandoned
    BY <1>1, <2>2 DEF Abandoned, WithResult
  <2>7. Abandoned' = {} => Message.command = c
    BY <2>2 DEF OwnReply, RepliesMatch, WithResult
  <2>8. Message \in Independent!Replies({"OK", "ERROR"})
    BY <1>1 DEF Independent!Replies, Independent!Everyone, Calls, RawReply, IsSyncReply
  <2>9. UNCHANGED <<[d \in Calls |-> Stage(d)], [d \in Calls |-> Given(term[d])]>>
    BY <1>1 DEF Stage
  <2>10. (Abandoned' # {}) \in {Abandoned # {}, FALSE}
    BY <2>6
  <2>11. QED
    BY <2>3, <2>4, <2>5, <2>7, <2>8, <2>9, <2>10 DEF Independent!Answers
<1>4. QED
  BY <1>2, <1>3 DEF DispatchSync

\* A terminal reply is given to the call whose immediate reply named its task.
LEMMA DispatchTerminalSimulates ==
    ASSUME IInv, TaskInv, OwnReply', DispatchTerminal
    PROVE  UNCHANGED Independent!vars \/ \E c \in Calls : Independent!TaskEnds(c)
<1> USE DEF IInv
<1> DEFINE t == Message.task
<1>1. /\ Message \in RawReply /\ IsTerminal(Message) /\ t \in Calls \cup {NoCall}
      /\ UNCHANGED <<pc, syncFut>>
  BY ReceivesType DEF DispatchTerminal, Receives
<1>2. Abandoned' = Abandoned
  BY <1>1 DEF Abandoned
<1>3. CASE UNCHANGED term
  BY <1>1, <1>2, <1>3, Stutters DEF Stage
<1>4. CASE /\ t # NoCall /\ pending[t] # NoCall /\ ~Done(term[pending[t]])
           /\ term' = [term EXCEPT ![pending[t]] = WithResult(Message)]
  <2>1. PICK c \in Calls :
           /\ c = pending[t] /\ term[c].state = "pending"
           /\ syncFut[c].state = "result" /\ syncFut[c].reply.task = t
    BY <1>1, <1>4 DEF TypeOK, TermInv
  <2>2. /\ term'[c] = WithResult(Message)
        /\ \A d \in Calls : d # c => term'[d] = term[d]
    BY <1>4, <2>1 DEF TypeOK
  <2>3. /\ Given(term[c]) = NoFuture /\ Given(syncFut[c]) = syncFut[c]
        /\ Given(term'[c]) = WithResult(Message)
    BY <1>4, <2>1, <2>2 DEF Given, Done, WithResult
  <2>4. [d \in Calls |-> Given(term'[d])] =
            [[d \in Calls |-> Given(term[d])] EXCEPT ![c] = Independent!Answer(Message)]
    BY <2>2, <2>3 DEF Independent!Answer, WithResult
  <2>5. HasTask(c) /\ Stage(c) # "issued"
    <3>1. HasTask(c) /\ pc[c] \in Ended \cup {"term"}
      BY <2>1 DEF TaskInv, TermInv
    <3>2. QED
      BY <3>1 DEF Stage, Ended
  <2>6. Independent!HasTask(c)
    BY <2>3, <2>5 DEF HasTask, Independent!HasTask
  <2>7. Abandoned = {} => Message.command = c
    BY <1>2, <2>2 DEF OwnReply, RepliesMatch, WithResult
  <2>8. Message \in Independent!Replies({"FINISHED", "FAILED", "INTERRUPT"})
    BY <1>1 DEF Independent!Replies, Independent!Everyone, Calls, RawReply, IsTerminal
  <2>9. UNCHANGED <<[d \in Calls |-> Stage(d)], [d \in Calls |-> Given(syncFut[d])],
                    Abandoned # {}>>
    BY <1>1, <1>2 DEF Stage
  <2>10. QED
    BY <2>1, <2>3, <2>4, <2>5, <2>6, <2>7, <2>8, <2>9 DEF Independent!TaskEnds
<1>5. QED
  BY <1>3, <1>4 DEF DispatchTerminal

\* A crash or a stop gives the same outcome to the armed call and to every
\* registered one, and to nobody else.
LEMMA SettleAllSimulates ==
    ASSUME IInv, TaskInv, NEW outcome \in {"exception", "cancelled"},
           SettleAll(outcome), UNCHANGED pc
    PROVE  Independent!Breaks
<1> USE DEF IInv
<1> DEFINE callers == {c \in Calls : c = syncReply /\ ~Done(syncFut[c])}
           owners == {c \in Calls : (\E t \in Calls : pending[t] = c) /\ ~Done(term[c])}
<1>1. \A c \in Calls : syncFut'[c] = IF c \in callers THEN Without(outcome) ELSE syncFut[c]
  BY CallsAssumption DEF SettleAll, TypeOK
<1>2. \A c \in Calls : term'[c] = IF c \in owners THEN Without(outcome) ELSE term[c]
  BY DEF SettleAll
<1>3. /\ Done(Without(outcome)) /\ Without(outcome) = [NoFuture EXCEPT !.state = outcome]
      /\ Given(Without(outcome)) = Without(outcome)
  BY DEF Done, Without, NoFuture, Given
<1>4. \A c \in callers : Stage(c) # "idle" /\ Given(syncFut[c]) = NoFuture
  <2>1. \A c \in callers : pc[c] # "idle" /\ ~Done(syncFut[c])
    BY CallsAssumption DEF SyncInv
  <2>2. QED
    BY <2>1 DEF Stage, Given
<1>5. \A c \in owners : Independent!HasTask(c) /\ Given(term[c]) = NoFuture
  <2>1. ASSUME NEW c \in owners PROVE HasTask(c)
    BY CallsAssumption DEF TermInv, TaskInv
  <2>2. QED
    BY <2>1 DEF HasTask, Independent!HasTask, Given, Done
<1>6. (Abandoned' # {}) = (Abandoned # {} \/ callers # {})
  <2>1. \A c \in callers : c \in Abandoned'
    BY <1>1 DEF Abandoned, Without
  <2>2. \A c \in Calls : c \notin callers => (c \in Abandoned' <=> c \in Abandoned)
    BY <1>1 DEF Abandoned
  <2>3. QED
    BY <2>1, <2>2 DEF Abandoned
<1>7. Independent!Everyone = Calls
  BY DEF Independent!Everyone, Calls
<1>8. /\ [c \in Calls |-> Given(syncFut'[c])] =
            [c \in Independent!Everyone |->
                IF c \in callers THEN [NoFuture EXCEPT !.state = outcome]
                ELSE [d \in Calls |-> Given(syncFut[d])][c]]
      /\ [c \in Calls |-> Given(term'[c])] =
            [c \in Independent!Everyone |->
                IF c \in owners THEN [NoFuture EXCEPT !.state = outcome]
                ELSE [d \in Calls |-> Given(term[d])][c]]
  BY <1>1, <1>2, <1>3, <1>7
<1>9. UNCHANGED [c \in Calls |-> Stage(c)]
  BY DEF Stage
<1>10. callers \in SUBSET Independent!Everyone /\ owners \in SUBSET Independent!Everyone
  BY <1>7
<1>11. /\ \A c \in callers : /\ [d \in Calls |-> Stage(d)][c] # "idle"
                             /\ [d \in Calls |-> Given(syncFut[d])][c] = NoFuture
       /\ \A c \in owners : /\ Independent!HasTask(c)
                            /\ [d \in Calls |-> Given(term[d])][c] = NoFuture
  BY <1>4, <1>5
<1>12. outcome \in Independent!Broken
  BY DEF Independent!Broken
<1> HIDE DEF callers, owners
<1>13. QED
  BY <1>6, <1>8, <1>9, <1>10, <1>11, <1>12, Zenon DEF Independent!Breaks

\* The simulation, step by step.
LEMMA StepSimulates ==
    ASSUME IInv, TaskInv, OwnReply', [Next]_vars
    PROVE  [Independent!Next]_(Independent!vars)
<1>1. Independent!Everyone = Calls
  BY DEF Independent!Everyone, Calls
<1>2. ASSUME UNCHANGED clientVars PROVE UNCHANGED Independent!vars
  BY <1>2, Stutters DEF clientVars, Stage, Abandoned
<1>3. ASSUME NEW c \in Calls, Enter(c) PROVE [Independent!Next]_(Independent!vars)
  <2>1. CASE \E queue \in {<<c>>} : Transmit(c, queue)
    BY <1>1, <1>3, <2>1, TransmitSimulates DEF Enter, Independent!Next
  <2>2. CASE Queue(c)
    <3>1. pc[c] = "idle" /\ pc' = [pc EXCEPT ![c] = "lock"] /\ UNCHANGED <<syncFut, term>>
      BY <1>3, <2>2 DEF Enter, Queue
    <3>2. Stage(c) = "idle" /\ Stage(c)' = "issued"
      BY <3>1 DEF Stage, IInv, TypeOK
    <3>3. Abandoned' = Abandoned
      <4>1. "lock" \notin Ended /\ "idle" \notin Ended
        BY DEF Ended
      <4>2. QED
        BY <3>1, <4>1, AbandonedBy DEF IInv
    <3>4. Independent!Issues(c)
      BY <3>1, <3>2, <3>3, GoesTo DEF Independent!Issues, IInv
    <3>5. QED
      BY <1>1, <3>4 DEF Independent!Next
  <2>3. QED
    BY <1>3, <2>1, <2>2 DEF Enter
<1>4. CASE \E c \in Calls : Call(c) \/ CallFromNote(c) \/ CallStep(c) \/ Cancel(c)
  <2>1. PICK c \in Calls : Call(c) \/ CallFromNote(c) \/ CallStep(c) \/ Cancel(c)
    BY <1>4
  <2>2. CASE Call(c) \/ CallFromNote(c)
    BY <1>3, <2>2 DEF Call, CallFromNote
  <2>3. CASE Granted(c)
    BY <1>1, <2>3, TransmitSimulates DEF Granted, Independent!Next
  <2>4. CASE Cancel(c)
    BY <1>1, <2>4, CancelSimulates DEF Cancel, Independent!Next
  <2>5. CASE Drained(c) \/ Concludes(c) \/ Accepted(c) \/ Registers(c) \/ Completed(c)
    BY <1>1, <2>5, MoveSimulates DEF Independent!Next
  <2>6. QED
    BY <2>1, <2>2, <2>3, <2>4, <2>5 DEF CallStep
<1>5. CASE \E c \in Timed : TimesOut(c)
  BY <1>1, <1>5, MoveSimulates, CallsAssumption DEF Independent!Next, Calls
<1>6. CASE DispatchSync \/ DispatchTerminal
  BY <1>1, <1>6, DispatchSyncSimulates, DispatchTerminalSimulates DEF Independent!Next
<1>7. ASSUME NEW outcome \in {"exception", "cancelled"}, SettleAll(outcome), UNCHANGED pc
      PROVE  [Independent!Next]_(Independent!vars)
  BY <1>7, SettleAllSimulates DEF Independent!Next
<1>8. CASE ReaderCrashes \/ StopEnds
  BY <1>7, <1>8 DEF ReaderCrashes, StopEnds
<1>9. CASE StopBegins
  BY <1>2, <1>7, <1>9 DEF StopBegins
<1>10. CASE ReaderCancelled
  <2>1. CASE nested \in Calls /\ CancelCall(nested)
    BY <1>1, <2>1, CancelSimulates DEF Independent!Next
  <2>2. QED
    BY <1>2, <1>10, <2>1 DEF ReaderCancelled, IInv, TypeOK
<1>11. CASE Start \/ DispatchNote \/ NoteDone \/ UNCHANGED vars
  BY <1>2, <1>11 DEF Start, DispatchNote, NoteDone, vars
<1>12. CASE \/ Serve \/ Close \/ Garble
           \/ \E c \in AsyncCalls : Notes(c) \/ Finishes(c)
  BY <1>2, <1>12 DEF Serve, Close, Garble, Notes, Finishes
<1>13. QED
  BY <1>4, <1>5, <1>6, <1>8, <1>9, <1>10, <1>11, <1>12 DEF Next, ReaderStep

-----------------------------------------------------------------------------
\* To its caller every call looks as if it were alone on the connection: the
\* lock, the registry and the reader implement independent conversations.
THEOREM ImplementsIndependent == Spec => ImplementsIndependentCalls
<1>1. Init => TaskInv /\ Independent!Init
  <2> SUFFICES ASSUME Init PROVE TaskInv /\ Independent!Init
    OBVIOUS
  <2>1. TaskInv
    BY DEF Init, TaskInv, NoFuture
  <2>2. \A c \in Calls : Stage(c) = "idle" /\ Given(syncFut[c]) = NoFuture
                         /\ Given(term[c]) = NoFuture
    BY DEF Init, Stage, Given, Done, NoFuture
  <2>3. Abandoned = {}
    BY DEF Init, Abandoned, NoFuture
  <2>4. QED
    BY <2>1, <2>2, <2>3 DEF Independent!Init, Independent!Everyone, Calls
<1>2. IInv /\ TaskInv /\ [Next]_vars => TaskInv'
  BY TaskStep
<1>3. IInv /\ TaskInv /\ OwnReply' /\ [Next]_vars => [Independent!Next]_(Independent!vars)
  BY StepSimulates
<1>4. QED
  BY <1>1, <1>2, <1>3, Inductive, OwnReplyFollows, PTL
     DEF Spec, ImplementsIndependentCalls, Independent!Spec

=============================================================================
