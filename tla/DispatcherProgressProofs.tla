----------------------- MODULE DispatcherProgressProofs -----------------------
(***************************************************************************)
(* Theorems about what a call of Dispatcher waits for: that it is still to  *)
(* come, as long as the call waits.  Whether it comes is a matter of        *)
(* fairness; that it is not lost is not.                                    *)
(***************************************************************************)
EXTENDS DispatcherProofs

-----------------------------------------------------------------------------
(* The wire *)

OnStream(r) == \E i \in DOMAIN fromServer : fromServer[i] = r

\* The steps that take nothing off the stream and give the server nothing to do but
\* a new command.
WireGrows ==
    /\ UNCHANGED <<connected, job>>
    /\ UNCHANGED toServer \/ \E c \in Calls : toServer' = Append(toServer, c)
    /\ \/ UNCHANGED fromServer
       \/ ReaderCancelled /\ Spoils
       \/ \E r \in RawReply : (r.kind = "NOTE" \/ Garble) /\ fromServer' = Append(fromServer, r)

\* What a step does to the connection, whichever action it belongs to.
LEMMA WireKinds ==
    ASSUME TypeOK, [Next]_vars
    PROVE  \/ Close \/ Serve \/ ReaderCrashes
           \/ DispatchSync \/ DispatchNote \/ DispatchTerminal
           \/ \E c \in AsyncCalls : Finishes(c)
           \/ WireGrows
<1> USE DEF clientVars, readerVars, serverVars
<1>1. ASSUME NEW c \in Calls, NEW queue, Transmit(c, queue), UNCHANGED <<connected, job, fromServer>>
      PROVE  WireGrows
  BY <1>1 DEF Transmit, WireGrows
<1>2. ASSUME NEW c \in Calls, Call(c) \/ CallFromNote(c) \/ Granted(c) PROVE WireGrows
  BY <1>1, <1>2 DEF Call, CallFromNote, Enter, Queue, Granted, WireGrows
<1>3. ASSUME NEW c \in Calls,
             Drained(c) \/ Concludes(c) \/ Accepted(c) \/ Registers(c) \/ Completed(c) \/ Cancel(c)
      PROVE  WireGrows
  BY <1>3 DEF Drained, Concludes, Accepted, Registers, Completed, Cancel, WireGrows
<1>4. ASSUME NEW c \in Timed, TimesOut(c) PROVE WireGrows
  BY <1>4 DEF TimesOut, WireGrows
<1>5. CASE Start \/ NoteDone \/ StopBegins \/ StopEnds \/ UNCHANGED vars
  BY <1>5 DEF Start, NoteDone, StopBegins, StopEnds, vars, WireGrows
<1>6. CASE ReaderCancelled
  BY <1>6 DEF ReaderCancelled, Spoils, WireGrows
<1>7. CASE Garble
  BY <1>7, ReplyTypes DEF Garble, WireGrows
<1>8. ASSUME NEW c \in AsyncCalls, Notes(c) PROVE WireGrows
  <2>1. Reply("NOTE", c, c) \in RawReply /\ Reply("NOTE", c, c).kind = "NOTE"
    BY ReplyTypes DEF ReplyKind, Calls, Reply
  <2>2. QED
    BY <1>8, <2>1 DEF Notes, WireGrows
<1> HIDE DEF clientVars, readerVars, serverVars
<1>9. QED
  BY <1>2, <1>3, <1>4, <1>5, <1>6, <1>7, <1>8 DEF Next, CallStep, ReaderStep

\* A message stays on the stream until it is taken or spoilt.
LEMMA MessageStays ==
    ASSUME TypeOK, NEW r \in RawReply, OnStream(r),
           \/ UNCHANGED fromServer \/ Spoils
           \/ \E m \in RawReply : fromServer' = Append(fromServer, m)
           \/ Skips /\ r # Message
    PROVE  OnStream(r)' \/ Unreadable'
<1>1. PICK i \in 1..Len(fromServer) : fromServer[i] = r
  BY DEF OnStream, TypeOK
<1>2. fromServer \in Seq(RawReply) /\ Len(fromServer) \in Nat /\ DOMAIN fromServer = 1..Len(fromServer)
  BY LenProperties DEF TypeOK
<1>3. CASE UNCHANGED fromServer
  BY <1>3 DEF OnStream
<1>4. CASE Spoils
  <2>1. 1 \in 1..Len(fromServer)
    BY <1>1, <1>2
  <2> DEFINE spoilt == [fromServer EXCEPT ![1] = Garbled]
  <2>2. DOMAIN spoilt = 1..Len(fromServer) /\ spoilt[1] = Garbled
    BY <1>2, <2>1
  <2>3. fromServer' = spoilt
    BY <1>4 DEF Spoils
  <2> HIDE DEF spoilt
  <2>4. QED
    BY <2>1, <2>2, <2>3 DEF Unreadable
<1>5. ASSUME NEW m \in RawReply, fromServer' = Append(fromServer, m) PROVE OnStream(r)'
  <2> DEFINE longer == Append(fromServer, m)
  <2>1. /\ longer \in Seq(RawReply) /\ Len(longer) = Len(fromServer) + 1
        /\ longer[i] = fromServer[i]
    BY <1>1, <1>2, AppendProperties
  <2>2. fromServer' = longer
    BY <1>5
  <2> HIDE DEF longer
  <2>3. i \in DOMAIN longer /\ longer[i] = r
    BY <1>1, <1>2, <2>1
  <2>4. QED
    BY <2>2, <2>3 DEF OnStream
<1>6. CASE Skips /\ r # Message
  <2>1. /\ Message = fromServer[1] /\ fromServer' \in Seq(RawReply)
        /\ Len(fromServer') = Len(fromServer) - 1
        /\ \A j \in 1..Len(fromServer') : fromServer'[j] = fromServer[j + 1]
    BY <1>6, ReceivesType DEF Skips
  <2>2. i - 1 \in 1..Len(fromServer') /\ (i - 1) + 1 = i
    BY <1>1, <1>2, <1>6, <2>1
  <2>3. fromServer'[i - 1] = r /\ i - 1 \in DOMAIN fromServer'
    BY <1>1, <2>1, <2>2
  <2>4. QED
    BY <2>3 DEF OnStream
<1>7. QED
  BY <1>3, <1>4, <1>5, <1>6

LEMMA StreamFacts ==
    ASSUME TypeOK
    PROVE  /\ Unreadable <=> OnStream(Garbled)
           /\ \A c \in Calls : ReplyOwed(c) <=>
                 \/ ~connected \/ Unreadable \/ InToServer(c)
                 \/ \E r \in RawReply : OnStream(r) /\ IsSyncReply(r) /\ r.command = c
           /\ \A c \in Calls : EndOwed(c) <=>
                 \/ ~connected \/ Unreadable \/ job[syncFut[c].reply.task] = "running"
                 \/ \E r \in RawReply : /\ OnStream(r) /\ IsTerminal(r)
                                        /\ r.task = syncFut[c].reply.task
<1>1. /\ DOMAIN toServer = 1..Len(toServer)
      /\ \A i \in DOMAIN fromServer : fromServer[i] \in RawReply
  BY DEF TypeOK
<1>2. QED
  BY <1>1 DEF Unreadable, OnStream, ReplyOwed, EndOwed, InToServer

\* What DispatchSync and DispatchTerminal do not take is still on the stream, and a
\* message that cannot be read stays until the reader stops at it.
LEMMA OthersStay ==
    ASSUME TypeOK, NEW r \in RawReply, OnStream(r), [Next]_vars,
           ~ReaderCrashes, ~Close, ~(DispatchSync /\ IsSyncReply(r)),
           ~(DispatchTerminal /\ IsTerminal(r) /\ r.task = Message.task),
           r.kind # "NOTE"
    PROVE  OnStream(r)' \/ Unreadable'
<1>1. CASE DispatchSync \/ DispatchNote \/ DispatchTerminal
  <2>1. Skips
    BY <1>1 DEF DispatchSync, DispatchNote, DispatchTerminal, Receives, Skips
  <2>2. r # Message
    BY <1>1 DEF DispatchSync, DispatchNote, DispatchTerminal
  <2>3. QED
    BY <2>1, <2>2, MessageStays
<1>2. CASE WireGrows
  BY <1>2, MessageStays DEF WireGrows
<1>3. CASE Serve
  <2>1. Head(toServer) \in Calls
    BY <1>3, HeadTailProperties DEF Serve, TypeOK
  <2>2. \E m \in RawReply : fromServer' = Append(fromServer, m)
    BY <1>3, <2>1, ReplyTypes DEF Serve, ReplyKind
  <2>3. QED
    BY <2>2, MessageStays
<1>4. ASSUME NEW c \in AsyncCalls, Finishes(c) PROVE OnStream(r)' \/ Unreadable'
  <2>1. \E m \in RawReply : fromServer' = Append(fromServer, m)
    BY <1>4, ReplyTypes, EndingsAssumption DEF Finishes, ReplyKind, Calls
  <2>2. QED
    BY <2>1, MessageStays
<1>5. QED
  BY <1>1, <1>2, <1>3, <1>4, WireKinds

\* What is appended to the stream is on it.
LEMMA AppendedIsThere ==
    ASSUME TypeOK, NEW r \in RawReply, fromServer' = Append(fromServer, r)
    PROVE  OnStream(r)'
<1>1. /\ Append(fromServer, r) \in Seq(RawReply)
      /\ Len(Append(fromServer, r)) = Len(fromServer) + 1 /\ Len(fromServer) \in Nat
      /\ Append(fromServer, r)[Len(fromServer) + 1] = r
  BY AppendProperties, LenProperties DEF TypeOK
<1>2. Len(fromServer) + 1 \in DOMAIN fromServer' /\ fromServer'[Len(fromServer) + 1] = r
  BY <1>1
<1>3. QED
  BY <1>2 DEF OnStream

\* The connection does not come back, and a message that cannot be read is taken by
\* the step that ends the reader only.
LEMMA LossStays ==
    ASSUME TypeOK, [Next]_vars
    PROVE  /\ ~connected => ~connected'
           /\ Unreadable => Unreadable' \/ ReaderCrashes \/ ~connected'
<1>1. ~connected => ~connected'
  BY WireKinds DEF WireGrows, Close, Serve, ReaderCrashes, DispatchSync, DispatchNote,
     DispatchTerminal, Receives, Finishes, serverVars
<1>2. ASSUME Unreadable, ~ReaderCrashes, ~Close PROVE Unreadable'
  <2>1. Garbled.kind = "GARBLED" /\ ~IsSyncReply(Garbled) /\ ~IsTerminal(Garbled)
    BY DEF Garbled, Reply, IsSyncReply, IsTerminal
  <2>2. OnStream(Garbled)' \/ Unreadable'
    BY <1>2, <2>1, OthersStay, StreamFacts, ReplyTypes
  <2>3. QED
    BY <2>2 DEF OnStream, Unreadable
<1>3. QED
  BY <1>1, <1>2 DEF Close

-----------------------------------------------------------------------------
(* The reply that the holder of the lock waits for *)

\* The reply to the command of the armed future has not been consumed.
ArmedInv ==
    \A c \in Calls : syncReply = c /\ syncFut[c].state = "pending" => ReplyOwed(c)

\* A command that is under way stays so until DispatchSync takes a reply, or the
\* reader ends: the server answers it, or the connection is lost.
LEMMA ReplyStaysOwed ==
    ASSUME TypeOK, [Next]_vars, NEW c \in Calls, ReplyOwed(c), ~DispatchSync, ~ReaderCrashes
    PROVE  ReplyOwed(c)'
<1>1. CASE ~connected \/ Unreadable
  BY <1>1, LossStays DEF ReplyOwed
<1>2. CASE Close
  BY <1>2 DEF Close, ReplyOwed
<1>3. CASE ~Close /\ \E r \in RawReply : OnStream(r) /\ IsSyncReply(r) /\ r.command = c
  <2>1. PICK r \in RawReply : OnStream(r) /\ IsSyncReply(r) /\ r.command = c
    BY <1>3
  <2>2. r.kind # "NOTE" /\ ~IsTerminal(r)
    BY <2>1 DEF IsSyncReply, IsTerminal
  <2>3. OnStream(r)' \/ Unreadable'
    BY <1>3, <2>1, <2>2, OthersStay
  <2>4. QED
    BY <2>1, <2>3 DEF OnStream, ReplyOwed
<1>4. CASE InToServer(c) /\ ~Close
  <2>1. PICK i \in 1..Len(toServer) : toServer[i] = c
    BY <1>4 DEF InToServer
  <2>2. toServer \in Seq(Calls) /\ Len(toServer) \in Nat /\ DOMAIN toServer = 1..Len(toServer)
    BY LenProperties DEF TypeOK
  <2>3. CASE UNCHANGED toServer
    BY <2>1, <2>2, <2>3 DEF ReplyOwed
  <2>4. ASSUME NEW d \in Calls, toServer' = Append(toServer, d) PROVE ReplyOwed(c)'
    <3>1. /\ Append(toServer, d) \in Seq(Calls)
          /\ Len(Append(toServer, d)) = Len(toServer) + 1 /\ Append(toServer, d)[i] = toServer[i]
      BY <2>1, <2>2, AppendProperties
    <3>2. i \in DOMAIN toServer' /\ toServer'[i] = c
      BY <2>1, <2>2, <2>4, <3>1
    <3>3. QED
      BY <3>2 DEF ReplyOwed
  <2>5. CASE Serve
    <3>1. /\ toServer' = Tail(toServer) /\ toServer # << >> /\ Head(toServer) = toServer[1]
          /\ Tail(toServer) \in Seq(Calls) /\ Len(Tail(toServer)) = Len(toServer) - 1
          /\ \A j \in 1..(Len(toServer) - 1) : Tail(toServer)[j] = toServer[j + 1]
          /\ Head(toServer) \in Calls
      BY <2>2, <2>5, HeadTailProperties DEF Serve
    <3>2. CASE i = 1
      <4>1. \E k \in {"OK", "ERROR"}, t \in {NoCall, c} :
               fromServer' = Append(fromServer, Reply(k, t, c))
        BY <2>1, <2>5, <3>1, <3>2 DEF Serve
      <4>2. PICK r \in RawReply : /\ r.command = c /\ IsSyncReply(r)
                                  /\ fromServer' = Append(fromServer, r)
        BY <4>1, ReplyTypes DEF Reply, ReplyKind, IsSyncReply
      <4>3. QED
        BY <4>2, AppendedIsThere DEF OnStream, ReplyOwed
    <3>3. CASE i # 1
      <4>1. i - 1 \in 1..(Len(toServer) - 1) /\ (i - 1) + 1 = i
        BY <2>1, <2>2, <3>3
      <4>2. i - 1 \in DOMAIN toServer' /\ toServer'[i - 1] = c
        BY <2>1, <3>1, <4>1
      <4>3. QED
        BY <4>2 DEF ReplyOwed
    <3>4. QED
      BY <3>2, <3>3
  <2>6. CASE DispatchNote \/ DispatchTerminal \/ \E d \in AsyncCalls : Finishes(d)
    BY <2>3, <2>6 DEF DispatchNote, DispatchTerminal, Receives, Finishes
  <2>7. QED
    BY <1>4, <2>3, <2>4, <2>5, <2>6, WireKinds DEF WireGrows
<1>5. QED
  BY <1>1, <1>2, <1>3, <1>4, StreamFacts

\* The command of a future that is being armed goes to the server, or is lost with
\* the connection.
LEMMA ArmedIsSent ==
    ASSUME TypeOK, [Next]_vars, NEW c \in Calls, Arms(c)
    PROVE  ReplyOwed(c)'
<1>1. CASE connected
  <2>1. toServer' = Append(toServer, c)
    BY <1>1 DEF Arms, Transmit
  <2>2. /\ Append(toServer, c) \in Seq(Calls)
        /\ Len(Append(toServer, c)) = Len(toServer) + 1 /\ Len(toServer) \in Nat
        /\ Append(toServer, c)[Len(toServer) + 1] = c
    BY AppendProperties, LenProperties DEF TypeOK
  <2>3. Len(toServer) + 1 \in DOMAIN toServer' /\ toServer'[Len(toServer) + 1] = c
    BY <2>1, <2>2
  <2>4. QED
    BY <2>3 DEF ReplyOwed
<1>2. CASE ~connected
  BY <1>2, LossStays DEF ReplyOwed
<1>3. QED
  BY <1>1, <1>2

\* Who is armed after a step was armed before it, or has just sent its command.
LEMMA ArmedByArms ==
    ASSUME IInv, [Next]_vars, NEW c \in Calls,
           syncReply' = c, syncFut'[c].state = "pending", ~Arms(c)
    PROVE  syncReply = c /\ syncFut[c].state = "pending"
<1> USE DEF IInv
<1>1. ASSUME NEW d \in Calls, Arms(d) PROVE FALSE
  BY <1>1 DEF Arms, Transmit
<1>2. ASSUME NEW d \in Calls, Aborts(d)
      PROVE  syncReply = c /\ syncFut[c].state = "pending"
  BY <1>2 DEF Aborts, CancelCall, Without, TypeOK
<1>3. CASE DispatchSync
  BY <1>3, CallsAssumption DEF DispatchSync, TypeOK
<1>4. ASSUME NEW outcome \in {"exception", "cancelled"}, SettleAll(outcome)
      PROVE  syncReply = c /\ syncFut[c].state = "pending"
  BY <1>4, CallsAssumption DEF SettleAll, TypeOK
<1>5. CASE UNCHANGED <<syncReply, syncFut>>
  BY <1>5
<1>6. QED
  BY <1>1, <1>2, <1>3, <1>4, <1>5, StepKinds
     DEF Enrols, Moves, DispatchTerminal, SettlesAll, StreamOnly, clientVars

LEMMA ArmedStep ==
    ASSUME IInv, ArmedInv, [Next]_vars
    PROVE  ArmedInv'
<1> SUFFICES ASSUME NEW c \in Calls, syncReply' = c, syncFut'[c].state = "pending"
             PROVE  ReplyOwed(c)'
  BY DEF ArmedInv
<1>1. CASE Arms(c)
  BY <1>1, ArmedIsSent DEF IInv
<1>2. CASE ~Arms(c)
  <2>1. syncReply = c /\ syncFut[c].state = "pending" /\ ReplyOwed(c)
    BY <1>2, ArmedByArms DEF ArmedInv
  <2>2. ~Done(syncFut[c]) /\ syncReply # NoCall
    BY <2>1, CallsAssumption DEF Done
  <2>3. ~DispatchSync /\ ~ReaderCrashes
    BY <2>1, <2>2 DEF DispatchSync, ReaderCrashes, SettleAll
  <2>4. QED
    BY <2>1, <2>3, ReplyStaysOwed DEF IInv
<1>3. QED
  BY <1>1, <1>2

\* The lock is handed on, or what its holder waits for is there or still to come:
\* the commands behind it are not blocked by a reply that was lost or a lock that
\* was kept.  (That what is to come does come is SyncCallsEnd.)
THEOREM LockIsNotKept == Spec => []LockHolderCanGoOn
<1>1. Init => ArmedInv
  BY CallsAssumption DEF Init, ArmedInv
<1>2. IInv /\ IInv' /\ ArmedInv /\ [Next]_vars => ArmedInv'
  BY ArmedStep
<1>3. IInv /\ ArmedInv => LockHolderCanGoOn
  <2> SUFFICES ASSUME IInv, ArmedInv, lockq # << >>, NEW h, h = Head(lockq)
               PROVE  \/ pc[h] \in {"lock", "reglock"}
                      \/ pc[h] \in {"drain", "sync"} /\ Done(syncFut[h])
                      \/ pc[h] \in {"drain", "sync"} /\ syncReply = h /\ ReplyOwed(h)
    BY DEF LockHolderCanGoOn
  <2>1. h \in Calls /\ h = lockq[1] /\ 1 \in 1..Len(lockq)
    BY EmptySeq, HeadTailProperties, LenProperties DEF IInv, TypeOK
  <2>2. pc[h] \in {"lock", "drain", "sync", "reglock"}
    BY <2>1 DEF IInv, LockInv, InLock
  <2>3. CASE pc[h] \in {"drain", "sync"} /\ ~Done(syncFut[h])
    <3>1. syncFut[h].state = "pending" /\ syncReply = h
      BY <2>1, <2>3 DEF IInv, TypeOK, SyncInv, Future, Done
    <3>2. QED
      BY <2>1, <2>3, <3>1 DEF ArmedInv
  <2>4. QED
    BY <2>2, <2>3
<1>4. QED
  BY <1>1, <1>2, <1>3, Inductive, PTL DEF Spec

-----------------------------------------------------------------------------
(* The end that a registered call waits for *)

\* The end of a task that is under way stays so until DispatchTerminal takes it, or
\* the reader ends.
LEMMA EndStaysOwed ==
    ASSUME TypeOK, [Next]_vars, NEW c \in Calls, EndOwed(c),
           syncFut'[c] = syncFut[c], syncFut[c].reply.task \in Calls,
           ~(DispatchTerminal /\ Message.task = syncFut[c].reply.task), ~ReaderCrashes
    PROVE  EndOwed(c)'
<1> DEFINE t == syncFut[c].reply.task
<1>1. CASE ~connected \/ Unreadable
  BY <1>1, LossStays DEF EndOwed
<1>2. CASE Close
  BY <1>2 DEF Close, EndOwed
<1>3. CASE ~Close /\ \E r \in RawReply : OnStream(r) /\ IsTerminal(r) /\ r.task = t
  <2>1. PICK r \in RawReply : OnStream(r) /\ IsTerminal(r) /\ r.task = t
    BY <1>3
  <2>2. r.kind # "NOTE" /\ ~IsSyncReply(r)
    BY <2>1 DEF IsSyncReply, IsTerminal
  <2>3. OnStream(r)' \/ Unreadable'
    BY <1>3, <2>1, <2>2, OthersStay
  <2>4. QED
    BY <2>1, <2>3 DEF OnStream, EndOwed
<1>4. CASE job[t] = "running" /\ ~Close
  <2>1. CASE job'[t] = "running"
    BY <2>1 DEF EndOwed
  <2>2. ASSUME NEW d \in AsyncCalls, Finishes(d), job'[t] # "running" PROVE EndOwed(c)'
    <3>1. d = t
      BY <1>4, <2>2 DEF Finishes, TypeOK
    <3>2. PICK k \in {"FINISHED", "FAILED", "INTERRUPT"} :
             fromServer' = Append(fromServer, Reply(k, t, t))
      BY <2>2, <3>1, EndingsAssumption DEF Finishes
    <3>3. /\ Reply(k, t, t) \in RawReply /\ IsTerminal(Reply(k, t, t))
          /\ Reply(k, t, t).task = t
      BY ReplyTypes DEF Reply, ReplyKind, IsTerminal
    <3>4. QED
      BY <3>2, <3>3, AppendedIsThere DEF OnStream, EndOwed
  <2>3. CASE Serve
    BY <1>4, <2>1, <2>3 DEF Serve, TypeOK
  <2>4. CASE DispatchSync \/ DispatchNote \/ DispatchTerminal \/ WireGrows
    BY <1>4, <2>1, <2>4 DEF DispatchSync, DispatchNote, DispatchTerminal, Receives, WireGrows
  <2>5. QED
    BY <1>4, <2>1, <2>2, <2>3, <2>4, WireKinds
<1>5. QED
  BY <1>1, <1>2, <1>3, <1>4, StreamFacts

\* Once a call is registered the end of its task is not lost any more: finding 1 has
\* no other cause than the gap before the registration.
THEOREM EndsReachRegistered == Spec => RegisteredEndsArrive
<1> DEFINE Arrives == \A c \in Calls : pc[c] = "term" /\ ~Done(term[c]) /\ EndOwed(c) =>
                         pc'[c] # "term" \/ Done(term'[c]) \/ EndOwed(c)'
<1>1. IInv /\ [Next]_vars => Arrives
  <2> SUFFICES ASSUME IInv, [Next]_vars, NEW c \in Calls,
                      pc[c] = "term", ~Done(term[c]), EndOwed(c)
               PROVE  Done(term'[c]) \/ EndOwed(c)'
    OBVIOUS
  <2> DEFINE t == syncFut[c].reply.task
  <2>1. Done(syncFut[c]) /\ t \in Calls /\ pending[t] = c /\ c # NoCall /\ TypeOK /\ t # NoCall
    BY CallsAssumption, FutureTypes, ReplyTypes DEF IInv, SyncInv, TermInv, HasTask, Done, TypeOK
  <2>2. syncFut'[c] = syncFut[c]
    BY <2>1, SettledStays
  <2>3. CASE DispatchTerminal /\ Message.task = t
    BY <2>1, <2>3 DEF DispatchTerminal, WithResult, Done, TypeOK
  <2>4. CASE ReaderCrashes
    BY <2>1, <2>4 DEF ReaderCrashes, SettleAll, Without, Done
  <2>5. QED
    BY <2>1, <2>2, <2>3, <2>4, EndStaysOwed
<1>2. QED
  BY <1>1, Inductive, PTL DEF Spec, RegisteredEndsArrive

-----------------------------------------------------------------------------
(* Without disturbances *)

\* A message that is on the stream was there before, or has been sent in this step.
LEMMA NothingSpoilt ==
    ASSUME TypeOK, [Next]_vars, ~ReaderCancelled, ~Garble, ~Close, Unreadable'
    PROVE  Unreadable
<1>1. CASE UNCHANGED fromServer
  BY <1>1 DEF Unreadable
<1>2. ASSUME NEW m \in RawReply, fromServer' = Append(fromServer, m), m.kind # "GARBLED"
      PROVE  Unreadable
  <2> DEFINE longer == Append(fromServer, m)
  <2>1. /\ longer \in Seq(RawReply) /\ Len(longer) = Len(fromServer) + 1
        /\ \A i \in 1..Len(fromServer) : longer[i] = fromServer[i]
        /\ longer[Len(fromServer) + 1] = m
        /\ Len(fromServer) \in Nat /\ DOMAIN fromServer = 1..Len(fromServer)
    BY AppendProperties, LenProperties DEF TypeOK
  <2>2. fromServer' = longer
    BY <1>2
  <2> HIDE DEF longer
  <2>3. PICK i \in 1..Len(longer) : longer[i] = Garbled
    BY <2>1, <2>2 DEF Unreadable
  <2>4. i # Len(fromServer) + 1
    BY <1>2, <2>1, <2>3 DEF Garbled, Reply
  <2>5. i \in 1..Len(fromServer)
    BY <2>1, <2>3, <2>4
  <2>6. QED
    BY <2>1, <2>3, <2>5 DEF Unreadable
<1>3. CASE Skips
  <2>1. /\ fromServer' \in Seq(RawReply)
        /\ Len(fromServer') = Len(fromServer) - 1 /\ Len(fromServer) \in Nat
        /\ \A i \in 1..Len(fromServer') : fromServer'[i] = fromServer[i + 1]
    BY <1>3, ReceivesType DEF Skips
  <2>2. PICK i \in 1..Len(fromServer') : fromServer'[i] = Garbled
    BY <2>1 DEF Unreadable
  <2>3. i + 1 \in DOMAIN fromServer /\ fromServer[i + 1] = Garbled
    BY <2>1, <2>2 DEF TypeOK
  <2>4. QED
    BY <2>3 DEF Unreadable
<1>4. CASE DispatchSync \/ DispatchNote \/ DispatchTerminal \/ ReaderCrashes
  BY <1>1, <1>3, <1>4
     DEF DispatchSync, DispatchNote, DispatchTerminal, ReaderCrashes, Receives, Skips
<1>5. CASE Serve
  <2>1. Head(toServer) \in Calls
    BY <1>5, HeadTailProperties DEF Serve, TypeOK
  <2>2. PICK k \in {"OK", "ERROR"}, t \in Calls \cup {NoCall} :
           fromServer' = Append(fromServer, Reply(k, t, Head(toServer)))
    BY <1>5, <2>1 DEF Serve
  <2>3. /\ Reply(k, t, Head(toServer)) \in RawReply
        /\ Reply(k, t, Head(toServer)).kind # "GARBLED"
    BY <2>1, ReplyTypes DEF Reply, ReplyKind
  <2>4. QED
    BY <1>2, <2>2, <2>3
<1>6. ASSUME NEW c \in AsyncCalls, Finishes(c) PROVE Unreadable
  <2>1. PICK k \in {"FINISHED", "FAILED", "INTERRUPT"} :
           fromServer' = Append(fromServer, Reply(k, c, c))
    BY <1>6, EndingsAssumption DEF Finishes
  <2>2. Reply(k, c, c) \in RawReply /\ Reply(k, c, c).kind # "GARBLED"
    BY ReplyTypes DEF Reply, ReplyKind, Calls
  <2>3. QED
    BY <1>2, <2>1, <2>2
<1>7. QED
  BY <1>1, <1>2, <1>4, <1>5, <1>6, WireKinds DEF WireGrows

\* Nothing has happened that leaves a reply without its caller.
QuietInv ==
    /\ connected /\ ~Unreadable /\ stopper = "idle" /\ reader \in {"none", "running"}
    /\ \A c \in Calls :
          /\ syncFut[c].state \notin {"cancelled", "exception"}
          /\ syncFut[c].state = "pending" => pc[c] \in {"drain", "sync"}

\* What it takes for finding 2.  If no caller is cancelled, nobody calls stop(), the
\* connection stays up and every message can be read, then every call gets the reply to
\* its own command, and the end of its own task: any number of callers, timeouts, back
\* pressure and callbacks that issue commands do no harm.
THEOREM UndisturbedRepliesMatch ==
    ASSUME Faults \cap {"cancel", "stop", "close", "garble"} = {}
    PROVE  Spec => []RepliesAlwaysMatch
<1>1. Init => QuietInv
  <2> SUFFICES ASSUME Init PROVE QuietInv
    OBVIOUS
  <2>1. ~Unreadable
    BY DEF Init, Unreadable
  <2>2. QED
    BY <2>1 DEF Init, QuietInv, NoFuture
<1>2. IInv /\ QuietInv /\ [Next]_vars => QuietInv'
  <2> SUFFICES ASSUME IInv, QuietInv, [Next]_vars PROVE QuietInv'
    OBVIOUS
  <2>1. TypeOK /\ LockInv /\ SyncInv
    BY DEF IInv
  <2>2. /\ ~Close /\ ~Garble /\ ~StopBegins /\ ~ReaderCancelled /\ ~StopEnds
        /\ \A c \in Calls : ~Cancel(c)
    BY DEF Close, Garble, StopBegins, ReaderCancelled, StopEnds, Cancel, QuietInv
  <2>3. ~ReaderCrashes
    <3>1. ASSUME fromServer # << >>, Head(fromServer) = Garbled PROVE Unreadable
      <4>1. fromServer[1] = Garbled /\ 1 \in DOMAIN fromServer
        BY <2>1, <3>1, ReceivesType DEF TypeOK, Message
      <4>2. QED
        BY <4>1 DEF Unreadable
    <3>2. QED
      BY <3>1 DEF ReaderCrashes, QuietInv
  <2>4. ~Unreadable'
    BY <2>1, <2>2, NothingSpoilt DEF QuietInv
  <2>5. connected'
    BY <2>1, <2>2, <2>3, WireKinds DEF QuietInv, Serve, DispatchSync, DispatchNote,
       DispatchTerminal, Receives, Finishes, WireGrows
  <2> DEFINE Kept == /\ UNCHANGED stopper /\ reader' \in {reader, "running"}
                     /\ \A c \in Calls :
                           /\ syncFut'[c].state \notin {"cancelled", "exception"}
                           /\ syncFut'[c].state = "pending" => pc'[c] \in {"drain", "sync"}
  <2> USE DEF clientVars, readerVars, serverVars
  <2>6. ASSUME NEW c \in Calls, Transmit(c, lockq) \/ Transmit(c, <<c>>),
               UNCHANGED <<stopper, reader>>
        PROVE  Kept
    <3>1. PICK to \in {"drain", "sync"} : pc' = [pc EXCEPT ![c] = to]
      BY <2>6 DEF QuietInv, Transmit
    <3>2. syncFut' = [syncFut EXCEPT ![c] = NewFuture]
      BY <2>6 DEF Transmit
    <3>3. ASSUME NEW d \in Calls
          PROVE  /\ syncFut'[d].state \notin {"cancelled", "exception"}
                 /\ syncFut'[d].state = "pending" => pc'[d] \in {"drain", "sync"}
      <4>1. CASE d = c
        BY <2>1, <3>1, <3>2, <4>1 DEF NewFuture, TypeOK
      <4>2. CASE d # c
        BY <2>1, <3>1, <3>2, <4>2 DEF QuietInv, TypeOK
      <4>3. QED
        BY <4>1, <4>2
    <3>4. QED
      BY <2>6, <3>3
  <2>7. ASSUME NEW c \in Calls, Call(c) \/ CallFromNote(c) PROVE Kept
    <3>1. CASE Queue(c)
      BY <2>1, <2>7, <3>1 DEF QuietInv, Call, CallFromNote, Enter, Queue, SyncInv, TypeOK
    <3>2. QED
      BY <2>6, <2>7, <3>1 DEF Call, CallFromNote, Enter
  <2>8. ASSUME NEW c \in Calls, Granted(c) PROVE Kept
    BY <2>6, <2>8 DEF Granted
  <2>9. ASSUME NEW c \in Calls, NEW to, pc' = [pc EXCEPT ![c] = to],
               syncFut[c].state # "pending" \/ to = "sync", UNCHANGED <<syncFut, stopper, reader>>
        PROVE  Kept
    BY <2>1, <2>9 DEF QuietInv, TypeOK
  <2>10. ASSUME NEW c \in Calls, Drained(c) \/ Concludes(c) PROVE Kept
    BY <2>9, <2>10 DEF QuietInv, Drained, Concludes, Done
  <2>11. ASSUME NEW c \in Calls, Accepted(c) \/ Registers(c) \/ Completed(c) PROVE Kept
    <3>1. syncFut[c].state = "result"
      BY <2>1, <2>11 DEF Accepted, Registers, Completed, SyncInv, HasTask
    <3>2. QED
      BY <2>9, <2>11, <3>1 DEF Accepted, Registers, Register, Completed
  <2>12. ASSUME NEW c \in Timed, TimesOut(c) PROVE Kept
    <3>1. c \in Calls /\ syncFut[c].state = "result"
      BY <2>1, <2>12, CallsAssumption DEF TimesOut, SyncInv, HasTask, Calls
    <3>2. QED
      BY <2>9, <2>12, <3>1 DEF TimesOut
  <2>13. ASSUME DispatchSync PROVE Kept
    <3>1. UNCHANGED <<pc, stopper, reader>>
      BY <2>13 DEF DispatchSync, Receives
    <3>2. \/ UNCHANGED syncFut
          \/ syncReply # NoCall /\ syncFut' = [syncFut EXCEPT ![syncReply] = WithResult(Message)]
      BY <2>13 DEF DispatchSync
    <3>3. \A c \in Calls : syncFut'[c] = syncFut[c] \/ syncFut'[c].state = "result"
      BY <2>1, <3>2 DEF WithResult, TypeOK
    <3>4. ASSUME NEW c \in Calls
          PROVE  /\ syncFut'[c].state \notin {"cancelled", "exception"}
                 /\ syncFut'[c].state = "pending" => pc'[c] \in {"drain", "sync"}
      BY <3>1, <3>3 DEF QuietInv
    <3>5. QED
      BY <3>1, <3>4
  <2>14. ASSUME Start \/ DispatchNote \/ DispatchTerminal \/ NoteDone \/ Serve \/ UNCHANGED vars
         PROVE  Kept
    <3>1. UNCHANGED <<pc, syncFut, stopper>> /\ reader' \in {reader, "running"}
      BY <2>14 DEF Start, DispatchNote, DispatchTerminal, Receives, NoteDone, Serve, vars
    <3>2. ASSUME NEW c \in Calls
          PROVE  /\ syncFut'[c].state \notin {"cancelled", "exception"}
                 /\ syncFut'[c].state = "pending" => pc'[c] \in {"drain", "sync"}
      BY <3>1 DEF QuietInv
    <3>3. QED
      BY <3>1, <3>2
  <2>15. ASSUME NEW c \in AsyncCalls, Notes(c) \/ Finishes(c) PROVE Kept
    BY <2>15 DEF QuietInv, Notes, Finishes
  <2> HIDE DEF clientVars, readerVars, serverVars, Kept
  <2>16. Kept
    <3>1. ASSUME \E c \in Calls : Call(c) \/ CallFromNote(c) \/ CallStep(c) \/ Cancel(c) PROVE Kept
      BY <2>2, <2>7, <2>8, <2>10, <2>11, <3>1 DEF CallStep
    <3>2. QED
      BY <2>2, <2>3, <2>12, <2>13, <2>14, <2>15, <3>1 DEF Next, ReaderStep
  <2>17. QED
    BY <2>4, <2>5, <2>16 DEF QuietInv, Kept
<1>3. IInv /\ QuietInv => RepliesAlwaysMatch
  <2> SUFFICES ASSUME IInv, QuietInv PROVE RepliesMatch
    BY DEF RepliesAlwaysMatch
  <2>1. Abandoned = {}
    BY DEF QuietInv, Abandoned, Ended
  <2>2. QED
    BY <2>1, OwnReplyFollows DEF OwnReply
<1>4. QED
  BY <1>1, <1>2, <1>3, Inductive, PTL DEF Spec

=============================================================================
