--------------------------- MODULE DispatcherProofs ---------------------------
(***************************************************************************)
(* Theorems about Dispatcher, for any number of calls and any faults.       *)
(***************************************************************************)
EXTENDS Dispatcher, SequenceTheorems, TLAPS

-----------------------------------------------------------------------------
(* Sequences *)

\* Removing one element of a queue closes the gap and keeps the order of the rest.
LEMMA RemoveAtLemma ==
    ASSUME NEW S, NEW s \in Seq(S), NEW i \in 1..Len(s)
    PROVE  /\ RemoveAt(s, i) \in Seq(S)
           /\ Len(RemoveAt(s, i)) = Len(s) - 1
           /\ \A j \in 1..(Len(s) - 1) :
                 RemoveAt(s, i)[j] = IF j < i THEN s[j] ELSE s[j + 1]
<1> DEFINE front == SubSeq(s, 1, i - 1)
           back == SubSeq(s, i + 1, Len(s))
<1>1. /\ front \in Seq(S) /\ Len(front) = i - 1
      /\ \A j \in 1..(i - 1) : front[j] = s[j]
  OBVIOUS
<1>2. /\ back \in Seq(S) /\ Len(back) = Len(s) - i
      /\ \A j \in 1..(Len(s) - i) : back[j] = s[i + j]
  OBVIOUS
<1> HIDE DEF front, back
<1>3. /\ front \o back \in Seq(S)
      /\ Len(front \o back) = Len(s) - 1
  <2>1. front \o back \in Seq(S) /\ Len(front \o back) = Len(front) + Len(back)
    BY <1>1, <1>2, ConcatProperties
  <2>2. Len(s) \in Nat
    BY LenProperties
  <2>3. QED
    BY <1>1, <1>2, <2>1, <2>2
<1>4. ASSUME NEW j \in 1..(Len(s) - 1)
      PROVE  (front \o back)[j] = IF j < i THEN s[j] ELSE s[j + 1]
  <2>1. (front \o back)[j] = IF j <= Len(front) THEN front[j] ELSE back[j - Len(front)]
    BY <1>1, <1>2, <1>3, ConcatProperties
  <2>2. CASE j < i
    BY <1>1, <2>1, <2>2
  <2>3. CASE ~(j < i)
    <3>1. j - (i - 1) \in 1..(Len(s) - i) /\ i + (j - (i - 1)) = j + 1
      BY <2>3, LenProperties
    <3>2. (front \o back)[j] = back[j - (i - 1)]
      BY <1>1, <2>1, <2>3
    <3>3. QED
      BY <1>2, <2>3, <3>1, <3>2
  <2>4. QED
    BY <2>2, <2>3
<1>5. QED
  BY <1>3, <1>4 DEF RemoveAt, front, back

-----------------------------------------------------------------------------
(* Replies and futures *)

\* What a future may be set to is a future.
LEMMA FutureTypes ==
    /\ NoFuture \in Future /\ NewFuture \in Future
    /\ Without("exception") \in Future /\ Without("cancelled") \in Future
    /\ \A r \in RawReply : WithResult(r) \in Future
    /\ \A f \in Future : f.reply \in RawReply
  BY DEF NoFuture, NewFuture, Without, WithResult, Future, Garbled, Reply, RawReply, ReplyKind

LEMMA ReplyTypes ==
    /\ Garbled \in RawReply
    /\ \A k \in ReplyKind, t, c \in Calls \cup {NoCall} : Reply(k, t, c) \in RawReply
    /\ \A r \in RawReply : /\ r.task \in Calls \cup {NoCall}
                           /\ r.command \in Calls \cup {NoCall}
                           /\ r.kind \in ReplyKind
  BY DEF Garbled, Reply, RawReply, ReplyKind

\* The message the reader takes, and the stream it leaves.
LEMMA ReceivesType ==
    ASSUME TypeOK, fromServer # << >>
    PROVE  /\ Message \in RawReply /\ Message = fromServer[1]
           /\ Message.task \in Calls \cup {NoCall}
           /\ Tail(fromServer) \in Seq(RawReply)
           /\ Len(fromServer) \in Nat \ {0}
           /\ Len(Tail(fromServer)) = Len(fromServer) - 1
           /\ \A i \in 1..Len(Tail(fromServer)) : Tail(fromServer)[i] = fromServer[i + 1]
  BY HeadTailProperties, EmptySeq, ReplyTypes DEF TypeOK, Message

-----------------------------------------------------------------------------
(* The lock *)

InLock(c) == \E i \in 1..Len(lockq) : lockq[i] = c

\* The queue of the lock and the places where the calls are suspended agree: a
\* call is queued, once, exactly while it is inside or before an "async with",
\* and only the head of the queue is inside the first one.
LockInv ==
    /\ \A c \in Calls : InLock(c) <=> pc[c] \in {"lock", "drain", "sync", "reglock"}
    /\ \A i, j \in 1..Len(lockq) : lockq[i] = lockq[j] => i = j
    /\ \A c \in Calls : pc[c] \in {"drain", "sync"} => Holds(c)

\* What becomes of the queue in a step of call c.
LEMMA QueueFacts ==
    ASSUME TypeOK
    PROVE  /\ Len(lockq) \in Nat
           /\ lockq # << >> =>
                /\ Len(lockq) > 0
                /\ Tail(lockq) \in Seq(Calls)
                /\ Len(Tail(lockq)) = Len(lockq) - 1
                /\ \A i \in 1..(Len(lockq) - 1) : Tail(lockq)[i] = lockq[i + 1]
           /\ \A c \in Calls :
                /\ Append(lockq, c) \in Seq(Calls)
                /\ Len(Append(lockq, c)) = Len(lockq) + 1
                /\ \A i \in 1..Len(lockq) : Append(lockq, c)[i] = lockq[i]
                /\ Append(lockq, c)[Len(lockq) + 1] = c
                /\ <<c>> \in Seq(Calls) /\ <<c>> # << >>
<1>1. lockq \in Seq(Calls)
  BY DEF TypeOK
<1>2. Len(lockq) \in Nat /\ (lockq # << >> => Len(lockq) > 0)
  BY <1>1, EmptySeq, LenProperties
<1>3. QED
  BY <1>1, <1>2, HeadTailProperties, AppendProperties

\* The head of the queue leaves: release() hands the lock to the next one.
LEMMA ReleaseKeepsLock ==
    ASSUME TypeOK, LockInv, NEW c \in Calls, Holds(c),
           lockq' = Tail(lockq), NEW to \in Ended \cup {"term"},
           pc' = [pc EXCEPT ![c] = to]
    PROVE  LockInv'
<1>1. /\ Len(lockq) \in Nat /\ Len(lockq) > 0 /\ Len(lockq') = Len(lockq) - 1
      /\ \A i \in 1..(Len(lockq) - 1) : lockq'[i] = lockq[i + 1]
  BY QueueFacts DEF Holds
<1>2. lockq[1] = c /\ pc \in [Calls -> {"idle"} \cup Suspended \cup Ended]
  BY DEF Holds, TypeOK
<1>3. to \notin {"lock", "drain", "sync", "reglock"}
  BY DEF Ended
<1>4. ASSUME NEW d \in Calls, d # c PROVE InLock(d)' <=> InLock(d)
  <2>1. ASSUME NEW i \in 1..Len(lockq), lockq[i] = d PROVE InLock(d)'
    <3>1. i # 1 /\ i - 1 \in 1..Len(lockq') /\ (i - 1) + 1 = i
      BY <1>1, <1>2, <1>4, <2>1
    <3>2. lockq'[i - 1] = d
      BY <1>1, <2>1, <3>1
    <3>3. QED
      BY <3>1, <3>2 DEF InLock
  <2>2. ASSUME NEW i \in 1..Len(lockq'), lockq'[i] = d PROVE InLock(d)
    BY <1>1, <2>2 DEF InLock
  <2>3. QED
    BY <2>1, <2>2 DEF InLock
<1>5. ~InLock(c)'
  BY <1>1, <1>2 DEF InLock, LockInv
<1>6. ASSUME NEW d \in Calls PROVE pc'[d] \notin {"drain", "sync"}
  BY <1>2, <1>3 DEF LockInv, Holds
<1>7. QED
  BY <1>1, <1>2, <1>3, <1>4, <1>5, <1>6 DEF LockInv

\* A call queues up at the tail.
LEMMA QueueKeepsLock ==
    ASSUME TypeOK, LockInv, NEW c \in Calls, pc[c] = "idle", lockq # << >>,
           lockq' = Append(lockq, c), pc' = [pc EXCEPT ![c] = "lock"]
    PROVE  LockInv'
<1>1. /\ Len(lockq) \in Nat /\ Len(lockq) > 0 /\ Len(lockq') = Len(lockq) + 1
      /\ \A i \in 1..Len(lockq) : lockq'[i] = lockq[i]
      /\ lockq'[Len(lockq) + 1] = c
      /\ lockq' # << >>
  BY QueueFacts, EmptySeq
<1>2. pc \in [Calls -> {"idle"} \cup Suspended \cup Ended] /\ ~InLock(c)
  BY DEF TypeOK, LockInv
<1>3. ASSUME NEW d \in Calls PROVE InLock(d)' <=> (InLock(d) \/ d = c)
  BY <1>1 DEF InLock
<1>4. \A i, j \in 1..Len(lockq') : lockq'[i] = lockq'[j] => i = j
  BY <1>1, <1>2 DEF LockInv, InLock
<1>5. QED
  BY <1>1, <1>2, <1>3, <1>4 DEF LockInv, Holds

\* Sending the command: the caller stays at the head of the queue, or leaves it
\* because the write raised.
LEMMA TransmitKeepsLock ==
    ASSUME TypeOK, LockInv, NEW c \in Calls, NEW queue,
           \/ queue = lockq /\ Holds(c) /\ pc[c] = "lock"
           \/ queue = <<c>> /\ lockq = << >> /\ pc[c] = "idle",
           Transmit(c, queue)
    PROVE  LockInv' /\ lockq' \in Seq(Calls)
<1>1. /\ queue \in Seq(Calls) /\ queue # << >> /\ queue[1] = c
      /\ Len(queue) \in Nat /\ Len(queue) > 0
      /\ Tail(queue) \in Seq(Calls) /\ Len(Tail(queue)) = Len(queue) - 1
      /\ \A i \in 1..(Len(queue) - 1) : Tail(queue)[i] = queue[i + 1]
  <2>1. queue \in Seq(Calls) /\ queue # << >> /\ queue[1] = c
    <3>1. CASE queue = lockq /\ Holds(c)
      BY <3>1 DEF TypeOK, Holds
    <3>2. CASE queue = <<c>>
      BY <3>2
    <3>3. QED
      BY <3>1, <3>2
  <2>2. QED
    BY <2>1, EmptySeq, HeadTailProperties
<1>2. /\ \A d \in Calls : (\E i \in 1..Len(queue) : queue[i] = d) <=>
                             (d = c \/ pc[d] \in {"lock", "drain", "sync", "reglock"})
      /\ \A i, j \in 1..Len(queue) : queue[i] = queue[j] => i = j
  <2>1. CASE queue = lockq
    BY <2>1 DEF LockInv, InLock, Holds
  <2>2. CASE queue = <<c>> /\ lockq = << >>
    BY <2>2 DEF LockInv, InLock
  <2>3. QED
    BY <2>1, <2>2
<1>3. pc \in [Calls -> {"idle"} \cup Suspended \cup Ended]
      /\ \A d \in Calls : pc[d] \in {"drain", "sync"} => FALSE
  BY DEF TypeOK, LockInv, Holds
<1>4. CASE lockq' = queue /\ \E to \in {"drain", "sync"} : pc' = [pc EXCEPT ![c] = to]
  BY <1>1, <1>2, <1>3, <1>4 DEF LockInv, InLock, Holds
<1>5. CASE lockq' = Tail(queue) /\ pc' = [pc EXCEPT ![c] = "connection_error"]
  <2>1. \A d \in Calls : InLock(d)' <=> (d # c /\ \E i \in 1..Len(queue) : queue[i] = d)
    BY <1>1, <1>2, <1>5 DEF InLock
  <2>2. \A i, j \in 1..Len(lockq') : lockq'[i] = lockq'[j] => i = j
    BY <1>1, <1>2, <1>5
  <2>3. QED
    BY <1>1, <1>2, <1>3, <1>5, <2>1, <2>2 DEF LockInv, Holds
<1>6. QED
  BY <1>4, <1>5 DEF Transmit

\* A cancelled caller leaves the queue from wherever it is in it.
LEMMA CancelKeepsLock ==
    ASSUME TypeOK, LockInv, NEW c \in Calls, CancelCall(c)
    PROVE  LockInv' /\ lockq' \in Seq(Calls)
<1>1. /\ pc \in [Calls -> {"idle"} \cup Suspended \cup Ended] /\ lockq \in Seq(Calls)
      /\ pc' = [pc EXCEPT ![c] = "cancelled"]
  BY DEF TypeOK, CancelCall
<1>2. CASE pc[c] = "term"
  BY <1>1, <1>2 DEF CancelCall, LockInv, InLock, Holds
<1>3. CASE pc[c] # "term"
  <2>1. PICK i \in 1..Len(lockq) : lockq[i] = c /\ lockq' = RemoveAt(lockq, i)
    BY <1>1, <1>3 DEF CancelCall
  <2>2. /\ lockq' \in Seq(Calls) /\ Len(lockq') = Len(lockq) - 1 /\ Len(lockq) \in Nat
        /\ \A j \in 1..(Len(lockq) - 1) : lockq'[j] = IF j < i THEN lockq[j] ELSE lockq[j + 1]
    BY <1>1, <2>1, RemoveAtLemma, LenProperties
  <2>3. \A j, k \in 1..Len(lockq') : lockq'[j] = lockq'[k] => j = k
    BY <2>1, <2>2 DEF LockInv
  <2>4. ~InLock(c)'
    BY <2>1, <2>2 DEF LockInv, InLock
  <2>5. ASSUME NEW d \in Calls, d # c PROVE InLock(d)' <=> InLock(d)
    <3>1. ASSUME NEW j \in 1..Len(lockq), lockq[j] = d PROVE InLock(d)'
      <4>1. j # i
        BY <2>1, <2>5, <3>1
      <4>2. CASE j < i
        BY <2>1, <2>2, <3>1, <4>2 DEF InLock
      <4>3. CASE j > i
        <5>1. j - 1 \in 1..Len(lockq') /\ (j - 1) + 1 = j /\ ~(j - 1 < i)
          BY <2>1, <2>2, <4>3
        <5>2. lockq'[j - 1] = d
          BY <2>2, <3>1, <5>1
        <5>3. QED
          BY <5>1, <5>2 DEF InLock
      <4>4. QED
        BY <4>1, <4>2, <4>3
    <3>2. ASSUME NEW j \in 1..Len(lockq'), lockq'[j] = d PROVE InLock(d)
      BY <2>1, <2>2, <3>2 DEF InLock
    <3>3. QED
      BY <3>1, <3>2 DEF InLock
  <2>6. ASSUME NEW d \in Calls, pc'[d] \in {"drain", "sync"} PROVE Holds(d)'
    <3>1. d # c /\ pc[d] \in {"drain", "sync"} /\ lockq[1] = d
      BY <1>1, <2>6 DEF LockInv, Holds
    <3>2. 1 \in 1..(Len(lockq) - 1) /\ 1 < i
      BY <2>1, <2>2, <3>1
    <3>3. lockq'[1] = d
      BY <2>2, <3>1, <3>2
    <3>4. lockq' # << >>
      BY <2>2, <3>2, EmptySeq
    <3>5. QED
      BY <3>3, <3>4 DEF Holds
  <2>7. QED
    BY <1>1, <2>2, <2>3, <2>4, <2>5, <2>6 DEF LockInv
<1>4. QED
  BY <1>2, <1>3

\* The head of the queue releases the lock and queues up again behind the others.
LEMMA RequeueKeepsLock ==
    ASSUME TypeOK, LockInv, NEW c \in Calls, Holds(c), pc[c] = "sync",
           lockq' = Append(Tail(lockq), c), pc' = [pc EXCEPT ![c] = "reglock"]
    PROVE  LockInv'
<1>1. /\ Len(lockq) \in Nat /\ Len(lockq) > 0 /\ Tail(lockq) \in Seq(Calls)
      /\ Len(Tail(lockq)) = Len(lockq) - 1
      /\ \A i \in 1..(Len(lockq) - 1) : Tail(lockq)[i] = lockq[i + 1]
  BY QueueFacts DEF Holds
<1>2. /\ Len(lockq') = Len(lockq) /\ lockq'[Len(lockq)] = c
      /\ \A i \in 1..(Len(lockq) - 1) : lockq'[i] = Tail(lockq)[i]
  <2>1. /\ Len(Append(Tail(lockq), c)) = Len(Tail(lockq)) + 1
        /\ \A i \in 1..Len(Tail(lockq)) : Append(Tail(lockq), c)[i] = Tail(lockq)[i]
        /\ Append(Tail(lockq), c)[Len(Tail(lockq)) + 1] = c
    BY <1>1, AppendProperties
  <2>2. QED
    BY <1>1, <2>1
<1>3. lockq[1] = c /\ pc \in [Calls -> {"idle"} \cup Suspended \cup Ended]
  BY DEF Holds, TypeOK
<1>4. \A i \in 1..(Len(lockq) - 1) : lockq'[i] = lockq[i + 1] /\ lockq'[i] # c
  BY <1>1, <1>2, <1>3 DEF LockInv
<1>5. \A i, j \in 1..Len(lockq') : lockq'[i] = lockq'[j] => i = j
  <2>1. \A i, j \in 1..Len(lockq) : lockq[i] = lockq[j] => i = j
    BY DEF LockInv
  <2>2. ASSUME NEW i \in 1..(Len(lockq) - 1), NEW j \in 1..(Len(lockq) - 1),
               lockq'[i] = lockq'[j]
        PROVE  i = j
    <3>1. lockq[i + 1] = lockq[j + 1]
      BY <1>4, <2>2
    <3>2. i + 1 \in 1..Len(lockq) /\ j + 1 \in 1..Len(lockq)
      BY <1>1
    <3>3. i + 1 = j + 1
      BY <2>1, <3>1, <3>2
    <3>4. QED
      BY <3>3
  <2>3. ASSUME NEW i \in 1..Len(lockq)
        PROVE  i \in 1..(Len(lockq) - 1) \/ (i = Len(lockq) /\ lockq'[i] = c)
    <3>1. CASE i = Len(lockq)
      BY <1>2, <3>1
    <3>2. CASE i # Len(lockq)
      <4>1. Len(lockq) \in Int /\ i \in Int /\ 1 <= i /\ i <= Len(lockq)
        BY <1>1
      <4>2. i <= Len(lockq) - 1
        BY <3>2, <4>1
      <4>3. QED
        BY <4>1, <4>2
    <3>3. QED
      BY <3>1, <3>2
  <2>4. QED
    BY <1>2, <1>4, <2>2, <2>3
<1>6. ASSUME NEW d \in Calls PROVE InLock(d)' <=> InLock(d)
  <2>1. ASSUME NEW i \in 1..Len(lockq), lockq[i] = d PROVE InLock(d)'
    <3>1. CASE i = 1
      <4>1. d = c /\ Len(lockq) \in 1..Len(lockq')
        BY <1>1, <1>2, <1>3, <2>1, <3>1
      <4>2. QED
        BY <1>2, <4>1 DEF InLock
    <3>2. CASE i # 1
      <4>1. i - 1 \in 1..(Len(lockq) - 1) /\ (i - 1) + 1 = i
        BY <1>1, <3>2
      <4>2. lockq'[i - 1] = d
        BY <1>4, <2>1, <4>1
      <4>3. i - 1 \in 1..Len(lockq')
        BY <1>1, <1>2, <4>1
      <4>4. QED
        BY <4>2, <4>3 DEF InLock
    <3>3. QED
      BY <3>1, <3>2
  <2>2. ASSUME NEW i \in 1..Len(lockq'), lockq'[i] = d PROVE InLock(d)
    <3>1. CASE i = Len(lockq)
      BY <1>1, <1>2, <1>3, <2>2, <3>1 DEF InLock
    <3>2. CASE i # Len(lockq)
      <4>1. i \in 1..(Len(lockq) - 1) /\ i + 1 \in 1..Len(lockq)
        <5>1. Len(lockq') = Len(lockq) /\ Len(lockq) \in Int
          BY <1>1, <1>2
        <5>2. i \in 1..Len(lockq)
          BY <5>1
        <5>3. QED
          BY <5>1, <5>2, <3>2
      <4>2. lockq[i + 1] = d
        BY <1>4, <2>2, <4>1
      <4>3. QED
        BY <4>1, <4>2 DEF InLock
    <3>3. QED
      BY <3>1, <3>2
  <2>3. QED
    BY <2>1, <2>2 DEF InLock
<1>7. ASSUME NEW d \in Calls PROVE pc'[d] \notin {"drain", "sync"}
  BY <1>3, <1>7 DEF LockInv, Holds
<1>8. InLock(c)
  BY <1>1, <1>3 DEF InLock
<1>9. QED
  BY <1>3, <1>5, <1>6, <1>7, <1>8 DEF LockInv

-----------------------------------------------------------------------------
(* Types *)

\* The helpers that several actions share keep the types of what they write.
LEMMA TransmitType ==
    ASSUME TypeOK, NEW c \in Calls, NEW queue, Transmit(c, queue)
    PROVE  /\ pc' \in [Calls -> {"idle"} \cup Suspended \cup Ended]
           /\ syncReply' \in Calls \cup {NoCall}
           /\ syncFut' \in [Calls -> Future] /\ term' \in [Calls -> Future]
           /\ pending' \in [Calls -> Calls \cup {NoCall}]
           /\ toServer' \in Seq(Calls)
<1>1. toServer' \in Seq(Calls)
  BY AppendProperties DEF TypeOK, Transmit
<1>2. QED
  BY <1>1, FutureTypes DEF TypeOK, Transmit, Suspended, Ended

LEMMA SettleAllType ==
    ASSUME TypeOK, NEW outcome \in {"exception", "cancelled"}, SettleAll(outcome)
    PROVE  /\ syncReply' \in Calls \cup {NoCall}
           /\ syncFut' \in [Calls -> Future] /\ term' \in [Calls -> Future]
           /\ pending' \in [Calls -> Calls \cup {NoCall}]
  BY FutureTypes DEF TypeOK, SettleAll

LEMMA CancelCallType ==
    ASSUME TypeOK, LockInv, NEW c \in Calls, CancelCall(c)
    PROVE  /\ pc' \in [Calls -> {"idle"} \cup Suspended \cup Ended]
           /\ lockq' \in Seq(Calls)
           /\ syncFut' \in [Calls -> Future]
  BY CancelKeepsLock, FutureTypes DEF TypeOK, CancelCall, Ended

LEMMA TypeStep ==
    ASSUME TypeOK, LockInv, [Next]_vars
    PROVE  TypeOK'
<1> USE DEF TypeOK, clientVars, readerVars, serverVars
<1>1. ASSUME NEW c \in Calls, Enter(c), nested' \in Calls \cup {NoCall}
      PROVE  TypeOK'
  <2>1. CASE lockq = << >> /\ Transmit(c, <<c>>)
    BY <1>1, <2>1, TransmitType, TransmitKeepsLock DEF Enter
  <2>2. CASE lockq # << >> /\ Queue(c)
    BY <1>1, <2>2, QueueFacts DEF Enter, Queue, Suspended
  <2>3. QED
    BY <1>1, <2>1, <2>2 DEF Enter
<1>2. ASSUME NEW c \in Calls, Call(c) PROVE TypeOK'
  BY <1>1, <1>2 DEF Call
<1>3. ASSUME NEW c \in Calls, CallFromNote(c) PROVE TypeOK'
  BY <1>1, <1>3 DEF CallFromNote
<1>4. ASSUME NEW c \in Calls, Granted(c) PROVE TypeOK'
  BY <1>4, TransmitType, TransmitKeepsLock DEF Granted
<1>5. ASSUME NEW c \in Calls, Drained(c) PROVE TypeOK'
  <2>1. lockq' \in Seq(Calls)
    BY <1>5, QueueFacts DEF Drained, LockInv, Holds
  <2>2. pc' \in [Calls -> {"idle"} \cup Suspended \cup Ended]
    BY <1>5 DEF Drained, Suspended, Ended
  <2>3. QED
    BY <1>5, <2>1, <2>2 DEF Drained
<1>6. ASSUME NEW c \in Calls, Concludes(c) PROVE TypeOK'
  <2>1. SyncOutcome(c) \in Ended
    BY DEF Failure, SyncOutcome, Ended
  <2>2. QED
    BY <1>6, <2>1, QueueFacts DEF Concludes, LockInv, Holds
<1>7. ASSUME NEW c \in Calls, Register(c), HasTask(c) \/ pc[c] = "reglock"
      PROVE  /\ pending' \in [Calls -> Calls \cup {NoCall}]
             /\ term' \in [Calls -> Future]
             /\ pc' \in [Calls -> {"idle"} \cup Suspended \cup Ended]
  BY <1>7, FutureTypes DEF Register, Suspended
<1>8. ASSUME NEW c \in Calls, Accepted(c) PROVE TypeOK'
  <2>1. CASE lockq' = << >> /\ Register(c)
    BY <1>7, <1>8, <2>1 DEF Accepted
  <2>2. CASE lockq' = Append(Tail(lockq), c) /\ pc' = [pc EXCEPT ![c] = "reglock"]
             /\ UNCHANGED <<term, pending>>
    <3>1. lockq # << >>
      BY <1>8 DEF Accepted, LockInv, Holds
    <3>2. Append(Tail(lockq), c) \in Seq(Calls)
      BY <3>1, HeadTailProperties, AppendProperties
    <3>3. QED
      BY <1>8, <2>2, <3>2 DEF Accepted, Suspended
  <2>3. QED
    BY <1>8, <2>1, <2>2 DEF Accepted
<1>9. ASSUME NEW c \in Calls, Registers(c) PROVE TypeOK'
  BY <1>7, <1>9, QueueFacts DEF Registers, Holds
<1>10. ASSUME NEW c \in Calls, Completed(c) PROVE TypeOK'
  <2>1. TermOutcome(c) \in Ended
    BY DEF Failure, TermOutcome, Ended
  <2>2. QED
    BY <1>10, <2>1 DEF Completed
<1>11. ASSUME NEW c \in Calls, Cancel(c) PROVE TypeOK'
  BY <1>11, CancelCallType DEF Cancel, CancelCall
<1>12. ASSUME NEW c \in Timed, TimesOut(c) PROVE TypeOK'
  BY <1>12, CallsAssumption DEF TimesOut, Calls, Ended
<1>13. ASSUME Start PROVE TypeOK'
  BY <1>13, BoundsAssumption DEF Start
<1>14. ASSUME DispatchSync PROVE TypeOK'
  BY <1>14, ReceivesType, FutureTypes DEF DispatchSync, Receives
<1>15. ASSUME DispatchNote PROVE TypeOK'
  BY <1>15, ReceivesType DEF DispatchNote, Receives
<1>16. ASSUME DispatchTerminal PROVE TypeOK'
  BY <1>16, ReceivesType, FutureTypes DEF DispatchTerminal, Receives
<1>17. ASSUME ReaderCrashes PROVE TypeOK'
  BY <1>17, SettleAllType, ReceivesType DEF ReaderCrashes
<1>18. ASSUME NoteDone PROVE TypeOK'
  BY <1>18 DEF NoteDone
<1>19. ASSUME StopBegins PROVE TypeOK'
  BY <1>19, SettleAllType DEF StopBegins
<1>20. ASSUME ReaderCancelled PROVE TypeOK'
  <2>1. fromServer' \in Seq(RawReply)
    <3>1. CASE UNCHANGED fromServer
      BY <3>1
    <3>2. CASE fromServer # << >> /\ fromServer' = [fromServer EXCEPT ![1] = Garbled]
      BY <3>2, ReceivesType, ReplyTypes, ExceptSeq
    <3>3. QED
      BY <1>20, <3>1, <3>2 DEF ReaderCancelled
  <2>2. CASE UNCHANGED clientVars
    BY <1>20, <2>1, <2>2 DEF ReaderCancelled
  <2>3. CASE nested \in Calls /\ CancelCall(nested)
    BY <1>20, <2>1, <2>3, CancelCallType DEF ReaderCancelled, CancelCall
  <2>4. QED
    BY <1>20, <2>2, <2>3 DEF ReaderCancelled
<1>21. ASSUME StopEnds PROVE TypeOK'
  BY <1>21, SettleAllType DEF StopEnds
<1>22. ASSUME Serve PROVE TypeOK'
  <2>1. /\ Head(toServer) \in Calls /\ Tail(toServer) \in Seq(Calls)
    BY <1>22, HeadTailProperties DEF Serve
  <2>2. \A k \in ReplyKind, t, c \in Calls \cup {NoCall} :
           Append(fromServer, Reply(k, t, c)) \in Seq(RawReply)
    BY ReplyTypes, AppendProperties
  <2>3. {"OK", "ERROR"} \subseteq ReplyKind
    BY DEF ReplyKind
  <2>4. fromServer' \in Seq(RawReply)
    <3>1. PICK k \in ReplyKind, t \in Calls \cup {NoCall}, c \in Calls :
             fromServer' = Append(fromServer, Reply(k, t, c))
      BY <1>22, <2>1, <2>3 DEF Serve
    <3>2. QED
      BY <2>2, <3>1
  <2>5. QED
    BY <1>22, <2>1, <2>4 DEF Serve
<1>23. ASSUME NEW c \in AsyncCalls, NEW k \in ReplyKind,
              fromServer' = Append(fromServer, Reply(k, c, c))
       PROVE  fromServer' \in Seq(RawReply)
  BY <1>23, ReplyTypes, AppendProperties DEF Calls
<1>24. ASSUME NEW c \in AsyncCalls, Notes(c) PROVE TypeOK'
  <2>1. "NOTE" \in ReplyKind
    BY DEF ReplyKind
  <2>2. fromServer' \in Seq(RawReply)
    BY <1>23, <1>24, <2>1 DEF Notes
  <2>3. QED
    BY <1>24, <2>2, BoundsAssumption DEF Notes
<1>25. ASSUME NEW c \in AsyncCalls, Finishes(c) PROVE TypeOK'
  <2>1. Endings \subseteq ReplyKind
    BY EndingsAssumption DEF ReplyKind
  <2>2. fromServer' \in Seq(RawReply)
    BY <1>23, <1>25, <2>1 DEF Finishes
  <2>3. QED
    BY <1>25, <2>2 DEF Finishes
<1>26. ASSUME Close PROVE TypeOK'
  <2>1. PICK n \in 0..Len(fromServer) : fromServer' = SubSeq(fromServer, 1, n)
    BY <1>26 DEF Close
  <2>2. \A i \in 1..n : fromServer[i] \in RawReply
    BY <2>1, LenProperties
  <2>3. fromServer' \in Seq(RawReply)
    BY <2>1, <2>2, LenProperties, SubSeqProperties
  <2>4. << >> \in Seq(Calls)
    BY EmptySeq
  <2>5. QED
    BY <1>26, <2>3, <2>4 DEF Close
<1>27. ASSUME Garble PROVE TypeOK'
  <2>1. fromServer' \in Seq(RawReply)
    BY <1>27, ReplyTypes, AppendProperties DEF Garble
  <2>2. QED
    BY <1>27, <2>1, BoundsAssumption DEF Garble
<1>28. CASE UNCHANGED vars
  BY <1>28 DEF vars
<1>29. QED
  BY <1>2, <1>3, <1>4, <1>5, <1>6, <1>8, <1>9, <1>10, <1>11, <1>12, <1>13, <1>14, <1>15,
     <1>16, <1>17, <1>18, <1>19, <1>20, <1>21, <1>22, <1>24, <1>25, <1>26, <1>27, <1>28
     DEF Next, CallStep, ReaderStep

\* The queue of the lock agrees with the calls, in every step.
LEMMA LockStep ==
    ASSUME TypeOK, LockInv, [Next]_vars
    PROVE  LockInv'
<1> USE DEF clientVars, readerVars, serverVars
<1>1. ASSUME UNCHANGED <<pc, lockq>> PROVE LockInv'
  BY <1>1 DEF LockInv, InLock, Holds
<1>2. ASSUME NEW c \in Calls, Enter(c) PROVE LockInv'
  BY <1>2, TransmitKeepsLock, QueueKeepsLock DEF Enter, Queue
<1>3. ASSUME NEW c \in Calls, Granted(c) PROVE LockInv'
  BY <1>3, TransmitKeepsLock DEF Granted
<1>4. ASSUME NEW c \in Calls, Drained(c) PROVE LockInv'
  <2>1. Holds(c) /\ pc[c] = "drain"
    BY <1>4 DEF Drained, LockInv
  <2>2. CASE pc' = [pc EXCEPT ![c] = "sync"] /\ UNCHANGED lockq
    BY <2>1, <2>2 DEF TypeOK, LockInv, InLock, Holds
  <2>3. CASE pc' = [pc EXCEPT ![c] = "connection_error"] /\ lockq' = Tail(lockq)
    BY <2>1, <2>3, ReleaseKeepsLock DEF Ended
  <2>4. QED
    BY <1>4, <2>2, <2>3 DEF Drained
<1>5. ASSUME NEW c \in Calls, Concludes(c) PROVE LockInv'
  <2>1. SyncOutcome(c) \in Ended /\ Holds(c)
    BY <1>5 DEF Failure, SyncOutcome, Ended, Concludes, LockInv
  <2>2. QED
    BY <1>5, <2>1, ReleaseKeepsLock DEF Concludes
<1>6. ASSUME NEW c \in Calls, Accepted(c) PROVE LockInv'
  <2>1. Holds(c) /\ pc[c] = "sync" /\ lockq \in Seq(Calls)
    BY <1>6 DEF Accepted, LockInv, TypeOK
  <2>2. CASE Len(lockq) = 1 /\ lockq' = << >> /\ Register(c)
    <3>1. Tail(lockq) = << >>
      <4>1. Tail(lockq) \in Seq(Calls) /\ Len(Tail(lockq)) = 0
        BY <2>1, <2>2, QueueFacts DEF Holds
      <4>2. QED
        BY <4>1, EmptySeq
    <3>2. QED
      BY <2>1, <2>2, <3>1, ReleaseKeepsLock DEF Register
  <2>3. CASE lockq' = Append(Tail(lockq), c) /\ pc' = [pc EXCEPT ![c] = "reglock"]
    BY <2>1, <2>3, RequeueKeepsLock
  <2>4. QED
    BY <1>6, <2>2, <2>3 DEF Accepted
<1>7. ASSUME NEW c \in Calls, Registers(c) PROVE LockInv'
  BY <1>7, ReleaseKeepsLock DEF Registers, Register
<1>8. ASSUME NEW c \in Calls, pc[c] = "term", NEW to \in Ended,
             pc' = [pc EXCEPT ![c] = to], UNCHANGED lockq
      PROVE  LockInv'
  BY <1>8 DEF TypeOK, LockInv, InLock, Holds, Ended
<1>9. ASSUME NEW c \in Calls, Completed(c) PROVE LockInv'
  <2>1. TermOutcome(c) \in Ended
    BY DEF Failure, TermOutcome, Ended
  <2>2. QED
    BY <1>8, <1>9, <2>1 DEF Completed
<1>10. ASSUME NEW c \in Timed, TimesOut(c) PROVE LockInv'
  BY <1>8, <1>10, CallsAssumption DEF TimesOut, Calls, Ended
<1>11. ASSUME NEW c \in Calls, Cancel(c) PROVE LockInv'
  BY <1>11, CancelKeepsLock DEF Cancel
<1>12. ASSUME ReaderCancelled PROVE LockInv'
  BY <1>1, <1>12, CancelKeepsLock DEF ReaderCancelled, TypeOK
<1>13. ASSUME \/ Start \/ DispatchSync \/ DispatchNote \/ DispatchTerminal
              \/ ReaderCrashes \/ NoteDone \/ StopBegins \/ StopEnds
              \/ Serve \/ Close \/ Garble
              \/ \E c \in AsyncCalls : Notes(c) \/ Finishes(c)
              \/ UNCHANGED vars
       PROVE  LockInv'
  BY <1>1, <1>13 DEF Start, DispatchSync, DispatchNote, DispatchTerminal, ReaderCrashes,
     NoteDone, StopBegins, StopEnds, Serve, Close, Garble, Notes, Finishes, vars
<1>14. QED
  BY <1>2, <1>3, <1>4, <1>5, <1>6, <1>7, <1>9, <1>10, <1>11, <1>12, <1>13
     DEF Next, CallStep, ReaderStep, Call, CallFromNote

\* Every variable keeps its type, and the lock is held by one call at a time: no
\* queue, future or reply is ever something the code would not expect there.
THEOREM TypeCorrect == Spec => [](TypeOK /\ LockInv)
<1>1. Init => TypeOK
  <2>1. << >> \in Seq(Calls) /\ << >> \in Seq(RawReply)
    BY EmptySeq
  <2>2. QED
    BY <2>1, BoundsAssumption, FutureTypes DEF Init, TypeOK
<1>2. Init => LockInv
  BY EmptySeq DEF Init, LockInv, InLock, Holds
<1>3. TypeOK /\ LockInv /\ [Next]_vars => TypeOK' /\ LockInv'
  BY TypeStep, LockStep
<1>4. QED
  BY <1>1, <1>2, <1>3, PTL DEF Spec

-----------------------------------------------------------------------------
(* Where the replies are *)

\* The immediate future of a call is armed before the call can wait for it, and
\* stays armed until it is settled; a call that goes on to its task has an OK
\* with a task id.
SyncInv ==
    /\ \A c \in Calls :
          /\ pc[c] \in {"idle", "lock"} => syncFut[c].state = "none"
          /\ pc[c] \in {"drain", "sync"} => syncFut[c].state # "none"
          /\ pc[c] \in {"drain", "sync"} /\ syncFut[c].state = "pending" => syncReply = c
          /\ pc[c] \in {"reglock", "term"} => HasTask(c)
    /\ syncReply # NoCall => syncFut[syncReply].state # "none"

Asked(c) == pc[c] \notin {"idle", "lock"}
InToServer(c) == \E i \in 1..Len(toServer) : toServer[i] = c
AnswerAt(i, c) == IsSyncReply(fromServer[i]) /\ fromServer[i].command = c
InFromServer(c) == \E i \in 1..Len(fromServer) : AnswerAt(i, c)
HasAnswer(c, d) == syncFut[c].state = "result" /\ syncFut[c].reply.command = d

\* The replies of the stream, by themselves: task ids are those of the commands
\* they answer, and no command is answered twice.
StreamInv ==
    /\ \A i \in 1..Len(fromServer) :
          /\ IsSyncReply(fromServer[i]) => fromServer[i].command \in Calls
          /\ fromServer[i].task \in {NoCall, fromServer[i].command}
    /\ \A i, j \in 1..Len(fromServer), c \in Calls : AnswerAt(i, c) /\ AnswerAt(j, c) => i = j

\* A command is in one place at most: on its way to the server, as a reply on its
\* way back, or as the result of one future.
WireInv ==
    /\ \A i, j \in 1..Len(toServer) : toServer[i] = toServer[j] => i = j
    /\ StreamInv
    /\ \A c \in Calls : InToServer(c) => Asked(c) /\ ~InFromServer(c)
    /\ \A c \in Calls : InFromServer(c) => Asked(c)
    /\ \A c, d \in Calls : HasAnswer(c, d) =>
          /\ Asked(d) /\ ~InToServer(d) /\ ~InFromServer(d)
          /\ \A e \in Calls : HasAnswer(e, d) => e = c
    /\ \A c \in Calls : syncFut[c].state = "result" =>
          /\ syncFut[c].reply.command \in Calls
          /\ syncFut[c].reply.task \in {NoCall, syncFut[c].reply.command}

\* The registry, the terminal futures and the task ids of the calls agree.
TermInv ==
    /\ \A t \in Calls : pending[t] # NoCall =>
          /\ term[pending[t]].state = "pending"
          /\ syncFut[pending[t]].state = "result" /\ syncFut[pending[t]].reply.task = t
    /\ \A c \in Calls :
          /\ pc[c] \notin Ended \cup {"term"} => term[c].state = "none"
          /\ pc[c] = "term" => term[c].state # "none"
          /\ pc[c] = "term" /\ ~Done(term[c]) => pending[syncFut[c].reply.task] = c
          /\ term[c].state = "result" =>
                /\ syncFut[c].state = "result"
                /\ term[c].reply.task = syncFut[c].reply.task
                /\ term[c].reply.task \in Calls /\ IsTerminal(term[c].reply)
                /\ term[c].reply.command = term[c].reply.task

\* The reader awaits a callback only for a task that is still registered.
NoteInv ==
    /\ noting # NoCall =>
          reader \in {"running", "cancelling"} /\ \E t \in Calls : pending[t] = noting
    /\ nested # NoCall => noting # NoCall

\* The futures that no reply will reach any more although none has.
Unanswerable ==
    {c \in Calls : \/ syncFut[c].state \in {"cancelled", "exception"}
                   \/ syncFut[c].state = "pending" /\ syncReply # c}

\* Until the first future is lost in this way, the only command that is under
\* way is the one whose future is armed, and every reply is where it belongs.
OwnInv ==
    Unanswerable = {} =>
        /\ \A c \in Calls : InToServer(c) \/ InFromServer(c) =>
              syncReply = c /\ syncFut[c].state = "pending"
        /\ \A c, d \in Calls : HasAnswer(c, d) => c = d

-----------------------------------------------------------------------------
(* Every step preserves these invariants *)

\* A step that only moves call c on.
Moves(c, to) ==
    /\ pc' = [pc EXCEPT ![c] = to]
    /\ UNCHANGED <<syncReply, syncFut, term, pending, toServer, fromServer>>

MayMove(c, to) ==
    \/ pc[c] = "idle" /\ to = "lock"
    \/ pc[c] = "drain" /\ to \in {"sync", "connection_error"}
    \/ pc[c] = "sync" /\ to = "reglock" /\ HasTask(c)
    \/ pc[c] = "sync" /\ to \in Ended
    \/ pc[c] = "term" /\ to \in Ended

\* The lock keeps two calls from being between arming and reply.
Arms(c) ==
    /\ pc[c] \in {"idle", "lock"}
    /\ \A d \in Calls : pc[d] \notin {"drain", "sync"}
    /\ \E queue \in {lockq, <<c>>} : Transmit(c, queue)
    /\ UNCHANGED fromServer

\* The head of the stream is consumed, or spoilt by an interrupted read.
Skips == fromServer # << >> /\ fromServer' = Tail(fromServer)
Spoils == fromServer # << >> /\ fromServer' = [fromServer EXCEPT ![1] = Garbled]
Sends == \E k \in ReplyKind \ {"OK", "ERROR"}, t \in Calls \cup {NoCall} :
            fromServer' = Append(fromServer, Reply(k, t, t))

Enrols(c) ==
    /\ pc[c] \in {"sync", "reglock"}
    /\ pc[c] = "sync" => HasTask(c)
    /\ Register(c)
    /\ UNCHANGED <<syncReply, syncFut, toServer, fromServer>>

Aborts(c) ==
    CancelCall(c) /\ UNCHANGED toServer /\ (UNCHANGED fromServer \/ Spoils)

SettlesAll ==
    /\ \E outcome \in {"exception", "cancelled"} : SettleAll(outcome)
    /\ UNCHANGED <<pc, toServer>> /\ (UNCHANGED fromServer \/ Skips)

StreamOnly ==
    UNCHANGED <<clientVars, toServer>> /\ (UNCHANGED fromServer \/ Skips \/ Spoils \/ Sends)

\* What a step does to calls, futures and messages, whichever action it belongs to.
LEMMA StepKinds ==
    ASSUME TypeOK, LockInv, [Next]_vars
    PROVE  \/ \E c \in Calls : Arms(c) \/ Enrols(c) \/ Aborts(c)
           \/ \E c \in Calls, to \in {"lock", "sync", "reglock"} \cup Ended :
                 MayMove(c, to) /\ Moves(c, to)
           \/ DispatchSync \/ DispatchTerminal \/ SettlesAll \/ StreamOnly
           \/ UNCHANGED clientVars /\ (Serve \/ Close)
<1> USE DEF clientVars, readerVars, serverVars
<1>1. ASSUME NEW c \in Calls, Enter(c) PROVE Arms(c) \/ (MayMove(c, "lock") /\ Moves(c, "lock"))
  <2>1. CASE lockq = << >> /\ Transmit(c, <<c>>)
    BY <1>1, <2>1 DEF Enter, Arms, LockInv, Holds
  <2>2. CASE lockq # << >> /\ Queue(c)
    BY <1>1, <2>2 DEF Enter, Queue, Moves, MayMove
  <2>3. QED
    BY <1>1, <2>1, <2>2 DEF Enter
<1>2. ASSUME NEW c \in Calls, Granted(c) PROVE Arms(c)
  BY <1>2 DEF Granted, Arms, LockInv, Holds
<1>3. ASSUME NEW c \in Calls, Drained(c)
      PROVE  \E to \in {"sync"} \cup Ended : MayMove(c, to) /\ Moves(c, to)
  BY <1>3 DEF Drained, Moves, MayMove, Ended
<1>4. ASSUME NEW c \in Calls, Concludes(c)
      PROVE  \E to \in Ended : MayMove(c, to) /\ Moves(c, to)
  <2>1. SyncOutcome(c) \in Ended
    BY DEF Failure, SyncOutcome, Ended
  <2>2. QED
    BY <1>4, <2>1 DEF Concludes, Moves, MayMove
<1>5. ASSUME NEW c \in Calls, Completed(c)
      PROVE  \E to \in Ended : MayMove(c, to) /\ Moves(c, to)
  <2>1. TermOutcome(c) \in Ended
    BY DEF Failure, TermOutcome, Ended
  <2>2. QED
    BY <1>5, <2>1 DEF Completed, Moves, MayMove
<1>6. ASSUME NEW c \in Timed, TimesOut(c)
      PROVE  c \in Calls /\ "timeout" \in Ended /\ MayMove(c, "timeout") /\ Moves(c, "timeout")
  BY <1>6, CallsAssumption DEF TimesOut, Moves, MayMove, Ended, Calls
<1>7. ASSUME NEW c \in Calls, Accepted(c)
      PROVE  (MayMove(c, "reglock") /\ Moves(c, "reglock")) \/ Enrols(c)
  BY <1>7 DEF Accepted, Moves, MayMove, Enrols
<1>8. ASSUME NEW c \in Calls, Registers(c) PROVE Enrols(c)
  BY <1>8 DEF Registers, Enrols
<1>9. ASSUME NEW c \in Calls, Cancel(c) PROVE Aborts(c)
  BY <1>9 DEF Cancel, Aborts
<1>10. ASSUME ReaderCancelled PROVE (\E c \in Calls : Aborts(c)) \/ StreamOnly
  BY <1>10 DEF ReaderCancelled, TypeOK, Aborts, StreamOnly, Spoils
<1>11. ASSUME ReaderCrashes PROVE SettlesAll
  BY <1>11 DEF ReaderCrashes, SettlesAll, Skips
<1>12. ASSUME StopEnds PROVE SettlesAll
  BY <1>12 DEF StopEnds, SettlesAll
<1>13. ASSUME StopBegins PROVE SettlesAll \/ StreamOnly
  BY <1>13 DEF StopBegins, SettlesAll, StreamOnly
<1>14. ASSUME Start \/ NoteDone \/ UNCHANGED vars PROVE StreamOnly
  BY <1>14 DEF Start, NoteDone, vars, StreamOnly
<1>15. ASSUME DispatchNote PROVE StreamOnly
  BY <1>15 DEF DispatchNote, Receives, StreamOnly, Skips
<1>16. ASSUME Garble PROVE StreamOnly
  BY <1>16 DEF Garble, Garbled, ReplyKind, StreamOnly, Sends
<1>17. ASSUME NEW c \in AsyncCalls, Notes(c) \/ Finishes(c) PROVE StreamOnly
  BY <1>17, EndingsAssumption DEF Notes, Finishes, ReplyKind, Calls, StreamOnly, Sends
<1>18. ASSUME Serve \/ Close PROVE UNCHANGED clientVars
  BY <1>18 DEF Serve, Close
<1>19. ASSUME NEW c \in Calls, Call(c) \/ CallFromNote(c) PROVE Enter(c)
  BY <1>19 DEF Call, CallFromNote
<1> HIDE DEF clientVars, readerVars, serverVars
<1>20. CASE \E c \in Calls : Call(c) \/ CallFromNote(c) \/ CallStep(c) \/ Cancel(c)
  <2>1. PICK c \in Calls : Call(c) \/ CallFromNote(c) \/ CallStep(c) \/ Cancel(c)
    BY <1>20
  <2>2. CASE Call(c) \/ CallFromNote(c)
    BY <1>1, <1>19, <2>2
  <2>3. CASE Granted(c) \/ Drained(c) \/ Concludes(c) \/ Completed(c)
    BY <1>2, <1>3, <1>4, <1>5, <2>3
  <2>4. CASE Accepted(c) \/ Registers(c) \/ Cancel(c)
    BY <1>7, <1>8, <1>9, <2>4
  <2>5. QED
    BY <2>1, <2>2, <2>3, <2>4 DEF CallStep
<1>21. CASE \E c \in Timed : TimesOut(c)
  BY <1>6, <1>21
<1>22. QED
  BY <1>10, <1>11, <1>12, <1>13, <1>14, <1>15, <1>16, <1>17, <1>18, <1>20, <1>21
     DEF Next, ReaderStep

LEMMA SyncStep ==
    ASSUME TypeOK, LockInv, SyncInv, [Next]_vars
    PROVE  SyncInv'
<1> USE DEF clientVars
<1>1. ASSUME UNCHANGED <<pc, syncReply, syncFut>> PROVE SyncInv'
  BY <1>1 DEF SyncInv, HasTask
<1>2. ASSUME NEW c \in Calls, Arms(c) PROVE SyncInv'
  BY <1>2, CallsAssumption DEF TypeOK, SyncInv, HasTask, Arms, Transmit, NewFuture, Done
<1>3. ASSUME NEW c \in Calls, NEW to, MayMove(c, to), Moves(c, to) PROVE SyncInv'
  BY <1>3 DEF TypeOK, SyncInv, HasTask, MayMove, Moves, Ended
<1>4. ASSUME NEW c \in Calls, Enrols(c) PROVE SyncInv'
  BY <1>4 DEF TypeOK, SyncInv, HasTask, Enrols, Register
<1>5. ASSUME NEW c \in Calls, Aborts(c) PROVE SyncInv'
  BY <1>5 DEF TypeOK, SyncInv, HasTask, Aborts, CancelCall, Without, Done
<1>6. ASSUME DispatchSync PROVE SyncInv'
  BY <1>6 DEF TypeOK, SyncInv, HasTask, DispatchSync, WithResult, Done
<1>7. ASSUME NEW outcome \in {"exception", "cancelled"}, SettleAll(outcome), UNCHANGED pc
      PROVE  SyncInv'
  <2>1. CASE syncReply # NoCall /\ ~Done(syncFut[syncReply])
    BY <1>7, <2>1 DEF TypeOK, SyncInv, HasTask, SettleAll, Without, Done
  <2>2. CASE ~(syncReply # NoCall /\ ~Done(syncFut[syncReply]))
    <3>1. UNCHANGED <<syncFut, syncReply>>
      BY <1>7, <2>2 DEF SettleAll
    <3>2. QED
      BY <1>1, <1>7, <3>1
  <2>3. QED
    BY <2>1, <2>2
<1>8. CASE DispatchTerminal
  BY <1>1, <1>8 DEF DispatchTerminal
<1>9. CASE SettlesAll
  BY <1>7, <1>9 DEF SettlesAll
<1>10. CASE StreamOnly \/ UNCHANGED clientVars
  BY <1>1, <1>10 DEF StreamOnly
<1>11. QED
  BY <1>2, <1>3, <1>4, <1>5, <1>6, <1>8, <1>9, <1>10, StepKinds

\* A call registers for a task that nobody else was told about.
LEMMA EnrolsFresh ==
    ASSUME TypeOK, SyncInv, WireInv, TermInv, NEW c \in Calls, Enrols(c)
    PROVE  \E t \in Calls :
              /\ t = syncFut[c].reply.task /\ syncFut[c].state = "result"
              /\ pending' = [pending EXCEPT ![t] = c]
              /\ pending[t] = NoCall /\ term[c].state = "none"
              /\ \A u \in Calls : pending[u] # c
              /\ \A e \in Calls :
                    syncFut[e].state = "result" /\ syncFut[e].reply.task = t => e = c
<1>1. PICK t \in Calls : /\ t = syncFut[c].reply.task /\ t = syncFut[c].reply.command
                         /\ syncFut[c].state = "result"
  BY DEF Enrols, SyncInv, HasTask, WireInv
<1>2. term[c].state = "none"
  BY DEF Enrols, TermInv, Ended
<1>3. \A u \in Calls : pending[u] # c
  BY <1>2, CallsAssumption DEF TermInv
<1>4. ASSUME NEW e \in Calls, syncFut[e].state = "result", syncFut[e].reply.task = t
      PROVE  e = c
  <2>1. HasAnswer(c, t) /\ HasAnswer(e, t)
    BY <1>1, <1>4, CallsAssumption DEF HasAnswer, WireInv
  <2>2. QED
    BY <1>1, <2>1 DEF WireInv
<1>5. pending[t] = NoCall
  <2>1. SUFFICES ASSUME pending[t] # NoCall PROVE FALSE
    OBVIOUS
  <2>2. pending[t] \in Calls
    BY <1>1, <2>1 DEF TypeOK
  <2>3. syncFut[pending[t]].state = "result" /\ syncFut[pending[t]].reply.task = t
    BY <1>1, <2>1 DEF TermInv
  <2>4. QED
    BY <1>1, <1>3, <1>4, <2>2, <2>3
<1>6. QED
  BY <1>1, <1>2, <1>3, <1>4, <1>5 DEF Enrols, Register

LEMMA TermStep ==
    ASSUME TypeOK, LockInv, SyncInv, WireInv, TermInv, [Next]_vars
    PROVE  TermInv'
<1> USE DEF clientVars
<1>1. ASSUME UNCHANGED <<pc, syncFut, term, pending>> PROVE TermInv'
  BY <1>1 DEF TermInv
<1>2. ASSUME NEW c \in Calls, Arms(c) PROVE TermInv'
  <2>1. syncFut[c].state = "none"
    BY <1>2 DEF SyncInv, Arms
  <2>2. /\ UNCHANGED <<term, pending>> /\ syncFut' = [syncFut EXCEPT ![c] = NewFuture]
        /\ \E to \in {"drain", "sync"} \cup Ended : pc' = [pc EXCEPT ![c] = to]
    BY <1>2 DEF Arms, Transmit, Ended
  <2>3. \A t \in Calls : pending[t] # NoCall => pending[t] # c
    BY <2>1 DEF TermInv
  <2>4. term[c].state = "none"
    BY <1>2 DEF TermInv, Arms, Ended
  <2>5. QED
    BY <2>1, <2>2, <2>3, <2>4 DEF TypeOK, TermInv, Ended
<1>3. ASSUME NEW c \in Calls, NEW to \in {"lock", "sync", "reglock"} \cup Ended,
             MayMove(c, to), Moves(c, to)
      PROVE  TermInv'
  BY <1>3 DEF TypeOK, TermInv, MayMove, Moves, Ended
<1>4. ASSUME NEW c \in Calls, Enrols(c) PROVE TermInv'
  <2>1. PICK t \in Calls :
           /\ t = syncFut[c].reply.task /\ syncFut[c].state = "result"
           /\ pending[t] = NoCall /\ term[c].state = "none"
           /\ \A u \in Calls : pending[u] # c
           /\ \A e \in Calls :
                 syncFut[e].state = "result" /\ syncFut[e].reply.task = t => e = c
    BY <1>4, EnrolsFresh
  <2>2. /\ pending' = [pending EXCEPT ![t] = c]
        /\ term' = [term EXCEPT ![c] = NewFuture]
        /\ pc' = [pc EXCEPT ![c] = "term"]
        /\ UNCHANGED syncFut
    BY <1>4, <2>1 DEF Enrols, Register
  <2>3. ASSUME NEW d \in Calls, pc[d] = "term", ~Done(term[d]), d # c
        PROVE  syncFut[d].reply.task # t /\ pending[syncFut[d].reply.task] = d
    <3>1. syncFut[d].state = "result"
      BY <2>3 DEF SyncInv, HasTask
    <3>2. QED
      BY <2>1, <2>3, <3>1 DEF TermInv
  <2>4. \A u \in Calls : pending'[u] # NoCall =>
           /\ term'[pending'[u]].state = "pending"
           /\ syncFut'[pending'[u]].state = "result" /\ syncFut'[pending'[u]].reply.task = u
    <3>1. ASSUME NEW u \in Calls, u # t, pending'[u] # NoCall
          PROVE  pending'[u] = pending[u] /\ pending[u] \in Calls /\ pending[u] # c
      BY <2>1, <2>2, <3>1 DEF TypeOK
    <3>2. pending'[t] = c /\ term'[c].state = "pending"
      BY <2>1, <2>2 DEF TypeOK, NewFuture
    <3>3. syncFut[c].state = "result" /\ syncFut[c].reply.task = t
      BY <2>1
    <3>4. ASSUME NEW u \in Calls, u # t, pending'[u] # NoCall
          PROVE  /\ term'[pending'[u]].state = "pending"
                 /\ syncFut'[pending'[u]].state = "result"
                 /\ syncFut'[pending'[u]].reply.task = u
      BY <2>2, <3>1, <3>4 DEF TypeOK, TermInv
    <3>5. QED
      BY <2>2, <3>2, <3>3, <3>4
  <2>5. ASSUME NEW d \in Calls
        PROVE  /\ pc'[d] \notin Ended \cup {"term"} => term'[d].state = "none"
               /\ pc'[d] = "term" => term'[d].state # "none"
               /\ pc'[d] = "term" /\ ~Done(term'[d]) => pending'[syncFut'[d].reply.task] = d
               /\ term'[d].state = "result" =>
                     /\ syncFut'[d].state = "result"
                     /\ term'[d].reply.task = syncFut'[d].reply.task
                     /\ term'[d].reply.task \in Calls /\ IsTerminal(term'[d].reply)
                     /\ term'[d].reply.command = term'[d].reply.task
    <3>1. CASE d = c
      BY <2>1, <2>2, <3>1 DEF TypeOK, NewFuture
    <3>2. CASE d # c
      <4>1. pc'[d] = pc[d] /\ term'[d] = term[d] /\ syncFut' = syncFut
        BY <2>2, <3>2 DEF TypeOK
      <4>2. pc[d] = "term" /\ ~Done(term[d]) => pending'[syncFut[d].reply.task] = d
        BY <2>2, <2>3, <3>2 DEF TypeOK
      <4>3. QED
        BY <4>1, <4>2 DEF TermInv
    <3>3. QED
      BY <3>1, <3>2
  <2>6. QED
    BY <2>4, <2>5 DEF TermInv
<1>5. ASSUME NEW c \in Calls, Aborts(c) PROVE TermInv'
  BY <1>5 DEF TypeOK, TermInv, Aborts, CancelCall, Without, Done, Ended, Suspended
<1>6. ASSUME DispatchSync PROVE TermInv'
  BY <1>6 DEF TypeOK, TermInv, SyncInv, HasTask, DispatchSync, WithResult, Done
<1>7. ASSUME DispatchTerminal PROVE TermInv'
  <2> DEFINE t == Message.task
             c == pending[t]
  <2>1. CASE ~(t # NoCall /\ c # NoCall)
    BY <1>1, <1>7, <2>1 DEF DispatchTerminal
  <2>2. CASE t # NoCall /\ c # NoCall
    <3>1. /\ t \in Calls /\ Message.command = t /\ IsTerminal(Message)
      BY <1>7, <2>2, ReceivesType DEF DispatchTerminal, Receives, WireInv, StreamInv
    <3>2. /\ c \in Calls /\ c = pending[t] /\ term[c].state = "pending"
          /\ syncFut[c].state = "result" /\ syncFut[c].reply.task = t
      BY <2>2, <3>1 DEF TypeOK, TermInv
    <3>3. /\ pending' = [pending EXCEPT ![t] = NoCall]
          /\ term' = [term EXCEPT ![c] = WithResult(Message)]
          /\ UNCHANGED <<pc, syncFut>>
      BY <1>7, <2>2, <3>2 DEF DispatchTerminal, Done
    <3>4. \A u \in Calls : pending[u] = c => u = t
      BY <3>2, CallsAssumption DEF TermInv
    <3> HIDE DEF t, c
    <3>5. ASSUME NEW u \in Calls, pending'[u] # NoCall
          PROVE  pending'[u] = pending[u] /\ term'[pending'[u]] = term[pending[u]]
      BY <3>1, <3>2, <3>3, <3>4, <3>5 DEF TypeOK
    <3>6. ASSUME NEW d \in Calls, d # c
          PROVE  /\ term'[d] = term[d]
                 /\ pending[syncFut[d].reply.task] = d => pending'[syncFut[d].reply.task] = d
      BY <3>1, <3>2, <3>3, <3>6 DEF TypeOK
    <3>7. /\ term'[c].state = "result" /\ term'[c].reply = Message /\ Done(term'[c])
          /\ t = Message.task
      BY <3>2, <3>3 DEF TypeOK, WithResult, Done, t
    <3>8. ASSUME NEW d \in Calls
          PROVE  /\ pc'[d] \notin Ended \cup {"term"} => term'[d].state = "none"
                 /\ pc'[d] = "term" => term'[d].state # "none"
                 /\ pc'[d] = "term" /\ ~Done(term'[d]) => pending'[syncFut'[d].reply.task] = d
                 /\ term'[d].state = "result" =>
                       /\ syncFut'[d].state = "result"
                       /\ term'[d].reply.task = syncFut'[d].reply.task
                       /\ term'[d].reply.task \in Calls /\ IsTerminal(term'[d].reply)
                       /\ term'[d].reply.command = term'[d].reply.task
      <4>1. CASE d = c
        BY <3>1, <3>2, <3>3, <3>7, <4>1 DEF TermInv
      <4>2. CASE d # c
        BY <3>3, <3>6, <4>2 DEF TermInv
      <4>3. QED
        BY <4>1, <4>2
    <3>9. QED
      BY <3>3, <3>5, <3>8 DEF TermInv
  <2>3. QED
    BY <2>1, <2>2
<1>8. ASSUME NEW outcome \in {"exception", "cancelled"}, SettleAll(outcome), UNCHANGED pc
      PROVE  TermInv'
  <2>1. \A c \in Calls : syncFut[c].state = "result" => syncFut'[c] = syncFut[c]
    BY <1>8 DEF TypeOK, SettleAll, Done
  <2>2. /\ pending' = [t \in Calls |-> NoCall]
        /\ \A c \in Calls :
              term'[c] = IF (\E t \in Calls : pending[t] = c) /\ ~Done(term[c])
                           THEN Without(outcome) ELSE term[c]
    BY <1>8 DEF SettleAll
  <2>3. ASSUME NEW c \in Calls, pc[c] = "term", ~Done(term[c])
        PROVE  \E t \in Calls : pending[t] = c
    <3>1. syncFut[c].reply.task \in Calls
      BY <2>3, ReplyTypes, FutureTypes DEF SyncInv, HasTask, TypeOK
    <3>2. QED
      BY <2>3, <3>1 DEF TermInv
  <2>4. ASSUME NEW c \in Calls, NEW t \in Calls, pending[t] = c
        PROVE  pc[c] \in Ended \cup {"term"}
    BY <2>4, CallsAssumption DEF TermInv
  <2>5. /\ Without(outcome).state \notin {"none", "result"}
        /\ Done(Without(outcome))
    BY DEF Without, Done
  <2>6. ASSUME NEW c \in Calls
        PROVE  \/ term'[c] = term[c] /\ (pc[c] = "term" => Done(term[c]))
               \/ term'[c] = Without(outcome) /\ pc[c] \in Ended \cup {"term"}
    BY <2>2, <2>3, <2>4
  <2>7. ASSUME NEW c \in Calls
        PROVE  /\ pc'[c] \notin Ended \cup {"term"} => term'[c].state = "none"
               /\ pc'[c] = "term" => term'[c].state # "none"
               /\ pc'[c] = "term" => Done(term'[c])
               /\ term'[c].state = "result" =>
                     /\ syncFut'[c].state = "result"
                     /\ term'[c].reply.task = syncFut'[c].reply.task
                     /\ term'[c].reply.task \in Calls /\ IsTerminal(term'[c].reply)
                     /\ term'[c].reply.command = term'[c].reply.task
    BY <1>8, <2>1, <2>5, <2>6 DEF TermInv
  <2>8. QED
    BY <2>2, <2>7, CallsAssumption DEF TermInv
<1>9. CASE SettlesAll
  BY <1>8, <1>9 DEF SettlesAll
<1>10. CASE StreamOnly \/ UNCHANGED clientVars
  BY <1>1, <1>10 DEF StreamOnly
<1>11. QED
  BY <1>2, <1>3, <1>4, <1>5, <1>6, <1>7, <1>9, <1>10, StepKinds

\* A step that adds no answer to the stream, and may lose some.
LEMMA StreamShrinks ==
    ASSUME TypeOK, StreamInv,
           \/ UNCHANGED fromServer \/ Skips \/ Spoils \/ Sends
           \/ \E n \in 0..Len(fromServer) : fromServer' = SubSeq(fromServer, 1, n)
    PROVE  StreamInv' /\ \A c \in Calls : InFromServer(c)' => InFromServer(c)
<1>1. fromServer \in Seq(RawReply) /\ Len(fromServer) \in Nat
  BY LenProperties DEF TypeOK
<1>2. CASE UNCHANGED fromServer
  BY <1>2 DEF StreamInv, AnswerAt, InFromServer
<1>3. CASE Skips
  <2>1. Len(fromServer') = Len(fromServer) - 1
        /\ \A i \in 1..Len(fromServer') : fromServer'[i] = fromServer[i + 1]
    BY <1>3, ReceivesType DEF Skips
  <2>2. \A i \in 1..Len(fromServer'), c \in Calls :
           i + 1 \in 1..Len(fromServer) /\ (AnswerAt(i, c)' <=> AnswerAt(i + 1, c))
    <3>1. \A i \in 1..Len(fromServer') : i + 1 \in 1..Len(fromServer)
      BY <1>1, <2>1
    <3>2. QED
      BY <2>1, <3>1 DEF AnswerAt
  <2>3. \A c \in Calls : InFromServer(c)' => InFromServer(c)
    BY <2>2 DEF InFromServer
  <2>4. ASSUME NEW i \in 1..Len(fromServer'), NEW j \in 1..Len(fromServer'), NEW c \in Calls,
               AnswerAt(i, c)', AnswerAt(j, c)'
        PROVE  i = j
    <3>1. i + 1 = j + 1
      BY <2>2, <2>4 DEF StreamInv
    <3>2. QED
      BY <3>1
  <2>5. \A i \in 1..Len(fromServer') :
           /\ IsSyncReply(fromServer'[i]) => fromServer'[i].command \in Calls
           /\ fromServer'[i].task \in {NoCall, fromServer'[i].command}
    <3>1. \A i \in 1..Len(fromServer') :
             i + 1 \in 1..Len(fromServer) /\ fromServer'[i] = fromServer[i + 1]
      BY <1>1, <2>1
    <3>2. QED
      BY <3>1 DEF StreamInv
  <2>6. QED
    BY <2>3, <2>4, <2>5 DEF StreamInv
<1>4. CASE Spoils
  <2>1. /\ Len(fromServer') = Len(fromServer)
        /\ \A i \in 1..Len(fromServer) : fromServer'[i] = IF i = 1 THEN Garbled ELSE fromServer[i]
    BY <1>1, <1>4, EmptySeq, ExceptSeq, ReplyTypes DEF Spoils
  <2>2. ~IsSyncReply(Garbled) /\ Garbled.task = NoCall
    BY DEF IsSyncReply, Garbled, Reply
  <2>3. \A i \in 1..Len(fromServer), c \in Calls : AnswerAt(i, c)' => AnswerAt(i, c)
    BY <2>1, <2>2 DEF AnswerAt
  <2>4. QED
    BY <2>1, <2>2, <2>3 DEF StreamInv, InFromServer
<1>5. CASE Sends
  <2>1. PICK k \in ReplyKind \ {"OK", "ERROR"}, t \in Calls \cup {NoCall} :
           fromServer' = Append(fromServer, Reply(k, t, t))
    BY <1>5 DEF Sends
  <2>2. /\ Len(fromServer') = Len(fromServer) + 1
        /\ \A i \in 1..Len(fromServer) : fromServer'[i] = fromServer[i]
        /\ fromServer'[Len(fromServer) + 1] = Reply(k, t, t)
    BY <1>1, <2>1, AppendProperties, ReplyTypes
  <2>3. ~IsSyncReply(Reply(k, t, t)) /\ Reply(k, t, t).task = Reply(k, t, t).command
    BY DEF IsSyncReply, Reply
  <2>4. \A i \in 1..Len(fromServer'), c \in Calls :
           AnswerAt(i, c)' => i \in 1..Len(fromServer) /\ AnswerAt(i, c)
    BY <1>1, <2>2, <2>3 DEF AnswerAt
  <2>5. \A i \in 1..Len(fromServer') : i \in 1..Len(fromServer) \/ i = Len(fromServer) + 1
    BY <1>1, <2>2
  <2>6. QED
    BY <2>2, <2>3, <2>4, <2>5 DEF StreamInv, InFromServer
<1>6. CASE \E n \in 0..Len(fromServer) : fromServer' = SubSeq(fromServer, 1, n)
  <2>1. PICK n \in 0..Len(fromServer) : fromServer' = SubSeq(fromServer, 1, n)
    BY <1>6
  <2>2. n \in Nat /\ \A i \in 1..n : i \in 1..Len(fromServer) /\ fromServer[i] \in RawReply
    BY <1>1, LenProperties
  <2>3. Len(fromServer') = n /\ \A i \in 1..n : fromServer'[i] = fromServer[i]
    <3>1. \A i \in 1..n - 1 + 1 : SubSeq(fromServer, 1, n)[i] = fromServer[1 + i - 1]
      BY <2>2, SubSeqProperties
    <3>2. Len(SubSeq(fromServer, 1, n)) = IF 1 <= n THEN n - 1 + 1 ELSE 0
      BY <2>2, SubSeqProperties
    <3>3. QED
      BY <2>1, <2>2, <3>1, <3>2
  <2>4. QED
    BY <2>2, <2>3 DEF StreamInv, AnswerAt, InFromServer
<1>7. QED
  BY <1>2, <1>3, <1>4, <1>5, <1>6

\* The server takes one command off its queue and answers it.
LEMMA ServeKeepsWire ==
    ASSUME TypeOK, WireInv, Serve, UNCHANGED clientVars
    PROVE  /\ WireInv'
           /\ \A d \in Calls : InToServer(d)' \/ InFromServer(d)' => InToServer(d) \/ InFromServer(d)
<1> DEFINE c == Head(toServer)
           n == Len(fromServer) + 1
<1>1. /\ toServer # << >> /\ c \in Calls /\ c = toServer[1] /\ Len(toServer) \in Nat \ {0}
      /\ Len(toServer') = Len(toServer) - 1
      /\ \A i \in 1..Len(toServer') : toServer'[i] = toServer[i + 1]
  BY HeadTailProperties, EmptySeq DEF Serve, TypeOK
<1>2. PICK k \in {"OK", "ERROR"}, t \in {NoCall, c} :
         fromServer' = Append(fromServer, Reply(k, t, c))
  BY DEF Serve
<1>3. /\ Len(fromServer) \in Nat /\ Len(fromServer') = n
      /\ \A i \in 1..Len(fromServer) : fromServer'[i] = fromServer[i]
      /\ fromServer'[n] = Reply(k, t, c)
  <2>1. Reply(k, t, c) \in RawReply
    BY <1>1, ReplyTypes DEF ReplyKind
  <2>2. QED
    BY <1>2, <2>1, AppendProperties, LenProperties DEF TypeOK
<1> HIDE DEF c, n
<1>4. /\ IsSyncReply(Reply(k, t, c)) /\ Reply(k, t, c).command = c
      /\ Reply(k, t, c).task \in {NoCall, c}
  BY DEF IsSyncReply, Reply
<1>5. 1 \in 1..Len(toServer) /\ InToServer(c)
  BY <1>1 DEF InToServer
<1>6. Asked(c) /\ ~InFromServer(c) /\ \A d \in Calls : ~HasAnswer(d, c)
  BY <1>1, <1>5 DEF WireInv
<1>7. \A i \in 1..Len(toServer') : i + 1 \in 1..Len(toServer) /\ i + 1 # 1
  BY <1>1
<1>8. \A i, j \in 1..Len(toServer') : toServer'[i] = toServer'[j] => i = j
  <2>1. ASSUME NEW i \in 1..Len(toServer'), NEW j \in 1..Len(toServer'),
               toServer'[i] = toServer'[j]
        PROVE  i = j
    <3>1. i + 1 = j + 1
      BY <1>1, <1>7, <2>1 DEF WireInv
    <3>2. QED
      BY <3>1
  <2>2. QED
    BY <2>1
<1>9. \A d \in Calls : InToServer(d)' => InToServer(d) /\ d # c
  BY <1>1, <1>5, <1>7 DEF InToServer, WireInv
<1>10. n \in Nat /\ \A i \in 1..Len(fromServer') : i \in 1..Len(fromServer) \/ i = n
  BY <1>3 DEF n
<1>11. \A i \in 1..Len(fromServer'), d \in Calls :
          AnswerAt(i, d)' => \/ i \in 1..Len(fromServer) /\ AnswerAt(i, d)
                             \/ i = n /\ d = c
  BY <1>3, <1>4, <1>10 DEF AnswerAt
<1>12. StreamInv'
  <2>1. \A i, j \in 1..Len(fromServer'), d \in Calls : AnswerAt(i, d)' /\ AnswerAt(j, d)' => i = j
    BY <1>6, <1>11 DEF WireInv, StreamInv, InFromServer
  <2>2. ASSUME NEW i \in 1..Len(fromServer')
        PROVE  /\ IsSyncReply(fromServer'[i]) => fromServer'[i].command \in Calls
               /\ fromServer'[i].task \in {NoCall, fromServer'[i].command}
    <3>1. CASE i = n
      BY <1>1, <1>3, <1>4, <3>1
    <3>2. CASE i \in 1..Len(fromServer)
      BY <1>3, <3>2 DEF WireInv, StreamInv
    <3>3. QED
      BY <1>10, <3>1, <3>2
  <2>3. QED
    BY <2>1, <2>2 DEF StreamInv
<1>13. \A d \in Calls : InFromServer(d)' => InFromServer(d) \/ d = c
  BY <1>11 DEF InFromServer
<1>14. /\ \A d \in Calls : Asked(d)' <=> Asked(d)
       /\ \A d, e \in Calls : HasAnswer(d, e)' <=> HasAnswer(d, e)
       /\ syncFut' = syncFut
  BY DEF Asked, HasAnswer, clientVars
<1>15. WireInv'
  BY <1>6, <1>8, <1>9, <1>12, <1>13, <1>14 DEF WireInv
<1>16. QED
  BY <1>5, <1>9, <1>13, <1>15

\* The reader takes the answer to a command off the stream, where it was alone.
LEMMA TakesAnswer ==
    ASSUME TypeOK, WireInv, Skips, IsSyncReply(Message)
    PROVE  \E m \in Calls : /\ m = Message.command /\ Message.task \in {NoCall, m}
                            /\ InFromServer(m) /\ ~InFromServer(m)'
<1>1. /\ Message = fromServer[1] /\ 1 \in 1..Len(fromServer)
      /\ Len(fromServer') = Len(fromServer) - 1 /\ Len(fromServer) \in Nat
      /\ \A i \in 1..Len(fromServer') : fromServer'[i] = fromServer[i + 1]
  BY ReceivesType DEF Skips
<1>2. PICK m \in Calls : m = Message.command /\ Message.task \in {NoCall, m}
  BY <1>1 DEF WireInv, StreamInv
<1>3. AnswerAt(1, m)
  BY <1>1, <1>2 DEF AnswerAt
<1>4. ASSUME NEW i \in 1..Len(fromServer'), AnswerAt(i, m)' PROVE FALSE
  <2>1. AnswerAt(i + 1, m)
    BY <1>1, <1>4 DEF AnswerAt
  <2>2. i + 1 \in 1..Len(fromServer) /\ i + 1 # 1
    BY <1>1
  <2>3. QED
    BY <1>1, <1>3, <2>1, <2>2 DEF WireInv, StreamInv
<1>5. InFromServer(m) /\ ~InFromServer(m)'
  BY <1>1, <1>3, <1>4 DEF InFromServer
<1>6. QED
  BY <1>2, <1>5

\* Nothing new is on the wire, and no future gets a reply.
LEMMA WireShrinks ==
    ASSUME WireInv,
           StreamInv', \A c \in Calls : InFromServer(c)' => InFromServer(c),
           \A i, j \in 1..Len(toServer') : toServer'[i] = toServer'[j] => i = j,
           \A c \in Calls : InToServer(c)' => InToServer(c),
           \A c \in Calls : Asked(c) => Asked(c)',
           \A c \in Calls : syncFut'[c].state = "result" => syncFut'[c] = syncFut[c]
    PROVE  WireInv'
<1>1. \A c, d \in Calls : HasAnswer(c, d)' => HasAnswer(c, d)
  BY DEF HasAnswer
<1>2. QED
  BY <1>1 DEF WireInv

LEMMA WireStep ==
    ASSUME TypeOK, LockInv, SyncInv, WireInv, [Next]_vars
    PROVE  WireInv'
<1> USE DEF clientVars
<1>1. StreamInv
  BY DEF WireInv
<1>2. ASSUME UNCHANGED <<toServer, syncFut>>, \A c \in Calls : Asked(c) => Asked(c)',
             UNCHANGED fromServer \/ Skips \/ Spoils \/ Sends
      PROVE  WireInv'
  <2>1. \A c \in Calls : InToServer(c)' => InToServer(c)
    BY <1>2 DEF InToServer
  <2>2. \A i, j \in 1..Len(toServer') : toServer'[i] = toServer'[j] => i = j
    BY <1>2 DEF WireInv
  <2>3. \A c \in Calls : syncFut'[c].state = "result" => syncFut'[c] = syncFut[c]
    BY <1>2
  <2>4. QED
    BY <1>1, <1>2, <2>1, <2>2, <2>3, StreamShrinks, WireShrinks
<1>3. ASSUME NEW c \in Calls, Arms(c) PROVE WireInv'
  <2>1. /\ ~Asked(c) /\ ~InToServer(c) /\ ~InFromServer(c)
        /\ \A d \in Calls : ~HasAnswer(d, c)
    BY <1>3 DEF Arms, Asked, WireInv
  <2>2. /\ UNCHANGED fromServer
        /\ syncFut' = [syncFut EXCEPT ![c] = NewFuture]
        /\ \A d \in Calls : (Asked(d) => Asked(d)') /\ Asked(c)'
        /\ toServer' = Append(toServer, c) \/ UNCHANGED toServer
    BY <1>3 DEF Arms, Transmit, Asked, TypeOK
  <2>3. StreamInv' /\ \A d \in Calls : InFromServer(d)' => InFromServer(d)
    BY <1>1, <2>2, StreamShrinks
  <2>4. \A d, e \in Calls : HasAnswer(d, e)' => HasAnswer(d, e)
    BY <2>2 DEF TypeOK, HasAnswer, NewFuture
  <2>5. \A d \in Calls : syncFut'[d].state = "result" => syncFut'[d] = syncFut[d]
    BY <2>2 DEF TypeOK, NewFuture
  <2>6. /\ \A i, j \in 1..Len(toServer') : toServer'[i] = toServer'[j] => i = j
        /\ \A d \in Calls : InToServer(d)' => InToServer(d) \/ d = c
    <3>1. CASE UNCHANGED toServer
      BY <3>1 DEF WireInv, InToServer
    <3>2. CASE toServer' = Append(toServer, c)
      <4>1. /\ Len(toServer) \in Nat /\ Len(toServer') = Len(toServer) + 1
            /\ \A i \in 1..Len(toServer) : toServer'[i] = toServer[i]
            /\ toServer'[Len(toServer) + 1] = c
        BY <3>2, AppendProperties, LenProperties DEF TypeOK
      <4>2. \A i \in 1..Len(toServer') : i \in 1..Len(toServer) \/ i = Len(toServer) + 1
        BY <4>1
      <4>3. \A i \in 1..Len(toServer) : toServer[i] # c
        BY <2>1 DEF InToServer
      <4>4. QED
        BY <4>1, <4>2, <4>3 DEF WireInv, InToServer
    <3>3. QED
      BY <2>2, <3>1, <3>2
  <2>7. QED
    BY <2>1, <2>2, <2>3, <2>4, <2>5, <2>6 DEF WireInv
<1>4. ASSUME NEW c \in Calls, NEW to \in {"lock", "sync", "reglock"} \cup Ended,
             MayMove(c, to), Moves(c, to)
      PROVE  WireInv'
  <2>1. \A d \in Calls : Asked(d) => Asked(d)'
    BY <1>4 DEF TypeOK, Asked, MayMove, Moves, Ended
  <2>2. QED
    BY <1>2, <1>4, <2>1 DEF Moves
<1>5. ASSUME NEW c \in Calls, Enrols(c) PROVE WireInv'
  <2>1. \A d \in Calls : Asked(d) => Asked(d)'
    BY <1>5 DEF TypeOK, Asked, Enrols, Register
  <2>2. QED
    BY <1>2, <1>5, <2>1 DEF Enrols
<1>6. ASSUME \A c \in Calls : Asked(c) => Asked(c)', UNCHANGED toServer,
             \A c \in Calls : syncFut'[c].state = "result" => syncFut'[c] = syncFut[c],
             UNCHANGED fromServer \/ Skips \/ Spoils
      PROVE  WireInv'
  <2>1. /\ \A c \in Calls : InToServer(c)' => InToServer(c)
        /\ \A i, j \in 1..Len(toServer') : toServer'[i] = toServer'[j] => i = j
    BY <1>6 DEF InToServer, WireInv
  <2>2. QED
    BY <1>1, <1>6, <2>1, StreamShrinks, WireShrinks
<1>7. ASSUME NEW c \in Calls, Aborts(c) PROVE WireInv'
  <2>1. \A d \in Calls : Asked(d) => Asked(d)'
    BY <1>7 DEF TypeOK, Asked, Aborts, CancelCall
  <2>2. \A d \in Calls : syncFut'[d].state = "result" => syncFut'[d] = syncFut[d]
    BY <1>7 DEF TypeOK, Aborts, CancelCall, Without
  <2>3. QED
    BY <1>6, <1>7, <2>1, <2>2 DEF Aborts
<1>8. CASE SettlesAll
  <2>1. \A d \in Calls : Asked(d) => Asked(d)'
    BY <1>8 DEF Asked, SettlesAll
  <2>2. \A d \in Calls : syncFut'[d].state = "result" => syncFut'[d] = syncFut[d]
    BY <1>8 DEF TypeOK, SettlesAll, SettleAll, Without
  <2>3. QED
    BY <1>6, <1>8, <2>1, <2>2 DEF SettlesAll
<1>9. CASE DispatchSync
  <2>1. /\ Skips /\ IsSyncReply(Message) /\ UNCHANGED <<pc, toServer>>
    BY <1>9 DEF DispatchSync, Receives, Skips
  <2>2. CASE UNCHANGED syncFut
    BY <1>2, <2>1, <2>2 DEF Asked
  <2>3. CASE /\ syncReply # NoCall
             /\ syncFut' = [syncFut EXCEPT ![syncReply] = WithResult(Message)]
    <3>1. PICK m \in Calls :
             /\ m = Message.command /\ Message.task \in {NoCall, m}
             /\ InFromServer(m) /\ ~InFromServer(m)'
      BY <2>1, TakesAnswer
    <3>2. PICK s \in Calls : s = syncReply
      BY <2>3 DEF TypeOK
    <3>3. Asked(m) /\ ~InToServer(m) /\ \A c \in Calls : ~HasAnswer(c, m)
      BY <3>1 DEF WireInv
    <3>4. /\ syncFut'[s].state = "result" /\ syncFut'[s].reply = Message
          /\ \A c \in Calls : c # s => syncFut'[c] = syncFut[c]
      BY <2>3, <3>2 DEF TypeOK, WithResult
    <3>5. ASSUME NEW c \in Calls, NEW d \in Calls, HasAnswer(c, d)'
          PROVE  IF c = s THEN d = m ELSE HasAnswer(c, d) /\ d # m
      BY <3>1, <3>3, <3>4, <3>5 DEF HasAnswer
    <3>6. StreamInv' /\ \A c \in Calls : InFromServer(c)' => InFromServer(c)
      BY <1>1, <2>1, StreamShrinks
    <3>7. (\A c \in Calls : Asked(c)' <=> Asked(c)) /\ (\A c \in Calls : InToServer(c)' <=> InToServer(c))
      BY <2>1 DEF Asked, InToServer
    <3>8. ASSUME NEW c \in Calls, NEW d \in Calls, HasAnswer(c, d)'
          PROVE  /\ Asked(d)' /\ ~InToServer(d)' /\ ~InFromServer(d)'
                 /\ \A e \in Calls : HasAnswer(e, d)' => e = c
      <4>1. CASE c = s
        BY <3>1, <3>3, <3>5, <3>7, <3>8, <4>1
      <4>2. CASE c # s
        <5>1. HasAnswer(c, d) /\ d # m
          BY <3>5, <3>8, <4>2
        <5>2. Asked(d) /\ ~InToServer(d) /\ ~InFromServer(d)
              /\ \A e \in Calls : HasAnswer(e, d) => e = c
          BY <5>1 DEF WireInv
        <5>3. QED
          BY <3>5, <3>6, <3>7, <5>1, <5>2
      <4>3. QED
        BY <4>1, <4>2
    <3>9. \A c \in Calls : syncFut'[c].state = "result" =>
             /\ syncFut'[c].reply.command \in Calls
             /\ syncFut'[c].reply.task \in {NoCall, syncFut'[c].reply.command}
      BY <3>1, <3>4 DEF WireInv
    <3>10. QED
      BY <2>1, <3>6, <3>7, <3>8, <3>9 DEF WireInv
  <2>4. QED
    BY <1>9, <2>2, <2>3 DEF DispatchSync
<1>10. CASE DispatchTerminal
  BY <1>2, <1>10 DEF DispatchTerminal, Receives, Skips, Asked
<1>11. CASE StreamOnly
  BY <1>2, <1>11 DEF StreamOnly, Asked
<1>12. CASE UNCHANGED clientVars /\ Close
  <2>1. toServer' = << >> /\ Len(toServer') = 0
    BY <1>12, EmptySeq DEF Close
  <2>2. \A c \in Calls : ~InToServer(c)'
    BY <2>1 DEF InToServer
  <2>3. \A i, j \in 1..Len(toServer') : toServer'[i] = toServer'[j] => i = j
    BY <2>1
  <2>4. \A c \in Calls : Asked(c) => Asked(c)'
    BY <1>12 DEF Asked
  <2>5. StreamInv' /\ \A c \in Calls : InFromServer(c)' => InFromServer(c)
    BY <1>1, <1>12, StreamShrinks DEF Close
  <2>6. QED
    BY <1>12, <2>2, <2>3, <2>4, <2>5, WireShrinks
<1>13. CASE UNCHANGED clientVars /\ Serve
  BY <1>13, ServeKeepsWire
<1>14. QED
  BY <1>3, <1>4, <1>5, <1>7, <1>8, <1>9, <1>10, <1>11, <1>12, <1>13, StepKinds

\* Nothing arms or settles the immediate futures, and no command is new.
LEMMA OwnShrinks ==
    ASSUME OwnInv, UNCHANGED <<syncReply, syncFut>>,
           \A c \in Calls : InToServer(c)' \/ InFromServer(c)' => InToServer(c) \/ InFromServer(c)
    PROVE  OwnInv'
<1>1. \A c, d \in Calls : HasAnswer(c, d)' <=> HasAnswer(c, d)
  BY DEF HasAnswer
<1>2. Unanswerable' = Unanswerable
  BY DEF Unanswerable
<1>3. QED
  BY <1>1, <1>2 DEF OwnInv

LEMMA OwnStep ==
    ASSUME TypeOK, LockInv, SyncInv, WireInv, OwnInv, [Next]_vars
    PROVE  OwnInv'
<1> USE DEF clientVars
<1>1. ASSUME UNCHANGED <<syncReply, syncFut, toServer>>,
             UNCHANGED fromServer \/ Skips \/ Spoils \/ Sends
      PROVE  OwnInv'
  <2>1. \A c \in Calls : InFromServer(c)' => InFromServer(c)
    BY <1>1, StreamShrinks DEF WireInv
  <2>2. \A c \in Calls : InToServer(c)' => InToServer(c)
    BY <1>1 DEF InToServer
  <2>3. QED
    BY <1>1, <2>1, <2>2, OwnShrinks
<1>2. ASSUME NEW c \in Calls, syncFut'[c].state \in {"cancelled", "exception"} PROVE OwnInv'
  BY <1>2 DEF OwnInv, Unanswerable
<1>3. ASSUME NEW c \in Calls, Arms(c) PROVE OwnInv'
  <2>1. SUFFICES ASSUME Unanswerable' = {}
                 PROVE  /\ \A d \in Calls : InToServer(d)' \/ InFromServer(d)' =>
                              syncReply' = d /\ syncFut'[d].state = "pending"
                        /\ \A d, e \in Calls : HasAnswer(d, e)' => d = e
    BY DEF OwnInv
  <2>2. /\ syncFut[c].state = "none" /\ syncReply' = c
        /\ syncFut' = [syncFut EXCEPT ![c] = NewFuture]
        /\ toServer' = Append(toServer, c) \/ UNCHANGED toServer
        /\ UNCHANGED fromServer
    BY <1>3 DEF Arms, Transmit, SyncInv
  <2>3. \A d \in Calls : d # c => syncFut'[d] = syncFut[d]
    BY <2>2 DEF TypeOK
  <2>4. \A d \in Calls : syncFut[d].state \notin {"pending", "cancelled", "exception"}
    BY <2>1, <2>2, <2>3 DEF Unanswerable
  <2>5. Unanswerable = {} /\ \A d \in Calls : ~InToServer(d) /\ ~InFromServer(d)
    BY <2>4 DEF Unanswerable, OwnInv
  <2>6. \A d \in Calls : ~InFromServer(d)'
    BY <2>2, <2>5 DEF InFromServer, AnswerAt
  <2>7. \A d \in Calls : InToServer(d)' => d = c
    <3>1. CASE UNCHANGED toServer
      BY <2>5, <3>1 DEF InToServer
    <3>2. CASE toServer' = Append(toServer, c)
      <4>1. /\ Len(toServer) \in Nat /\ Len(toServer') = Len(toServer) + 1
            /\ \A i \in 1..Len(toServer) : toServer'[i] = toServer[i]
            /\ toServer'[Len(toServer) + 1] = c
        BY <3>2, AppendProperties, LenProperties DEF TypeOK
      <4>2. \A i \in 1..Len(toServer') : i \in 1..Len(toServer) \/ i = Len(toServer) + 1
        BY <4>1
      <4>3. QED
        BY <2>5, <4>1, <4>2 DEF InToServer
    <3>3. QED
      BY <2>2, <3>1, <3>2
  <2>8. \A d, e \in Calls : HasAnswer(d, e)' => HasAnswer(d, e)
    BY <2>2 DEF TypeOK, HasAnswer, NewFuture
  <2>9. syncFut'[c].state = "pending"
    BY <2>2 DEF TypeOK, NewFuture
  <2>10. QED
    BY <2>2, <2>5, <2>6, <2>7, <2>8, <2>9 DEF OwnInv
<1>4. ASSUME NEW c \in Calls, Aborts(c) PROVE OwnInv'
  <2>1. CASE UNCHANGED syncFut
    BY <1>1, <1>4, <2>1 DEF Aborts, CancelCall
  <2>2. CASE syncFut' = [syncFut EXCEPT ![c] = Without("cancelled")]
    <3>1. syncFut'[c].state = "cancelled"
      BY <2>2 DEF TypeOK, Without
    <3>2. QED
      BY <1>2, <3>1
  <2>3. QED
    BY <1>4, <2>1, <2>2 DEF Aborts, CancelCall
<1>5. ASSUME NEW outcome \in {"exception", "cancelled"}, SettleAll(outcome),
             UNCHANGED toServer, UNCHANGED fromServer \/ Skips
      PROVE  OwnInv'
  <2>1. CASE UNCHANGED <<syncFut, syncReply>>
    BY <1>1, <1>5, <2>1
  <2>2. CASE /\ syncReply # NoCall
             /\ syncFut' = [syncFut EXCEPT ![syncReply] = Without(outcome)]
    <3>1. syncReply \in Calls /\ syncFut'[syncReply].state = outcome
      BY <2>2 DEF TypeOK, Without
    <3>2. QED
      BY <1>2, <3>1
  <2>3. QED
    BY <1>5, <2>1, <2>2 DEF SettleAll
<1>6. CASE DispatchSync
  <2>1. /\ Skips /\ IsSyncReply(Message) /\ UNCHANGED toServer
    BY <1>6 DEF DispatchSync, Receives, Skips
  <2>2. CASE UNCHANGED <<syncFut, syncReply>>
    BY <1>1, <2>1, <2>2
  <2>3. CASE /\ syncReply # NoCall /\ ~Done(syncFut[syncReply]) /\ syncReply' = NoCall
             /\ syncFut' = [syncFut EXCEPT ![syncReply] = WithResult(Message)]
    <3>1. SUFFICES ASSUME Unanswerable' = {}
                   PROVE  /\ \A d \in Calls : ~InToServer(d)' /\ ~InFromServer(d)'
                          /\ \A c, d \in Calls : HasAnswer(c, d)' => c = d
      BY DEF OwnInv
    <3>2. PICK m \in Calls :
             /\ m = Message.command
             /\ InFromServer(m) /\ ~InFromServer(m)'
      BY <2>1, TakesAnswer
    <3>3. PICK s \in Calls : s = syncReply
      BY <2>3 DEF TypeOK
    <3>4. /\ syncFut'[s] = WithResult(Message)
          /\ \A c \in Calls : c # s => syncFut'[c] = syncFut[c]
      BY <2>3, <3>3 DEF TypeOK
    <3>5. Unanswerable = {}
      BY <2>3, <3>1, <3>3, <3>4, CallsAssumption DEF Unanswerable, Done
    <3>6. m = s /\ ~InToServer(m)
      BY <3>2, <3>3, <3>5 DEF OwnInv, WireInv
    <3>7. \A d \in Calls : InToServer(d)' <=> InToServer(d)
      BY <2>1 DEF InToServer
    <3>8. \A d \in Calls : InFromServer(d)' => InFromServer(d)
      BY <2>1, StreamShrinks DEF WireInv
    <3>9. \A c, d \in Calls : HasAnswer(c, d)' => c = d
      <4>1. \A c, d \in Calls : c # s /\ HasAnswer(c, d)' => HasAnswer(c, d)
        BY <3>4 DEF HasAnswer
      <4>2. \A d \in Calls : HasAnswer(s, d)' => d = m
        BY <3>2, <3>4 DEF HasAnswer, WithResult
      <4>3. QED
        BY <3>5, <3>6, <4>1, <4>2 DEF OwnInv
    <3>10. QED
      BY <3>2, <3>3, <3>5, <3>6, <3>7, <3>8, <3>9 DEF OwnInv
  <2>4. QED
    BY <1>6, <2>2, <2>3 DEF DispatchSync
<1>7. CASE UNCHANGED clientVars /\ Close
  <2>1. \A c \in Calls : ~InToServer(c)'
    BY <1>7, EmptySeq DEF Close, InToServer
  <2>2. \A c \in Calls : InFromServer(c)' => InFromServer(c)
    BY <1>7, StreamShrinks DEF Close, WireInv
  <2>3. QED
    BY <1>7, <2>1, <2>2, OwnShrinks
<1>8. CASE UNCHANGED clientVars /\ Serve
  BY <1>8, ServeKeepsWire, OwnShrinks
<1>9. CASE \/ \E c \in Calls : Enrols(c)
           \/ \E c \in Calls, to \in {"lock", "sync", "reglock"} \cup Ended :
                 MayMove(c, to) /\ Moves(c, to)
  BY <1>1, <1>9 DEF Enrols, Moves
<1>10. CASE DispatchTerminal
  BY <1>1, <1>10 DEF DispatchTerminal, Receives, Skips
<1>11. CASE SettlesAll
  BY <1>5, <1>11 DEF SettlesAll
<1>12. CASE StreamOnly
  BY <1>1, <1>12 DEF StreamOnly
<1>13. QED
  BY <1>3, <1>4, <1>6, <1>7, <1>8, <1>9, <1>10, <1>11, <1>12, StepKinds

LEMMA NoteStep ==
    ASSUME TypeOK, LockInv, SyncInv, WireInv, TermInv, NoteInv, [Next]_vars
    PROVE  NoteInv'
<1> USE DEF clientVars, readerVars, serverVars
<1>1. ASSUME UNCHANGED <<reader, noting, nested, pending>> PROVE NoteInv'
  BY <1>1 DEF NoteInv
<1>2. ASSUME NEW c \in Calls, Call(c) \/ CallFromNote(c) PROVE NoteInv'
  <2>1. UNCHANGED <<reader, noting, pending>>
    BY <1>2 DEF Call, CallFromNote, Enter, Transmit, Queue
  <2>2. UNCHANGED nested \/ noting # NoCall
    BY <1>2 DEF Call, CallFromNote
  <2>3. QED
    BY <2>1, <2>2 DEF NoteInv
<1>3. ASSUME NEW c \in Calls, Granted(c) \/ Drained(c) \/ Concludes(c) \/ Completed(c) PROVE NoteInv'
  BY <1>1, <1>3 DEF Granted, Transmit, Drained, Concludes, Completed
<1>4. ASSUME NEW c \in Calls, Enrols(c), UNCHANGED <<reader, noting, nested>> PROVE NoteInv'
  <2>1. PICK t \in Calls : pending' = [pending EXCEPT ![t] = c] /\ pending[t] = NoCall
    BY <1>4, EnrolsFresh
  <2>2. ASSUME NEW u \in Calls, pending[u] # NoCall PROVE pending'[u] = pending[u]
    BY <2>1, <2>2 DEF TypeOK
  <2>3. QED
    BY <1>4, <2>2 DEF NoteInv
<1>5. ASSUME NEW c \in Calls, Accepted(c) \/ Registers(c) PROVE NoteInv'
  <2>1. UNCHANGED <<reader, noting, nested>>
    BY <1>5 DEF Accepted, Registers
  <2>2. UNCHANGED pending \/ Enrols(c)
    BY <1>5 DEF Accepted, Registers, Enrols
  <2>3. QED
    BY <1>1, <1>4, <2>1, <2>2
<1>6. ASSUME NEW c \in Calls, Cancel(c) PROVE NoteInv'
  BY <1>1, <1>6 DEF Cancel, CancelCall
<1>7. ASSUME NEW c \in Timed, TimesOut(c) PROVE NoteInv'
  BY <1>1, <1>7 DEF TimesOut
<1>8. CASE Start
  BY <1>8 DEF Start, NoteInv
<1>9. CASE DispatchNote
  <2>1. /\ reader = "running" /\ UNCHANGED <<reader, nested, pending>>
        /\ noting = NoCall /\ fromServer # << >>
        /\ noting' = NoCall \/ (Message.task # NoCall /\ noting' = pending[Message.task])
    BY <1>9 DEF DispatchNote, Receives
  <2>2. Message.task \in Calls \cup {NoCall}
    BY <2>1, ReceivesType
  <2>3. QED
    BY <2>1, <2>2 DEF NoteInv
<1>10. CASE DispatchSync \/ DispatchTerminal \/ ReaderCrashes
  <2>1. noting = NoCall /\ UNCHANGED <<noting, nested>>
    BY <1>10 DEF DispatchSync, DispatchTerminal, ReaderCrashes, Receives
  <2>2. QED
    BY <2>1 DEF NoteInv
<1>11. CASE NoteDone \/ ReaderCancelled
  BY <1>11 DEF NoteDone, ReaderCancelled, NoteInv
<1>12. CASE StopBegins
  <2>1. CASE reader' = "cancelling"
    BY <1>12, <2>1 DEF StopBegins, NoteInv
  <2>2. CASE reader \in {"none", "done"}
    BY <1>12, <2>2 DEF StopBegins, NoteInv
  <2>3. QED
    BY <1>12, <2>1, <2>2 DEF StopBegins
<1>13. CASE StopEnds
  BY <1>13 DEF StopEnds, NoteInv
<1>14. CASE Serve \/ Close \/ Garble \/ UNCHANGED vars
  BY <1>1, <1>14 DEF Serve, Close, Garble, vars
<1>15. ASSUME NEW c \in AsyncCalls, Notes(c) \/ Finishes(c) PROVE NoteInv'
  BY <1>1, <1>15 DEF Notes, Finishes
<1> HIDE DEF clientVars, readerVars, serverVars
<1>16. CASE \E c \in Calls : Call(c) \/ CallFromNote(c) \/ CallStep(c) \/ Cancel(c)
  BY <1>2, <1>3, <1>5, <1>6, <1>16 DEF CallStep
<1>17. QED
  BY <1>7, <1>8, <1>9, <1>10, <1>11, <1>12, <1>13, <1>14, <1>15, <1>16 DEF Next, ReaderStep

-----------------------------------------------------------------------------
(* The inductive invariant, and what follows from it *)

IInv == TypeOK /\ LockInv /\ SyncInv /\ WireInv /\ TermInv /\ NoteInv /\ OwnInv

\* The inductive invariant: queue, futures, registry, callback and the messages
\* under way agree in every reachable state of the dispatcher.
THEOREM Inductive == Spec => []IInv
<1>1. Init => IInv
  <2> SUFFICES ASSUME Init PROVE IInv
    OBVIOUS
  <2>1. Len(toServer) = 0 /\ Len(fromServer) = 0
    BY EmptySeq DEF Init
  <2>2. \A c \in Calls : /\ ~InToServer(c) /\ ~InFromServer(c)
                         /\ \A d \in Calls : ~HasAnswer(c, d)
    BY <2>1 DEF Init, InToServer, InFromServer, HasAnswer, NoFuture
  <2>3. SyncInv /\ NoteInv
    BY DEF Init, SyncInv, NoFuture, NoteInv
  <2>4. WireInv
    BY <2>1, <2>2 DEF Init, WireInv, StreamInv, NoFuture
  <2>5. TermInv
    BY DEF Init, TermInv, NoFuture, Ended
  <2>6. OwnInv
    BY <2>2 DEF OwnInv
  <2>7. TypeOK /\ LockInv
    <3>1. << >> \in Seq(Calls) /\ << >> \in Seq(RawReply)
      BY EmptySeq
    <3>2. TypeOK
      BY <3>1, BoundsAssumption, FutureTypes DEF Init, TypeOK
    <3>3. LockInv
      BY EmptySeq DEF Init, LockInv, InLock, Holds
    <3>4. QED
      BY <3>2, <3>3
  <2>8. QED
    BY <2>3, <2>4, <2>5, <2>6, <2>7 DEF IInv
<1>2. IInv /\ [Next]_vars => IInv'
  BY TypeStep, LockStep, SyncStep, WireStep, TermStep, NoteStep, OwnStep DEF IInv
<1>3. QED
  BY <1>1, <1>2, PTL DEF Spec

\* Mutual exclusion between the write and the reply of two commands, and no
\* caller left waiting for an immediate future that nothing would settle.
THEOREM SyncFutureReachable == Spec => []NoLostSyncFuture
<1>1. IInv => NoLostSyncFuture
  <2> SUFFICES ASSUME IInv, NEW c \in Calls, pc[c] \in {"drain", "sync"}
               PROVE  Holds(c) /\ (~Done(syncFut[c]) => syncReply = c)
    BY DEF NoLostSyncFuture
  <2>1. syncFut[c].state \in {"none", "pending", "result", "exception", "cancelled"}
    BY DEF IInv, TypeOK, Future
  <2>2. QED
    BY <2>1 DEF IInv, LockInv, SyncInv, Done
<1>2. QED
  BY <1>1, Inductive, PTL

\* No caller left waiting for a terminal future that is out of the registry.
THEOREM TerminalFutureReachable == Spec => []NoLostTerminalFuture
<1>1. IInv => NoLostTerminalFuture
  BY DEF IInv, TermInv, NoLostTerminalFuture
<1>2. QED
  BY <1>1, Inductive, PTL

\* The registry holds open futures only, under the id of their own task.
THEOREM RegistryIsOpen == Spec => []PendingIsOpen
<1>1. IInv => PendingIsOpen
  BY DEF IInv, TermInv, PendingIsOpen
<1>2. QED
  BY <1>1, Inductive, PTL

\* A terminal reply reaches nobody but the call that was told its task id.
THEOREM TaskReplyMatches == Spec => []TaskReply
<1>1. IInv => TaskReply
  BY DEF IInv, TermInv, TaskReply
<1>2. QED
  BY <1>1, Inductive, PTL

\* A callback runs only while its task is registered and open.
THEOREM NotesPrecedeEnd == Spec => []NoteBeforeEnd
<1>1. IInv => NoteBeforeEnd
  BY DEF IInv, NoteInv, NoteBeforeEnd
<1>2. QED
  BY <1>1, Inductive, PTL

LEMMA OwnReplyFollows == IInv => OwnReply
<1> SUFFICES ASSUME IInv, Abandoned = {}, NEW c \in Calls
             PROVE  /\ syncFut[c].state = "result" => syncFut[c].reply.command = c
                    /\ term[c].state = "result" => term[c].reply.command = c
  BY DEF OwnReply, RepliesMatch
<1>1. Unanswerable = {}
  <2>1. ASSUME NEW d \in Calls, syncFut[d].state = "pending", syncReply # d
        PROVE  pc[d] \in Ended
    BY <2>1 DEF IInv, SyncInv, TypeOK, HasTask, Suspended
  <2>2. QED
    BY <2>1 DEF Abandoned, Unanswerable
<1>2. syncFut[c].state = "result" => syncFut[c].reply.command = c
  BY <1>1 DEF IInv, OwnInv, WireInv, HasAnswer
<1>3. term[c].state = "result" => term[c].reply.command = c
  BY <1>2, CallsAssumption DEF IInv, TermInv, WireInv
<1>4. QED
  BY <1>2, <1>3

\* Matching replies by position is right as long as no call is abandoned before
\* its reply: cancellation and a lost connection are the only ways it goes wrong.
THEOREM RepliesReachTheirCalls == Spec => []OwnReply
  BY OwnReplyFollows, Inductive, PTL

\* No step changes a future that is settled.
LEMMA SettledStays ==
    ASSUME IInv, [Next]_vars, NEW c \in Calls
    PROVE  /\ Done(syncFut[c]) => syncFut'[c] = syncFut[c]
           /\ Done(term[c]) => term'[c] = term[c]
<1> DEFINE Once == /\ Done(syncFut[c]) => syncFut'[c] = syncFut[c]
                   /\ Done(term[c]) => term'[c] = term[c]
<1> USE DEF IInv
<1>1. ASSUME NEW d \in Calls, Arms(d) PROVE Once
  <2>1. ~Done(syncFut[d])
    BY <1>1 DEF Arms, SyncInv, Done
  <2>2. QED
    BY <1>1, <2>1 DEF TypeOK, Arms, Transmit
<1>2. ASSUME NEW d \in Calls, Enrols(d) PROVE Once
  <2>1. ~Done(term[d])
    BY <1>2, EnrolsFresh DEF Done
  <2>2. QED
    BY <1>2, <2>1 DEF TypeOK, Enrols, Register
<1>3. ASSUME NEW d \in Calls, Aborts(d) PROVE Once
  BY <1>3 DEF TypeOK, Aborts, CancelCall
<1>4. ASSUME NEW d \in Calls, NEW to, Moves(d, to) PROVE Once
  BY <1>4 DEF Moves
<1>5. CASE DispatchSync
  BY <1>5 DEF TypeOK, DispatchSync
<1>6. CASE DispatchTerminal
  BY <1>6, ReceivesType DEF TypeOK, DispatchTerminal, Receives
<1>7. CASE SettlesAll
  BY <1>7 DEF TypeOK, SettlesAll, SettleAll
<1>8. CASE StreamOnly \/ UNCHANGED clientVars
  BY <1>8 DEF StreamOnly, clientVars
<1>9. QED
  BY <1>1, <1>2, <1>3, <1>4, <1>5, <1>6, <1>7, <1>8, StepKinds

\* The outcome of a future is final: reader, _fail_all, _cancel_all and cancelled
\* callers never settle one that is settled.
THEOREM SettledForGood == Spec => FuturesSettleOnce
<1> DEFINE Once == \A c \in Calls : /\ Done(syncFut[c]) => syncFut'[c] = syncFut[c]
                                    /\ Done(term[c]) => term'[c] = term[c]
<1>1. IInv /\ [Next]_vars => Once
  BY SettledStays
<1>2. QED
  BY <1>1, Inductive, PTL DEF Spec, FuturesSettleOnce

=============================================================================
