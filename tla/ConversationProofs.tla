--------------------------- MODULE ConversationProofs ---------------------------
(***************************************************************************)
(* Proofs about Conversation: a client reads its stream as Transport does,    *)
(* and its safety properties hold for every server, program and bound.        *)
(***************************************************************************)
EXTENDS Conversation, TransportProofs

-----------------------------------------------------------------------------
(* The inductive invariant *)

\* What goes with each stage of the client.
Stages ==
    /\ client \in {"handshake", "refused", "failed", "connected"} => loop = "none"
    /\ client \in {"entered", "stopping", "stopped", "closed", "left"} => loop # "none"
    /\ client \in {"stopped", "closed", "left"} => loop # "running"
    /\ loop \in {"crashed", "cancelled"} => reading = "no"
    /\ client \in {"closed", "left"} => socket = "closed"
    /\ client = "left" => ~owned
    /\ client \in {"stopping", "stopped", "closed", "left"} => pc = "idle"
    /\ client \in {"handshake", "refused", "failed"} => made = 0 /\ pc = "idle"

\* Who awaits what.
Futures ==
    /\ sync = Pending => armed
    /\ term = Pending => pending # None
    /\ term # Nothing => sync.is = "reply"
    /\ pending # None =>
        /\ term = Pending /\ pending = TaskId(sync.text)
        /\ pc = "term" \/ client = "stopping"
    /\ pc = "sync" => term = Nothing
    /\ client \in {"stopped", "closed", "left"} => pending = None /\ sync # Pending

\* The password is answered by the first message of the server.
Accepted ==
    /\ client = "handshake" => intact /\ taken = 0
    /\ client \notin {"handshake", "refused", "failed"} => sent # << >> /\ Kind(sent[1]) = OK

\* Whoever still reads is in step with the messages, or at the end of the stream.
InStep == ~intact => link # "up" /\ (link = "ended" => at = arrived)
StaysInStep == client \in {"handshake", "connected"} \/ loop = "running" => InStep

HeardInv ==
    /\ term = Nothing => heard = {}
    /\ registered <= taken
    /\ NotesHeard

\* Before the first command the server sends its answer to the password and no more.
Owed ==
    /\ made = 0 => Len(sent) <= 1 /\ requests = << >> /\ jobs = {}
    /\ OneReplyOwed

\* What makes a task, or ends it, is a message of the server.
WholeInv ==
    /\ sync.is = "reply" /\ TaskId(sync.text) # None => IsSent(sync.text)
    /\ term.is = "reply" => IsSent(term.text) /\ TaskId(term.text) = TaskId(sync.text)

CInv ==
    /\ TIInv /\ ConversationTypeOK
    /\ Stages /\ Futures /\ Accepted /\ StaysInStep /\ HeardInv /\ WholeInv /\ Owed
    /\ ArgsArrive /\ DocumentedResultsDecode

-----------------------------------------------------------------------------
(* The steps of the transport *)

LEMMA ServerTexts ==
    ASSUME ConversationTypeOK
    PROVE  /\ requests # << >> =>
                /\ Head(requests) \in [call : 1..MaxCalls, method : Methods]
                /\ Tail(requests) \in Seq([call : 1..MaxCalls, method : Methods])
                /\ Answers(Head(requests).method, Head(requests).call) \subseteq Texts
           /\ \A j \in jobs : Notices(j.method, j.call) \cup Results(j.method, j.call) \subseteq Texts
<1>1. requests # << >> =>
        /\ Head(requests) \in [call : 1..MaxCalls, method : Methods]
        /\ Tail(requests) \in Seq([call : 1..MaxCalls, method : Methods])
    BY HeadTailProperties DEF ConversationTypeOK
<1>2. \A j \in jobs : j.method \in Methods /\ j.call \in 1..MaxCalls
    BY DEF ConversationTypeOK
<1> QED
    BY <1>1, <1>2, MessagesAssumption

LEMMA TransportStep ==
    ASSUME ConversationTypeOK, [Next]_vars
    PROVE  [TransportNext]_transportVars
<1>1. CASE Greets
    BY <1>1, MessagesAssumption DEF Greets, TransportNext
<1>2. CASE Serves
    BY <1>2, ServerTexts DEF Serves, TransportNext
<1>3. CASE Notes
    BY <1>3, ServerTexts DEF Notes, TransportNext
<1>4. CASE Finishes
    BY <1>4, ServerTexts DEF Finishes, TransportNext
<1>5. CASE Network
    BY <1>5 DEF Network, TransportNext
<1>6. CASE Reader \/ ShakesHands
    BY <1>6 DEF Reader, Awaits, Continues, Crashes, Dispatches, ShakesHands, TransportNext
<1>7. CASE Program \/ Enters \/ Leaves \/ UNCHANGED vars
    BY <1>7 DEF Program, Calls, Concludes, Registers, Ends, Enters, Leaves, vars
<1>8. CASE Exit
    BY <1>8 DEF Exit, LoopCancelled, Stops, ClosesSocket, StopsServer, TransportNext
<1> QED
    BY <1>1, <1>2, <1>3, <1>4, <1>5, <1>6, <1>7, <1>8 DEF Next, Server

\* A receive() that ends has consumed the next message, or something was lost.
LEMMA ReceivesFacts ==
    ASSUME TIInv, Receives
    PROVE  /\ reading' = "no" /\ UNCHANGED <<stream, arrived, link, sent, ends>>
           /\ at' \in at..arrived
           /\ outcome'.is \in {"raised", "reply"}
           /\ outcome'.is = "reply" => outcome'.text # << >> /\ outcome'.text[1] \in ReplyKind
           /\ intact' =>
                /\ intact /\ taken < Len(sent) /\ taken' = taken + 1
                /\ outcome' = Parsed(sent[taken + 1])
           /\ taken' \in {taken, taken + 1}
<1>1. stream \in Seq(Units) /\ Len(stream) \in Nat /\ arrived \in 0..Len(stream) /\ at \in 0..arrived
      /\ length \in Nat
    BY LenProperties DEF TIInv, TransportTypeOK
<1>2. Raised.is = "raised"
    BY DEF Raised, Outcome
<1>3. ASSUME NEW m \in Nat \ {0}, NEW n \in Int, n <= Len(stream)
      PROVE  LET o == Parsed(SubSeq(stream, m, n)) IN
             /\ o.is \in {"raised", "reply"}
             /\ o.is = "reply" => o.text # << >> /\ o.text[1] \in ReplyKind
    BY <1>3, PartOfStream, ParsedType DEF TIInv
<1>4. CASE ReadsLine
    <2>1. PICK p \in LineFeeds : at' = p /\ Takes(Parsed(LineTo(p)))
        BY <1>4 DEF ReadsLine
    <2>2. at + 1 \in Nat \ {0} /\ p - 1 \in Int /\ p - 1 <= Len(stream) /\ p \in at..arrived
        BY <1>1 DEF LineFeeds
    <2> QED
        BY <1>3, <1>4, <2>1, <2>2, LineIsMessage DEF Takes, wireVars, LineTo
<1>5. CASE ReadsBody
    <2>1. at' = at + length /\ Takes(Parsed(SubSeq(stream, at + 1, at + length)))
          /\ arrived - at >= length
        BY <1>5 DEF ReadsBody, BodyArrived
    <2>2. at + 1 \in Nat \ {0} /\ at + length \in Int /\ at + length <= Len(stream)
          /\ at + length \in at..arrived
        BY <1>1, <2>1
    <2> QED
        BY <1>3, <1>5, <2>1, <2>2, BodyIsMessage DEF Takes, wireVars
<1>6. CASE ReachesEnd
    <2>1. at + 1 \in Nat \ {0} /\ arrived \in Int /\ arrived <= Len(stream) /\ arrived \in at..arrived
        BY <1>1
    <2>2. at' = arrived /\ (Breaks(Raised) \/ Breaks(Parsed(SubSeq(stream, at + 1, arrived))))
        BY <1>6 DEF ReachesEnd
    <2> QED
        BY <1>2, <1>3, <2>1, <2>2 DEF Breaks, wireVars
<1>7. CASE RefusesBody \/ OverrunsLine \/ MeetsReset
    <2>1. Breaks(Raised) /\ at' \in at..arrived
        BY <1>1, <1>7 DEF RefusesBody, OverrunsLine, MeetsReset, LineFeeds
    <2> QED
        BY <1>2, <2>1 DEF Breaks, wireVars
<1> QED
    BY <1>4, <1>5, <1>6, <1>7 DEF Receives

-----------------------------------------------------------------------------
(* Types *)

LEMMA FutureKinds ==
    /\ Pending.is = "pending" /\ Nothing.is = "nothing" /\ Raised.is = "raised"
    /\ CancelledFuture.is = "cancelled"
    /\ Pending # Nothing /\ Pending # Raised /\ Pending # CancelledFuture
    /\ Nothing # Raised /\ Nothing # CancelledFuture
BY DEF Pending, Nothing, Raised, CancelledFuture, Outcome

LEMMA HearsType ==
    ASSUME NEW d
    PROVE  Hears(d) \subseteq {"TheoryProgress", "Message", "nodes_status"}
BY DEF Hears, UseTheoriesNote, BuildNote, NodesStatus

\* The futures that are awaited after an exception or a cancellation.
LEMMA SettleFacts ==
    ASSUME NEW f, f \in {Raised, CancelledFuture}, SettleAll(f), Futures
    PROVE  /\ sync' = (IF sync = Pending THEN f ELSE sync)
           /\ pending' = None /\ term' = (IF term = Pending THEN f ELSE term)
           /\ armed' = (armed /\ sync # Pending)
           /\ sync' # Pending /\ term' # Pending
           /\ f.is \in {"raised", "cancelled"}
<1>1. f # Pending /\ f.is \in {"raised", "cancelled"}
    BY FutureKinds
<1> QED
    BY <1>1 DEF SettleAll, Futures

LEMMA TypeStep ==
    ASSUME CInv, TransportTypeOK', [Next]_vars
    PROVE  ConversationTypeOK'
<1> USE DEF CInv
<1>1. MaxCalls \in Nat /\ MaxTraffic \in Nat /\ made \in 0..MaxCalls /\ notes \in 0..MaxTraffic
    BY CallsAssumption DEF ConversationTypeOK
<1>2. taken' \in Nat
    <2>1. sent' \in Seq(Texts) /\ taken' \in 0..Len(sent')
        BY DEF TransportTypeOK
    <2> QED
        BY <2>1, LenProperties
<1>3. CASE Greets \/ Network \/ Awaits \/ Continues \/ LoopCancelled \/ UNCHANGED vars
    <2>1. /\ UNCHANGED <<client, socket, owned, requests, jobs, notes>> /\ UNCHANGED callVars
          /\ loop' \in {loop, "cancelled"}
        BY <1>3 DEF Greets, Network, Awaits, Continues, LoopCancelled, vars, conversationVars,
                    clientVars, serverVars
    <2>2. UNCHANGED <<pc, made, command, sync, armed, pending, term, registered, heard, result>>
        BY <2>1 DEF callVars
    <2> QED
        BY <2>1, <2>2 DEF ConversationTypeOK, HasTask
<1>4. CASE Serves \/ Notes \/ Finishes
    <2>1. UNCHANGED <<client, socket, owned, loop>> /\ UNCHANGED callVars
        BY <1>4 DEF Serves, Notes, Finishes, clientVars
    <2>2. UNCHANGED <<pc, made, command, sync, armed, pending, term, registered, heard, result>>
        BY <2>1 DEF callVars
    <2>3. requests' \in Seq([call : 1..MaxCalls, method : Methods])
        BY <1>4, ServerTexts DEF Serves, Notes, Finishes, ConversationTypeOK
    <2>4. jobs' \subseteq [call : 1..MaxCalls, method : Methods \cap AsyncMethods]
        <3>1. CASE Serves
            <4>1. Head(requests) \in [call : 1..MaxCalls, method : Methods]
                BY <3>1, ServerTexts DEF Serves
            <4>2. \A j \in jobs' : j \in jobs \/ (j = Head(requests) /\ Head(requests).method \in AsyncMethods)
                BY <3>1 DEF Serves
            <4> QED
                BY <4>1, <4>2 DEF ConversationTypeOK
        <3>2. CASE Notes \/ Finishes
            BY <3>2 DEF Notes, Finishes, ConversationTypeOK
        <3> QED
            BY <1>4, <3>1, <3>2
    <2>5. notes' \in 0..MaxTraffic
        BY <1>1, <1>4 DEF Serves, Notes, Finishes
    <2> QED
        BY <2>1, <2>2, <2>3, <2>4, <2>5 DEF ConversationTypeOK, HasTask
<1>5. CASE ShakesHands \/ Enters \/ ClosesSocket \/ StopsServer
    <2>1. UNCHANGED callVars /\ UNCHANGED <<requests, jobs, notes>>
        BY <1>5 DEF ShakesHands, Enters, ClosesSocket, StopsServer, serverVars
    <2>2. UNCHANGED <<pc, made, command, sync, armed, pending, term, registered, heard, result>>
        BY <2>1 DEF callVars
    <2>3. /\ client' \in {"handshake", "refused", "failed", "connected", "entered",
                          "stopping", "stopped", "closed", "left"}
          /\ socket' \in {"open", "closed"} /\ owned' \in BOOLEAN
          /\ loop' \in {"none", "running", "crashed", "cancelled"}
        BY <1>5 DEF ShakesHands, Enters, ClosesSocket, StopsServer, ConversationTypeOK
    <2> QED
        BY <2>1, <2>2, <2>3 DEF ConversationTypeOK, HasTask
<1>6. ASSUME NEW m \in Methods, Calls(m) PROVE ConversationTypeOK'
    <2>1. made' = made + 1 /\ made' \in 1..MaxCalls
        BY <1>1, <1>6 DEF Calls
    <2>2. command'.method \in Methods /\ command'.callbacks \subseteq UNION CallbackSets
        BY <1>6 DEF Calls
    <2>3. requests' \in Seq([call : 1..MaxCalls, method : Methods])
        BY <1>6, <2>1, AppendProperties DEF Calls, ConversationTypeOK
    <2>4. sync'.is = "pending" /\ armed' = TRUE /\ term'.is = "nothing" /\ heard' = {}
        BY <1>6, FutureKinds DEF Calls, Arms
    <2>5. pc' \in {"sync", "idle"}
        BY <1>6 DEF Calls
    <2>6. UNCHANGED <<client, socket, owned, loop, jobs, notes, registered>>
        BY <1>6 DEF Calls, clientVars
    <2> QED
        BY <1>1, <2>1, <2>2, <2>3, <2>4, <2>5, <2>6 DEF ConversationTypeOK
<1>7. CASE Concludes \/ Registers \/ Ends \/ Leaves
    <2>1. /\ UNCHANGED <<socket, owned, loop, requests, jobs, notes, made, command, armed, heard>>
          /\ client' \in {client, "stopping"}
        BY <1>7 DEF Concludes, Registers, Ends, Leaves, clientVars, serverVars
    <2>2. sync' \in {sync, CancelledFuture} /\ term' \in {term, Pending} /\ pc' \in {"idle", "term"}
        BY <1>7 DEF Concludes, Registers, Ends, Leaves
    <2>3. pc' = "term" => HasTask /\ term' = Pending /\ sync' = sync
        BY <1>7 DEF Concludes, Registers, Ends, Leaves
    <2>4. registered' \in Nat
        <3>1. taken \in Nat
            BY LenProperties DEF TIInv, TransportTypeOK
        <3> QED
            BY <1>7, <3>1 DEF Concludes, Registers, Ends, Leaves, ConversationTypeOK
    <2>5. HasTask /\ sync' = sync => HasTask'
        BY <2>1 DEF HasTask
    <2> QED
        BY <2>1, <2>2, <2>3, <2>4, <2>5, FutureKinds DEF ConversationTypeOK
<1>8. CASE Crashes \/ Stops
    <2>1. /\ UNCHANGED <<socket, owned, requests, jobs, notes, pc, made, command, registered, heard>>
          /\ client' \in {client, "stopped"} /\ loop' \in {loop, "crashed"}
        BY <1>8 DEF Crashes, LoopEnds, Stops, serverVars
    <2>2. PICK f \in {Raised, CancelledFuture} : SettleAll(f)
        BY <1>8 DEF Crashes, Stops
    <2>3. /\ sync' = (IF sync = Pending THEN f ELSE sync)
          /\ term' = (IF term = Pending THEN f ELSE term)
          /\ armed' \in BOOLEAN /\ f.is \in {"raised", "cancelled"}
        BY <2>2, SettleFacts
    <2>4. HasTask => HasTask'
        BY <2>1, <2>3, FutureKinds DEF HasTask
    <2> QED
        BY <2>1, <2>3, <2>4 DEF ConversationTypeOK
<1>9. CASE Dispatches
    <2>1. UNCHANGED <<client, socket, owned, loop, requests, jobs, notes, pc, made, command, registered>>
        BY <1>9 DEF Dispatches, clientVars, serverVars
    <2>2. outcome'.is = "reply"
        BY <1>9 DEF Dispatches, Readable
    <2>3. /\ sync' = sync \/ (sync' = outcome' /\ sync = Pending)
          /\ term' \in {term, outcome'}
        BY <1>9 DEF Dispatches
    <2>4. heard' \subseteq [message : Nat, is : {"TheoryProgress", "Message", "nodes_status"}]
        BY <1>2, <1>9, HearsType DEF Dispatches, ConversationTypeOK
    <2>5. HasTask => HasTask'
        BY <2>1, <2>3, FutureKinds DEF HasTask
    <2>6. armed' \in BOOLEAN
        <3>1. armed' = armed \/ armed' = FALSE
            BY <1>9, Zenon DEF Dispatches
        <3> QED
            BY <3>1 DEF ConversationTypeOK
    <2>7. {sync'.is, term'.is} \subseteq {"nothing", "pending", "reply", "raised", "cancelled"}
        BY <2>2, <2>3 DEF ConversationTypeOK
    <2>8. /\ pc' = "sync" => made' > 0 /\ sync'.is # "nothing"
          /\ pc' = "term" => HasTask' /\ term'.is # "nothing"
        BY <2>1, <2>2, <2>3, <2>5 DEF ConversationTypeOK
    <2> QED
        BY <2>1, <2>4, <2>6, <2>7, <2>8 DEF ConversationTypeOK
<1> QED
    BY <1>3, <1>4, <1>5, <1>6, <1>7, <1>8, <1>9 DEF Next, Server, Reader, Program, Exit

-----------------------------------------------------------------------------
(* Stages and futures *)

LEMMA StagesStep ==
    ASSUME CInv, [Next]_vars
    PROVE  Stages'
<1> USE DEF CInv
<1>1. CASE Server \/ Network \/ UNCHANGED vars
    <2>1. UNCHANGED <<client, socket, owned, loop, pc, made, reading>>
        BY <1>1 DEF Server, Greets, Serves, Notes, Finishes, Network, Sends, Arrives, GoesDown, vars,
                    conversationVars, clientVars, callVars, transportVars, readVars
    <2> QED
        BY <2>1 DEF Stages
<1>2. CASE Awaits \/ Continues
    <2>1. UNCHANGED <<client, socket, owned, loop, pc, made>>
        BY <1>2 DEF Awaits, Continues, conversationVars, clientVars, callVars
    <2>2. loop \notin {"crashed", "cancelled"}
        BY <1>2 DEF Awaits, Continues, StartsReceive, ReadsHeader, Stages
    <2> QED
        BY <2>1, <2>2 DEF Stages
<1>3. CASE ShakesHands
    <2>1. UNCHANGED <<owned, loop, pc, made>> /\ client = "handshake"
          /\ client' \in {"connected", "refused", "failed"}
        BY <1>3 DEF ShakesHands, callVars
    <2> QED
        BY <2>1 DEF Stages
<1>4. CASE Enters \/ ClosesSocket \/ StopsServer
    <2>1. UNCHANGED <<reading, pc, made>>
        BY <1>4 DEF Enters, ClosesSocket, StopsServer, transportVars, readVars, callVars
    <2> QED
        BY <1>4, <2>1 DEF Enters, ClosesSocket, StopsServer, Stages
<1>5. ASSUME NEW m \in Methods, Calls(m) PROVE Stages'
    <2>1. UNCHANGED <<reading, client, socket, owned, loop>> /\ client \in {"connected", "entered"}
        BY <1>5 DEF Calls, transportVars, readVars, clientVars
    <2> QED
        BY <2>1 DEF Stages
<1>6. CASE Concludes \/ Registers \/ Ends
    <2>1. UNCHANGED <<reading, client, socket, owned, loop, made>> /\ pc # "idle"
        BY <1>6 DEF Concludes, Registers, Ends, transportVars, readVars, clientVars
    <2> QED
        BY <2>1 DEF Stages
<1>7. CASE Crashes \/ Dispatches
    <2>1. UNCHANGED <<client, socket, owned, pc, made>> /\ loop' \in {"running", "crashed"}
          /\ loop = "running"
        BY <1>7 DEF Crashes, LoopEnds, Dispatches, clientVars
    <2>2. reading' = "no"
        BY <1>7, ReceivesFacts DEF Crashes, Dispatches
    <2> QED
        BY <2>1, <2>2 DEF Stages
<1>8. CASE Leaves
    <2>1. UNCHANGED <<reading, socket, owned, loop>>
        BY <1>8 DEF Leaves, transportVars, readVars
    <2> QED
        BY <1>8, <2>1 DEF Leaves, Stages
<1>9. CASE LoopCancelled
    <2>1. UNCHANGED <<client, socket, owned, pc, made>> /\ loop' = "cancelled"
          /\ client = "stopping" /\ loop = "running"
        BY <1>9 DEF LoopCancelled, callVars
    <2>2. reading' = "no"
        BY <1>9 DEF LoopCancelled, ReceiveCancelled, transportVars, readVars
    <2> QED
        BY <2>1, <2>2 DEF Stages
<1>10. CASE Stops
    <2>1. UNCHANGED <<reading, socket, owned, loop, pc, made>>
        BY <1>10 DEF Stops, transportVars, readVars
    <2> QED
        BY <1>10, <2>1 DEF Stops, Stages
<1> QED
    BY <1>1, <1>2, <1>3, <1>4, <1>5, <1>6, <1>7, <1>8, <1>9, <1>10 DEF Next, Reader, Program, Exit

LEMMA FuturesStep ==
    ASSUME CInv, [Next]_vars
    PROVE  Futures'
<1> USE DEF CInv
<1>1. ASSUME UNCHANGED <<pc, sync, armed, pending, term>>,
             client' = client \/ client' \notin {"stopped", "closed", "left"}
                              \/ client \in {"stopped", "closed", "left"},
             client = "stopping" => client' = "stopping" \/ pending = None
      PROVE  Futures'
    BY <1>1 DEF Futures
<1>2. CASE Server \/ Network \/ Awaits \/ Continues \/ LoopCancelled \/ UNCHANGED vars
    <2>1. UNCHANGED <<client, pc, sync, armed, pending, term>>
        BY <1>2 DEF Server, Greets, Serves, Notes, Finishes, Network, Awaits, Continues, LoopCancelled,
                    vars, conversationVars, clientVars, callVars
    <2> QED
        BY <1>1, <2>1
<1>3. CASE ShakesHands \/ Enters \/ ClosesSocket \/ StopsServer
    <2>1. UNCHANGED <<pc, sync, armed, pending, term>>
        BY <1>3 DEF ShakesHands, Enters, ClosesSocket, StopsServer, callVars
    <2> QED
        BY <1>1, <1>3, <2>1 DEF ShakesHands, Enters, ClosesSocket, StopsServer
<1>4. ASSUME NEW m \in Methods, Calls(m) PROVE Futures'
    <2>1. UNCHANGED <<client, pending>> /\ client \in {"connected", "entered"} /\ pc = "idle"
        BY <1>4 DEF Calls, clientVars
    <2>2. pending = None
        BY <2>1 DEF Futures
    <2>3. sync' = Pending /\ armed' /\ term' = Nothing
        BY <1>4 DEF Calls, Arms
    <2> QED
        BY <2>1, <2>2, <2>3, FutureKinds DEF Futures
<1>5. CASE Concludes \/ Ends
    <2>1. UNCHANGED <<client, sync, armed, pending, term>> /\ pc' = "idle"
        BY <1>5 DEF Concludes, Ends, clientVars
    <2>2. pending = None
        <3>1. CASE Concludes
            <4>1. pc = "sync" /\ client \notin {"stopping"}
                BY <3>1 DEF Concludes, Stages
            <4> QED
                BY <4>1 DEF Futures
        <3>2. CASE Ends
            <4>1. term # Pending
                BY <3>2, FutureKinds DEF Ends, Settled
            <4> QED
                BY <4>1 DEF Futures
        <3> QED
            BY <1>5, <3>1, <3>2
    <2> QED
        BY <2>1, <2>2 DEF Futures
<1>6. CASE Registers
    <2>1. UNCHANGED <<client, sync, armed>> /\ pc' = "term" /\ pc = "sync" /\ term' = Pending
          /\ pending' = TaskId(sync.text) /\ HasTask
        BY <1>6 DEF Registers, clientVars
    <2>2. pending' # None /\ sync.is = "reply"
        BY <2>1 DEF HasTask
    <2>3. client \notin {"stopped", "closed", "left"}
        BY <2>1 DEF Stages
    <2> QED
        BY <2>1, <2>2, <2>3, FutureKinds DEF Futures
<1>7. CASE Leaves
    <2>1. /\ UNCHANGED <<armed, pending, term>> /\ client' = "stopping" /\ pc' = "idle"
          /\ sync' = (IF pc = "sync" /\ sync = Pending THEN CancelledFuture ELSE sync)
        BY <1>7 DEF Leaves
    <2>2. CASE pc = "sync" /\ sync = Pending
        <3>1. client # "stopping"
            BY <1>7 DEF Leaves
        <3>2. term = Nothing /\ pending = None
            BY <2>2, <3>1 DEF Futures
        <3> QED
            BY <2>1, <2>2, <3>2, FutureKinds DEF Futures
    <2>3. CASE ~(pc = "sync" /\ sync = Pending)
        BY <2>1, <2>3, FutureKinds DEF Futures
    <2> QED
        BY <2>2, <2>3
<1>8. CASE Crashes \/ Stops
    <2>1. pc' = pc
        BY <1>8 DEF Crashes, Stops
    <2>2. PICK f \in {Raised, CancelledFuture} : SettleAll(f)
        BY <1>8 DEF Crashes, Stops
    <2>3. /\ sync' = (IF sync = Pending THEN f ELSE sync)
          /\ pending' = None /\ term' = (IF term = Pending THEN f ELSE term)
          /\ sync' # Pending /\ term' # Pending
        BY <2>2, SettleFacts
    <2>4. term' # Nothing => sync'.is = "reply"
        BY <2>3, FutureKinds DEF Futures
    <2>5. pc' = "sync" => term' = Nothing
        BY <2>1, <2>3, FutureKinds DEF Futures
    <2> QED
        BY <2>3, <2>4, <2>5 DEF Futures
<1>9. CASE Dispatches
    <2>1. UNCHANGED <<client, pc>> /\ outcome'.is = "reply"
        BY <1>9 DEF Dispatches, clientVars, Readable
    <2>2. \/ sync' = outcome' /\ armed' = FALSE /\ sync = Pending
          \/ UNCHANGED <<sync, armed>>
        BY <1>9 DEF Dispatches
    <2>3. \/ term' = outcome' /\ pending' = None /\ pending # None
          \/ UNCHANGED <<term, pending>>
        BY <1>9 DEF Dispatches, Tracked
    <2>4. outcome' # Pending /\ outcome' # Nothing
        BY <2>1, FutureKinds
    <2>5. CASE sync = Pending /\ sync' = outcome' /\ armed' = FALSE
        <3>1. term = Nothing /\ pending = None
            BY <2>5, FutureKinds DEF Futures
        <3> QED
            BY <2>1, <2>3, <2>4, <2>5, <3>1 DEF Futures
    <2>6. CASE UNCHANGED <<sync, armed>>
        <3>1. CASE term' = outcome' /\ pending' = None /\ pending # None
            <4>1. term = Pending /\ pc # "sync" /\ sync.is = "reply" /\ sync # Pending
                BY <3>1, FutureKinds DEF Futures
            <4> QED
                BY <2>1, <2>4, <2>6, <3>1, <4>1 DEF Futures
        <3>2. CASE UNCHANGED <<term, pending>>
            BY <2>1, <2>6, <3>2 DEF Futures
        <3> QED
            BY <2>3, <3>1, <3>2
    <2> QED
        BY <2>2, <2>5, <2>6
<1> QED
    BY <1>2, <1>3, <1>4, <1>5, <1>6, <1>7, <1>8, <1>9 DEF Next, Reader, Program, Exit

-----------------------------------------------------------------------------
(* The password, and the end of the stream *)

\* A message that is taken is read as what it says.
LEMMA TakenText ==
    ASSUME NEW t \in Texts, Parsed(t).is = "reply"
    PROVE  Parsed(t).text = t
BY StrippedText DEF Parsed, Outcome, Raised

\* Even a line that a lost connection cuts short begins as the message did.
LEMMA FirstReply ==
    ASSUME TIInv, intact, taken = 0, Receives, outcome'.is = "reply"
    PROVE  sent # << >> /\ outcome'.text[1] = sent[1][1]
<1>1. 0 < Len(sent) => sent # << >> /\ sent[1] \in Texts
    <2>1. sent \in Seq(Texts)
        BY DEF TIInv, TransportTypeOK
    <2> QED
        BY <2>1, EmptySeq, ElementOfSeq
<1>2. CASE ReadsLine \/ ReadsBody
    <2>1. 0 < Len(sent) /\ outcome' = Parsed(sent[1])
        BY <1>2, LineIsMessage, BodyIsMessage
    <2> QED
        BY <1>1, <2>1, TakenText
<1>3. CASE ReachesEnd
    <2> DEFINE rest == SubSeq(stream, at + 1, arrived)
    <2>1. reading # "body" /\ outcome' = Parsed(rest) /\ at = 0
        <3>1. Raised.is # "reply"
            BY DEF Raised, Outcome
        <3> QED
            BY <1>3, <3>1 DEF ReachesEnd, Breaks, TIInv, PositionInv, Start
    <2>2. stream \in Seq(Units) /\ Len(stream) \in Nat /\ arrived \in 0..Len(stream)
        BY LenProperties DEF TIInv, TransportTypeOK
    <2>3. at + 1 = 1 /\ arrived \in Int /\ arrived - 1 + 1 = arrived
          /\ \A i \in 1..arrived : i \in 1..Len(stream)
        BY <2>1, <2>2
    <2>4. \A i \in 1..arrived : stream[i] \in Units
        BY <2>2, <2>3, ElementOfSeq
    <2>5. /\ rest \in Seq(Units) /\ Len(rest) = IF 1 <= arrived THEN arrived - 1 + 1 ELSE 0
          /\ \A i \in 1..arrived - 1 + 1 : rest[i] = stream[1 + i - 1]
        BY <2>3, <2>4, SubSeqProperties
    <2>6. Len(rest) > 0 /\ outcome'.text[1] = rest[1] /\ rest[1] \in ReplyKind
        BY <2>1, <2>5, ParsedType
    <2>7. arrived > 0 /\ rest[1] = stream[1]
        <3>1. 1 <= arrived
            BY <2>5, <2>6
        <3>2. 1 \in 1..arrived - 1 + 1 /\ 1 + 1 - 1 = 1
            BY <2>2, <3>1
        <3> QED
            BY <2>5, <3>1, <3>2
    <2>8. 0 < Len(sent)
        BY <2>1, <2>2, <2>7, SomethingToRead
    <2>9. PICK f \in Frames(sent[1]) : \A j \in 1..Len(f) : stream[Start(1) + j] = f[j]
        <3>1. Len(sent) \in Nat
            BY LenProperties DEF TIInv, TransportTypeOK
        <3> QED
            BY <2>8, <3>1 DEF TIInv, StreamInv, Lies
    <2>10. Len(f) \in Nat \ {0} /\ (IsLine(f, sent[1]) \/ IsLong(f, sent[1]))
        BY <1>1, <2>8, FrameFacts
    <2>11. stream[1] = f[1]
        BY <2>9, <2>10 DEF Start
    <2>12. f[1] \notin Nat
        BY <2>6, <2>7, <2>11, UnitsAssumption
    <2>13. IsLine(f, sent[1])
        BY <2>10, <2>12 DEF IsLong
    <2>14. f[1] = sent[1][1]
        BY <1>1, <2>8, <2>13, TextFacts, WithLineFeed DEF IsLine
    <2> QED
        BY <1>1, <2>6, <2>7, <2>8, <2>11, <2>14
<1>4. CASE RefusesBody \/ OverrunsLine \/ MeetsReset
    <2>1. outcome' = Raised
        BY <1>4 DEF RefusesBody, OverrunsLine, MeetsReset, Breaks
    <2> QED
        BY <2>1 DEF Raised, Outcome
<1> QED
    BY <1>2, <1>3, <1>4 DEF Receives

LEMMA ReplyInStep ==
    ASSUME TIInv, InStep, Receives, outcome'.is = "reply"
    PROVE  InStep'
<1>1. CASE ReadsLine \/ ReadsBody
    <2>1. UNCHANGED <<intact, link, arrived>> /\ at' \in at..arrived
        BY <1>1, ReceivesFacts DEF ReadsLine, ReadsBody, Takes, wireVars
    <2>2. at \in Nat /\ arrived \in Nat
        BY LenProperties DEF TIInv, TransportTypeOK
    <2> QED
        BY <2>1, <2>2 DEF InStep
<1>2. CASE ReachesEnd
    <2>1. link' = "ended" /\ at' = arrived'
        BY <1>2, ReceivesFacts DEF ReachesEnd
    <2> QED
        BY <2>1 DEF InStep
<1>3. CASE RefusesBody \/ OverrunsLine \/ MeetsReset
    <2>1. outcome' = Raised
        BY <1>3 DEF RefusesBody, OverrunsLine, MeetsReset, Breaks
    <2> QED
        BY <2>1 DEF Raised, Outcome
<1> QED
    BY <1>1, <1>2, <1>3 DEF Receives

LEMMA SentGrows ==
    ASSUME TIInv, Server
    PROVE  /\ UNCHANGED <<arrived, link, at, reading, length, outcome, taken, intact>> /\ link = "up"
           /\ Len(sent') = Len(sent) + 1 /\ \A n \in 1..Len(sent) : sent'[n] = sent[n]
           /\ UNCHANGED <<client, socket, owned, loop>> /\ UNCHANGED callVars
<1>1. PICK t : Sends(t)
    BY DEF Server, Greets, Serves, Notes, Finishes
<1>2. sent \in Seq(Texts)
    BY DEF TIInv, TransportTypeOK
<1>3. sent' = Append(sent, t) /\ link = "up"
      /\ UNCHANGED <<arrived, link, at, reading, length, outcome, taken, intact>>
    BY <1>1 DEF Sends, readVars
<1>4. Len(sent') = Len(sent) + 1 /\ \A n \in 1..Len(sent) : sent'[n] = sent[n]
    BY <1>2, <1>3, AppendProperties
<1>5. UNCHANGED <<client, socket, owned, loop>> /\ UNCHANGED callVars
    BY DEF Server, Greets, Serves, Notes, Finishes, conversationVars, clientVars
<1> QED
    BY <1>3, <1>4, <1>5

LEMMA AcceptedStep ==
    ASSUME CInv, [Next]_vars
    PROVE  Accepted'
<1> USE DEF CInv
<1>1. CASE Server
    <2>1. Len(sent) \in Nat /\ sent \in Seq(Texts)
        BY LenProperties DEF TIInv, TransportTypeOK
    <2>2. Len(sent') = Len(sent) + 1 /\ (\A n \in 1..Len(sent) : sent'[n] = sent[n])
          /\ UNCHANGED <<client, taken, intact>>
        BY <1>1, SentGrows
    <2>3. sent # << >> => sent' # << >> /\ sent'[1] = sent[1]
        <3> SUFFICES ASSUME sent # << >> PROVE sent' # << >> /\ sent'[1] = sent[1]
            OBVIOUS
        <3>1. Len(sent) # 0
            BY <2>1, EmptySeq
        <3> QED
            BY <2>1, <2>2, <3>1, EmptySeq
    <2> QED
        BY <2>2, <2>3 DEF Accepted, Kind
<1>2. CASE Network \/ Awaits \/ Continues \/ UNCHANGED vars
    <2>1. UNCHANGED <<client, sent, taken, intact>>
        BY <1>2 DEF Network, Arrives, GoesDown, Awaits, StartsReceive, Continues, ReadsHeader, vars,
                    transportVars, wireVars, readVars, conversationVars, clientVars
    <2> QED
        BY <2>1 DEF Accepted
<1>3. CASE ShakesHands
    <2>1. UNCHANGED sent /\ client' \in {"connected", "refused", "failed"}
          /\ (client' = "connected" => outcome'.is = "reply" /\ Kind(outcome'.text) = OK)
        BY <1>3, ReceivesFacts DEF ShakesHands, AcceptsPassword
    <2>2. client' = "connected" => sent # << >> /\ Kind(sent[1]) = OK
        BY <1>3, <2>1, FirstReply DEF ShakesHands, Accepted, Kind
    <2> QED
        BY <2>1, <2>2 DEF Accepted
<1>4. CASE Crashes \/ Dispatches
    <2>1. UNCHANGED <<client, sent>> /\ client # "handshake"
        BY <1>4, ReceivesFacts DEF Crashes, Dispatches, clientVars, Stages
    <2> QED
        BY <2>1 DEF Accepted
<1>5. CASE Enters \/ Program \/ Leaves \/ Exit
    <2>1. UNCHANGED sent /\ client \notin {"refused", "failed", "handshake"}
          /\ client' \notin {"refused", "failed", "handshake"}
        <3>1. CASE Enters \/ Leaves
            BY <3>1 DEF Enters, Leaves, transportVars, wireVars
        <3>2. CASE Exit
            BY <3>2 DEF Exit, LoopCancelled, ReceiveCancelled, Stops, ClosesSocket, StopsServer,
                        transportVars, wireVars
        <3>3. CASE Program
            <4>1. UNCHANGED sent /\ UNCHANGED client
                BY <3>3 DEF Program, Calls, Concludes, Registers, Ends, transportVars, wireVars, clientVars
            <4>2. client \in {"connected", "entered"} \/ pc # "idle"
                BY <3>3 DEF Program, Calls, Concludes, Registers, Ends
            <4> QED
                BY <4>1, <4>2 DEF Stages
        <3> QED
            BY <1>5, <3>1, <3>2, <3>3
    <2> QED
        BY <2>1 DEF Accepted
<1> QED
    BY <1>1, <1>2, <1>3, <1>4, <1>5 DEF Next, Reader

LEMMA InStepStep ==
    ASSUME CInv, [Next]_vars
    PROVE  StaysInStep'
<1> USE DEF CInv
<1>1. ASSUME UNCHANGED <<intact, link, at, arrived>>, StaysInStep,
             client' \in {"handshake", "connected"} \/ loop' = "running" =>
                client \in {"handshake", "connected"} \/ loop = "running"
      PROVE  StaysInStep'
    BY <1>1 DEF StaysInStep, InStep
<1>2. CASE Server
    BY <1>1, <1>2, SentGrows
<1>3. CASE Network
    <2>1. link = "up" /\ UNCHANGED <<client, loop, intact>>
        BY <1>3 DEF Network, Arrives, GoesDown, readVars, conversationVars, clientVars
    <2> QED
        BY <2>1 DEF StaysInStep, InStep
<1>4. CASE Awaits \/ Enters \/ Program \/ Leaves \/ Stops \/ ClosesSocket \/ StopsServer \/ UNCHANGED vars
    <2>1. UNCHANGED <<intact, link, at, arrived>>
        BY <1>4 DEF Awaits, StartsReceive, Enters, Program, Calls, Concludes, Registers, Ends, Leaves,
                    Stops, ClosesSocket, StopsServer, vars, transportVars, wireVars, readVars
    <2>2. \/ UNCHANGED loop /\ (client' = client \/ client' \notin {"handshake", "connected"})
          \/ client = "connected"
        BY <1>4 DEF Awaits, Enters, Program, Calls, Concludes, Registers, Ends, Leaves,
                    Stops, ClosesSocket, StopsServer, vars, conversationVars, clientVars
    <2> QED
        BY <1>1, <2>1, <2>2
<1>5. CASE Continues
    <2>1. UNCHANGED <<client, loop, intact, link, arrived>> /\ link # "reset" /\ LineFeeds # {}
        BY <1>5 DEF Continues, ReadsHeader, wireVars, conversationVars, clientVars
    <2>2. at # arrived
        <3>1. at \in Nat /\ arrived \in Nat
            BY LenProperties DEF TIInv, TransportTypeOK
        <3> QED
            BY <2>1, <3>1 DEF LineFeeds
    <2>3. link \in {"up", "ended", "reset"}
        BY LinkAssumption DEF TIInv, TransportTypeOK
    <2> QED
        BY <2>1, <2>2, <2>3 DEF StaysInStep, InStep
<1>6. CASE ShakesHands
    <2>1. client = "handshake" /\ loop' = "none" /\ client' # "handshake"
          /\ (client' = "connected" => outcome'.is = "reply")
        BY <1>6 DEF ShakesHands, AcceptsPassword, Stages
    <2>2. CASE client' = "connected"
        <3>1. InStep'
            BY <1>6, <2>1, <2>2, ReplyInStep DEF ShakesHands, StaysInStep
        <3> QED
            BY <3>1 DEF StaysInStep
    <2>3. CASE client' # "connected"
        BY <2>1, <2>3 DEF StaysInStep
    <2> QED
        BY <2>2, <2>3
<1>7. CASE Crashes
    <2>1. loop = "running" /\ loop' = "crashed" /\ client' = client
        BY <1>7 DEF Crashes, LoopEnds
    <2> QED
        BY <2>1 DEF StaysInStep, Stages
<1>8. CASE Dispatches
    <2>1. InStep'
        BY <1>8, ReplyInStep DEF Dispatches, Readable, StaysInStep
    <2> QED
        BY <2>1 DEF StaysInStep
<1>9. CASE LoopCancelled
    <2>1. client' = "stopping" /\ loop' = "cancelled"
        BY <1>9 DEF LoopCancelled
    <2> QED
        BY <2>1 DEF StaysInStep
<1> QED
    BY <1>2, <1>3, <1>4, <1>5, <1>6, <1>7, <1>8, <1>9 DEF Next, Reader, Exit

-----------------------------------------------------------------------------
(* Payloads *)

\* A payload that is what the documentation says is decoded.
LEMMA DocumentedDecodes ==
    ASSUME NEW method, NEW d, DocumentedResult(method, d)
    PROVE  Decodes(method, d)
<1>1. method = "session_build" => SessionBuildResults(d)
    BY DEF DocumentedResult, Shape, ABuild, SessionBuildResults, SessionBuildResult, Timing
<1>2. method = "session_start" => SessionStartResult(d)
    BY DEF DocumentedResult, Shape, SessionStartResult
<1>3. method = "session_stop" => SessionStopResult(d)
    BY DEF DocumentedResult, Shape, SessionStopResult
<1>4. method = "use_theories" => UseTheoriesResults(d)
    <2> SUFFICES ASSUME method = "use_theories" PROVE UseTheoriesResults(d)
        OBVIOUS
    <2>1. "ok" \in DOMAIN d /\ \A e \in Elements(d, "errors") : Message(e)
        BY DEF DocumentedResult, Shape, AMessage, Message
    <2>2. ASSUME NEW n \in Elements(d, "nodes") PROVE NodeResultEntry(n)
        <3>1. /\ ANode(n, {"messages", "exports"})
              /\ \A m \in Elements(n, "messages") : AMessage(m, {})
              /\ \A e \in Elements(n, "exports") : Shape(e, {"name", "base64", "body"}, {})
            BY <2>2 DEF DocumentedResult
        <3>2. {"node_name", "theory_name", "status"} \subseteq DOMAIN n /\ NodeStatus(n.status)
            BY <3>1 DEF ANode, AStatus, Shape, NodeStatus
        <3>3. \A m \in Elements(n, "messages") : Message(m)
            BY <3>1 DEF AMessage, Shape, Message
        <3>4. \A e \in Elements(n, "exports") : Export(e)
            BY <3>1 DEF Shape, Export
        <3> QED
            BY <3>2, <3>3, <3>4 DEF NodeResultEntry, NodeResults, Node
    <2> QED
        BY <2>1, <2>2 DEF UseTheoriesResults
<1> QED
    BY <1>1, <1>2, <1>3, <1>4 DEF Decodes

\* A documented NOTE is handed on as what it is, to whom wants it.
LEMMA DocumentedIsHeard ==
    ASSUME NEW d, NEW is \in {"TheoryProgress", "Message", "nodes_status"},
           DocumentedNote(d, is), Wanted(is)
    PROVE  Hears(d) = {is}
<1>1. CASE is = "nodes_status"
    <2>1. command.method = "use_theories" /\ "nodes_status" \in command.callbacks \cap DOMAIN d
        BY <1>1 DEF Wanted, DocumentedNote, Shape
    <2>2. \A n \in Elements(d, "nodes_status") : NodeWithStatus(n)
        BY <1>1 DEF DocumentedNote, ANode, AStatus, Shape, NodeWithStatus, Node, NodeStatus
    <2> QED
        BY <1>1, <2>1, <2>2 DEF Hears, UseTheoriesNote, NodesStatus
<1>2. CASE is \in {"TheoryProgress", "Message"}
    <2>1. "progress" \in command.callbacks /\ "nodes_status" \notin DOMAIN d
        BY <1>2 DEF Wanted, DocumentedNote, AMessage, Shape
    <2>2. BuildNote(d) = {is}
        <3>1. CASE is = "TheoryProgress"
            BY <3>1 DEF DocumentedNote, Shape, BuildNote, IsTheoryProgress, TheoryProgress
        <3>2. CASE is = "Message"
            BY <3>2 DEF DocumentedNote, AMessage, Shape, BuildNote, IsTheoryProgress, Message
        <3> QED
            BY <1>2, <3>1, <3>2
    <2> QED
        BY <2>1, <2>2 DEF Hears, UseTheoriesNote
<1> QED
    BY <1>1, <1>2

\* What the server makes of the arguments is what the caller meant.
LEMMA ArgumentArrives ==
    ASSUME NEW m \in Methods, NEW a \in Arguments(m),
           m \in {"session_build", "session_start", "use_theories", "purge_theories"},
           NEW key \in DOMAIN a
    PROVE  Get(Argument(m, a), key, Get(Default, key, None)) = Meant(a, key)
<1>1. CASE m = "use_theories"
    <2>1. Argument(m, a) = [k \in {k \in DOMAIN a : a[k] # None} |-> a[k]]
        BY <1>1 DEF Argument, UseTheoriesArgs, Keep
    <2>2. CASE a[key] # None
        BY <2>1, <2>2 DEF Get, Meant
    <2>3. CASE a[key] = None
        BY <2>1, <2>3 DEF Get, Meant
    <2> QED
        BY <2>2, <2>3
<1>2. CASE m \in {"session_build", "session_start"}
    <2>1. /\ key \in {"session", "preferences", "options", "dirs", "include_sessions",
                      "verbose", "print_mode"}
          /\ None \notin {a.options, a.dirs, a.include_sessions, a.print_mode}
          /\ a.verbose \in BOOLEAN \ {None}
        BY <1>2, ArgumentsAssumption
    <2> DEFINE Kept == {"session"}
                \cup {k \in {"preferences"} : a[k] # None}
                \cup {k \in {"options", "dirs", "include_sessions", "print_mode"} : a[k] # << >>}
                \cup {k \in {"verbose"} : a[k]}
    <2>2. Argument(m, a) = [k \in Kept |-> a[k]]
        BY <1>2 DEF Argument, SessionBuildArgs, Keep
    <2>3. Get(Argument(m, a), key, Get(Default, key, None)) =
            IF key \in Kept THEN a[key] ELSE Get(Default, key, None)
        <3> HIDE DEF Kept
        <3> QED
            BY <2>2 DEF Get
    <2>4. CASE key = "session"
        <3>1. key \notin DOMAIN Default
            BY <2>4 DEF Default
        <3>2. key \in Kept
            BY <2>4
        <3> HIDE DEF Kept
        <3> QED
            BY <2>3, <3>1, <3>2 DEF Meant
    <2>5. CASE key = "preferences"
        BY <2>3, <2>5 DEF Get, Meant, Default
    <2>6. CASE key \in {"options", "dirs", "include_sessions", "print_mode"}
        <3>1. a[key] # None
            BY <2>1, <2>6
        <3>2. key \in DOMAIN Default /\ Default[key] = << >>
            <4>1. \/ key = "options" \/ key = "dirs"
                  \/ key = "include_sessions" \/ key = "print_mode"
                BY <2>6
            <4>2. key \in DOMAIN Default
                BY <4>1 DEF Default
            <4>3. /\ Default["options"] = << >> /\ Default["dirs"] = << >>
                  /\ Default["include_sessions"] = << >> /\ Default["print_mode"] = << >>
                BY DEF Default
            <4> QED
                BY <4>1, <4>2, <4>3
        <3>3. key \in Kept <=> a[key] # << >>
            BY <2>6
        <3> HIDE DEF Kept
        <3> QED
            BY <2>3, <3>1, <3>2, <3>3 DEF Get, Meant
    <2>7. CASE key = "verbose"
        <3>1. key \in DOMAIN Default /\ Default[key] = FALSE
            BY <2>7 DEF Default
        <3>2. key \in Kept <=> a[key]
            BY <2>7
        <3>3. (a[key] = TRUE \/ a[key] = FALSE) /\ a[key] # None
            BY <2>1, <2>7
        <3>4. Meant(a, key) = a[key]
            BY <3>3, Zenon DEF Meant
        <3>5. Get(Default, key, None) = FALSE
            BY <3>1, Zenon DEF Get
        <3> HIDE DEF Kept
        <3>6. CASE a[key] = TRUE
            BY <2>3, <3>2, <3>4, <3>6, Zenon
        <3>7. CASE a[key] = FALSE
            BY <2>3, <3>2, <3>4, <3>5, <3>7, Zenon
        <3> QED
            BY <3>3, <3>6, <3>7
    <2> QED
        BY <2>1, <2>4, <2>5, <2>6, <2>7
<1>3. CASE m = "purge_theories"
    <2>1. /\ key \in {"session_id", "theories", "master_dir", "all"}
          /\ a.theories # None /\ a.all \in BOOLEAN \ {None}
        BY <1>3, ArgumentsAssumption
    <2> DEFINE Kept == {"session_id"}
                \cup {k \in {"theories"} : a[k] # << >>}
                \cup {k \in {"master_dir"} : a[k] # None}
                \cup {k \in {"all"} : a[k]}
    <2>2. Argument(m, a) = [k \in Kept |-> a[k]]
        BY <1>3 DEF Argument, PurgeTheoriesArgs, Keep
    <2>3. Get(Argument(m, a), key, Get(Default, key, None)) =
            IF key \in Kept THEN a[key] ELSE Get(Default, key, None)
        <3> HIDE DEF Kept
        <3> QED
            BY <2>2 DEF Get
    <2>4. CASE key = "session_id"
        <3>1. key \notin DOMAIN Default
            BY <2>4 DEF Default
        <3>2. key \in Kept
            BY <2>4
        <3> HIDE DEF Kept
        <3> QED
            BY <2>3, <3>1, <3>2 DEF Meant
    <2>5. CASE key = "theories"
        BY <2>1, <2>3, <2>5 DEF Get, Meant, Default
    <2>6. CASE key = "master_dir"
        BY <2>3, <2>6 DEF Get, Meant, Default
    <2>7. CASE key = "all"
        <3>1. key \in DOMAIN Default /\ Default[key] = FALSE
            BY <2>7 DEF Default
        <3>2. key \in Kept <=> a[key]
            BY <2>7
        <3>3. (a[key] = TRUE \/ a[key] = FALSE) /\ a[key] # None
            BY <2>1, <2>7
        <3>4. Meant(a, key) = a[key]
            BY <3>3, Zenon DEF Meant
        <3>5. Get(Default, key, None) = FALSE
            BY <3>1, Zenon DEF Get
        <3> HIDE DEF Kept
        <3>6. CASE a[key] = TRUE
            BY <2>3, <3>2, <3>4, <3>6, Zenon
        <3>7. CASE a[key] = FALSE
            BY <2>3, <3>2, <3>4, <3>5, <3>7, Zenon
        <3> QED
            BY <3>3, <3>6, <3>7
    <2> QED
        BY <2>1, <2>4, <2>5, <2>6, <2>7
<1> QED
    BY <1>1, <1>2, <1>3

LEMMA ArgsStep ==
    ASSUME CInv, [Next]_vars
    PROVE  ArgsArrive'
<1>1. ASSUME NEW m \in Methods, Calls(m) PROVE ArgsArrive'
    <2>1. PICK a \in Arguments(m) :
            command'.method = m /\ command'.args = a /\ command'.wire = Argument(m, a)
        BY <1>1 DEF Calls
    <2>2. ASSUME m \in {"session_build", "session_start", "use_theories", "purge_theories"},
                 NEW key \in DOMAIN a
          PROVE  Get(Argument(m, a), key, Get(Default, key, None)) = Meant(a, key)
        BY <2>2, ArgumentArrives
    <2> QED
        BY <2>1, <2>2 DEF ArgsArrive
<1>2. CASE ~\E m \in Methods : Calls(m)
    <2>1. UNCHANGED command
        BY <1>2 DEF Next, Server, Greets, Serves, Notes, Finishes, Network, Reader, Awaits, Continues,
                    Crashes, Dispatches, ShakesHands, Enters, Program, Concludes, Registers, Ends,
                    Leaves, Exit, LoopCancelled, Stops, ClosesSocket, StopsServer, vars,
                    conversationVars, callVars
    <2> QED
        BY <2>1 DEF ArgsArrive, CInv
<1> QED
    BY <1>1, <1>2

LEMMA DecodeStep ==
    ASSUME CInv, [Next]_vars
    PROVE  DocumentedResultsDecode'
<1> USE DEF CInv
<1>1. ASSUME NEW m \in Methods, Calls(m) PROVE DocumentedResultsDecode'
    <2>1. result'.is # "key_error"
        BY <1>1, FutureKinds DEF Calls, Ended
    <2> QED
        BY <2>1 DEF DocumentedResultsDecode
<1>2. CASE Concludes
    <2>1. result'.is # "key_error"
        BY <1>2 DEF Concludes, SyncEnd, Ended, ConversationTypeOK
    <2> QED
        BY <2>1 DEF DocumentedResultsDecode
<1>3. CASE Ends
    <2>1. result' = Ended(TermEnd, term) /\ UNCHANGED command
        BY <1>3 DEF Ends
    <2>2. term.is # "key_error"
        BY DEF ConversationTypeOK
    <2>3. TermEnd = "key_error" => ~Decodes(command.method, Payload(term.text))
        BY <2>2 DEF TermEnd
    <2> QED
        BY <2>1, <2>3, DocumentedDecodes DEF DocumentedResultsDecode, Ended
<1>4. CASE Leaves
    <2>1. UNCHANGED command /\ (result' = result \/ result'.is = "cancelled")
        BY <1>4 DEF Leaves, Ended
    <2> QED
        BY <2>1 DEF DocumentedResultsDecode
<1>5. CASE Server \/ Network \/ Reader \/ ShakesHands \/ Enters \/ Registers \/ Exit \/ UNCHANGED vars
    <2>1. UNCHANGED <<command, result>>
        BY <1>5 DEF Server, Greets, Serves, Notes, Finishes, Network, Reader, Awaits, Continues,
                    Crashes, Dispatches, ShakesHands, Enters, Registers,
                    Exit, LoopCancelled, Stops, ClosesSocket, StopsServer, vars,
                    conversationVars, callVars
    <2> QED
        BY <2>1 DEF DocumentedResultsDecode
<1> QED
    BY <1>1, <1>2, <1>3, <1>4, <1>5 DEF Next, Program

-----------------------------------------------------------------------------
(* NOTEs *)

LEMMA TakenNumbers ==
    ASSUME CInv
    PROVE  /\ taken \in Nat /\ Len(sent) \in Nat /\ taken <= Len(sent)
           /\ registered \in Nat /\ registered <= taken
           /\ \A h \in heard : h.message \in Nat
BY LenProperties DEF CInv, TIInv, TransportTypeOK, ConversationTypeOK, HeardInv

\* Nothing is heard outside of the task, and no message is taken while it runs.
LEMMA HeardStays ==
    ASSUME CInv, UNCHANGED <<heard, registered, command>>,
           intact' => intact, taken' \in Nat, taken <= taken',
           term' = Pending => term = Pending /\ taken' = taken,
           term' = Nothing => term = Nothing,
           sync' = sync \/ (heard = {} /\ term' # Pending),
           \A n \in 1..Len(sent) : sent'[n] = sent[n]
    PROVE  HeardInv'
<1> USE TakenNumbers
<1>1. registered' <= taken' /\ (term' = Nothing => heard' = {})
    BY DEF CInv, HeardInv
<1>2. CASE heard = {} /\ term' # Pending
    BY <1>1, <1>2 DEF HeardInv, NotesHeard
<1>3. CASE sync' = sync
    <2>1. \A n \in 1..Len(sent) : OwnNote(n)' <=> OwnNote(n)
        BY <1>3 DEF OwnNote
    <2>2. ASSUME intact', NEW h \in heard
          PROVE  h.message \in registered + 1..taken' /\ OwnNote(h.message)'
        <3>1. h.message \in registered + 1..taken /\ OwnNote(h.message)
            BY <2>2 DEF CInv, HeardInv, NotesHeard
        <3>2. h.message \in 1..Len(sent) /\ h.message \in registered + 1..taken'
            BY <3>1
        <3>3. PICK k : k = h.message
            OBVIOUS
        <3> QED
            BY <2>1, <3>1, <3>2, <3>3 DEF OwnNote
    <2>3. ASSUME intact', term' = Pending, NEW n \in registered + 1..taken',
                 NEW is \in {"TheoryProgress", "Message", "nodes_status"},
                 OwnNote(n)', DocumentedNote(Payload(sent'[n]), is), Wanted(is)'
          PROVE  {h \in heard : h.message = n} = {[message |-> n, is |-> is]}
        <3>1. n \in registered + 1..taken /\ n \in 1..Len(sent) /\ term = Pending
            BY <2>3
        <3>2. OwnNote(n) /\ DocumentedNote(Payload(sent[n]), is)
            BY <2>1, <2>3, <3>1
        <3>3. Wanted(is)
            BY <2>3 DEF Wanted
        <3> QED
            BY <2>3, <3>1, <3>2, <3>3 DEF CInv, HeardInv, NotesHeard
    <2> QED
        BY <1>1, <2>2, <2>3 DEF HeardInv, NotesHeard
<1> QED
    BY <1>2, <1>3

LEMMA HeardDispatches ==
    ASSUME CInv, Dispatches
    PROVE  HeardInv'
<1> USE TakenNumbers
<1> DEFINE k == taken + 1
           r == outcome'.text
           new == {[message |-> k, is |-> x] : x \in Hears(Payload(r))}
<1>1. /\ UNCHANGED <<registered, command, sent>> /\ outcome'.is = "reply"
      /\ taken' \in {taken, taken + 1} /\ Payload(r) # None
    BY ReceivesFacts DEF Dispatches, CInv, Readable
<1>2. registered' <= taken'
    BY <1>1
<1>3. \/ sync' = sync
      \/ sync = Pending /\ sync' = outcome'
    BY DEF Dispatches
<1>4. \/ UNCHANGED <<term, pending>>
      \/ term' = outcome' /\ term = Pending
    BY DEF Dispatches, Tracked, CInv, Futures
<1>5. outcome' # Pending /\ outcome' # Nothing
    BY <1>1, FutureKinds
<1>6. CASE sync = Pending
    <2>1. term = Nothing /\ pending = None
        BY <1>6, FutureKinds DEF CInv, Futures
    <2>2. heard = {} /\ heard' = heard /\ term' = Nothing
        BY <2>1, FutureKinds DEF CInv, HeardInv, Dispatches, Tracked
    <2> QED
        BY <1>2, <2>2, FutureKinds DEF HeardInv, NotesHeard
<1>7. CASE sync' = sync /\ ~intact'
    <2>1. term' = Nothing => heard' = {}
        <3> SUFFICES ASSUME term' = Nothing PROVE heard' = {}
            OBVIOUS
        <3>1. term = Nothing /\ heard = {} /\ pending = None
            BY <1>4, <1>5, FutureKinds DEF CInv, HeardInv, Futures
        <3> QED
            BY <3>1 DEF Dispatches, Tracked
    <2> QED
        BY <1>2, <1>7, <2>1 DEF HeardInv, NotesHeard
<1>8. CASE sync' = sync /\ intact'
    <2>1. intact /\ taken < Len(sent) /\ taken' = k /\ r = sent[k]
        <3>1. intact /\ taken < Len(sent) /\ taken' = k /\ outcome' = Parsed(sent[k])
            BY <1>8, ReceivesFacts DEF Dispatches, CInv
        <3>2. sent[k] \in Texts
            BY <3>1, NextMessage DEF CInv
        <3> QED
            BY <1>1, <3>1, <3>2, TakenText
    <2>2. heard' = IF Kind(r) = NOTE /\ Tracked(r) THEN heard \cup new ELSE heard
        BY <2>1 DEF Dispatches
    <2>3. Tracked(r) =>
            term = Pending /\ pending = TaskId(sync.text) /\ TaskId(r) = TaskId(sync.text)
        BY DEF Tracked, CInv, Futures
    <2>4. Kind(r) = NOTE /\ Tracked(r) => OwnNote(k)
        BY <1>1, <2>1, <2>3 DEF OwnNote
    <2>5. OwnNote(k) /\ term = Pending => Kind(r) = NOTE /\ Tracked(r)
        BY <2>1 DEF OwnNote, Tracked, CInv, Futures
    <2>6. \A n : OwnNote(n)' <=> OwnNote(n)
        BY <1>1, <1>8 DEF OwnNote
    <2>7. \A h \in heard : h.message \in registered + 1..taken /\ OwnNote(h.message)
        BY <2>1 DEF CInv, HeardInv, NotesHeard
    <2>8. \A h \in new : h.message = k
        OBVIOUS
    <2>9. k \in registered + 1..taken' /\ \A n \in registered + 1..taken : n \in registered + 1..taken' /\ n # k
        BY <2>1
    <2> HIDE DEF k, r, new
    <2>10. \A h \in heard' : h.message \in registered + 1..taken' /\ OwnNote(h.message)'
        <3> SUFFICES ASSUME NEW h \in heard' PROVE h.message \in registered + 1..taken' /\ OwnNote(h.message)'
            OBVIOUS
        <3>1. PICK n : n = h.message
            OBVIOUS
        <3>2. CASE h \in heard
            <4>1. n \in registered + 1..taken' /\ OwnNote(n)
                BY <2>7, <2>9, <3>1, <3>2
            <4> QED
                BY <1>1, <1>8, <3>1, <4>1 DEF OwnNote
        <3>3. CASE h \in new /\ Kind(r) = NOTE /\ Tracked(r)
            <4>1. n = k /\ n \in registered + 1..taken' /\ OwnNote(n)
                BY <2>4, <2>8, <2>9, <3>1, <3>3
            <4> QED
                BY <1>1, <1>8, <3>1, <4>1 DEF OwnNote
        <3> QED
            BY <2>2, <3>2, <3>3
    <2>11. ASSUME term' = Pending, NEW n \in registered + 1..taken',
                  NEW is \in {"TheoryProgress", "Message", "nodes_status"},
                  OwnNote(n), DocumentedNote(Payload(sent[n]), is), Wanted(is)
           PROVE  {h \in heard' : h.message = n} = {[message |-> n, is |-> is]}
        <3>1. term = Pending
            BY <1>4, <1>5, <2>11
        <3>2. CASE n \in registered + 1..taken
            <4>1. {h \in heard : h.message = n} = {[message |-> n, is |-> is]}
                BY <2>1, <2>11, <3>1, <3>2 DEF CInv, HeardInv, NotesHeard
            <4>2. \A h \in new : h.message # n
                BY <2>8, <2>9, <3>2
            <4> QED
                BY <2>2, <4>1, <4>2
        <3>3. CASE n = k
            <4>1. Kind(r) = NOTE /\ Tracked(r)
                BY <2>5, <2>11, <3>1, <3>3
            <4>2. Hears(Payload(r)) = {is}
                BY <2>1, <2>11, <3>3, DocumentedIsHeard
            <4>3. new = {[message |-> n, is |-> is]}
                BY <3>3, <4>2 DEF new
            <4>4. \A h \in heard : h.message # n
                BY <2>7, <2>9, <3>3
            <4>5. heard' = heard \cup {[message |-> n, is |-> is]}
                BY <2>2, <4>1, <4>3
            <4> QED
                BY <4>4, <4>5
        <3>4. n \in registered + 1..taken \/ n = k
            BY <2>1, <2>11 DEF k
        <3> QED
            BY <3>2, <3>3, <3>4
    <2>12. term' = Nothing => heard' = {}
        <3> SUFFICES ASSUME term' = Nothing PROVE heard' = {}
            OBVIOUS
        <3>1. term = Nothing /\ heard = {} /\ ~Tracked(r)
            BY <1>4, <1>5, <2>3, FutureKinds DEF CInv, HeardInv
        <3> QED
            BY <2>2, <3>1
    <2>13. \A is : Wanted(is)' <=> Wanted(is)
        BY <1>1 DEF Wanted
    <2>14. NotesHeard'
        BY <1>1, <2>6, <2>10, <2>11, <2>13 DEF NotesHeard
    <2> QED
        BY <1>2, <2>12, <2>14 DEF HeardInv
<1> QED
    BY <1>3, <1>6, <1>7, <1>8

LEMMA HeardStep ==
    ASSUME CInv, [Next]_vars
    PROVE  HeardInv'
<1> USE TakenNumbers
<1>1. CASE Server
    <2>1. /\ UNCHANGED <<taken, intact, heard, registered, command, sync, term>>
          /\ \A n \in 1..Len(sent) : sent'[n] = sent[n]
        BY <1>1, SentGrows DEF CInv, callVars
    <2>2. taken' \in Nat /\ taken <= taken' /\ (intact' => intact)
        BY <2>1
    <2> QED
        BY <2>1, <2>2, HeardStays
<1>2. CASE Network \/ Awaits \/ Continues \/ Enters \/ Concludes \/ Ends \/ LoopCancelled
           \/ ClosesSocket \/ StopsServer \/ UNCHANGED vars
    <2>1. UNCHANGED <<taken, heard, registered, command, sync, term, sent>>
        BY <1>2 DEF Network, Arrives, GoesDown, Awaits, StartsReceive, Continues, ReadsHeader, Enters,
                    Concludes, Ends, LoopCancelled, ReceiveCancelled, ClosesSocket, StopsServer, vars,
                    conversationVars, callVars, transportVars, wireVars, readVars
    <2>2. intact' => intact
        BY <1>2 DEF Network, Arrives, GoesDown, Awaits, StartsReceive, Continues, ReadsHeader, Enters,
                    Concludes, Ends, LoopCancelled, ReceiveCancelled, ClosesSocket, StopsServer, vars,
                    transportVars, readVars
    <2>3. taken' \in Nat /\ taken <= taken' /\ \A n \in 1..Len(sent) : sent'[n] = sent[n]
        BY <2>1
    <2> QED
        BY <2>1, <2>2, <2>3, HeardStays
<1>3. CASE ShakesHands
    <2>1. UNCHANGED <<heard, registered, command, sync, term, sent>> /\ client = "handshake"
        BY <1>3, ReceivesFacts DEF ShakesHands, callVars, CInv
    <2>2. (intact' => intact) /\ taken' \in Nat /\ taken <= taken'
        BY <1>3, ReceivesFacts DEF ShakesHands, CInv
    <2>3. term # Pending
        <3>1. pc # "term" /\ client # "stopping"
            BY <2>1 DEF CInv, Stages
        <3> QED
            BY <3>1 DEF CInv, Futures
    <2> QED
        BY <2>1, <2>2, <2>3, HeardStays
<1>4. ASSUME NEW m \in Methods, Calls(m) PROVE HeardInv'
    <2>1. heard' = {} /\ term' = Nothing /\ UNCHANGED <<registered, taken>>
        BY <1>4 DEF Calls, transportVars, readVars
    <2> QED
        BY <2>1, FutureKinds DEF HeardInv, NotesHeard
<1>5. CASE Registers
    <2>1. UNCHANGED <<heard, taken, intact>> /\ registered' = taken /\ pc = "sync" /\ term' = Pending
        BY <1>5 DEF Registers, transportVars, readVars
    <2>2. heard' = {}
        BY <2>1 DEF CInv, HeardInv, Futures
    <2>3. registered' <= taken' /\ registered' + 1..taken' = {}
        BY <2>1
    <2> QED
        BY <2>1, <2>2, <2>3, FutureKinds DEF HeardInv, NotesHeard
<1>6. CASE Leaves
    <2>1. UNCHANGED <<taken, heard, registered, command, term, sent, intact>>
        BY <1>6 DEF Leaves, transportVars, wireVars, readVars
    <2>2. taken' \in Nat /\ taken <= taken' /\ (intact' => intact)
          /\ \A n \in 1..Len(sent) : sent'[n] = sent[n]
        BY <2>1
    <2>3. CASE sync' = sync
        BY <2>1, <2>2, <2>3, HeardStays
    <2>4. CASE sync' # sync
        <3>1. pc = "sync"
            BY <1>6, <2>4 DEF Leaves
        <3>2. heard = {} /\ term' # Pending
            BY <2>1, <3>1, FutureKinds DEF CInv, Futures, HeardInv
        <3> QED
            BY <2>1, <3>2, HeardStays
    <2> QED
        BY <2>3, <2>4
<1>7. CASE Crashes \/ Stops
    <2>1. UNCHANGED <<heard, registered, command, sent>>
        BY <1>7, ReceivesFacts DEF Crashes, Stops, transportVars, wireVars, CInv
    <2>2. (intact' => intact) /\ taken' \in Nat /\ taken <= taken'
        BY <1>7, ReceivesFacts DEF Crashes, Stops, transportVars, readVars, CInv
    <2>3. PICK f \in {Raised, CancelledFuture} : SettleAll(f)
        BY <1>7 DEF Crashes, Stops
    <2>4. /\ sync' = (IF sync = Pending THEN f ELSE sync)
          /\ term' = (IF term = Pending THEN f ELSE term) /\ term' # Pending
        BY <2>3, SettleFacts DEF CInv
    <2>5. sync' = sync \/ heard = {}
        BY <2>4, FutureKinds DEF CInv, Futures, HeardInv
    <2>6. term' = Nothing => term = Nothing
        BY <2>4, FutureKinds
    <2> QED
        BY <2>1, <2>2, <2>4, <2>5, <2>6, HeardStays
<1>8. CASE Dispatches
    BY <1>8, HeardDispatches
<1> QED
    BY <1>1, <1>2, <1>3, <1>4, <1>5, <1>6, <1>7, <1>8 DEF Next, Reader, Program, Exit

-----------------------------------------------------------------------------
(* Whole messages *)

\* What is left of a line that a lost connection cuts short is not read.
LEMMA CutIsNotRead ==
    ASSUME TIInv, intact, ReachesEnd, Readable(outcome'), TaskId(outcome'.text) # None
    PROVE  IsSent(outcome'.text)
<1> DEFINE rest == SubSeq(stream, at + 1, arrived)
           size == arrived - at
           t == sent[taken + 1]
           r == outcome'.text
<1>1. reading = "line" /\ LineFeeds = {} /\ outcome' = Parsed(rest)
    <2>1. Raised.is # "reply" /\ outcome'.is = "reply"
        BY DEF Raised, Outcome, Readable
    <2> QED
        BY <2>1 DEF ReachesEnd, Breaks
<1>2. stream \in Seq(Units) /\ Len(stream) \in Nat /\ arrived \in 0..Len(stream) /\ at \in 0..arrived
    BY LenProperties DEF TIInv, TransportTypeOK
<1>3. /\ rest \in Seq(Units) /\ Len(rest) = size /\ size \in Nat
      /\ \A i \in 1..size : rest[i] = stream[at + i]
    <2>1. at + 1 \in Int /\ arrived \in Int /\ arrived - (at + 1) + 1 = size /\ size \in Nat
        BY <1>2
    <2>2. \A i \in at + 1..arrived : i \in 1..Len(stream)
        BY <1>2
    <2>3. \A i \in at + 1..arrived : stream[i] \in Units
        BY <1>2, <2>2, ElementOfSeq
    <2>4. /\ rest \in Seq(Units)
          /\ Len(rest) = IF at + 1 <= arrived THEN size ELSE 0
          /\ \A i \in 1..size : rest[i] = stream[(at + 1) + i - 1]
        BY <2>1, <2>3, SubSeqProperties
    <2>5. \A i \in 1..size : (at + 1) + i - 1 = at + i
        BY <1>2
    <2>6. at + 1 <= arrived \/ size = 0
        BY <1>2
    <2> HIDE DEF rest, size
    <2> QED
        BY <2>1, <2>4, <2>5, <2>6
<1>4. size > 0 /\ rest[1] \in ReplyKind
    <2>1. Parsed(rest).is = "reply"
        BY <1>1 DEF Readable
    <2> HIDE DEF rest, size
    <2> QED
        BY <1>3, <2>1, ParsedType
<1>5. taken < Len(sent) /\ at = Start(taken + 1)
    <2>1. at < Len(stream)
        BY <1>2, <1>4
    <2> QED
        BY <1>1, <2>1, SomethingToRead DEF TIInv, PositionInv
<1>6. t \in Texts /\ taken + 1 \in 1..Len(sent)
    BY <1>5, NextMessage
<1>7. PICK f \in Frames(t) : \A j \in 1..Len(f) : stream[at + j] = f[j]
    BY <1>5, <1>6 DEF TIInv, StreamInv, Lies
<1>8. Len(t) \in Nat \ {0} /\ Len(f) \in Nat \ {0}
    BY <1>6, TextFacts, FrameFacts
<1> HIDE DEF rest, t
<1>9. rest[1] = f[1]
    BY <1>3, <1>4, <1>7, <1>8
<1>10. IsLine(f, t)
    <2>1. rest[1] \notin Nat
        BY <1>4, UnitsAssumption
    <2>2. ~IsLong(f, t)
        BY <1>8, <1>9, <2>1 DEF IsLong
    <2> QED
        BY <1>6, <2>2, FrameFacts
<1>11. Len(f) = Len(t) + 1 /\ f[Len(t) + 1] = NL /\ \A i \in 1..Len(t) : f[i] = t[i]
    BY <1>6, <1>10, WithLineFeed DEF IsLine
<1>12. size <= Len(t)
    <2> SUFFICES ASSUME ~(size <= Len(t)) PROVE FALSE
        OBVIOUS
    <2>1. at + (Len(t) + 1) \in at + 1..arrived
        BY <1>2, <1>8
    <2>2. Len(t) + 1 \in 1..Len(f)
        BY <1>8, <1>11
    <2>3. stream[at + (Len(t) + 1)] = NL
        BY <1>7, <1>11, <2>2
    <2> QED
        BY <1>1, <2>1, <2>3 DEF LineFeeds
<1>13. \A i \in 1..size : rest[i] = t[i]
    <2> SUFFICES ASSUME NEW i \in 1..size PROVE rest[i] = t[i]
        OBVIOUS
    <2>1. i \in 1..Len(t) /\ i \in 1..Len(f)
        BY <1>3, <1>8, <1>11, <1>12
    <2> QED
        BY <1>3, <1>7, <1>11, <2>1
<1> HIDE DEF size
<1>14. PICK n \in 0..size : r = SubSeq(rest, 1, n)
    <2>1. PICK n \in 0..Len(rest) : Stripped(rest) = SubSeq(rest, 1, n)
        BY <1>3, StrippedIsPrefix
    <2>2. r = Stripped(rest)
        BY <1>1 DEF Parsed, Outcome, Raised, Readable
    <2> QED
        BY <1>3, <2>1, <2>2
<1> HIDE DEF r
<1>15. n \in Nat /\ n <= Len(t) /\ n <= size
    BY <1>3, <1>12
<1>16. /\ r \in Seq(Units) /\ Len(r) = n
       /\ SubSeq(t, 1, n) \in Seq(Units) /\ Len(SubSeq(t, 1, n)) = n
       /\ \A i \in 1..n : r[i] = SubSeq(t, 1, n)[i] /\ SubSeq(t, 1, n)[i] = t[i]
    <2>1. 1 \in Int /\ n \in Int /\ n - 1 + 1 = n /\ (1 <= n \/ n = 0)
        BY <1>15
    <2>2. \A i \in 1..n : i \in 1..Len(t) /\ i \in 1..size /\ 1 + i - 1 = i
        BY <1>3, <1>8, <1>12, <1>15
    <2>3. \A i \in 1..n : rest[i] = t[i] /\ t[i] \in Units
        BY <1>6, <1>13, <2>2, TextFacts
    <2>4. /\ r \in Seq(Units) /\ Len(r) = IF 1 <= n THEN n - 1 + 1 ELSE 0
          /\ \A i \in 1..n - 1 + 1 : r[i] = rest[1 + i - 1]
        BY <1>14, <2>1, <2>3, SubSeqProperties
    <2>5. /\ SubSeq(t, 1, n) \in Seq(Units)
          /\ Len(SubSeq(t, 1, n)) = IF 1 <= n THEN n - 1 + 1 ELSE 0
          /\ \A i \in 1..n - 1 + 1 : SubSeq(t, 1, n)[i] = t[1 + i - 1]
        BY <2>1, <2>3, SubSeqProperties
    <2> QED
        BY <2>1, <2>2, <2>3, <2>4, <2>5
<1>17. r = SubSeq(t, 1, n)
    BY <1>16, SeqEqual
<1>18. n # 0
    <2>1. r # << >>
        BY <1>1, <1>3, ParsedType DEF Readable, r
    <2> QED
        BY <1>16, <2>1, EmptySeq
<1>19. n # 1
    <2> SUFFICES ASSUME n = 1 PROVE FALSE
        OBVIOUS
    <2>1. Payload(r) = [k \in {} |-> None]
        BY <1>16 DEF Payload
    <2>2. TaskId(r) = None
        BY <2>1 DEF TaskId, Get
    <2> QED
        BY <2>2 DEF r
<1>20. n = Len(t)
    <2> SUFFICES ASSUME n # Len(t) PROVE FALSE
        OBVIOUS
    <2>1. n \in 2..Len(t) - 1
        BY <1>8, <1>15, <1>18, <1>19
    <2>2. Json(Tail(SubSeq(t, 1, n))) = None
        BY <1>6, <2>1, JsonAssumption
    <2>3. Payload(r) = None
        BY <1>16, <1>17, <1>19, <2>2 DEF Payload
    <2> QED
        BY <2>3 DEF Readable, r
<1>21. r = t
    <2>1. t \in Seq(Units)
        BY <1>6, TextFacts
    <2> QED
        BY <1>16, <1>20, <2>1, SeqEqual
<1>22. taken + 1 \in DOMAIN sent
    BY <1>6, LenProperties DEF TIInv, TransportTypeOK
<1> QED
    BY <1>21, <1>22 DEF IsSent, r, t

\* What has a task and is read is a message that the server has sent.
LEMMA ReplyIsWhole ==
    ASSUME TIInv, InStep, Receives, Readable(outcome'), TaskId(outcome'.text) # None
    PROVE  IsSent(outcome'.text)
<1>1. Raised.is # "reply" /\ outcome'.is = "reply"
    BY DEF Raised, Outcome, Readable
<1>2. CASE RefusesBody \/ OverrunsLine \/ MeetsReset
    BY <1>1, <1>2 DEF RefusesBody, OverrunsLine, MeetsReset, Breaks
<1>3. CASE intact /\ (ReadsLine \/ ReadsBody)
    <2>1. taken < Len(sent) /\ outcome' = Parsed(sent[taken + 1])
        BY <1>3, LineIsMessage, BodyIsMessage
    <2>2. sent[taken + 1] \in Texts /\ taken + 1 \in DOMAIN sent
        BY <2>1, NextMessage, LenProperties DEF TIInv, TransportTypeOK
    <2>3. outcome'.text = sent[taken + 1]
        BY <1>1, <2>1, <2>2, TakenText
    <2> QED
        BY <2>2, <2>3 DEF IsSent
<1>4. CASE intact /\ ReachesEnd
    BY <1>4, CutIsNotRead
<1>5. CASE ~intact /\ (ReadsLine \/ ReadsBody \/ ReachesEnd)
    <2>1. link \in {"up", "ended", "reset"} /\ stream \in Seq(Units) /\ at \in Nat /\ length \in Nat
        BY LinkAssumption, LenProperties DEF TIInv, TransportTypeOK
    <2>2. link = "ended" /\ at = arrived
        BY <1>5, <2>1 DEF InStep, ReadsLine, ReadsBody, ReachesEnd
    <2>3. LineFeeds = {}
        BY <2>1, <2>2 DEF LineFeeds
    <2>4. \A m \in Nat : m = at => SubSeq(stream, at + 1, m) = << >>
        <3> SUFFICES ASSUME NEW m \in Nat, m = at PROVE SubSeq(stream, at + 1, m) = << >>
            OBVIOUS
        <3>1. at + 1 \in Int /\ m \in Int /\ ~(at + 1 <= m) /\ \A i \in at + 1..m : stream[i] \in Units
            BY <2>1
        <3>2. SubSeq(stream, at + 1, m) \in Seq(Units) /\ Len(SubSeq(stream, at + 1, m)) = 0
            BY <3>1, SubSeqProperties
        <3> QED
            BY <3>2, EmptySeq
    <2>5. CASE ReadsBody
        <3>1. length = 0 /\ at + length \in Nat /\ at + length = at
            BY <2>1, <2>2, <2>5 DEF ReadsBody, BodyArrived
        <3>2. outcome' = Parsed(<< >>)
            BY <2>4, <2>5, <3>1 DEF ReadsBody, Takes
        <3>3. PICK s \in Seq(Units) : s = << >> /\ Len(s) = 0
            BY EmptySeq
        <3>4. ~(Len(s) > 0)
            BY <3>3
        <3>5. Parsed(s).is # "reply"
            BY <3>4, ParsedType
        <3> QED
            BY <1>1, <3>2, <3>3, <3>5
    <2>6. CASE ReachesEnd
        BY <1>1, <2>1, <2>2, <2>4, <2>6 DEF ReachesEnd, Breaks
    <2> QED
        BY <1>5, <2>3, <2>5, <2>6 DEF ReadsLine
<1> QED
    BY <1>2, <1>3, <1>4, <1>5 DEF Receives

LEMMA WholeStays ==
    ASSUME CInv, UNCHANGED sent, UNCHANGED term, sync' = sync \/ (sync'.is # "reply" /\ term = Nothing)
    PROVE  WholeInv'
BY FutureKinds DEF CInv, WholeInv, IsSent

LEMMA WholeStep ==
    ASSUME CInv, [Next]_vars
    PROVE  WholeInv'
<1>1. CASE Server
    <2>1. /\ UNCHANGED <<sync, term>>
          /\ sent \in Seq(Texts) /\ sent' \in Seq(Texts)
          /\ Len(sent') = Len(sent) + 1 /\ \A n \in 1..Len(sent) : sent'[n] = sent[n]
        BY <1>1, SentGrows, TransportStep, StepInv DEF CInv, TIInv, TransportTypeOK, callVars
    <2>2. DOMAIN sent = 1..Len(sent) /\ DOMAIN sent' = 1..Len(sent) + 1 /\ Len(sent) \in Nat
        BY <2>1, LenProperties
    <2>3. \A text : IsSent(text) => IsSent(text)'
        BY <2>1, <2>2 DEF IsSent
    <2> QED
        BY <2>1, <2>3 DEF CInv, WholeInv
<1>2. CASE Network \/ Awaits \/ Continues \/ Enters \/ Concludes \/ Ends \/ LoopCancelled \/ ClosesSocket
           \/ StopsServer \/ UNCHANGED vars
    <2>1. UNCHANGED <<sent, sync, term>>
        BY <1>2 DEF Network, Arrives, GoesDown, Awaits, StartsReceive, Continues, ReadsHeader, Enters,
                    Concludes, Ends, LoopCancelled, ReceiveCancelled, ClosesSocket, StopsServer, vars,
                    conversationVars, callVars, transportVars, wireVars
    <2> QED
        BY <2>1, WholeStays
<1>3. CASE ShakesHands
    <2>1. UNCHANGED <<sent, sync, term>>
        BY <1>3, ReceivesFacts DEF ShakesHands, callVars, CInv
    <2> QED
        BY <2>1, WholeStays
<1>4. ASSUME NEW m \in Methods, Calls(m) PROVE WholeInv'
    <2>1. sync' = Pending /\ term' = Nothing
        BY <1>4 DEF Calls, Arms
    <2> QED
        BY <2>1, FutureKinds DEF WholeInv
<1>5. CASE Registers
    <2>1. UNCHANGED <<sent, sync>> /\ term' = Pending
        BY <1>5 DEF Registers, transportVars, wireVars
    <2> QED
        BY <2>1, FutureKinds DEF WholeInv, CInv, IsSent
<1>6. CASE Leaves
    <2>1. pc = "sync" => term = Nothing
        BY DEF CInv, Futures
    <2>2. UNCHANGED <<sent, term>>
        BY <1>6 DEF Leaves, transportVars, wireVars
    <2>3. sync' = sync \/ (sync' = CancelledFuture /\ pc = "sync")
        BY <1>6 DEF Leaves
    <2> QED
        BY <2>1, <2>2, <2>3, WholeStays, FutureKinds
<1>7. CASE Crashes \/ Stops
    <2>1. UNCHANGED sent
        BY <1>7, ReceivesFacts DEF Crashes, Stops, transportVars, wireVars, CInv
    <2>2. PICK f \in {Raised, CancelledFuture} : SettleAll(f)
        BY <1>7 DEF Crashes, Stops
    <2>3. /\ sync' = (IF sync = Pending THEN f ELSE sync)
          /\ term' = (IF term = Pending THEN f ELSE term) /\ f.is # "reply"
        BY <2>2, SettleFacts, FutureKinds DEF CInv
    <2>4. sync = Pending => term = Nothing
        BY FutureKinds DEF CInv, Futures
    <2> QED
        BY <2>1, <2>3, <2>4, FutureKinds DEF CInv, WholeInv, IsSent
<1>8. CASE Dispatches
    <2>1. InStep /\ TIInv /\ Receives /\ Readable(outcome') /\ UNCHANGED sent /\ outcome'.is = "reply"
        BY <1>8, ReceivesFacts DEF Dispatches, CInv, StaysInStep, Readable
    <2>2. TaskId(outcome'.text) # None => IsSent(outcome'.text)
        BY <2>1, ReplyIsWhole
    <2>3. \A text : IsSent(text)' <=> IsSent(text)
        BY <2>1 DEF IsSent
    <2>4. \/ UNCHANGED sync
          \/ sync = Pending /\ sync' = outcome'
        BY <1>8 DEF Dispatches
    <2>5. \/ UNCHANGED term
          \/ /\ term = Pending /\ term' = outcome' /\ TaskId(outcome'.text) # None
             /\ TaskId(outcome'.text) = TaskId(sync.text)
        BY <1>8 DEF Dispatches, Tracked, CInv, Futures
    <2>6. sync = Pending => term = Nothing
        BY FutureKinds DEF CInv, Futures
    <2> QED
        BY <2>2, <2>3, <2>4, <2>5, <2>6, FutureKinds DEF CInv, WholeInv
<1> QED
    BY <1>1, <1>2, <1>3, <1>4, <1>5, <1>6, <1>7, <1>8 DEF Next, Reader, Program, Exit

-----------------------------------------------------------------------------
(* The replies that are owed *)

\* What the server writes is unread; it is owed if it is an immediate reply.
LEMMA ServerOwes ==
    ASSUME CInv, Server, UNCHANGED <<taken>>
    PROVE  Unread' = Unread \cup {n \in {Len(sent) + 1} : Kind(sent'[n]) \in {OK, ERROR}}
<1>1. Len(sent) \in Nat /\ taken \in 0..Len(sent)
    BY LenProperties DEF CInv, TIInv, TransportTypeOK
<1>2. Len(sent') = Len(sent) + 1 /\ \A n \in 1..Len(sent) : sent'[n] = sent[n]
    BY SentGrows DEF CInv
<1>3. taken + 1..Len(sent) + 1 = (taken + 1..Len(sent)) \cup {Len(sent) + 1}
    BY <1>1
<1>4. \A n \in taken + 1..Len(sent) : n \in 1..Len(sent) /\ sent'[n] = sent[n]
    BY <1>1, <1>2
<1>5. \A n : Kind(sent[n])' \in {OK, ERROR} <=> Kind(sent'[n]) \in {OK, ERROR}
    BY DEF Kind
<1> DEFINE L == Len(sent) + 1
<1>6. Unread' = {n \in taken + 1..L : Kind(sent'[n]) \in {OK, ERROR}}
    BY <1>2, <1>5 DEF Unread
<1>7. \A n \in taken + 1..Len(sent) : Kind(sent'[n]) \in {OK, ERROR} <=> Kind(sent[n]) \in {OK, ERROR}
    BY <1>4
<1> QED
    BY <1>3, <1>6, <1>7 DEF Unread

\* A step that leaves the replies and the command alone owes what was owed.
LEMMA OwedStays ==
    ASSUME CInv, UNCHANGED <<taken, sent, requests, made, command, jobs>>, intact' => intact,
           link' = "up" => link = "up",
           client' \in {"connected", "entered"} /\ loop' # "crashed" =>
                /\ client \in {"connected", "entered"} /\ loop # "crashed"
                /\ pc' = "sync" /\ sync' = Pending <=> pc = "sync" /\ sync = Pending
    PROVE  Owed'
<1>1. Unread' = Unread
    BY DEF Unread, Kind
<1> QED
    BY <1>1 DEF CInv, Owed, OneReplyOwed

LEMMA OwedServer ==
    ASSUME CInv, Server
    PROVE  Owed'
<1>1. /\ UNCHANGED <<taken, link, intact, client, loop, pc, made, command, sync>>
      /\ Len(sent') = Len(sent) + 1
    BY SentGrows DEF CInv, callVars
<1>2. Len(sent) \in Nat /\ taken \in 0..Len(sent) /\ sent \in Seq(Texts)
    BY LenProperties DEF CInv, TIInv, TransportTypeOK
<1>3. CASE Greets
    <2>1. sent = << >> /\ UNCHANGED <<requests, jobs>>
        BY <1>3 DEF Greets, conversationVars, serverVars
    <2>2. Len(sent') <= 1
        BY <1>1, <2>1, EmptySeq
    <2>3. client \in {"handshake", "refused", "failed"}
        BY <2>1 DEF CInv, Accepted
    <2> QED
        BY <1>1, <2>1, <2>2, <2>3 DEF CInv, Owed, OneReplyOwed
<1>4. CASE Serves
    <2> DEFINE L == Len(sent) + 1
    <2>1. /\ requests # << >> /\ requests' = Tail(requests)
          /\ Head(requests).method \in Methods /\ Head(requests).call \in 1..MaxCalls
        BY <1>4, ServerTexts DEF Serves, CInv
    <2>2. PICK t \in Answers(Head(requests).method, Head(requests).call) : Sends(t)
        BY <1>4 DEF Serves
    <2>3. t[1] \in {OK, ERROR}
        BY <2>1, <2>2, KindsAssumption
    <2>4. sent'[L] = t
        BY <1>2, <2>2, AppendProperties DEF Sends
    <2>5. Kind(sent'[L]) \in {OK, ERROR}
        BY <2>3, <2>4 DEF Kind
    <2>6. Unread' = Unread \cup {L}
        BY <1>1, <2>5, ServerOwes
    <2>7. made # 0
        BY <2>1 DEF CInv, Owed
    <2>8. ASSUME NEW r, requests = <<r>> PROVE Tail(requests) = << >>
        BY <2>8
    <2> HIDE DEF L
    <2> QED
        BY <1>1, <2>1, <2>6, <2>7, <2>8 DEF CInv, Owed, OneReplyOwed
<1>5. CASE Notes \/ Finishes
    <2> DEFINE L == Len(sent) + 1
    <2>1. PICK j \in jobs : \E t \in Notices(j.method, j.call) \cup Results(j.method, j.call) : Sends(t)
        BY <1>5 DEF Notes, Finishes
    <2>2. PICK t \in Notices(j.method, j.call) \cup Results(j.method, j.call) : Sends(t)
        BY <2>1
    <2>3. j.method \in Methods /\ j.call \in 1..MaxCalls
        BY DEF CInv, ConversationTypeOK
    <2>4. t[1] \notin {OK, ERROR}
        BY <2>2, <2>3, KindsAssumption
    <2>5. sent'[L] = t
        BY <1>2, <2>2, AppendProperties DEF Sends
    <2>6. Kind(sent'[L]) \notin {OK, ERROR}
        BY <2>4, <2>5 DEF Kind
    <2>7. Unread' = Unread
        BY <1>1, <2>6, ServerOwes
    <2>8. UNCHANGED requests /\ made # 0
        BY <1>5, <2>1 DEF Notes, Finishes, CInv, Owed
    <2> QED
        BY <1>1, <2>7, <2>8 DEF CInv, Owed, OneReplyOwed
<1> QED
    BY <1>3, <1>4, <1>5 DEF Server

\* A reply that is routed is the one that is owed.
LEMMA OwedDispatches ==
    ASSUME CInv, Dispatches
    PROVE  Owed'
<1> DEFINE k == taken + 1
           r == outcome'.text
<1>1. /\ UNCHANGED <<sent, requests, jobs, made, command, client, loop, pc, link>>
      /\ outcome'.is = "reply" /\ loop = "running"
    BY ReceivesFacts DEF Dispatches, CInv, Readable, clientVars, serverVars
<1>2. CASE ~intact'
    BY <1>1, <1>2 DEF CInv, Owed, OneReplyOwed
<1>3. CASE intact'
    <2>1. intact /\ taken < Len(sent) /\ taken' = k /\ r = sent[k] /\ taken \in Nat /\ Len(sent) \in Nat
        <3>1. intact /\ taken < Len(sent) /\ taken' = k /\ outcome' = Parsed(sent[k])
            BY <1>3, ReceivesFacts DEF Dispatches, CInv
        <3>2. sent[k] \in Texts
            BY <3>1, NextMessage DEF CInv
        <3>3. taken \in Nat /\ Len(sent) \in Nat
            BY LenProperties DEF CInv, TIInv, TransportTypeOK
        <3> QED
            BY <1>1, <3>1, <3>2, <3>3, TakenText
    <2>2. Unread' = Unread \ {k}
        <3>1. taken' + 1..Len(sent) = (taken + 1..Len(sent)) \ {k}
            BY <2>1
        <3>2. \A n : Kind(sent[n])' \in {OK, ERROR} <=> Kind(sent[n]) \in {OK, ERROR}
            BY <1>1 DEF Kind
        <3> QED
            BY <1>1, <3>1, <3>2 DEF Unread
    <2>3. k \in Unread <=> Kind(r) \in {OK, ERROR}
        BY <2>1 DEF Unread
    <2>4. outcome' # Pending
        BY <1>1, FutureKinds
    <2>5. CASE Kind(r) \in {OK, ERROR}
        <3>1. sync = Pending => sync' = outcome'
            BY <2>5 DEF Dispatches, IsImmediate, CInv, Futures
        <3>2. \A n : Unread = {n} => Unread' = {}
            BY <2>2, <2>3, <2>5
        <3> HIDE DEF k, r
        <3>3. Unread # {}
            BY <2>3, <2>5
        <3> QED
            BY <1>1, <2>1, <2>4, <3>1, <3>2, <3>3 DEF CInv, Owed, OneReplyOwed
    <2>6. CASE Kind(r) \notin {OK, ERROR}
        <3>1. sync' = sync
            BY <2>6 DEF Dispatches, IsImmediate
        <3>2. Unread' = Unread
            BY <2>2, <2>3, <2>6
        <3> HIDE DEF k, r
        <3> QED
            BY <1>1, <2>1, <3>1, <3>2 DEF CInv, Owed, OneReplyOwed
    <2> QED
        BY <2>5, <2>6
<1> QED
    BY <1>2, <1>3

LEMMA OwedStep ==
    ASSUME CInv, [Next]_vars
    PROVE  Owed'
<1>1. CASE Server
    BY <1>1, OwedServer
<1>2. CASE Network \/ Awaits \/ Continues \/ Enters \/ Concludes \/ Registers \/ Ends \/ UNCHANGED vars
    <2>1. /\ UNCHANGED <<taken, sent, requests, made, command, jobs>>
          /\ (intact' => intact) /\ (link' = "up" => link = "up")
        BY <1>2 DEF Network, Arrives, GoesDown, Awaits, StartsReceive, Continues, ReadsHeader, Enters,
                    Concludes, Registers, Ends, vars, conversationVars, callVars, serverVars,
                    transportVars, wireVars, readVars
    <2>2. \/ UNCHANGED <<client, loop>>
          \/ client = "connected" /\ client' = "entered" /\ loop = "none"
        BY <1>2 DEF Network, Awaits, Continues, Enters, Concludes, Registers, Ends, vars,
                    conversationVars, clientVars, CInv, Stages
    <2>3. \/ UNCHANGED <<pc, sync>>
          \/ pc' # "sync" /\ (pc # "sync" \/ sync.is # "pending")
        BY <1>2 DEF Network, Awaits, Continues, Enters, Concludes, Registers, Ends, vars,
                    conversationVars, callVars, Settled, HasTask
    <2>4. pc' = "sync" /\ sync' = Pending <=> pc = "sync" /\ sync = Pending
        BY <2>3, FutureKinds
    <2> QED
        BY <2>1, <2>2, <2>4, OwedStays
<1>3. CASE ShakesHands
    <2>1. client = "handshake" /\ UNCHANGED <<sent, made, pc, requests, jobs>> /\ taken = 0 /\ made = 0
        BY <1>3, ReceivesFacts DEF ShakesHands, callVars, serverVars, CInv, Accepted, Stages
    <2>2. Len(sent) <= 1 /\ requests = << >> /\ jobs = {} /\ pc = "idle"
        BY <2>1 DEF CInv, Owed, Stages
    <2>3. intact' => taken' = 1
        BY <1>3, <2>1, ReceivesFacts DEF ShakesHands, CInv
    <2>4. intact' => Unread' = {}
        <3>1. Len(sent) \in Nat
            BY LenProperties DEF CInv, TIInv, TransportTypeOK
        <3> QED
            BY <2>1, <2>2, <2>3, <3>1 DEF Unread
    <2> QED
        BY <2>1, <2>2, <2>4 DEF Owed, OneReplyOwed
<1>4. ASSUME NEW m \in Methods, Calls(m) PROVE Owed'
    <2>1. /\ UNCHANGED <<taken, sent, intact, link, client, loop, jobs>>
          /\ pc = "idle" /\ made' = made + 1 /\ command'.method = m
        BY <1>4 DEF Calls, transportVars, wireVars, readVars, clientVars
    <2>2. made' # 0
        BY <2>1 DEF CInv, ConversationTypeOK
    <2>3. Unread' = Unread
        BY <2>1 DEF Unread, Kind
    <2>4. link = "up" =>
            /\ pc' = "sync" /\ sync' = Pending
            /\ requests' = Append(requests, [call |-> made', method |-> m])
        BY <1>4 DEF Calls, Arms
    <2>5. requests = << >> /\ link = "up" => requests' = <<[call |-> made', method |-> command'.method]>>
        BY <2>1, <2>4
    <2> QED
        BY <2>1, <2>2, <2>3, <2>4, <2>5 DEF CInv, Owed, OneReplyOwed
<1>5. CASE Crashes \/ Leaves \/ Exit
    <2>1. client' \notin {"connected", "entered"} \/ loop' = "crashed"
        BY <1>5 DEF Crashes, LoopEnds, Leaves, Exit, LoopCancelled, Stops, ClosesSocket, StopsServer
    <2>2. UNCHANGED <<made, jobs, requests, sent>>
        BY <1>5, ReceivesFacts DEF Crashes, Leaves, Exit, LoopCancelled, ReceiveCancelled, Stops,
                ClosesSocket, StopsServer, callVars, serverVars, transportVars, wireVars, CInv
    <2> QED
        BY <2>1, <2>2 DEF CInv, Owed, OneReplyOwed
<1>6. CASE Dispatches
    BY <1>6, OwedDispatches
<1> QED
    BY <1>1, <1>2, <1>3, <1>4, <1>5, <1>6 DEF Next, Reader, Program, Exit

-----------------------------------------------------------------------------
(* The theorems *)

LEMMA InitCInv == Init => CInv
<1> SUFFICES ASSUME Init PROVE CInv
    OBVIOUS
<1>1. TIInv
    BY InitInv DEF Init
<1>2. made = 0 /\ notes = 0 /\ 0 \in 0..MaxCalls /\ 0 \in 0..MaxTraffic /\ taken = 0 /\ intact = TRUE
    BY CallsAssumption DEF Init, TransportInit
<1>3. ConversationTypeOK
    BY <1>2, OwnsAssumption, FutureKinds, EmptySeq DEF Init, ConversationTypeOK, NoCommand
<1>4. Stages /\ Futures
    BY FutureKinds DEF Init, TransportInit, Stages, Futures
<1>5. Accepted /\ StaysInStep
    BY <1>2 DEF Init, Accepted, StaysInStep, InStep
<1>6. HeardInv
    BY <1>2, FutureKinds DEF Init, HeardInv, NotesHeard
<1>7. ArgsArrive /\ DocumentedResultsDecode
    BY FutureKinds DEF Init, ArgsArrive, DocumentedResultsDecode, NoCommand
<1>8. Owed
    BY EmptySeq DEF Init, TransportInit, Owed, OneReplyOwed
<1>9. WholeInv
    BY FutureKinds DEF Init, WholeInv
<1> QED
    BY <1>1, <1>3, <1>4, <1>5, <1>6, <1>7, <1>8, <1>9 DEF CInv

LEMMA StepCInv == CInv /\ [Next]_vars => CInv'
<1> SUFFICES ASSUME CInv, [Next]_vars PROVE CInv'
    OBVIOUS
<1>1. TIInv'
    BY TransportStep, StepInv DEF CInv
<1>2. ConversationTypeOK'
    BY <1>1, TypeStep DEF TIInv
<1> QED
    BY <1>1, <1>2, StagesStep, FuturesStep, AcceptedStep, InStepStep, HeardStep,
       WholeStep, OwedStep, ArgsStep, DecodeStep
    DEF CInv

\* The invariant holds in every state.
THEOREM ConversationInductive == Spec => []CInv
<1>1. Init => CInv
    BY InitCInv
<1>2. CInv /\ [Next]_vars => CInv'
    BY StepCInv
<1> QED
    BY <1>1, <1>2, PTL DEF Spec

\* Whatever the server and the program do, the dispatcher and the handshake use the
\* connection as Transport allows, so that what is proved of Transport holds.
THEOREM ConversationUsesTransport == Spec => TransportSpec
<1>1. Init => TransportInit
    BY DEF Init
<1>2. CInv /\ [Next]_vars => [TransportNext]_transportVars
    BY TransportStep DEF CInv
<1> QED
    BY <1>1, <1>2, ConversationInductive, PTL DEF Spec, TransportSpec

\* Whenever a command is awaited, it is on the future of the stage it has reached.
THEOREM ConversationTypeCorrect == Spec => []ConversationTypeOK
<1>1. CInv => ConversationTypeOK
    BY DEF CInv
<1> QED
    BY <1>1, ConversationInductive, PTL

\* The reader loop ends at the first message it cannot read, or with the connection.
THEOREM NoFragmentIsRead == Spec => []ReadsNoFragments
<1>1. CInv => ReadsNoFragments
    BY DEF CInv, StaysInStep, InStep, ReadsNoFragments
<1> QED
    BY <1>1, ConversationInductive, PTL

\* No command of RawCommands is written before the server accepted the password.
THEOREM NoCommandBeforeOK == Spec => []CommandsAfterOK
<1>1. CInv => CommandsAfterOK
    <2> SUFFICES ASSUME CInv, made > 0 PROVE sent # << >> /\ Kind(sent[1]) = OK
        BY DEF CommandsAfterOK
    <2>1. client \notin {"handshake", "refused", "failed"}
        BY DEF CInv, Stages
    <2> QED
        BY <2>1 DEF CInv, Accepted
<1> QED
    BY <1>1, ConversationInductive, PTL

\* The reply that a sole caller awaits is the only one that can come: none is shifted
\* to a later command, though nothing on the wire says whose it is.
THEOREM RepliesAreNotShifted == Spec => []OneReplyOwed
<1>1. CInv => OneReplyOwed
    BY DEF CInv, Owed
<1> QED
    BY <1>1, ConversationInductive, PTL

\* __aexit__ leaves no reader, no socket, no server and no future that is awaited.
THEOREM NothingIsLeft == Spec => []LeftIsQuiet
<1>1. CInv => LeftIsQuiet
    <2> SUFFICES ASSUME CInv, client = "left"
                 PROVE  /\ loop # "running" /\ reading = "no" /\ socket = "closed" /\ ~owned
                        /\ pc = "idle" /\ pending = None /\ sync # Pending /\ term # Pending
        BY DEF LeftIsQuiet
    <2>1. loop \in {"crashed", "cancelled"}
        BY DEF CInv, Stages, ConversationTypeOK
    <2> QED
        BY <2>1 DEF CInv, Stages, Futures
<1> QED
    BY <1>1, ConversationInductive, PTL

\* The callbacks of a task are given each of its documented NOTEs once, as what it is.
THEOREM EachNoteIsHeard == Spec => []NotesHeard
<1>1. CInv => NotesHeard
    BY DEF CInv, HeardInv
<1> QED
    BY <1>1, ConversationInductive, PTL

\* The reply that makes a task and the one that ends it are messages of the server, and
\* of one task, although receive() returns a line that a lost connection cuts short.
THEOREM TasksGetWholeMessages == Spec => []TasksAreWhole
<1>1. CInv => TasksAreWhole
    BY DEF CInv, WholeInv, TasksAreWhole, ConversationTypeOK, HasTask
<1> QED
    BY <1>1, ConversationInductive, PTL

\* A to_dict leaves out no argument whose absence the server takes for another one.
THEOREM ArgumentsArrive == Spec => []ArgsArrive
<1>1. CInv => ArgsArrive
    BY DEF CInv
<1> QED
    BY <1>1, ConversationInductive, PTL

\* No from_dict raises KeyError on a result as the documentation describes it.
THEOREM ResultsDecode == Spec => []DocumentedResultsDecode
<1>1. CInv => DocumentedResultsDecode
    BY DEF CInv
<1> QED
    BY <1>1, ConversationInductive, PTL

=============================================================================
