----------------------------- MODULE MessageStream -----------------------------
(***************************************************************************)
(* What Transport.receive() promises: the messages of the server are a queue, *)
(* however they are framed and in whatever pieces they arrive.               *)
(***************************************************************************)
EXTENDS Naturals, Sequences

CONSTANTS
    Texts,           \* the messages the server may send
    Parsed(_),       \* what receive() makes of a message
    OverLimit(_)     \* the messages that it may refuse

VARIABLES
    queue,     \* the messages that were sent and not yet received
    outcome,   \* what the last receive() returned or raised
    intact,    \* the promise still holds
    up         \* the connection stands

vars == <<queue, outcome, intact, up>>

Init == queue = << >> /\ outcome.is = "nothing" /\ intact = TRUE /\ up = TRUE

Send(t) == up /\ queue' = Append(queue, t) /\ UNCHANGED <<outcome, intact, up>>

\* A message is received, whole.
Receive ==
    /\ intact /\ queue # << >>
    /\ outcome' = Parsed(Head(queue))
    /\ queue' = Tail(queue)
    /\ UNCHANGED <<intact, up>>

\* The promise ends: on a standing connection at a message over the limits, which is
\* refused, or with a receive() that is cancelled, which has no outcome.
Break ==
    /\ intact /\ intact' = FALSE
    /\ \/ ~up
       \/ queue # << >> /\ OverLimit(Head(queue)) /\ outcome'.is = "raised"
       \/ outcome' = outcome
    /\ UNCHANGED <<queue, up>>

Afterwards == ~intact /\ UNCHANGED <<queue, intact, up>>

GoDown == up /\ up' = FALSE /\ UNCHANGED <<queue, outcome, intact>>

Next == (\E t \in Texts : Send(t)) \/ Receive \/ Break \/ Afterwards \/ GoDown

Spec == Init /\ [][Next]_vars

=============================================================================
