--------------------------- MODULE SessionLifecycle ---------------------------
(***************************************************************************)
(* What an IsabelleSession promises of the things it holds: they are taken   *)
(* one on top of the other, commands travel while the session stands, and    *)
(* they are given back from the top, after session_stop has returned.        *)
(***************************************************************************)
CONSTANTS
    Opening,    \* session_start
    Requests,   \* the commands of the user
    Stops       \* session_stop

VARIABLES
    held,    \* of "server", "socket", "reader" and "session" those that are held
    sent     \* the commands that have been sent

vars == <<held, sent>>

Stopping == sent \cap Stops # {}

Init == held = {} /\ sent = {}

-----------------------------------------------------------------------------
Take(r) == sent = {} /\ held' = held \cup {r} /\ UNCHANGED sent

TakeServer == held = {} /\ Take("server")
TakeSocket == held \subseteq {"server"} /\ Take("socket")
TakeReader == "socket" \in held /\ "reader" \notin held /\ Take("reader")

\* The server does not accept the password.
Refused ==
    /\ sent = {} /\ "reader" \notin held
    /\ held' = held \ {"socket"}
    /\ UNCHANGED sent

SendStart ==
    /\ sent = {} /\ "socket" \in held
    /\ sent' = {Opening}
    /\ UNCHANGED held

SessionStarted ==
    /\ sent = {Opening}
    /\ held' = held \cup {"session"}
    /\ UNCHANGED sent

\* A command is sent once, on a session that stands and is not being stopped.
Send(c) ==
    /\ "session" \in held /\ ~Stopping /\ c \notin sent
    /\ sent' = sent \cup {c}
    /\ UNCHANGED held

SessionEnded ==
    /\ Stopping /\ "session" \in held
    /\ held' = held \ {"session"}
    /\ UNCHANGED sent

\* It is stopped, or ends with its connection at any time, and is not replaced.
ReaderEnds ==
    /\ held' = held \ {"reader"}
    /\ UNCHANGED sent

\* The server is told to stop after the socket is closed, or not at all.
Leave ==
    /\ Stopping /\ held \cap {"session", "reader"} = {}
    /\ held' \in {held \ {"socket"}, held \ {"socket", "server"}}
    /\ UNCHANGED sent

Next ==
    \/ TakeServer \/ TakeSocket \/ TakeReader \/ Refused
    \/ SendStart \/ SessionStarted
    \/ \E c \in Requests \cup Stops : Send(c)
    \/ SessionEnded \/ ReaderEnds \/ Leave

Spec == Init /\ [][Next]_vars

=============================================================================
