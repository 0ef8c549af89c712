--------------------------- MODULE IndependentCalls ---------------------------
(***************************************************************************)
(* What run_sync and run_async promise their callers, with the multiplexer *)
(* left out: each call is a conversation of its own.  A call is issued,    *)
(* gets at most one immediate reply and, if that one accepts a task, at     *)
(* most one terminal reply of that task, and ends once, in the way its own  *)
(* replies, a timeout, a cancellation or a lost connection say.  There is   *)
(* no lock, no registry, no reader and no stream here.                      *)
(*                                                                         *)
(* The code matches immediate replies by position, so a reply answers the   *)
(* call's own command only while nobody has left before its immediate       *)
(* reply: "lost" says that somebody has.                                    *)
(***************************************************************************)
CONSTANTS
    SyncCalls, AsyncCalls, Timed,   \* as in module Dispatcher
    NoCall,                         \* no call, no task id
    NoAnswer                        \* the call has not been given anything yet

VARIABLES
    stage,        \* "idle", "issued", "accepted", or how the call ended
    immediate,    \* what each call was given as its immediate reply
    terminal,     \* what each call was given as the end of its task
    lost          \* some call left before the immediate reply to its command

vars == <<stage, immediate, terminal, lost>>

Everyone == SyncCalls \cup AsyncCalls

\* Replies of some kinds; "command" is the call that a reply really answers.
Replies(kinds) ==
    [kind : kinds, task : Everyone \cup {NoCall}, command : Everyone \cup {NoCall}]
Answer(r) == [state |-> "result", reply |-> r]
Broken == {"exception", "cancelled"}

\* The immediate reply has accepted a task.
HasTask(c) ==
    /\ c \in AsyncCalls /\ immediate[c].state = "result"
    /\ immediate[c].reply.kind = "OK" /\ immediate[c].reply.task # NoCall

Init ==
    /\ stage = [c \in Everyone |-> "idle"]
    /\ immediate = [c \in Everyone |-> NoAnswer]
    /\ terminal = [c \in Everyone |-> NoAnswer]
    /\ lost = FALSE

Goes(c, place) == stage' = [stage EXCEPT ![c] = place]

Issues(c) ==
    /\ stage[c] = "idle" /\ Goes(c, "issued")
    /\ UNCHANGED <<immediate, terminal, lost>>

\* A reply is given once, to a call that has been issued; one that comes after
\* its caller has left can put the matching right again.
Answers(c) ==
    /\ stage[c] # "idle" /\ immediate[c] = NoAnswer
    /\ UNCHANGED <<stage, terminal>>
    /\ \E r \in Replies({"OK", "ERROR"}) :
          /\ ~lost' => r.command = c
          /\ immediate' = [immediate EXCEPT ![c] = Answer(r)]
    /\ lost' \in {lost, FALSE}

\* Only the task that the call was told about ends for it.
TaskEnds(c) ==
    /\ HasTask(c) /\ stage[c] # "issued" /\ terminal[c] = NoAnswer
    /\ \E r \in Replies({"FINISHED", "FAILED", "INTERRUPT"}) :
          /\ r.task = immediate[c].reply.task
          /\ ~lost => r.command = c
          /\ terminal' = [terminal EXCEPT ![c] = Answer(r)]
    /\ UNCHANGED <<stage, immediate, lost>>

\* The whole connection breaks, or is stopped, for the calls that wait.
Breaks ==
    /\ UNCHANGED stage
    /\ \E outcome \in Broken, callers, owners \in SUBSET Everyone :
          /\ \A c \in callers : stage[c] # "idle" /\ immediate[c] = NoAnswer
          /\ \A c \in owners : HasTask(c) /\ terminal[c] = NoAnswer
          /\ immediate' = [c \in Everyone |->
                IF c \in callers THEN [NoAnswer EXCEPT !.state = outcome] ELSE immediate[c]]
          /\ terminal' = [c \in Everyone |->
                IF c \in owners THEN [NoAnswer EXCEPT !.state = outcome] ELSE terminal[c]]
          /\ lost' = (lost \/ callers # {})

Accepts(c) ==
    /\ stage[c] = "issued" /\ HasTask(c) /\ Goes(c, "accepted")
    /\ UNCHANGED <<immediate, terminal, lost>>

\* The ends that an immediate reply, or what came instead of it, leads to.
Concludes(c) ==
    /\ stage[c] = "issued"
    /\ LET a == immediate[c] IN
         \/ a.state = "exception" /\ Goes(c, "reader_error")
         \/ a.state = "cancelled" /\ Goes(c, "cancelled")
         \/ a.state = "result" /\ a.reply.kind = "ERROR" /\ Goes(c, "command_error")
         \/ a.state = "result" /\ a.reply.kind = "OK" /\ ~HasTask(c)
              /\ Goes(c, IF c \in SyncCalls THEN "returned" ELSE "protocol_error")
    /\ UNCHANGED <<immediate, terminal, lost>>

\* The ends that a terminal reply leads to.
Completes(c) ==
    /\ stage[c] = "accepted"
    /\ LET a == terminal[c] IN
         \/ a.state = "exception" /\ Goes(c, "reader_error")
         \/ a.state = "cancelled" /\ Goes(c, "cancelled")
         \/ /\ a.state = "result"
            /\ \/ a.reply.kind = "FINISHED" /\ Goes(c, "returned")
               \/ a.reply.kind = "INTERRUPT" /\ Goes(c, "task_cancelled")
               \/ a.reply.kind = "FAILED" /\ Goes(c, "command_error")
    /\ UNCHANGED <<immediate, terminal, lost>>

TimesOut(c) ==
    /\ c \in Timed /\ stage[c] = "accepted" /\ Goes(c, "timeout")
    /\ UNCHANGED <<immediate, terminal, lost>>

\* The command cannot be written, or the caller is cancelled: the call may leave
\* before its reply, and nobody else is given anything by it.
Leaves(c) ==
    /\ \/ stage[c] \in {"idle", "issued"} /\ Goes(c, "connection_error")
       \/ stage[c] \in {"issued", "accepted"} /\ Goes(c, "cancelled")
    /\ immediate' \in {immediate, [immediate EXCEPT ![c] = [NoAnswer EXCEPT !.state = "cancelled"]]}
    /\ IF immediate[c] = NoAnswer THEN lost => lost' ELSE UNCHANGED <<immediate, lost>>
    /\ UNCHANGED terminal

Next ==
    \/ Breaks
    \/ \E c \in Everyone :
          \/ Issues(c) \/ Answers(c) \/ TaskEnds(c) \/ Accepts(c) \/ Concludes(c)
          \/ Completes(c) \/ TimesOut(c) \/ Leaves(c)

Spec == Init /\ [][Next]_vars

=============================================================================
