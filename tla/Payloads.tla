------------------------------- MODULE Payloads -------------------------------
(***************************************************************************)
(* The payloads of the commands and replies: the dataclasses of raw/types.py  *)
(* and the handlers of session/callbacks.py that tell NOTE payloads apart.     *)
(*                                                                         *)
(* A JSON object is a function from its keys.  What from_dict copies is left   *)
(* out: a class is the predicate that its from_dict returns, which fails only   *)
(* on a key that is demanded and missing (KeyError).  A to_dict is the object   *)
(* that is sent, from a record with a field for every field of the dataclass.   *)
(***************************************************************************)
EXTENDS Integers, Sequences

CONSTANT None

Get(d, key, default) == IF key \in DOMAIN d THEN d[key] ELSE default
Elements(d, key) == LET s == Get(d, key, << >>) IN {s[i] : i \in DOMAIN s}

-----------------------------------------------------------------------------
(* from_dict *)

\* Mutant: the optional position is demanded.
MessageWithPos(d) == {"kind", "message", "pos"} \subseteq DOMAIN d

Message(d) == {"kind", "message"} \subseteq DOMAIN d

TheoryProgress(d) == {"message", "theory", "session"} \subseteq DOMAIN d

IsTheoryProgress(d) == {"theory", "session"} \subseteq DOMAIN d

Timing(d) == {"elapsed", "cpu", "gc"} \subseteq DOMAIN d

NodeStatus(d) ==
    {"ok", "total", "unprocessed", "running", "warned", "failed", "finished",
     "canceled", "consolidated", "percentage"} \subseteq DOMAIN d

Node(d) == {"node_name", "theory_name"} \subseteq DOMAIN d

NodeWithStatus(d) == Node(d) /\ "status" \in DOMAIN d /\ NodeStatus(d.status)

SessionBuildResult(d) ==
    {"session", "ok", "return_code", "timing"} \subseteq DOMAIN d /\ Timing(d.timing)

SessionBuildResults(d) ==
    /\ {"ok", "return_code"} \subseteq DOMAIN d
    /\ \A s \in Elements(d, "sessions") : SessionBuildResult(s)

SessionStartResult(d) == {"session_id", "tmp_dir"} \subseteq DOMAIN d

SessionStopResult(d) == {"ok", "return_code"} \subseteq DOMAIN d

Export(d) == {"name", "base64", "body"} \subseteq DOMAIN d

NodeResults(d) ==
    /\ "status" \in DOMAIN d /\ NodeStatus(d.status)
    /\ \A m \in Elements(d, "messages") : Message(m)
    /\ \A e \in Elements(d, "exports") : Export(e)

NodeResultEntry(d) == Node(d) /\ NodeResults(d)

UseTheoriesResults(d) ==
    /\ "ok" \in DOMAIN d
    /\ \A e \in Elements(d, "errors") : Message(e)
    /\ \A n \in Elements(d, "nodes") : NodeResultEntry(n)

\* The result of a command, which for the other commands is any payload.
Decodes(method, d) ==
    /\ method = "session_build" => SessionBuildResults(d)
    /\ method = "session_start" => SessionStartResult(d)
    /\ method = "session_stop" => SessionStopResult(d)
    /\ method = "use_theories" => UseTheoriesResults(d)

-----------------------------------------------------------------------------
(* to_dict *)

Keep(a, keys) == [k \in keys |-> a[k]]

SessionBuildArgs(a) ==
    Keep(a, {"session"}
            \cup {k \in {"preferences"} : a[k] # None}
            \cup {k \in {"options", "dirs", "include_sessions", "print_mode"} : a[k] # << >>}
            \cup {k \in {"verbose"} : a[k]})

\* Mutant: the numbers are tested for their truth.
UseTheoriesTrueArgs(a) ==
    Keep(a, {k \in DOMAIN a : a[k] # None /\ (k = "watchdog_timeout" => a[k] # 0)})

UseTheoriesArgs(a) == Keep(a, {k \in DOMAIN a : a[k] # None})

PurgeTheoriesArgs(a) ==
    Keep(a, {"session_id"}
            \cup {k \in {"theories"} : a[k] # << >>}
            \cup {k \in {"master_dir"} : a[k] # None}
            \cup {k \in {"all"} : a[k]})

-----------------------------------------------------------------------------
(* NOTE handlers: as what a payload is given to the user's callbacks *)

BuildNote(d) ==
    IF IsTheoryProgress(d)
    THEN {x \in {"TheoryProgress"} : TheoryProgress(d)}
    ELSE {x \in {"Message"} : "message" \in DOMAIN d /\ Message(d)}

NodesStatus(d) ==
    {x \in {"nodes_status"} : \A n \in Elements(d, "nodes_status") : NodeWithStatus(n)}

UseTheoriesNote(d, callbacks) ==
    IF "nodes_status" \in callbacks \cap DOMAIN d THEN NodesStatus(d)
    ELSE IF "progress" \in callbacks THEN BuildNote(d) ELSE {}

-----------------------------------------------------------------------------
(* The same payloads as the docstrings of raw/types.py describe them *)

Shape(d, keys, optional) == keys \subseteq DOMAIN d /\ DOMAIN d \subseteq keys \cup optional

AMessage(d, more) == Shape(d, {"kind", "message"} \cup more, {"pos"})
AStatus(d) ==
    Shape(d, {"ok", "total", "unprocessed", "running", "warned", "failed", "finished",
              "canceled", "consolidated", "percentage"}, {})
ABuild(d) ==
    /\ Shape(d, {"session", "ok", "return_code", "timeout", "timing"}, {})
    /\ Shape(d.timing, {"elapsed", "cpu", "gc"}, {})
ANode(d, more) == Shape(d, {"node_name", "theory_name", "status"} \cup more, {}) /\ AStatus(d.status)

DocumentedResult(method, d) ==
    /\ method = "session_build" =>
        /\ Shape(d, {"task", "ok", "return_code", "sessions"}, {})
        /\ \A s \in Elements(d, "sessions") : ABuild(s)
    /\ method = "session_start" => Shape(d, {"task", "session_id", "tmp_dir"}, {})
    /\ method = "session_stop" => Shape(d, {"task", "ok", "return_code"}, {})
    /\ method = "use_theories" =>
        /\ Shape(d, {"task", "ok", "errors", "nodes"}, {})
        /\ \A e \in Elements(d, "errors") : AMessage(e, {})
        /\ \A n \in Elements(d, "nodes") :
            /\ ANode(n, {"messages", "exports"})
            /\ \A m \in Elements(n, "messages") : AMessage(m, {})
            /\ \A e \in Elements(n, "exports") : Shape(e, {"name", "base64", "body"}, {})

\* The callback a NOTE payload is for, and the class it is documented as.
DocumentedNote(d, is) ==
    /\ is = "TheoryProgress" =>
        Shape(d, {"task", "kind", "message", "theory", "session"}, {"percentage"})
    /\ is = "Message" => AMessage(d, {"task"})
    /\ is = "nodes_status" =>
        Shape(d, {"task", "nodes_status"}, {}) /\ \A n \in Elements(d, "nodes_status") : ANode(n, {})

\* What the server takes an absent field for; the 0.5 s of check_delay in milliseconds.
Default ==
    [preferences |-> None, options |-> << >>, dirs |-> << >>, include_sessions |-> << >>,
     verbose |-> FALSE, print_mode |-> << >>, master_dir |-> None, pretty_margin |-> 76,
     unicode_symbols |-> FALSE, export_pattern |-> "", check_delay |-> 500, check_limit |-> 0,
     watchdog_timeout |-> 600, nodes_status_delay |-> -1, theories |-> << >>, all |-> FALSE]

\* What a caller means by the field of an argument.
Meant(a, key) == IF key \in DOMAIN Default /\ a[key] = None THEN Default[key] ELSE a[key]

=============================================================================
