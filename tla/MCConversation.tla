---------------------------- MODULE MCConversation ----------------------------
(* Conversation for TLC: the texts that the server sends, and what they say. *)
EXTENDS Conversation, TLC

CONSTANTS info, junk, task, hint, loading, foreign, warning, status, strange,
          built, started, stopped, used, more, interrupt, wrong, purged

Plain == [kind |-> "writeln", message |-> "text"]
Status == [k \in {"ok", "total", "unprocessed", "running", "warned", "failed", "finished",
                  "canceled", "consolidated", "percentage"} |-> 0]
ANodeOf(theory) == [node_name |-> theory, theory_name |-> theory, status |-> Status]
Timed == [elapsed |-> 1, cpu |-> 1, gc |-> 0]
Task == "task" :> "t1"

MCJson(args) ==
    CASE args = <<info>> -> [isabelle_id |-> "id"]
      [] args = <<task>> -> Task
      [] args = <<hint>> -> Plain
      [] args = <<loading>> -> Plain @@ Task @@ [theory |-> "T", session |-> "S"]
      [] args = <<foreign>> -> Plain @@ [task |-> "t0", theory |-> "T", session |-> "S"]
      [] args = <<warning>> -> Plain @@ Task
      [] args = <<status>> -> Task @@ [nodes_status |-> <<ANodeOf("T")>>]
      [] args = <<strange>> -> Task @@ [theory |-> "T", session |-> "S"]
      [] args = <<built>> ->
            Task @@ [ok |-> TRUE, return_code |-> 0,
                     sessions |-> <<[session |-> "S", ok |-> TRUE, return_code |-> 0,
                                     timeout |-> FALSE, timing |-> Timed]>>]
      [] args = <<started>> -> Task @@ [session_id |-> "s", tmp_dir |-> "d"]
      [] args = <<stopped>> -> Task @@ [ok |-> TRUE, return_code |-> 0]
      [] args = <<used, NL, more>> ->
            Task @@ [ok |-> FALSE, errors |-> <<Plain>>,
                     nodes |-> <<ANodeOf("T") @@
                        [messages |-> <<Plain @@ [pos |-> [line |-> 1]]>>,
                         exports |-> <<[name |-> "n", base64 |-> FALSE, body |-> "b"]>>]>>]
      [] args = <<interrupt>> -> Task @@ [message |-> "Interrupt"]
      [] args = <<wrong>> -> Plain
      [] args = <<purged>> -> [purged |-> <<"n">>, retained |-> << >>]
      [] OTHER -> None

MCWords == ReplyKind \cup {info, junk, task, hint, loading, foreign, warning, status, strange, built,
                           started, stopped, used, more, interrupt, wrong, purged}

MCGreetings == {<<OK, info>>, <<ERROR, wrong>>, <<junk>>}

\* A second command is answered at once; "task" is the only task.
MCAnswers(m, n) ==
    CASE m = "use_theories" -> {<<ERROR, wrong>>} \cup {t \in {<<OK, task>>} : n = 1}
      [] m \in AsyncMethods -> IF n = 1 THEN {<<OK, task>>} ELSE {<<ERROR, wrong>>}
      [] m = "purge_theories" -> {<<OK, purged>>, <<OK, more, more>>, <<ERROR, wrong>>}
      [] OTHER -> {<<OK>>}

MCNotices(m, n) ==
    CASE m = "use_theories" -> {<<NOTE, status>>, <<NOTE, warning>>, <<NOTE, strange>>}
      [] m = "session_build" -> {<<NOTE, loading>>, <<NOTE, foreign>>}
      [] m = "session_start" -> {<<NOTE, hint>>}
      [] OTHER -> {<<NOTE, junk>>}

MCResults(m, n) ==
    CASE m = "session_build" -> {<<FINISHED, built>>}
      [] m = "session_start" -> {<<FINISHED, started>>, <<FAILED, interrupt>>}
      [] m = "session_stop" -> {<<FINISHED, stopped>>, <<FINISHED, more, NL, more, more>>}
      [] OTHER -> {<<FINISHED, used, NL, more>>, <<FAILED, task>>}

MCTexts ==
    MCGreetings \cup
    UNION {MCAnswers(m, n) \cup MCNotices(m, n) \cup MCResults(m, n) : m \in Methods, n \in 1..MaxCalls}

MCArguments(m) ==
    CASE m \in {"session_build", "session_start"} ->
            {[session |-> "S", preferences |-> "", options |-> << >>, dirs |-> <<"d">>,
              include_sessions |-> << >>, verbose |-> FALSE, print_mode |-> <<"ASCII">>]}
      [] m = "use_theories" ->
            {[session_id |-> "s", theories |-> <<"T">>, master_dir |-> None, pretty_margin |-> None,
              unicode_symbols |-> FALSE, export_pattern |-> "", check_delay |-> 0, check_limit |-> 0,
              watchdog_timeout |-> w, nodes_status_delay |-> 1] : w \in {None, 0}}
      [] m = "purge_theories" ->
            {[session_id |-> "s", theories |-> << >>, master_dir |-> None, all |-> TRUE]}
      [] m = "session_stop" -> {[session_id |-> "s"]}
      [] m = "cancel" -> {[task |-> "t1"]}
      [] m = "echo" -> {[value |-> 0]}
      [] OTHER -> {None}

=============================================================================
