SPECIFICATION Spec
CONSTANTS
    s1 = s1
    a1 = a1
    NoCall = NoCall
    SyncCalls = {s1}
    AsyncCalls = {a1}
    Timed = {a1}
    Noting = {a1}
    MaxNotes = 0
    MaxStarts = 1
    Endings = {"FINISHED"}
    Faults = {"cancel"}
CHECK_DEADLOCK FALSE
INVARIANT RepliesAlwaysMatch
