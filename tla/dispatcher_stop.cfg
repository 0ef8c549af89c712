SPECIFICATION FairSpec
CONSTANTS
    s1 = s1
    a1 = a1
    NoCall = NoCall
    SyncCalls = {s1}
    AsyncCalls = {a1}
    Timed = {}
    Noting = {}
    MaxNotes = 0
    MaxStarts = 1
    Endings = {"FINISHED"}
    Faults = {"stop"}
CHECK_DEADLOCK FALSE
PROPERTY StopCancelsTasks
