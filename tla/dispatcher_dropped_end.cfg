SPECIFICATION FairSpec
CONSTANTS
    a1 = a1
    NoCall = NoCall
    SyncCalls = {}
    AsyncCalls = {a1}
    Timed = {}
    Noting = {}
    MaxNotes = 0
    MaxStarts = 1
    Endings = {"FINISHED"}
    Faults = {}
CHECK_DEADLOCK FALSE
PROPERTY CompletesOnTerminal
