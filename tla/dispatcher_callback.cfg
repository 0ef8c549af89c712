SPECIFICATION FairSpec
CONSTANTS
    s1 = s1
    a1 = a1
    NoCall = NoCall
    SyncCalls = {s1}
    AsyncCalls = {a1}
    Timed = {}
    Noting = {a1}
    MaxNotes = 1
    MaxStarts = 1
    Endings = {"FINISHED"}
    Faults = {"callback"}
CHECK_DEADLOCK FALSE
PROPERTY CallbackCommandsReturn
