SPECIFICATION SessionSpec
CONSTANTS
    opening = opening
    load = load
    purge = purge
    k1 = k1
    k2 = k2
    NoCall = NoCall
    Opening = opening
    Uses = {load}
    Loads = {load}
    Purges = {purge}
    PurgeOf <- MCPurgeOf
    Closers = {k1, k2}
    SyncCalls = {purge}
    AsyncCalls = {opening, load, k1, k2}
    Timed = {}
    Noting = {}
    MaxNotes = 0
    MaxStarts = 1
    Endings = {"FINISHED"}
    Faults = {"stop", "close"}
CHECK_DEADLOCK FALSE
INVARIANT CloseCleansUp
