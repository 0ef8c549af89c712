SPECIFICATION FairSpec
CONSTANTS
    s1 = s1
    s2 = s2
    a1 = a1
    NoCall = NoCall
    SyncCalls = {s1, s2}
    AsyncCalls = {a1}
    Timed = {a1}
    Noting = {a1}
    MaxNotes = 0
    MaxStarts = 1
    Endings = {"FINISHED"}
    Faults = {"cancel", "stop", "close"}
CHECK_DEADLOCK FALSE
INVARIANTS NoLostSyncFuture OwnReply
PROPERTIES SyncCallsEnd TimedCallsEnd LossReleasesTasks StopReleases
