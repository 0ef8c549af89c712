SPECIFICATION Spec
CONSTANTS
    s1 = s1
    a1 = a1
    NoCall = NoCall
    SyncCalls = {s1}
    AsyncCalls = {a1}
    Timed = {a1}
    Noting = {a1}
    MaxNotes = 2
    MaxStarts = 2
    Endings = {"FINISHED", "FAILED", "INTERRUPT"}
    Faults = {"cancel", "stop", "close", "garble", "backpressure", "callback"}
CHECK_DEADLOCK FALSE
INVARIANTS TypeOK NoLostTerminalFuture PendingIsOpen OwnReply NoteBeforeEnd LockHolderCanGoOn
PROPERTIES FuturesSettleOnce RegisteredEndsArrive ImplementsIndependentCalls
