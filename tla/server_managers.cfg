SPECIFICATION FairSpec
CONSTANTS
    plain = plain
    reusing = reusing
    Someone = Someone
    Plain = {plain}
    Attaching = {}
    Forcing = {}
    Reusing = {reusing}
    MaxServers = 3
    Faults = {"list", "spawn", "exit", "crash", "refuse", "someone"}
CHECK_DEADLOCK FALSE
INVARIANTS TypeOK NoOrphans StopSparesOthers
PROPERTIES CallsEnd
