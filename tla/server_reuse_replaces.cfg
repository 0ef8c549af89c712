SPECIFICATION Spec
CONSTANTS
    reusing = reusing
    reusing2 = reusing2
    Someone = Someone
    Plain = {}
    Attaching = {}
    Forcing = {}
    Reusing = {reusing, reusing2}
    MaxServers = 2
    Faults = {}
CHECK_DEADLOCK FALSE
INVARIANT ReuseReplacesNone
