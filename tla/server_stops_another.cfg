SPECIFICATION Spec
CONSTANTS
    plain = plain
    Someone = Someone
    Plain = {plain}
    Attaching = {}
    Forcing = {}
    Reusing = {}
    MaxServers = 2
    Faults = {"crash", "someone"}
CHECK_DEADLOCK FALSE
INVARIANT StopsOwnServer
