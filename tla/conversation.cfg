SPECIFICATION FairSpec
CHECK_DEADLOCK FALSE
CONSTANTS
    OK = OK  ERROR = ERROR  FINISHED = FINISHED  FAILED = FAILED  NOTE = NOTE
    NL = NL  None = None
    info = info  junk = junk  task = task  hint = hint  loading = loading  foreign = foreign
    warning = warning  status = status  strange = strange  built = built
    started = started  stopped = stopped  used = used  more = more
    interrupt = interrupt  wrong = wrong  purged = purged
    Words <- MCWords
    Texts <- MCTexts
    Json <- MCJson
    ShortLimit = 3
    MaxBody = 5
    MaxLine = 2
    LinkFaults = {"ended", "reset"}
    OwnsServer = TRUE
    Methods = {"shutdown", "purge_theories", "session_build", "session_start", "session_stop", "use_theories"}
    Arguments <- MCArguments
    CallbackSets = {{"progress", "nodes_status"}}
    Greetings <- MCGreetings
    Answers <- MCAnswers
    Notices <- MCNotices
    Results <- MCResults
    MaxCalls = 2
    MaxTraffic = 3
INVARIANTS TransportTypeOK ConversationTypeOK Prompt ReadsNoFragments CommandsAfterOK TasksAreWhole OneReplyOwed LeftIsQuiet NotesHeard ArgsArrive DocumentedResultsDecode
PROPERTIES ImplementsMessageStream SyncCommandEnds ExitCompletes
