\* The system stops here when every thread has used its calls, and when it loses
\* the wakeup that session_wakeup shows.
CHECK_DEADLOCK FALSE
CONSTANTS
    Threads = {t1, t2, t3}
    Makers = {t1, t2}
    Others = {1}
    TheirIds = {1}
    AtUninit = {holder}
    AtUnload = {registry}
    Services = {"mail", "time"}
    MaxCalls = 4
    Failures = TRUE
    Nobody = Nobody
    MaxId = 1
    MaxChannels = 2
    MaxDepth = 2
    MaxMade = 3
SPECIFICATION SessionSpec
INVARIANTS
    SessionTypeOK
    StartStopExclusive
    SessionIsOwned
    CompartmentsEnd
    TakenDownWhole
PROPERTIES
    TransitionsEnd
