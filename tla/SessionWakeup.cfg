\* The system stops here when every thread has used its calls, and when it loses
\* the wakeup that session_wakeup shows.
CHECK_DEADLOCK FALSE
CONSTANTS
    t1 = t1
    t2 = t2
    t3 = t3
    Threads = {t1, t2, t3}
    MaxCalls = 3
    Failures = TRUE
SPECIFICATION Spec
INVARIANTS
    NobodyStranded
