\* The system stops here when every thread has used its calls.
CHECK_DEADLOCK FALSE
CONSTANTS
    t1 = t1
    t2 = t2
    Threads = {t1, t2}
    MaxCalls = 3
    Failures = FALSE
SPECIFICATION Spec
INVARIANTS
    StopsAfterLastTerm
