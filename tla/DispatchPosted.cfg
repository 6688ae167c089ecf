\* Once the calls are used up, the threads that pump have nothing to do.
CHECK_DEADLOCK FALSE
CONSTANTS
    pp = pp
    qq = qq
    rr = rr
    p1 = p1
    p2 = p2
    q1 = q1
    q2 = q2
    r1 = r1
    None = None
    Procs = {pp, qq}
    Threads = {p1, p2, q2}
    Pumps = {p2, q2}
    Home <- MCHome
    Knows <- MCKnowsTwo
    Mortal = {}
    Posting = {pp}
    MaxCalls = 2
SPECIFICATION Spec
INVARIANTS
    RightQueue
