\* Once the requests are used up and served, the pumps have nothing to do.
CHECK_DEADLOCK FALSE
CONSTANTS
    pp = pp
    qq = qq
    rr = rr
    p1 = p1
    p2 = p2
    q1 = q1
    q2 = q2
    r1 = r1
    None = None
    Procs = {pp, qq, rr}
    Threads = {p1, p2, q2, r1}
    Pumps = {p2, q2, r1}
    Home <- MCHome
    Knows <- MCKnows
    Mortal = {qq}
    Posting = {pp}
    MaxCalls = 4
SPECIFICATION Spec
INVARIANTS
    TypeOK
    AnswersMatch
    CallbacksMeetCaller
    CallNotLost
PROPERTIES
    CallsReturn
