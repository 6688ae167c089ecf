\* Once the calls are used up and the messages delivered, nothing is left to do.
CHECK_DEADLOCK FALSE
CONSTANTS
    root = root
    userA = userA
    userD = userD
    sandbox = sandbox
    appA = appA
    appC = appC
    appD = appD
    Nobody = Nobody
    Root = root
    Users = {userA, sandbox, userD}
    Sandbox = sandbox
    Apps = {appA, appC, appD}
    UserOf <- MCUserOf
    Calls <- MCCalls
    Late = {appA}
    Mortal = {appA, appC}
    MaxCalls = 2
    Streams = {c1, c2}
    Mask = 3
    MaxSends = 1
    MaxThreads = 4
    MaxRequests = 2
    MaxFailed = 1
SPECIFICATION HandlerSpec
INVARIANTS
    HandlerTypeOK
    OnlySandboxAcrossRoot
    CloseIsTrue
    Attended
PROPERTIES
    ImplementsCallService
    ClosingsAreOwn
    PoolServes
