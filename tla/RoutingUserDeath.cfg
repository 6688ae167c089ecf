\* Once the call is used up and the messages delivered, nothing is left to do.
CHECK_DEADLOCK FALSE
CONSTANTS
    root = root
    userA = userA
    userD = userD
    sandbox = sandbox
    appA = appA
    appC = appC
    appD = appD
    Nobody = Nobody
    Root = root
    Users = {userA, sandbox, userD}
    Sandbox = sandbox
    Apps = {appA, appC, appD}
    UserOf <- MCUserOf
    Calls <- MCOneCall
    Late = {}
    Mortal = {sandbox}
    MaxCalls = 1
SPECIFICATION Spec
PROPERTIES
    CallEnds
