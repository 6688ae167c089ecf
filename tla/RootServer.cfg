SPECIFICATION RootSpec
CONSTANTS
    u = u
    v = v
    s = s
    n1 = n1
    n2 = n2
    miss = miss
    c1 = c1
    c2 = c2
    c3 = c3
    Clients = {c1, c2, c3}
    LoginOf <- Logins
    Callers = {u, v, s}
    Sandbox = s
    Perm <- Modes
    Paths <- NamedPaths
    NewNames = {".access", "Local User"}
    NewRights <- Masks
    Names = {n1, n2}
    Graphs <- AnyGraphs
    None = None
    MaxKey = 7
    MaxChanges = 3
    MaxHandles = 1
    MaxStarts = 2
    MaxStops = 2
    MaxProcs = 2
CHECK_DEADLOCK FALSE
INVARIANTS
    RootTypeOK
    TreeIsWhole
    ServicesAreListed
    LoginHasOneProcess
PROPERTIES
    ChangesWhatItNames
    StartsEnd
    TheDeadLeave
