SPECIFICATION LibrarySpec
CONSTANTS
    Objects = {o1}
    OwnerThreads = {t1, t2}
    HolderThreads = {u1, u2}
    Proxies = {p1, p2, p3}
    None = None
    t1 = t1
    t2 = t2
    h1 = h1
    h2 = h2
    h3 = h3
    MaxId = 3
    MaxMarshals = 3
    MaxParams = 2
    MaxValue = 1
    MaxCalls = 8
    Local = 2
    MaxLen = 3
    MaxChanges = 4
    MaxCasts = 3
    MaxPieces = 3
    Threads = {t1, t2}
    Modules = {A, B}
    Home = A
    Stubs = {1, 2}
    ShimProxies = {1, 2, 3}
CHECK_DEADLOCK FALSE
INVARIANTS
    LibraryTypeOK
    ReferencesAreKept
    CallsCarryWhatTheyName
    PassedWhole
    ShimsAreOne
    ValuesAreExact
PROPERTIES
    RemoteRefsSpec
    Reclaimed
