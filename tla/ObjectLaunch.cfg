\* Once the activations are used up, nothing is left to do.
CHECK_DEADLOCK FALSE
CONSTANTS
    t1 = t1
    t2 = t2
    o1 = o1
    o2 = o2
    editor = editor
    None = None
    Threads = {t1, t2}
    Oids = {o1, o2}
    Apps = {editor}
    Factories <- MCFactories
    Single = {o1}
    Public = {o2}
    MaxGets = 2
    Names = {n1, n2}
    Libraries = {l1, l2}
    Registries <- MCRegistries
    n1 = n1
    n2 = n2
    l1 = l1
    l2 = l2
    MaxSurrogates = 2
    MaxChanges = 2
    appA = appA
    appB = appB
    user = user
    sandbox = sandbox
    MaxObjects = 2
    MaxCalls = 3
SPECIFICATION ActivationSpec
INVARIANTS
    ActivationTypeOK
    TablesAgree
    WaitersAreTold
    InProgressIsTrue
    ActivatesAsAsked
    AnswersWereSo
PROPERTIES
    ActivationEnds
