\* Once the activations are used up, nothing is left to do.
CHECK_DEADLOCK FALSE
CONSTANTS
    t1 = t1
    t2 = t2
    o1 = o1
    o2 = o2
    editor = editor
    None = None
    Threads = {t1, t2}
    Oids = {o1}
    Apps = {editor}
    Factories <- MCFactory
    Single = {}
    Public = {}
    MaxGets = 2
SPECIFICATION Spec
PROPERTIES
    KillsOnlyTheHung
