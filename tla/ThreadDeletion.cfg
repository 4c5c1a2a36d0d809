\* Two threads, one endpoint, one operation id, one fault.
CONSTANTS
    Threads = {t1, t2}
    Endpoints = {e1}
    Operations = {o1}
    NoOne = NoOne
    MaxFaults = 1
SPECIFICATION FairSpec
INVARIANT
    DeletionInvariant
PROPERTIES
    SparesTheLiving
    Cleaned
