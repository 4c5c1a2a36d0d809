\* One dispatch, a delete or archive and another mutation, every step fair.
CONSTANTS
    Threads = {t1}
    Requests = {r1}
    Mutators = {m1, m2}
    Kinds = {"archive", "delete", "create"}
    NoOwner = NoOwner
    MaxCrashes = 0
SPECIFICATION FairSpec
PROPERTIES
    MutationsEnd
    DispatchesAnswered
