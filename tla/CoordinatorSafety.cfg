\* One thread, one dispatch, two lifecycle operations of any kind, one crash.
CONSTANTS
    Threads = {t1}
    Requests = {r1}
    Mutators = {m1, m2}
    Kinds = {"archive", "archive_decision", "delete", "delete_decision", "store_delete", "create"}
    NoOwner = NoOwner
    MaxCrashes = 1
SYMMETRY Symmetry
SPECIFICATION Spec
INVARIANTS
    TypeOK
    FenceInvariant
    NoRunOnTerminalThread
    CacheInvariant
PROPERTIES
    DestroyFenced
    FencedThreadStartsNoRun
    ImplementsFence
