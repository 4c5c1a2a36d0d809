\* The run, another run of its thread, lines of other threads, a bus of two lines,
\* pages of two rows, every task fair.
CONSTANTS
    Mine = mine
    Others = {o1}
    NoRun = NoRun
    OtherThreads = TRUE
    BusCapacity = 2
    PageCap = 2
    MaxRows = 4
    MaxFailedReads = 1
SPECIFICATION FairSpec
CHECK_DEADLOCK FALSE
INVARIANTS
    ReplayInvariant
    VersionsAdvance
    CompleteAtEnd
    FlushedOnce
PROPERTIES
    ImplementsOrderedDelivery
    RowsDelivered
