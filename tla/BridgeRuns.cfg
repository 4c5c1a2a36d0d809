\* A durable dispatch and a legacy one, which may replace each other's run, one
\* interrupt of the user, one deletion, one dropped request, every task fair.
CONSTANTS
    d1 = d1
    d2 = d2
    Dispatches <- MCDispatches
    Durables <- MCDurables
    NoRun = NoRun
    MaxStops = 1
    MaxDrops = 1
SPECIFICATION FairSpec
CHECK_DEADLOCK FALSE
INVARIANTS
    BridgeInvariant
    NoGhostInput
PROPERTIES
    HandleStays
    Drained
