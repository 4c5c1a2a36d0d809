\* Two requests for one message, another run, a restart and a failing owner.
CONSTANTS
    Keys = {k1}
    Clients = {c1, c2}
    Prints = {p1, p2}
    OtherRuns = {o1}
    Threads = {t1}
    Thread <- MCOneThread
    Intent <- MCOwnIntents
    Means = {"thread", "create"}
    NoClient = NoClient
    NoRun = NoRun
    NoThread = NoThread
    MaxCells = 2
    MaxRestarts = 1
    MaxFailures = 1
    MaxMoves = 0
SYMMETRY Symmetry
SPECIFICATION Spec
INVARIANTS
    DispatchInvariant
    LedgerTruthful
    AnswersFinal
PROPERTIES
    SettledForever
    ImplementsAtMostOnce
