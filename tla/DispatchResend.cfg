\* One message that a bot or an account routes, to two threads that it may create
\* and that share a table of one cell; another request moves the endpoint, and
\* every task is fair.
CONSTANTS
    Keys = {k1, k2}
    Clients = {c1, c2}
    Prints = {p1}
    OtherRuns = {}
    Threads = {k1, k2}
    Thread <- MCOwnThreads
    Intent <- MCOneIntent
    Means = {"bot", "api"}
    NoClient = NoClient
    NoRun = NoRun
    NoThread = NoThread
    MaxCells = 1
    MaxRestarts = 0
    MaxFailures = 0
    MaxMoves = 1
SPECIFICATION FairSpec
INVARIANT
    MessageOnce
PROPERTY
    RequestsAnswered
CHECK_DEADLOCK FALSE
