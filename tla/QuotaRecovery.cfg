\* One message, one other run, two blocked runs, one restart, one error.
CONSTANTS
    Senders = {u1}
    MaxBlocked = 2
    MaxRestarts = 1
    MaxFailures = 1
SPECIFICATION FairSpec
INVARIANT
    QuotaInvariant
PROPERTIES
    SettledIsFinal
    NotForgotten
