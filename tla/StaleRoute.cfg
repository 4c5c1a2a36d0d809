\* Two threads and an endpoint, no faults: a move that the router has no part in.
CONSTANTS
    Threads = {t1, t2}
    Endpoints = {e1}
    Operations = {o1}
    NoOne = NoOne
    MaxFaults = 0
SPECIFICATION Spec
INVARIANT
    RouteMatchesOwner
