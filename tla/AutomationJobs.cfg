CONSTANTS
    Kinds = {"interval", "once", "once_deleted"}
    Requests = {1, 2}
    Editors = {u1}
    Deleters = {d1}
    MaxTime = 1
    MaxFaults = 1

SPECIFICATION Spec

INVARIANTS
    AutomationInvariant

PROPERTIES
    NoOverlap
    DueFires

CHECK_DEADLOCK FALSE
