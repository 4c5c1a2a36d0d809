CONSTANTS
    parent = parent
    Subtasks = {c1, c2}
    Tasks = {parent, c1, c2}
    NoTask = NoTask
    Target <- MCTarget
    MaxActs = 2
    MaxFaults = 1

SPECIFICATION Spec

SYMMETRY Symmetry

INVARIANTS
    TaskInvariant
    NotStranded

PROPERTIES
    NotReopened

CHECK_DEADLOCK FALSE
