SPECIFICATION Spec
CONSTANTS
    p = p
    Procs = {p}
    Savers = {"turn", "task"}
    Faults <- Everything
    MaxVer = 4
    MaxRuns = 2
    MaxFaults = 2
INVARIANTS SessionWhole NothingForgotten
PROPERTY Promise
CHECK_DEADLOCK FALSE
