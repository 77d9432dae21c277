SPECIFICATION Spec
CONSTANTS
    Names = {p1, p2}
    Callers = {f1, f2}
    RunIds = {r1}
    MaxRegs = 2
    MaxCalls = 2
    MaxLoad = 1
    MaxRounds = 1
INVARIANTS FlushingHasFlusher DrainedOrUnseen PanicNeedsUnregister
PROPERTY CallsEnd
CHECK_DEADLOCK FALSE
SYMMETRY Symmetry
