SPECIFICATION Spec
CONSTANTS
    VUs = {"a", "b"}
    BatchSize = 2
    MaxIter = 5
    Failing <- MCFailing
INVARIANTS ReportedOnceInOrder OnlyTheLastBatchIsLeft
CHECK_DEADLOCK FALSE
