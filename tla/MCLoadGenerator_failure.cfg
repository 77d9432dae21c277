SPECIFICATION Spec
CONSTANTS
    VUs = {"a", "b"}
    BatchSize = 2
    MaxIter = 5
    Failing <- MCFailing
INVARIANT ErrorInfoIsTaken
CHECK_DEADLOCK FALSE
