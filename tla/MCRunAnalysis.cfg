SPECIFICATION Spec
CONSTANTS
    Rows = {1, 2, 3, 4, 5}
    Tables <- MCTables
    Runs = {"base", "new"}
    Endpoints = {"a", "b", "c"}
    Pods = {"p", "q"}
    Phases <- MCPhases
    Questions <- MCQuestions
    MaxBatches = 3
INVARIANTS WorseNeverPasses BaselineIsBetweenItsRuns TrendLosesOnlyToLater DistributionCoversCount FindingsAreExplained ExplanationsHaveEvidence EvidenceIsRelative
CHECK_DEADLOCK FALSE
