SPECIFICATION DuckloadSpec
CONSTANTS
  Endpoints = {"e1", "e2"}
  LatencyMetrics = {"p95"}
  RunIDs = {"r1", "r2"}
  NoRun = NoRun
  Requests <- MCRequests
  Policies <- MCPolicies
  Databases <- MCDatabases
  DefaultMinSamples = 2
  Slowdowns = {1, 2, 5, 9, 30}
  Orders <- MCOrders
  Styles <- MCStyles
  Others <- MCOthers
  Odd <- MCOdd
  TableColumns = {"run_id", "pod_id", "rtt"}
  Directories <- MCDirectories
  Shipped <- MCShipped
  IDs <- MCIDs
  Scenarios <- MCScenarios
INVARIANTS TypeOK VerdictIsWorst SlowerIsNeverBetter BaselineHidesNothing PassIsTrusted ToolErrorIsNoVerdict EmptyPassNamesAMissingRun SelfComparisonNeedsGrowth PassedCheckTells BrowserAgrees
PROPERTY RunsAsMeant
CHECK_DEADLOCK FALSE
