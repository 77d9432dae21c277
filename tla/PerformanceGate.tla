---------------------------- MODULE PerformanceGate ----------------------------
(* The performance gate: duckload gate (cmd/duckload/main.go) and POST /api/v1/analysis/gate (analysis_handlers.go)    *)
(* read a policy, the endpoint statistics of a current run and perhaps those of a baseline run, and turn them into one *)
(* verdict. Evaluation (analysis/gate/gate.go) collects findings endpoint by endpoint; build then weighs them one by   *)
(* one. The list of findings is a set here, each finding being the only one of its scope, metric and check.            *)
EXTENDS Integers, FiniteSets

CONSTANTS
  Endpoints, LatencyMetrics,  \* LatencyMetrics stands for p50, p95 and p99, which one function evaluates
  RunIDs, NoRun,              \* NoRun is an empty --run-id
  Requests,                   \* the invocations: command lines and request bodies
  Policies,                   \* the policy files that can be parsed as YAML
  Databases,                  \* contents of a readable .duckdb file: run_id -> endpoint -> statistics
  DefaultMinSamples,
  Slowdowns                   \* by how much SlowerIsNeverBetter varies a value

Metrics == LatencyMetrics \cup {"error_rate"}
Statuses == {"PASS", "UNKNOWN", "WARN", "FAIL"}
NoVerdict == "NONE"

\* An optional field (a Go pointer) is the set of its value, empty when it is unset. A nil *LatencyPolicy and one
\* with no field set are the same record: neither produces a finding, and merging with either changes nothing.
Optional == SUBSET Int
Thresholds == [max : Optional, warn : Optional, maxRegression : Optional, warnRegression : Optional, floor : Optional]
MetricPolicies == [minSamples : Optional, limits : [Metrics -> Thresholds]]
IsRunStats(s) == DOMAIN s \subseteq Endpoints /\ s \in [DOMAIN s -> [requests : Nat, value : [Metrics -> Nat]]]

ASSUME RequestsAssumption ==
  Requests \subseteq [entry : {"cli", "http"}, valid : BOOLEAN, run : RunIDs \cup {NoRun}, baselineFile : BOOLEAN,
                      baselineRun : RunIDs \cup {NoRun}, warnExitCode : Nat]
ASSUME PoliciesAssumption ==
  \A p \in Policies : /\ DOMAIN p = {"version", "unknown", "defaults", "endpoints"}
                      /\ p.defaults \in MetricPolicies
                      /\ \A e \in DOMAIN p.endpoints : p.endpoints[e] \in MetricPolicies
\* a run is in a file by its rows, which belong to an endpoint
ASSUME DatabasesAssumption ==
  \A db \in Databases : DOMAIN db \subseteq RunIDs /\ \A r \in DOMAIN db : IsRunStats(db[r]) /\ DOMAIN db[r] # {}
ASSUME NamesAssumption == "error_rate" \notin LatencyMetrics /\ NoRun \notin RunIDs /\ DefaultMinSamples \in Nat
                           /\ Slowdowns \subseteq Nat /\ IsFiniteSet(LatencyMetrics)

VARIABLES
  stage,                 \* where runGate or HandleGate is; "done" when it has answered
  req,                   \* the invocation
  pol,                   \* the parsed policy
  file,                  \* what --current holds, or the database behind the server
  current, baseline,     \* the statistics being compared
  compared,              \* is there a baseline at all (baseline != nil)
  todo,                  \* endpoints of current that Evaluate has not reached
  findings,              \* what Evaluate has found
  untallied,             \* the findings build has not reached
  summary, worst,        \* build's tallies and the worst status so far
  verdict, code          \* Result.Status, if there is a Result, and the exit code or HTTP status

vars == <<stage, req, pol, file, current, baseline, compared, todo, findings, untallied, summary, worst, verdict, code>>

ExitPass == 0
ExitPolicyFailure == 1
ExitToolError == 2
-----------------------------------------------------------------------------
(* The policy *)

ValidPolicy(p) == p.version = 1 /\ p.unknown \in {"", "PASS", "WARN", "FAIL"}
ParsedAsIs(p) == p
Parsed(p) == IF p.unknown = "" THEN [p EXCEPT !.unknown = "WARN"] ELSE p

Override(default, override) == IF override # {} THEN override ELSE default
MergeLimits(base, override) == [f \in DOMAIN base |-> Override(base[f], override[f])]

EffectiveMetricPolicy(p, e) ==
  IF e \notin DOMAIN p.endpoints THEN p.defaults
  ELSE LET own == p.endpoints[e] IN
       [minSamples |-> Override(p.defaults.minSamples, own.minSamples),
        limits     |-> [m \in Metrics |-> MergeLimits(p.defaults.limits[m], own.limits[m])]]

MinSamples(p, e) ==
  LET set == EffectiveMetricPolicy(p, e).minSamples IN IF set = {} THEN DefaultMinSamples ELSE CHOOSE n \in set : TRUE
-----------------------------------------------------------------------------
(* The checks *)

Finding(e, m, check, status, reason) == [scope |-> e, metric |-> m, check |-> check, status |-> status, reason |-> reason]
UnknownFinding(e, m, check, reason) == Finding(e, m, check, "UNKNOWN", reason)
Graded(fails, warns) == IF fails THEN "FAIL" ELSE IF warns THEN "WARN" ELSE "PASS"

Above(limit, x) == \E l \in limit : x > l
PercentAtLeast(limit, was, is) == \E l \in limit : IF was = 0 THEN 0 >= l ELSE (is - was) * 100 >= l * was
\* percentChange(was, is) > l: the change from a baseline of zero counts as no change
PercentAbove(limit, was, is) == \E l \in limit : IF was = 0 THEN 0 > l ELSE (is - was) * 100 > l * was

BudgetFinding(e, m, t, is) == Finding(e, m, "budget", Graded(Above(t.max, is), Above(t.warn, is)), "")

RegressionFindingEitherWay(e, m, t, was, is) ==
  LET change == IF is >= was THEN is - was ELSE was - is
      Exceeds(limit) == IF m = "error_rate" THEN Above(limit, change) ELSE PercentAbove(limit, was, was + change)
  IN  Finding(e, m, "regression", Graded(Exceeds(t.maxRegression), Exceeds(t.warnRegression)), "")
RegressionFinding(e, m, t, was, is) ==
  LET exceedsFloor == \A l \in Override({0}, t.floor) : is - was >= l
      Exceeds(limit) == IF m = "error_rate" THEN Above(limit, is - was)
                                            ELSE PercentAbove(limit, was, is) /\ exceedsFloor
  IN  Finding(e, m, "regression", Graded(Exceeds(t.maxRegression), Exceeds(t.warnRegression)), "")

BudgetChecks(p, cur, e, m) ==
  LET t == EffectiveMetricPolicy(p, e).limits[m] IN
  IF t.max \cup t.warn = {} THEN {}
  ELSE IF cur[e].requests < MinSamples(p, e) THEN {UnknownFinding(e, m, "budget", "insufficient_samples")}
  ELSE {BudgetFinding(e, m, t, cur[e].value[m])}

RegressionChecksOnAnyBaseline(p, cur, base, e, m) ==
  LET t == EffectiveMetricPolicy(p, e).limits[m] IN
  IF t.maxRegression \cup t.warnRegression = {} \/ e \notin DOMAIN base THEN {}
  ELSE IF cur[e].requests < MinSamples(p, e) THEN {UnknownFinding(e, m, "regression", "insufficient_samples")}
  ELSE {RegressionFinding(e, m, t, base[e].value[m], cur[e].value[m])}
RegressionChecks(p, cur, base, e, m) ==
  LET t == EffectiveMetricPolicy(p, e).limits[m]
      Unknown(reason) == {UnknownFinding(e, m, "regression", reason)}
  IN  IF t.maxRegression \cup t.warnRegression = {} THEN {}
      ELSE IF e \notin DOMAIN base THEN Unknown("no_baseline_for_endpoint")
      ELSE IF cur[e].requests < MinSamples(p, e) THEN Unknown("insufficient_samples")
      ELSE IF base[e].requests < MinSamples(p, e) THEN Unknown("insufficient_baseline_samples")
      ELSE {RegressionFinding(e, m, t, base[e].value[m], cur[e].value[m])}

EndpointFindingsEitherCheck(p, cur, withBase, base, e) ==
  UNION {IF withBase THEN RegressionChecks(p, cur, base, e, m) ELSE BudgetChecks(p, cur, e, m) : m \in Metrics}
\* evaluateLatency for each percentile and evaluateErrorRate, for one endpoint
EndpointFindings(p, cur, withBase, base, e) ==
  UNION {BudgetChecks(p, cur, e, m) \cup (IF withBase THEN RegressionChecks(p, cur, base, e, m) ELSE {}) : m \in Metrics}

Rank(s) == CASE s = "PASS" -> 0 [] s = "UNKNOWN" -> 1 [] s = "WARN" -> 2 [] s = "FAIL" -> 3
WorseIsLater(a, b) == b
Worse(a, b) == IF Rank(b) > Rank(a) THEN b ELSE a
Effective(p, f) == IF f.status = "UNKNOWN" THEN p.unknown ELSE f.status
-----------------------------------------------------------------------------
(* The run of one gate *)

NoStats == [e \in {} |-> {}]

Init ==
  /\ stage = "arguments" /\ req \in Requests
  /\ pol = NoStats /\ file = NoStats /\ current = NoStats /\ baseline = NoStats /\ compared = FALSE
  /\ todo = {} /\ findings = {} /\ untallied = {}
  /\ summary = [s \in Statuses |-> 0] /\ worst = "PASS"
  /\ verdict = NoVerdict /\ code = 0

Answer(c) == stage' = "done" /\ code' = c

ErrorAnswerAsFailure == Answer(IF req.entry = "cli" THEN ExitPolicyFailure ELSE 500)
\* every early return: exit code 2, or an HTTP error
ErrorAnswer ==
  Answer(IF req.entry = "cli" THEN ExitToolError ELSE IF stage \in {"arguments", "policy"} THEN 400 ELSE 500)

ParseArguments ==
  /\ stage = "arguments"
  /\ IF req.valid /\ (req.entry = "http" => req.run # NoRun) THEN stage' = "policy" /\ UNCHANGED code ELSE ErrorAnswer
  /\ UNCHANGED <<req, pol, file, current, baseline, compared, todo, findings, untallied, summary, worst, verdict>>

LoadPolicy ==
  /\ stage = "policy"
  /\ \E p \in Policies :
       IF ValidPolicy(p) THEN stage' = "current" /\ pol' = Parsed(p) /\ UNCHANGED code
                         ELSE ErrorAnswer /\ UNCHANGED pol
  /\ UNCHANGED <<req, file, current, baseline, compared, todo, findings, untallied, summary, worst, verdict>>

\* loadEndpointStats: the run asked for, which need not be there, or else the only run of the file
SoleRunIfAny(db) == IF DOMAIN db = {} THEN {NoRun} ELSE IF Cardinality(DOMAIN db) = 1 THEN DOMAIN db ELSE {}
SoleRun(db) == IF Cardinality(DOMAIN db) = 1 THEN DOMAIN db ELSE {}
ResolvedRun(db, run) == IF run # NoRun THEN {run} ELSE SoleRun(db)
EndpointStats(db, run) == IF run \in DOMAIN db THEN db[run] ELSE NoStats

LoadCurrent ==
  /\ stage = "current"
  /\ \E db \in Databases :
       /\ file' = db
       /\ IF ResolvedRun(db, req.run) = {} THEN ErrorAnswer /\ UNCHANGED <<current, todo>>
          ELSE \E r \in ResolvedRun(db, req.run) :
                 /\ stage' = "baseline" /\ UNCHANGED code
                 /\ current' = EndpointStats(db, r) /\ todo' = DOMAIN EndpointStats(db, r)
  /\ UNCHANGED <<req, pol, baseline, compared, findings, untallied, summary, worst, verdict>>

WantsBaseline == req.baselineRun # NoRun \/ (req.entry = "cli" /\ req.baselineFile)

\* the database behind the server when the second query reaches it: runs and endpoints have come, and where requests
\* have come the other numbers are any
Grown(db) == {new \in Databases : \A r \in DOMAIN db : r \in DOMAIN new /\ \A e \in DOMAIN db[r] :
                e \in DOMAIN new[r] /\ (new[r][e] = db[r][e] \/ new[r][e].requests > db[r][e].requests)}

BaselineSource == IF req.entry = "http" THEN Grown(file) ELSE IF req.baselineFile THEN Databases ELSE {file}

LoadBaseline ==
  /\ stage = "baseline"
  /\ IF ~WantsBaseline THEN stage' = "evaluate" /\ UNCHANGED <<baseline, compared, code>>
     ELSE \E db \in BaselineSource :
            IF ResolvedRun(db, req.baselineRun) = {} THEN ErrorAnswer /\ UNCHANGED <<baseline, compared>>
            ELSE \E r \in ResolvedRun(db, req.baselineRun) :
                   stage' = "evaluate" /\ baseline' = EndpointStats(db, r) /\ compared' = TRUE /\ UNCHANGED code
  /\ UNCHANGED <<req, pol, file, current, todo, findings, untallied, summary, worst, verdict>>

\* an unreadable or damaged file, a failed query, a report that cannot be written
Fails ==
  /\ \/ stage \in {"policy", "current"}
     \/ stage = "baseline" /\ WantsBaseline
     \/ stage = "build" /\ untallied = {} /\ req.entry = "cli"
  /\ ErrorAnswer
  /\ UNCHANGED <<req, pol, file, current, baseline, compared, todo, findings, untallied, summary, worst, verdict>>

EvaluateEndpoint(e) ==
  /\ stage = "evaluate" /\ e \in todo
  /\ todo' = todo \ {e}
  /\ findings' = findings \cup EndpointFindings(pol, current, compared, baseline, e)
  /\ UNCHANGED <<stage, req, pol, file, current, baseline, compared, untallied, summary, worst, verdict, code>>

Build ==
  /\ stage = "evaluate" /\ todo = {}
  /\ stage' = "build" /\ untallied' = findings
  /\ UNCHANGED <<req, pol, file, current, baseline, compared, todo, findings, summary, worst, verdict, code>>

TallyNoUnknown(f) ==                                     \* the switch of build without its last case
  /\ stage = "build" /\ f \in untallied
  /\ untallied' = untallied \ {f}
  /\ summary' = IF f.status = "UNKNOWN" THEN summary ELSE [summary EXCEPT ![f.status] = @ + 1]
  /\ worst' = IF f.status = "PASS" THEN worst ELSE Worse(worst, Effective(pol, f))
  /\ UNCHANGED <<stage, req, pol, file, current, baseline, compared, todo, findings, verdict, code>>

Tally(f) ==
  /\ stage = "build" /\ f \in untallied
  /\ untallied' = untallied \ {f}
  /\ summary' = [summary EXCEPT ![f.status] = @ + 1]
  /\ worst' = IF f.status = "PASS" THEN worst ELSE Worse(worst, Effective(pol, f))
  /\ UNCHANGED <<stage, req, pol, file, current, baseline, compared, todo, findings, verdict, code>>

ExitCode(status) == CASE status = "FAIL" -> ExitPolicyFailure
                      [] status = "WARN" -> req.warnExitCode
                      [] OTHER -> ExitPass

\* the report is written and the process exits, or the response is sent
Report ==
  /\ stage = "build" /\ untallied = {}
  /\ verdict' = worst
  /\ Answer(IF req.entry = "cli" THEN ExitCode(worst) ELSE 200)
  /\ UNCHANGED <<req, pol, file, current, baseline, compared, todo, findings, untallied, summary, worst>>

Next == \/ ParseArguments \/ LoadPolicy \/ LoadCurrent \/ LoadBaseline \/ Fails
        \/ \E e \in Endpoints : EvaluateEndpoint(e)
        \/ Build
        \/ \E f \in untallied : Tally(f)
        \/ Report

Spec == Init /\ [][Next]_vars
-----------------------------------------------------------------------------
(* Properties *)

Stages == {"arguments", "policy", "current", "baseline", "evaluate", "build", "done"}
FindingSet == [scope : Endpoints, metric : Metrics, check : {"budget", "regression"}, status : Statuses,
               reason : {"", "insufficient_samples", "no_baseline_for_endpoint", "insufficient_baseline_samples"}]

\* What docs/performance-gate.md calls the overall status: FAIL always wins over WARN, which always wins over PASS, an
\* UNKNOWN finding counting as the policy's unknown_treatment.
Overall(p, F) ==
  LET counted == {Effective(p, f) : f \in F}
  IN  IF "FAIL" \in counted THEN "FAIL" ELSE IF "WARN" \in counted THEN "WARN" ELSE "PASS"
FindingsOf(E) == UNION {EndpointFindings(pol, current, compared, baseline, e) : e \in E}
OverallStatus(p, cur, withBase, base) == Overall(p, UNION {EndpointFindings(p, cur, withBase, base, e) : e \in DOMAIN cur})

\* Whatever the order in which endpoints are evaluated and findings weighed (Evaluate and build), the verdict is the
\* overall status of the findings of every endpoint of the current run.
VerdictIsWorst == verdict # NoVerdict => verdict = Overall(pol, FindingsOf(DOMAIN current))

Weighed(s) == {f \in findings \ untallied : f.status = s}
Reported(s) == {f \in FindingsOf(DOMAIN current) : f.status = s}

\* The types of the variables of runGate and HandleGate; and the summary of the report counts every finding that was
\* weighed once, so that at the end it agrees with the verdict and with the list of violations (build, 362-390).
TypeOK ==
  /\ stage \in Stages /\ req \in Requests
  /\ stage \in {"current", "baseline", "evaluate", "build"} => pol.unknown \in {"PASS", "WARN", "FAIL"}
  /\ IsRunStats(current) /\ IsRunStats(baseline) /\ compared \in BOOLEAN
  /\ todo \subseteq DOMAIN current
  /\ findings \subseteq FindingSet /\ untallied \subseteq findings
  /\ summary \in [Statuses -> Nat] /\ worst \in {"PASS", "WARN", "FAIL"}
  /\ verdict \in {NoVerdict, "PASS", "WARN", "FAIL"} /\ code \in Nat
  /\ stage = "build" => \A s \in Statuses : summary[s] = Cardinality(Weighed(s))
  /\ verdict = "PASS" => summary["FAIL"] = 0 /\ summary["WARN"] = 0 /\ (summary["UNKNOWN"] = 0 \/ pol.unknown = "PASS")
  /\ verdict # NoVerdict => \A s \in Statuses : summary[s] = Cardinality(Reported(s))

\* A run that is slower, or fails more, in one metric of one endpoint is never judged better: the budget, the relative
\* threshold and the noise floor of regressionFinding, and their WARN tiers, never work against each other.
SlowerIsNeverBetter ==
  verdict # NoVerdict =>
    \A e \in DOMAIN current, m \in Metrics, by \in Slowdowns :
      Rank(OverallStatus(pol, [current EXCEPT ![e].value[m] = @ + by], compared, baseline)) >= Rank(verdict)

\* Asking for a comparison never hides a budget: the verdict with a baseline is at least as bad as the one the same run
\* gets in Performance-Budget-only mode (Evaluate with a nil baseline).
BaselineHidesNothing ==
  verdict # NoVerdict => Rank(verdict) >= Rank(OverallStatus(pol, current, FALSE, NoStats))

\* "never silently PASS": unless the policy says that UNKNOWN is PASS, a PASS means that every check configured for every
\* endpoint of the current run was made, on enough requests of the current run and of the baseline.
PassIsTrusted ==
  verdict = "PASS" /\ pol.unknown # "PASS" =>
    \A e \in DOMAIN current, m \in Metrics :
      LET t == EffectiveMetricPolicy(pol, e).limits[m]
          Enough(stats) == e \in DOMAIN stats /\ stats[e].requests >= MinSamples(pol, e)
      IN  /\ t.max \cup t.warn # {} => Enough(current)
          /\ compared /\ t.maxRegression \cup t.warnRegression # {} => Enough(current) /\ Enough(baseline)

\* The exit code contract of report.go: 2 means that there is no verdict, whatever step of runGate failed, and only that,
\* unless the caller himself asked for 2 on WARN.
ToolErrorIsNoVerdict ==
  stage = "done" /\ req.entry = "cli" /\ req.warnExitCode # ExitToolError =>
    (code = ExitToolError <=> verdict = NoVerdict)

\* "The gate never forces a PASS or FAIL out of data it cannot trust" (docs/performance-gate.md:53), with one exception:
\* a PASS about no request at all comes from naming a run that the file does not hold, and from nothing else
\* (loadEndpointStats, main.go 297-307; HandleGate).
EmptyPassNamesAMissingRun ==
  verdict = "PASS" /\ DOMAIN current = {} => req.run # NoRun /\ req.run \notin DOMAIN file

\* A run compared with itself regresses only where rows were stored between the two queries of HandleGate
\* (analysis_handlers.go 372-387), and every endpoint of it then has a baseline that is as good as itself. (A limit that
\* is negative, which Validate lets through, asks for an improvement: no run meets it against itself.)
SelfComparisonNeedsGrowth ==
  verdict # NoVerdict /\ req.baselineRun = req.run /\ req.run # NoRun /\ (req.entry = "cli" => ~req.baselineFile) =>
    \A f \in FindingsOf(DOMAIN current) : f.check = "regression" =>
      /\ f.reason \notin {"no_baseline_for_endpoint", "insufficient_baseline_samples"}
      /\ f.status \in {"WARN", "FAIL"} =>
           \/ baseline[f.scope].requests > current[f.scope].requests
           \/ LET t == EffectiveMetricPolicy(pol, f.scope).limits[f.metric]
              IN  \E l \in t.maxRegression \cup t.warnRegression : l < 0
=============================================================================
