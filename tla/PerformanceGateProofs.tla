------------------------- MODULE PerformanceGateProofs -------------------------
(* What the gate shows for any policies, files and endpoints: its verdict does not depend on the order of the loops,   *)
(* counts every finding once, is no better where requests are slower or a baseline is added, and is never a silent     *)
(* PASS.  Then what surrounds it: the browser's view of the gate (BrowserGate), check-analysis (QueryCatalog), and the *)
(* command line, in whatever order and spelling it is typed (Duckload).                                                *)
EXTENDS Duckload, BrowserGate, SequenceTheorems, FiniteSetTheorems, WellFoundedInduction, TLAPS

\* Every finding has one of the four statuses, whatever evaluateLatency and evaluateErrorRate were given.
LEMMA FindingHasStatus ==
  ASSUME NEW p, NEW cur, NEW withBase, NEW base, NEW e, NEW f \in EndpointFindings(p, cur, withBase, base, e)
  PROVE  f.status \in Statuses
<1>1. \A x, y : Graded(x, y) \in Statuses
  BY DEF Graded, Statuses
<1>2. ASSUME NEW m, f \in BudgetChecks(p, cur, e, m) PROVE f.status \in Statuses
  <2>1. \/ f = UnknownFinding(e, m, "budget", "insufficient_samples")
        \/ \E t, is : f = BudgetFinding(e, m, t, is)
    BY <1>2 DEF BudgetChecks
  <2>2. CASE f = UnknownFinding(e, m, "budget", "insufficient_samples")
    BY <2>2 DEF UnknownFinding, Finding, Statuses
  <2>3. ASSUME NEW t, NEW is, f = BudgetFinding(e, m, t, is) PROVE f.status \in Statuses
    BY <2>3, <1>1 DEF BudgetFinding, Finding
  <2> QED BY <2>1, <2>2, <2>3
<1>3. ASSUME NEW m, f \in RegressionChecks(p, cur, base, e, m) PROVE f.status \in Statuses
  <2>1. \/ \E reason : f = UnknownFinding(e, m, "regression", reason)
        \/ \E t, was, is : f = RegressionFinding(e, m, t, was, is)
    BY <1>3 DEF RegressionChecks
  <2>2. ASSUME NEW reason, f = UnknownFinding(e, m, "regression", reason) PROVE f.status \in Statuses
    BY <2>2 DEF UnknownFinding, Finding, Statuses
  <2>3. ASSUME NEW t, NEW was, NEW is, f = RegressionFinding(e, m, t, was, is) PROVE f.status \in Statuses
    BY <2>3, <1>1 DEF RegressionFinding, Finding
  <2> QED BY <2>1, <2>2, <2>3
<1> QED BY <1>2, <1>3 DEF EndpointFindings

\* One step of build: weighing one more finding gives the overall status of the findings weighed so far.
LEMMA OneMoreFinding ==
  ASSUME NEW p, NEW F, NEW f, f.status \in Statuses, p.unknown \in {"PASS", "WARN", "FAIL"}
  PROVE  Overall(p, F \cup {f}) = IF f.status = "PASS" THEN Overall(p, F) ELSE Worse(Overall(p, F), Effective(p, f))
<1> DEFINE C == {Effective(p, g) : g \in F}
<1>1. {Effective(p, g) : g \in F \cup {f}} = C \cup {Effective(p, f)}
  OBVIOUS
<1>2. Effective(p, f) \in {"PASS", "WARN", "FAIL"} /\ (f.status = "PASS" => Effective(p, f) = "PASS")
  BY DEF Effective, Statuses
<1>3. Rank("PASS") = 0 /\ Rank("WARN") = 2 /\ Rank("FAIL") = 3
  BY DEF Rank
<1>4. Overall(p, F) = IF "FAIL" \in C THEN "FAIL" ELSE IF "WARN" \in C THEN "WARN" ELSE "PASS"
  BY DEF Overall
<1>5. Overall(p, F \cup {f}) = IF "FAIL" \in C \cup {Effective(p, f)} THEN "FAIL"
                               ELSE IF "WARN" \in C \cup {Effective(p, f)} THEN "WARN" ELSE "PASS"
  BY <1>1 DEF Overall
<1> HIDE DEF C
<1>6. CASE Effective(p, f) = "PASS"
  BY <1>2, <1>3, <1>4, <1>5, <1>6 DEF Worse
<1>7. CASE Effective(p, f) = "WARN"
  BY <1>2, <1>3, <1>4, <1>5, <1>7 DEF Worse
<1>8. CASE Effective(p, f) = "FAIL"
  BY <1>2, <1>3, <1>4, <1>5, <1>8 DEF Worse
<1> QED BY <1>2, <1>6, <1>7, <1>8
-----------------------------------------------------------------------------
(* The inductive invariant: what the two loops have done when they are part of the way *)

LoadInv == stage \in {"arguments", "policy", "current", "baseline"} =>
             /\ findings = {} /\ worst = "PASS" /\ verdict = NoVerdict
             /\ stage = "baseline" => todo = DOMAIN current
EvaluateInv == stage = "evaluate" => /\ todo \subseteq DOMAIN current /\ findings = FindingsOf(DOMAIN current \ todo)
                                     /\ worst = "PASS" /\ verdict = NoVerdict
BuildInv == stage = "build" => /\ findings = FindingsOf(DOMAIN current) /\ untallied \subseteq findings
                               /\ worst = Overall(pol, findings \ untallied) /\ verdict = NoVerdict
PolicyInv == stage \in {"current", "baseline", "evaluate", "build"} => pol.unknown \in {"PASS", "WARN", "FAIL"}
StageInv == stage \in Stages

GateInv == StageInv /\ PolicyInv /\ LoadInv /\ EvaluateInv /\ BuildInv /\ VerdictIsWorst /\ ToolErrorIsNoVerdict

LEMMA InitGateInv == Init => GateInv
  BY DEF Init, GateInv, StageInv, Stages, PolicyInv, LoadInv, EvaluateInv, BuildInv, VerdictIsWorst, ToolErrorIsNoVerdict

\* An early return is a tool error for the command line, and no verdict.
LEMMA ErrorKeepsGateInv ==
  ASSUME GateInv, stage # "done", ErrorAnswer, req' = req, verdict' = verdict
  PROVE  GateInv'
<1>1. stage' = "done" /\ verdict' = NoVerdict /\ (req.entry = "cli" => code' = ExitToolError)
  BY DEF GateInv, StageInv, Stages, LoadInv, EvaluateInv, BuildInv, ErrorAnswer, Answer
<1> QED
  BY <1>1 DEF GateInv, StageInv, Stages, PolicyInv, LoadInv, EvaluateInv, BuildInv, VerdictIsWorst, ToolErrorIsNoVerdict

\* Before the evaluation a step only moves on to the next stage.
LEMMA LoadingKeepsGateInv == ASSUME GateInv, ParseArguments \/ LoadPolicy \/ LoadCurrent \/ LoadBaseline PROVE GateInv'
<1> USE DEF GateInv, StageInv, Stages, PolicyInv, LoadInv, EvaluateInv, BuildInv, VerdictIsWorst, ToolErrorIsNoVerdict
<1>1. CASE ParseArguments
  <2>1. CASE ErrorAnswer
    BY <1>1, <2>1, ErrorKeepsGateInv DEF ParseArguments
  <2>2. CASE stage' = "policy"
    BY <1>1, <2>2 DEF ParseArguments
  <2> QED BY <1>1, <2>1, <2>2 DEF ParseArguments
<1>2. CASE LoadPolicy
  <2>1. CASE ErrorAnswer
    BY <1>2, <2>1, ErrorKeepsGateInv DEF LoadPolicy
  <2>2. CASE stage' = "current" /\ \E p \in Policies : ValidPolicy(p) /\ pol' = Parsed(p)
    <3>1. PICK p \in Policies : ValidPolicy(p) /\ pol' = Parsed(p)
      BY <2>2
    <3>2. Parsed(p).unknown \in {"PASS", "WARN", "FAIL"}
      <4>1. CASE p.unknown = ""
        BY <3>1, <4>1, PoliciesAssumption DEF Parsed
      <4>2. CASE p.unknown # ""
        BY <3>1, <4>2 DEF Parsed, ValidPolicy
      <4> QED BY <4>1, <4>2
    <3> QED BY <1>2, <2>2, <3>1, <3>2 DEF LoadPolicy
  <2> QED BY <1>2, <2>1, <2>2 DEF LoadPolicy
<1>3. CASE LoadCurrent
  <2>1. CASE ErrorAnswer
    BY <1>3, <2>1, ErrorKeepsGateInv DEF LoadCurrent
  <2>2. CASE stage' = "baseline" /\ todo' = DOMAIN current'
    BY <1>3, <2>2 DEF LoadCurrent
  <2> QED BY <1>3, <2>1, <2>2 DEF LoadCurrent
<1>4. CASE LoadBaseline
  <2>1. CASE ErrorAnswer
    BY <1>4, <2>1, ErrorKeepsGateInv DEF LoadBaseline
  <2>2. CASE stage' = "evaluate"
    <3>1. stage = "baseline" /\ todo' = DOMAIN current' /\ findings' = {} /\ worst' = "PASS" /\ verdict' = NoVerdict
      BY <1>4 DEF LoadBaseline
    <3>2. FindingsOf(DOMAIN current \ todo)' = {}
      BY <3>1 DEF FindingsOf
    <3> QED BY <1>4, <2>2, <3>1, <3>2 DEF LoadBaseline
  <2> QED BY <1>4, <2>1, <2>2 DEF LoadBaseline
<1> QED BY <1>1, <1>2, <1>3, <1>4

\* The loop of Evaluate: the findings are those of the endpoints it has reached.
LEMMA EvaluateKeepsGateInv == ASSUME GateInv, NEW e \in Endpoints, EvaluateEndpoint(e) PROVE GateInv'
<1>1. /\ stage = "evaluate" /\ stage' = stage /\ e \in todo /\ todo \subseteq DOMAIN current
      /\ findings = FindingsOf(DOMAIN current \ todo)
  BY DEF GateInv, EvaluateInv, EvaluateEndpoint
<1>2. (DOMAIN current \ todo)' = (DOMAIN current \ todo) \cup {e}
  BY <1>1 DEF EvaluateEndpoint
<1>3. FindingsOf((DOMAIN current \ todo) \cup {e})
        = FindingsOf(DOMAIN current \ todo) \cup EndpointFindings(pol, current, compared, baseline, e)
  BY DEF FindingsOf
<1>4. UNCHANGED <<pol, current, compared, baseline>>
  BY DEF EvaluateEndpoint
<1>5. findings' = FindingsOf(DOMAIN current \ todo)'
  BY <1>1, <1>2, <1>3, <1>4 DEF FindingsOf, EvaluateEndpoint
<1> QED
  BY <1>1, <1>5 DEF GateInv, StageInv, Stages, PolicyInv, LoadInv, EvaluateInv, BuildInv, VerdictIsWorst,
                    ToolErrorIsNoVerdict, EvaluateEndpoint

LEMMA BuildKeepsGateInv == ASSUME GateInv, Build PROVE GateInv'
<1>1. /\ stage = "evaluate" /\ stage' = "build" /\ untallied' = findings /\ verdict' = NoVerdict /\ worst' = "PASS"
      /\ findings' = findings /\ pol' = pol
  BY DEF Build, GateInv, EvaluateInv
<1>2. findings = FindingsOf(DOMAIN current)
  <2>1. DOMAIN current \ todo = DOMAIN current
    BY DEF Build
  <2> QED BY <1>1, <2>1 DEF GateInv, EvaluateInv
<1>3. findings' = FindingsOf(DOMAIN current)'
  BY <1>1, <1>2 DEF FindingsOf, Build
<1>4. Overall(pol, findings \ untallied)' = "PASS"
  <2>1. (findings \ untallied)' = {}
    BY <1>1
  <2> QED BY <2>1 DEF Overall
<1> QED
  BY <1>1, <1>3, <1>4 DEF GateInv, StageInv, Stages, PolicyInv, LoadInv, EvaluateInv, BuildInv, VerdictIsWorst,
                          ToolErrorIsNoVerdict

\* The loop of build: worst is the overall status of the findings it has reached.
LEMMA TallyKeepsGateInv == ASSUME GateInv, NEW f \in untallied, Tally(f) PROVE GateInv'
<1>1. /\ stage = "build" /\ stage' = stage /\ findings = FindingsOf(DOMAIN current) /\ untallied \subseteq findings
      /\ worst = Overall(pol, findings \ untallied) /\ verdict = NoVerdict /\ verdict' = verdict
      /\ pol' = pol /\ findings' = findings /\ untallied' = untallied \ {f}
      /\ pol.unknown \in {"PASS", "WARN", "FAIL"}
  BY DEF GateInv, BuildInv, PolicyInv, Tally
<1>2. f.status \in Statuses
  <2>1. PICK e \in DOMAIN current : f \in EndpointFindings(pol, current, compared, baseline, e)
    BY <1>1 DEF FindingsOf
  <2> QED BY <2>1, FindingHasStatus
<1>3. (findings \ untallied)' = (findings \ untallied) \cup {f}
  BY <1>1
<1>4. worst' = Overall(pol, (findings \ untallied) \cup {f})
  BY <1>1, <1>2, OneMoreFinding DEF Tally
<1>5. worst' = Overall(pol, findings \ untallied)'
  BY <1>1, <1>3, <1>4 DEF Overall, Effective
<1>6. findings' = FindingsOf(DOMAIN current)'
  BY <1>1 DEF FindingsOf, Tally
<1> QED
  BY <1>1, <1>5, <1>6 DEF GateInv, StageInv, Stages, PolicyInv, LoadInv, EvaluateInv, BuildInv, VerdictIsWorst,
                          ToolErrorIsNoVerdict

LEMMA ReportKeepsGateInv == ASSUME GateInv, Report PROVE GateInv'
<1>1. /\ stage = "build" /\ stage' = "done" /\ untallied = {} /\ verdict' = worst
      /\ worst = Overall(pol, findings \ untallied) /\ findings = FindingsOf(DOMAIN current)
      /\ req' = req /\ (req.entry = "cli" => code' = ExitCode(worst))
  BY DEF GateInv, BuildInv, Report, Answer
<1>2. findings \ untallied = findings
  BY <1>1
<1>3. worst \in {"PASS", "WARN", "FAIL"}
  BY <1>1 DEF Overall
<1>4. VerdictIsWorst'
  BY <1>1, <1>2 DEF VerdictIsWorst, FindingsOf, Overall, Effective, Report
<1>5. req.entry = "cli" /\ req.warnExitCode # ExitToolError => code' # ExitToolError
  BY <1>1, <1>3 DEF ExitCode, ExitPolicyFailure, ExitPass, ExitToolError
<1>6. verdict' # NoVerdict
  BY <1>1, <1>3 DEF NoVerdict
<1> QED
  BY <1>1, <1>4, <1>5, <1>6 DEF GateInv, StageInv, Stages, PolicyInv, LoadInv, EvaluateInv, BuildInv, ToolErrorIsNoVerdict

LEMMA StepKeepsGateInv == GateInv /\ [Next]_vars => GateInv'
<1> SUFFICES ASSUME GateInv, [Next]_vars PROVE GateInv'
  OBVIOUS
<1>1. CASE ParseArguments \/ LoadPolicy \/ LoadCurrent \/ LoadBaseline
  BY <1>1, LoadingKeepsGateInv
<1>2. CASE Fails
  BY <1>2, ErrorKeepsGateInv DEF Fails
<1>3. ASSUME NEW e \in Endpoints, EvaluateEndpoint(e) PROVE GateInv'
  BY <1>3, EvaluateKeepsGateInv
<1>4. CASE Build
  BY <1>4, BuildKeepsGateInv
<1>5. ASSUME NEW f \in untallied, Tally(f) PROVE GateInv'
  BY <1>5, TallyKeepsGateInv
<1>6. CASE Report
  BY <1>6, ReportKeepsGateInv
<1>7. CASE UNCHANGED vars
  BY <1>7 DEF vars, GateInv, StageInv, PolicyInv, LoadInv, EvaluateInv, BuildInv, VerdictIsWorst, ToolErrorIsNoVerdict,
             FindingsOf, Overall, Effective
<1> QED BY <1>1, <1>2, <1>3, <1>4, <1>5, <1>6, <1>7 DEF Next

LEMMA GateInvariant == Spec => []GateInv
  BY InitGateInv, StepKeepsGateInv, PTL DEF Spec

\* Whatever the order of the loops of Evaluate and build, the verdict is the overall status of the findings of every
\* endpoint of the current run: no finding is lost or outweighed by a later one.
THEOREM VerdictDoesNotDependOnOrder == Spec => []VerdictIsWorst
<1>1. GateInv => VerdictIsWorst
  BY DEF GateInv
<1> QED BY <1>1, GateInvariant, PTL

\* runGate exits with 2 exactly when it has no verdict, whichever of its steps failed.
THEOREM ExitCodeContract == Spec => []ToolErrorIsNoVerdict
<1>1. GateInv => ToolErrorIsNoVerdict
  BY DEF GateInv
<1> QED BY <1>1, GateInvariant, PTL

-----------------------------------------------------------------------------
(* The checks and what they depend on *)

PolicyOK(p) == /\ p.unknown \in {"PASS", "WARN", "FAIL"}
               /\ p.defaults \in MetricPolicies
               /\ \A e \in DOMAIN p.endpoints : p.endpoints[e] \in MetricPolicies

\* Merging keeps every threshold an optional number, and the minimum of samples is a number.
LEMMA EffectivePolicyType ==
  ASSUME NEW p, PolicyOK(p), NEW e
  PROVE  /\ MinSamples(p, e) \in Int
         /\ \A m \in Metrics : LET t == EffectiveMetricPolicy(p, e).limits[m] IN
              /\ t.max \subseteq Int /\ t.warn \subseteq Int
              /\ t.maxRegression \subseteq Int /\ t.warnRegression \subseteq Int /\ t.floor \subseteq Int
<1> DEFINE own == p.endpoints[e]
           merged == EffectiveMetricPolicy(p, e)
<1>1. CASE e \notin DOMAIN p.endpoints
  <2>1. merged = p.defaults
    BY <1>1 DEF EffectiveMetricPolicy
  <2>2. merged \in MetricPolicies
    BY <2>1 DEF PolicyOK
  <2>3. MinSamples(p, e) \in Int
    BY <2>2, NamesAssumption DEF MinSamples, MetricPolicies, Optional
  <2> QED BY <2>2, <2>3 DEF MetricPolicies, Thresholds, Optional
<1>2. CASE e \in DOMAIN p.endpoints
  <2>1. own \in MetricPolicies /\ p.defaults \in MetricPolicies
    BY <1>2 DEF PolicyOK
  <2>2. merged = [minSamples |-> Override(p.defaults.minSamples, own.minSamples),
                  limits     |-> [m \in Metrics |-> MergeLimits(p.defaults.limits[m], own.limits[m])]]
    BY <1>2 DEF EffectiveMetricPolicy
  <2>3. merged.minSamples \subseteq Int
    BY <2>1, <2>2 DEF MetricPolicies, Optional, Override
  <2>4. MinSamples(p, e) \in Int
    BY <2>3, NamesAssumption DEF MinSamples
  <2>5. ASSUME NEW m \in Metrics
        PROVE  LET t == merged.limits[m] IN
                 /\ t.max \subseteq Int /\ t.warn \subseteq Int
                 /\ t.maxRegression \subseteq Int /\ t.warnRegression \subseteq Int /\ t.floor \subseteq Int
    <3> DEFINE a == p.defaults.limits[m]
               b == own.limits[m]
    <3>1. a \in Thresholds /\ b \in Thresholds
      BY <2>1 DEF MetricPolicies
    <3>2. merged.limits[m] = MergeLimits(a, b)
      BY <2>2
    <3> HIDE DEF a, b, merged, own
    <3>3. MergeLimits(a, b) = [f \in DOMAIN a |-> Override(a[f], b[f])]
      BY DEF MergeLimits
    <3>4. DOMAIN a = {"max", "warn", "maxRegression", "warnRegression", "floor"}
      BY <3>1 DEF Thresholds
    <3>5. ASSUME NEW f \in DOMAIN a PROVE a[f] \subseteq Int /\ b[f] \subseteq Int
      BY <3>1, <3>4, <3>5 DEF Thresholds, Optional
    <3>6. ASSUME NEW f \in DOMAIN a PROVE MergeLimits(a, b)[f] \subseteq Int
      BY <3>3, <3>5, <3>6 DEF Override
    <3> QED BY <3>2, <3>4, <3>6
  <2> QED BY <2>4, <2>5
<1> QED BY <1>1, <1>2

\* What a finding is: of its endpoint, of one of the metrics, and UNKNOWN exactly if a reason is given.
LEMMA FindingType ==
  ASSUME NEW p, NEW cur, NEW withBase, NEW base, NEW e \in Endpoints, NEW f \in EndpointFindings(p, cur, withBase, base, e)
  PROVE  f \in FindingSet
<1>1. \A x, y : Graded(x, y) \in {"PASS", "WARN", "FAIL"}
  BY DEF Graded
<1>2. \A m \in Metrics, check \in {"budget", "regression"}, st \in Statuses,
         reason \in {"", "insufficient_samples", "no_baseline_for_endpoint", "insufficient_baseline_samples"} :
        Finding(e, m, check, st, reason) \in FindingSet
  BY DEF Finding, FindingSet
<1>3. ASSUME NEW m \in Metrics, f \in BudgetChecks(p, cur, e, m) PROVE f \in FindingSet
  <2>1. \/ f = UnknownFinding(e, m, "budget", "insufficient_samples")
        \/ \E t, is : f = BudgetFinding(e, m, t, is)
    BY <1>3 DEF BudgetChecks
  <2> QED BY <2>1, <1>1, <1>2 DEF UnknownFinding, BudgetFinding, Statuses
<1>4. ASSUME NEW m \in Metrics, f \in RegressionChecks(p, cur, base, e, m) PROVE f \in FindingSet
  <2>1. \/ \E reason \in {"insufficient_samples", "no_baseline_for_endpoint", "insufficient_baseline_samples"} :
             f = UnknownFinding(e, m, "regression", reason)
        \/ \E t, was, is : f = RegressionFinding(e, m, t, was, is)
    BY <1>4 DEF RegressionChecks
  <2> QED BY <2>1, <1>1, <1>2 DEF UnknownFinding, RegressionFinding, Statuses
<1> QED BY <1>3, <1>4 DEF EndpointFindings

\* One endpoint gives at most two findings for each metric.
LEMMA FindingsAreFinite ==
  ASSUME NEW p, NEW cur, NEW withBase, NEW base, NEW e
  PROVE  IsFiniteSet(EndpointFindings(p, cur, withBase, base, e))
<1> DEFINE at == [m \in Metrics |-> BudgetChecks(p, cur, e, m)
                                    \cup (IF withBase THEN RegressionChecks(p, cur, base, e, m) ELSE {})]
           T == {at[m] : m \in Metrics}
<1>1. IsFiniteSet(Metrics)
  BY NamesAssumption, FS_AddElement DEF Metrics
<1>2. IsFiniteSet(T)
  <2>1. at \in Surjection(Metrics, T)
    BY DEF Surjection
  <2> QED BY <1>1, <2>1, FS_Surjection
<1>3. ASSUME NEW m \in Metrics PROVE IsFiniteSet(at[m])
  <2>1. BudgetChecks(p, cur, e, m) = {} \/ \E f : BudgetChecks(p, cur, e, m) = {f}
    BY DEF BudgetChecks
  <2>2. RegressionChecks(p, cur, base, e, m) = {} \/ \E f : RegressionChecks(p, cur, base, e, m) = {f}
    BY DEF RegressionChecks
  <2>3. IsFiniteSet(BudgetChecks(p, cur, e, m))
    BY <2>1, FS_EmptySet, FS_Singleton
  <2>4. IsFiniteSet(IF withBase THEN RegressionChecks(p, cur, base, e, m) ELSE {})
    BY <2>2, FS_EmptySet, FS_Singleton
  <2> QED BY <2>3, <2>4, FS_Union
<1>4. EndpointFindings(p, cur, withBase, base, e) = UNION T
  BY DEF EndpointFindings
<1> HIDE DEF T, at
<1>5. \A S \in T : IsFiniteSet(S)
  BY <1>3 DEF T
<1> QED BY <1>2, <1>4, <1>5, FS_UNION

AsBad(p, g, f) == /\ Effective(p, f) = "FAIL" => Effective(p, g) = "FAIL"
                  /\ Effective(p, f) = "WARN" => Effective(p, g) \in {"WARN", "FAIL"}

\* The overall status never gets better when every finding is matched by one that is as bad.
LEMMA OverallMonotone ==
  ASSUME NEW p, NEW F, NEW G,
         \A f \in F : \E g \in G : AsBad(p, g, f)
  PROVE  Rank(Overall(p, G)) >= Rank(Overall(p, F))
<1> DEFINE C(S) == {Effective(p, f) : f \in S}
<1>1. /\ "FAIL" \in C(F) => "FAIL" \in C(G)
      /\ "WARN" \in C(F) => "WARN" \in C(G) \/ "FAIL" \in C(G)
  BY DEF AsBad
<1>2. Rank("PASS") = 0 /\ Rank("WARN") = 2 /\ Rank("FAIL") = 3
  BY DEF Rank
<1>3. \A S : Overall(p, S) = IF "FAIL" \in C(S) THEN "FAIL" ELSE IF "WARN" \in C(S) THEN "WARN" ELSE "PASS"
  BY DEF Overall
<1> HIDE DEF C
<1> QED BY <1>1, <1>2, <1>3

\* A graded finding gets no better when what failed still fails and what warned warns or fails.
LEMMA GradedMonotone ==
  ASSUME NEW p, NEW e, NEW m, NEW check, NEW fails, NEW warns, NEW fails2, NEW warns2,
         fails => fails2, warns => warns2 \/ fails2
  PROVE  AsBad(p, Finding(e, m, check, Graded(fails2, warns2), ""), Finding(e, m, check, Graded(fails, warns), ""))
<1>1. \A st \in {"PASS", "WARN", "FAIL"} : Effective(p, Finding(e, m, check, st, "")) = st
  BY DEF Effective, Finding
<1>2. Graded(fails, warns) \in {"PASS", "WARN", "FAIL"} /\ Graded(fails2, warns2) \in {"PASS", "WARN", "FAIL"}
  BY DEF Graded
<1>3. Graded(fails, warns) = "FAIL" => Graded(fails2, warns2) = "FAIL"
  BY DEF Graded
<1>4. Graded(fails, warns) = "WARN" => Graded(fails2, warns2) \in {"WARN", "FAIL"}
  BY DEF Graded
<1> QED BY <1>1, <1>2, <1>3, <1>4 DEF AsBad

\* Each threshold that a value passes is passed by a greater value, absolute or relative, with or without a floor.
LEMMA ThresholdsMonotone ==
  ASSUME NEW limit, limit \subseteq Int, NEW was \in Nat, NEW is \in Nat, NEW more \in Nat, more >= is
  PROVE  /\ Above(limit, is) => Above(limit, more)
         /\ Above(limit, is - was) => Above(limit, more - was)
         /\ PercentAbove(limit, was, is) => PercentAbove(limit, was, more)
<1>1. Above(limit, is) => Above(limit, more)
  BY DEF Above
<1>2. Above(limit, is - was) => Above(limit, more - was)
  BY DEF Above
<1>3. PercentAbove(limit, was, is) => PercentAbove(limit, was, more)
  <2> SUFFICES ASSUME PercentAbove(limit, was, is) PROVE PercentAbove(limit, was, more)
    OBVIOUS
  <2>1. PICK l \in limit : IF was = 0 THEN 0 > l ELSE (is - was) * 100 > l * was
    BY DEF PercentAbove
  <2>2. CASE was = 0
    BY <2>1, <2>2 DEF PercentAbove
  <2>3. CASE was # 0
    <3> DEFINE bound == l * was
    <3>1. bound \in Int /\ (is - was) * 100 > bound
      BY <2>1, <2>3
    <3> HIDE DEF bound
    <3>2. (more - was) * 100 > bound
      BY <3>1
    <3>3. (more - was) * 100 > l * was
      BY <3>2 DEF bound
    <3> QED BY <2>3, <3>3 DEF PercentAbove
  <2> QED BY <2>2, <2>3
<1> QED BY <1>1, <1>2, <1>3

LEMMA SlowerRegressionIsNoBetter ==
  ASSUME NEW p, NEW e, NEW m, NEW t, t.maxRegression \subseteq Int, t.warnRegression \subseteq Int, t.floor \subseteq Int,
         NEW was \in Nat, NEW is \in Nat, NEW more \in Nat, more >= is
  PROVE  AsBad(p, RegressionFinding(e, m, t, was, more), RegressionFinding(e, m, t, was, is))
<1> DEFINE floors(x) == \A l \in Override({0}, t.floor) : x - was >= l
           exceeds(limit, x) == IF m = "error_rate" THEN Above(limit, x - was)
                                                    ELSE PercentAbove(limit, was, x) /\ floors(x)
<1>1. floors(is) => floors(more)
  BY DEF Override
<1>2. \A x : RegressionFinding(e, m, t, was, x)
               = Finding(e, m, "regression", Graded(exceeds(t.maxRegression, x), exceeds(t.warnRegression, x)), "")
  BY DEF RegressionFinding
<1>3. \A limit : limit \subseteq Int /\ exceeds(limit, is) => exceeds(limit, more)
  <2> SUFFICES ASSUME NEW limit, limit \subseteq Int, exceeds(limit, is) PROVE exceeds(limit, more)
    OBVIOUS
  <2>1. /\ Above(limit, is - was) => Above(limit, more - was)
        /\ PercentAbove(limit, was, is) => PercentAbove(limit, was, more)
    BY ThresholdsMonotone
  <2> HIDE DEF floors
  <2> QED BY <2>1, <1>1
<1>4. /\ exceeds(t.maxRegression, is) => exceeds(t.maxRegression, more)
      /\ exceeds(t.warnRegression, is) => exceeds(t.warnRegression, more)
  BY <1>3
<1> HIDE DEF exceeds, floors
<1>5. AsBad(p, Finding(e, m, "regression", Graded(exceeds(t.maxRegression, more), exceeds(t.warnRegression, more)), ""),
               Finding(e, m, "regression", Graded(exceeds(t.maxRegression, is), exceeds(t.warnRegression, is)), ""))
  BY <1>4, GradedMonotone
<1>6. RegressionFinding(e, m, t, was, is)
        = Finding(e, m, "regression", Graded(exceeds(t.maxRegression, is), exceeds(t.warnRegression, is)), "")
  BY <1>2
<1>7. RegressionFinding(e, m, t, was, more)
        = Finding(e, m, "regression", Graded(exceeds(t.maxRegression, more), exceeds(t.warnRegression, more)), "")
  BY <1>2
<1> QED BY <1>5, <1>6, <1>7, Zenon

\* What the checks of one endpoint find about slower statistics is as bad as what they find about the statistics.
LEMMA SlowerFindingsAreNoBetter ==
  ASSUME NEW p, PolicyOK(p), NEW cur, IsRunStats(cur), NEW slower, IsRunStats(slower), NEW base, IsRunStats(base),
         NEW withBase \in BOOLEAN, NEW e \in DOMAIN cur, e \in DOMAIN slower,
         slower[e].requests = cur[e].requests, \A m \in Metrics : slower[e].value[m] >= cur[e].value[m],
         NEW f \in EndpointFindings(p, cur, withBase, base, e)
  PROVE  \E g \in EndpointFindings(p, slower, withBase, base, e) : AsBad(p, g, f)
<1> DEFINE limits(m) == EffectiveMetricPolicy(p, e).limits[m]
<1>1. ASSUME NEW g PROVE AsBad(p, g, g)
  BY DEF AsBad
<1>2. PICK m \in Metrics : \/ f \in BudgetChecks(p, cur, e, m)
                           \/ withBase /\ f \in RegressionChecks(p, cur, base, e, m)
  BY DEF EndpointFindings
<1>3. /\ BudgetChecks(p, slower, e, m) \subseteq EndpointFindings(p, slower, withBase, base, e)
      /\ withBase => RegressionChecks(p, slower, base, e, m) \subseteq EndpointFindings(p, slower, withBase, base, e)
  BY DEF EndpointFindings
<1>4. cur[e].value[m] \in Nat /\ slower[e].value[m] \in Nat /\ slower[e].value[m] >= cur[e].value[m]
  BY DEF IsRunStats
<1>5. /\ limits(m).max \subseteq Int /\ limits(m).warn \subseteq Int
      /\ limits(m).maxRegression \subseteq Int /\ limits(m).warnRegression \subseteq Int /\ limits(m).floor \subseteq Int
  BY EffectivePolicyType
<1> HIDE DEF limits
<1>6. CASE f \in BudgetChecks(p, cur, e, m)
  <2>1. CASE cur[e].requests < MinSamples(p, e)
    <3>1. f \in BudgetChecks(p, slower, e, m)
      BY <1>6, <2>1 DEF BudgetChecks
    <3> QED BY <3>1, <1>1, <1>3
  <2>2. CASE ~(cur[e].requests < MinSamples(p, e))
    <3>1. f = BudgetFinding(e, m, limits(m), cur[e].value[m])
      BY <1>6, <2>2 DEF BudgetChecks, limits
    <3>2. BudgetFinding(e, m, limits(m), slower[e].value[m]) \in BudgetChecks(p, slower, e, m)
      BY <1>6, <2>2 DEF BudgetChecks, limits
    <3>3. /\ Above(limits(m).max, cur[e].value[m]) => Above(limits(m).max, slower[e].value[m])
          /\ Above(limits(m).warn, cur[e].value[m]) => Above(limits(m).warn, slower[e].value[m])
      BY <1>4, <1>5 DEF Above
    <3>4. AsBad(p, BudgetFinding(e, m, limits(m), slower[e].value[m]), BudgetFinding(e, m, limits(m), cur[e].value[m]))
      BY <3>3, GradedMonotone DEF BudgetFinding
    <3> QED BY <3>1, <3>2, <3>4, <1>3
  <2> QED BY <2>1, <2>2
<1>7. CASE withBase /\ f \in RegressionChecks(p, cur, base, e, m)
  <2>1. CASE e \in DOMAIN base /\ ~(cur[e].requests < MinSamples(p, e)) /\ ~(base[e].requests < MinSamples(p, e))
    <3>1. f = RegressionFinding(e, m, limits(m), base[e].value[m], cur[e].value[m])
      BY <1>7, <2>1 DEF RegressionChecks, limits
    <3>2. RegressionFinding(e, m, limits(m), base[e].value[m], slower[e].value[m]) \in RegressionChecks(p, slower, base, e, m)
      BY <1>7, <2>1 DEF RegressionChecks, limits
    <3>3. base[e].value[m] \in Nat
      BY <2>1 DEF IsRunStats
    <3>4. AsBad(p, RegressionFinding(e, m, limits(m), base[e].value[m], slower[e].value[m]),
                   RegressionFinding(e, m, limits(m), base[e].value[m], cur[e].value[m]))
      BY <3>3, <1>4, <1>5, SlowerRegressionIsNoBetter
    <3> QED BY <3>1, <3>2, <3>4, <1>3, <1>7
  <2>2. CASE ~(e \in DOMAIN base /\ ~(cur[e].requests < MinSamples(p, e)) /\ ~(base[e].requests < MinSamples(p, e)))
    <3>1. f \in RegressionChecks(p, slower, base, e, m)
      BY <1>7, <2>2 DEF RegressionChecks
    <3> QED BY <3>1, <1>1, <1>3, <1>7
  <2> QED BY <2>1, <2>2
<1> QED BY <1>2, <1>6, <1>7

\* The verdict about statistics with one value made slower is no better.
LEMMA SlowerStatusIsNoBetter ==
  ASSUME NEW p, PolicyOK(p), NEW cur, IsRunStats(cur), NEW base, IsRunStats(base), NEW withBase \in BOOLEAN,
         NEW e \in DOMAIN cur, NEW m \in Metrics, NEW by \in Nat
  PROVE  Rank(OverallStatus(p, [cur EXCEPT ![e].value[m] = @ + by], withBase, base))
           >= Rank(OverallStatus(p, cur, withBase, base))
<1> DEFINE slower == [cur EXCEPT ![e].value[m] = @ + by]
           F(stats) == UNION {EndpointFindings(p, stats, withBase, base, x) : x \in DOMAIN stats}
<1>1. cur[e].value \in [Metrics -> Nat] /\ cur[e] \in [requests : Nat, value : [Metrics -> Nat]]
  BY DEF IsRunStats
<1>2. [cur[e].value EXCEPT ![m] = @ + by] \in [Metrics -> Nat]
  BY <1>1
<1>3. slower = [cur EXCEPT ![e] = [cur[e] EXCEPT !.value = [cur[e].value EXCEPT ![m] = @ + by]]]
  OBVIOUS
<1>4. [cur[e] EXCEPT !.value = [cur[e].value EXCEPT ![m] = @ + by]]
        = [requests |-> cur[e].requests, value |-> [cur[e].value EXCEPT ![m] = @ + by]]
  BY <1>1
<1> HIDE DEF slower
<1>5. IsRunStats(slower) /\ DOMAIN slower = DOMAIN cur
  BY <1>1, <1>2, <1>3, <1>4 DEF IsRunStats
<1>6. ASSUME NEW x \in DOMAIN cur
      PROVE  slower[x].requests = cur[x].requests /\ \A n \in Metrics : slower[x].value[n] >= cur[x].value[n]
  <2>1. cur[x].value \in [Metrics -> Nat]
    BY DEF IsRunStats
  <2>2. CASE x = e
    BY <1>1, <1>2, <1>3, <1>4, <2>2 DEF IsRunStats
  <2>3. CASE x # e
    BY <1>3, <2>1, <2>3 DEF IsRunStats
  <2> QED BY <2>2, <2>3
<1>7. \A f \in F(cur) : \E g \in F(slower) : AsBad(p, g, f)
  <2> SUFFICES ASSUME NEW f \in F(cur) PROVE \E g \in F(slower) : AsBad(p, g, f)
    OBVIOUS
  <2>1. PICK x \in DOMAIN cur : f \in EndpointFindings(p, cur, withBase, base, x)
    OBVIOUS
  <2>2. \E g \in EndpointFindings(p, slower, withBase, base, x) : AsBad(p, g, f)
    BY <1>5, <1>6, <2>1, SlowerFindingsAreNoBetter
  <2> QED BY <1>5, <2>2
<1> HIDE DEF F
<1>8. Rank(Overall(p, F(slower))) >= Rank(Overall(p, F(cur)))
  BY <1>7, OverallMonotone
<1> QED BY <1>8 DEF OverallStatus, F, slower

-----------------------------------------------------------------------------
(* What the verdict is about: the second invariant, which holds with GateInv *)

Compares == stage \in {"evaluate", "build"} \/ verdict # NoVerdict

\* the statistics are those of the run that was asked for, in a file or table that was there
CurrentIsLoaded == file \in Databases /\ \E r \in ResolvedRun(file, req.run) : current = EndpointStats(file, r)
BaselineIsLoaded ==
  compared => \E db \in BaselineSource : db \in Databases /\ \E r \in ResolvedRun(db, req.baselineRun) :
                                                                baseline = EndpointStats(db, r)

DataInv == /\ req \in Requests
           /\ IsRunStats(current) /\ IsRunStats(baseline) /\ compared \in BOOLEAN
           /\ stage \in {"arguments", "policy", "current", "baseline"} => ~compared
           /\ stage \in {"current", "baseline"} \/ Compares => PolicyOK(pol)
           /\ stage = "baseline" \/ Compares => CurrentIsLoaded
           /\ Compares => BaselineIsLoaded

LEMMA StatsType == /\ IsRunStats(NoStats)
                   /\ \A db \in Databases : \A r : IsRunStats(EndpointStats(db, r))
  BY DatabasesAssumption DEF NoStats, IsRunStats, EndpointStats

LEMMA InitDataInv == Init => DataInv
<1> SUFFICES ASSUME Init PROVE DataInv
  OBVIOUS
<1>1. ~Compares /\ stage = "arguments"
  BY DEF Init, Compares
<1> QED BY <1>1, StatsType DEF Init, DataInv

\* A step that leaves the policy and the statistics alone and does not skip a stage.
LEMMA QuietKeepsDataInv ==
  ASSUME DataInv, UNCHANGED <<req, pol, file, current, baseline, compared>>,
         stage' \in {"current", "baseline"} => stage' = stage,
         stage' \in {"arguments", "policy"} => stage \in {"arguments", "policy"},
         (Compares' => Compares)
  PROVE  DataInv'
<1>1. IsRunStats(current)' /\ IsRunStats(baseline)'
  BY DEF DataInv, IsRunStats
<1>2. CurrentIsLoaded <=> CurrentIsLoaded'
  BY DEF CurrentIsLoaded
<1>3. BaselineIsLoaded <=> BaselineIsLoaded'
  BY DEF BaselineIsLoaded, BaselineSource
<1>4. req' \in Requests /\ compared' \in BOOLEAN
      /\ (stage' \in {"arguments", "policy", "current", "baseline"} => ~compared')
  BY DEF DataInv
<1>5. stage' \in {"current", "baseline"} \/ Compares' => PolicyOK(pol)'
  BY DEF DataInv, PolicyOK
<1>6. (stage' = "baseline" \/ Compares' => CurrentIsLoaded') /\ (Compares' => BaselineIsLoaded')
  BY <1>2, <1>3 DEF DataInv
<1> QED BY <1>1, <1>4, <1>5, <1>6 DEF DataInv

LEMMA LoadPolicyKeepsDataInv == ASSUME GateInv, DataInv, LoadPolicy PROVE DataInv'
<1>1. stage = "policy" /\ verdict = NoVerdict /\ verdict' = verdict
  BY DEF GateInv, LoadInv, LoadPolicy
<1>2. CASE ErrorAnswer /\ UNCHANGED pol
  <2>1. stage' = "done" /\ ~Compares'
    BY <1>1, <1>2 DEF ErrorAnswer, Answer, Compares
  <2> QED BY <2>1, <1>2, QuietKeepsDataInv DEF LoadPolicy
<1>3. CASE \E p \in Policies : ValidPolicy(p) /\ stage' = "current" /\ pol' = Parsed(p)
  <2>1. PICK p \in Policies : ValidPolicy(p) /\ stage' = "current" /\ pol' = Parsed(p)
    BY <1>3
  <2>2. PolicyOK(Parsed(p))
    <3>1. CASE p.unknown = ""
      BY <2>1, <3>1, PoliciesAssumption DEF Parsed, PolicyOK
    <3>2. CASE p.unknown # ""
      BY <2>1, <3>2, PoliciesAssumption DEF Parsed, PolicyOK, ValidPolicy
    <3> QED BY <3>1, <3>2
  <2>3. PolicyOK(pol)'
    BY <2>1, <2>2 DEF PolicyOK
  <2>4. ~Compares' /\ ~compared /\ UNCHANGED <<req, current, baseline, compared>>
    BY <1>1, <2>1 DEF Compares, LoadPolicy, DataInv
  <2>5. IsRunStats(current)' /\ IsRunStats(baseline)'
    BY <2>4 DEF DataInv, IsRunStats
  <2> QED BY <2>1, <2>3, <2>4, <2>5 DEF DataInv
<1> QED BY <1>2, <1>3 DEF LoadPolicy

LEMMA LoadCurrentKeepsDataInv == ASSUME GateInv, DataInv, LoadCurrent PROVE DataInv'
<1>1. stage = "current" /\ verdict' = NoVerdict /\ UNCHANGED <<req, pol, baseline, compared>> /\ ~compared /\ PolicyOK(pol)
  BY DEF GateInv, LoadInv, LoadCurrent, DataInv
<1>2. PolicyOK(pol)' /\ IsRunStats(baseline)'
  BY <1>1 DEF PolicyOK, DataInv, IsRunStats
<1>3. PICK db \in Databases :
        /\ file' = db
        /\ IF ResolvedRun(db, req.run) = {} THEN ErrorAnswer /\ UNCHANGED <<current, todo>>
           ELSE \E r \in ResolvedRun(db, req.run) :
                  /\ stage' = "baseline" /\ UNCHANGED code
                  /\ current' = EndpointStats(db, r) /\ todo' = DOMAIN EndpointStats(db, r)
  BY DEF LoadCurrent
<1>4. CASE ErrorAnswer /\ UNCHANGED current
  <2>1. stage' = "done" /\ ~Compares'
    BY <1>1, <1>4 DEF ErrorAnswer, Answer, Compares
  <2>2. IsRunStats(current)'
    BY <1>4 DEF DataInv, IsRunStats
  <2> QED BY <1>1, <1>2, <2>1, <2>2 DEF DataInv
<1>5. CASE \E r \in ResolvedRun(db, req.run) : stage' = "baseline" /\ current' = EndpointStats(db, r)
  <2>1. stage' = "baseline" /\ ~Compares'
    BY <1>1, <1>5 DEF Compares
  <2>2. CurrentIsLoaded'
    BY <1>1, <1>3, <1>5 DEF CurrentIsLoaded, ResolvedRun, SoleRun, EndpointStats
  <2>3. IsRunStats(current)'
    BY <1>5, StatsType DEF IsRunStats
  <2> QED BY <1>1, <1>2, <2>1, <2>2, <2>3 DEF DataInv
<1> QED BY <1>3, <1>4, <1>5

LEMMA LoadBaselineKeepsDataInv == ASSUME GateInv, DataInv, LoadBaseline PROVE DataInv'
<1>1. /\ stage = "baseline" /\ verdict' = NoVerdict /\ UNCHANGED <<req, pol, file, current>>
      /\ ~compared /\ PolicyOK(pol) /\ CurrentIsLoaded
  BY DEF GateInv, LoadInv, LoadBaseline, DataInv
<1>2. PolicyOK(pol)' /\ IsRunStats(current)' /\ CurrentIsLoaded'
  BY <1>1 DEF PolicyOK, DataInv, IsRunStats, CurrentIsLoaded
<1>3. CASE stage' = "evaluate" /\ UNCHANGED <<baseline, compared>>
  <2>1. BaselineIsLoaded' /\ IsRunStats(baseline)'
    BY <1>1, <1>3 DEF BaselineIsLoaded, DataInv, IsRunStats
  <2> QED BY <1>1, <1>2, <1>3, <2>1 DEF DataInv
<1>4. CASE ErrorAnswer /\ UNCHANGED <<baseline, compared>>
  <2>1. stage' = "done" /\ ~Compares'
    BY <1>1, <1>4 DEF ErrorAnswer, Answer, Compares
  <2>2. IsRunStats(baseline)'
    BY <1>4 DEF DataInv, IsRunStats
  <2> QED BY <1>1, <1>2, <1>4, <2>1, <2>2 DEF DataInv
<1>5. ASSUME NEW db \in BaselineSource, NEW r \in ResolvedRun(db, req.baselineRun),
             stage' = "evaluate", baseline' = EndpointStats(db, r), compared' = TRUE
      PROVE  DataInv'
  <2>1. db \in Databases
    BY <1>1 DEF BaselineSource, Grown, CurrentIsLoaded
  <2>2. BaselineSource' = BaselineSource /\ ResolvedRun(db, req.baselineRun)' = ResolvedRun(db, req.baselineRun)
    BY <1>1 DEF BaselineSource, ResolvedRun
  <2>3. BaselineIsLoaded'
    BY <1>5, <2>1, <2>2, <1>1 DEF BaselineIsLoaded, ResolvedRun, EndpointStats
  <2>4. IsRunStats(baseline)'
    BY <1>5, <2>1, StatsType DEF IsRunStats
  <2> QED BY <1>1, <1>2, <1>5, <2>3, <2>4 DEF DataInv
<1> QED BY <1>3, <1>4, <1>5 DEF LoadBaseline

LEMMA StepKeepsDataInv == GateInv /\ DataInv /\ [Next]_vars => DataInv'
<1> SUFFICES ASSUME GateInv, DataInv, [Next]_vars PROVE DataInv'
  OBVIOUS
<1>1. stage \in Stages /\ (stage # "done" => verdict = NoVerdict)
  BY DEF GateInv, StageInv, LoadInv, EvaluateInv, BuildInv, Stages
<1>2. CASE ParseArguments \/ Fails
  <2>1. stage # "done" /\ stage' \in {"policy", "done"} /\ verdict' = NoVerdict
    BY <1>1, <1>2 DEF ParseArguments, Fails, ErrorAnswer, Answer
  <2>2. ~Compares' /\ (stage' = "policy" => stage = "arguments")
    BY <1>2, <2>1 DEF Compares, ParseArguments, Fails, ErrorAnswer, Answer
  <2> QED BY <1>2, <2>1, <2>2, QuietKeepsDataInv DEF ParseArguments, Fails
<1>3. CASE LoadPolicy
  BY <1>3, LoadPolicyKeepsDataInv
<1>4. CASE LoadCurrent
  BY <1>4, LoadCurrentKeepsDataInv
<1>5. CASE LoadBaseline
  BY <1>5, LoadBaselineKeepsDataInv
<1>6. CASE (\E e \in Endpoints : EvaluateEndpoint(e)) \/ Build \/ (\E f \in untallied : Tally(f)) \/ Report
  <2>1. Compares /\ stage' \in {"evaluate", "build", "done"}
    BY <1>6 DEF EvaluateEndpoint, Build, Tally, Report, Answer, Compares
  <2>2. UNCHANGED <<req, pol, file, current, baseline, compared>>
    BY <1>6 DEF EvaluateEndpoint, Build, Tally, Report
  <2> QED BY <2>1, <2>2, QuietKeepsDataInv
<1>7. CASE UNCHANGED vars
  BY <1>7, QuietKeepsDataInv DEF vars, Compares
<1> QED BY <1>2, <1>3, <1>4, <1>5, <1>6, <1>7 DEF Next

LEMMA DataInvariant == Spec => [](GateInv /\ DataInv)
  BY InitGateInv, StepKeepsGateInv, InitDataInv, StepKeepsDataInv, PTL DEF Spec

-----------------------------------------------------------------------------
(* The types and the tallies *)

PassTallies == verdict = "PASS" => summary["FAIL"] = 0 /\ summary["WARN"] = 0 /\ (summary["UNKNOWN"] = 0 \/ pol.unknown = "PASS")

TypeInv == /\ todo \subseteq DOMAIN current /\ DOMAIN current \subseteq Endpoints
           /\ findings \subseteq FindingSet /\ IsFiniteSet(findings) /\ untallied \subseteq findings
           /\ summary \in [Statuses -> Nat] /\ worst \in {"PASS", "WARN", "FAIL"}
           /\ verdict \in {NoVerdict, "PASS", "WARN", "FAIL"} /\ code \in Nat
           /\ stage \in {"arguments", "policy", "current", "baseline", "evaluate"} =>
                untallied = {} /\ summary = [s \in Statuses |-> 0]
           /\ stage = "build" => \A s \in Statuses : summary[s] = Cardinality(Weighed(s))
           /\ verdict # NoVerdict => \A s \in Statuses : summary[s] = Cardinality(Reported(s))
           /\ PassTallies

LEMMA InitTypeInv == Init => TypeInv
  BY FS_EmptySet DEF Init, TypeInv, NoStats, Statuses, PassTallies, NoVerdict

\* A step that finds and weighs nothing, and may give up.
LEMMA QuietKeepsTypeInv ==
  ASSUME TypeInv, DataInv', UNCHANGED <<findings, untallied, summary, worst, verdict>>, code' \in Nat,
         stage' = "build" => stage = "build",
         stage' \in {"arguments", "policy", "current", "baseline", "evaluate"} =>
           stage \in {"arguments", "policy", "current", "baseline", "evaluate"},
         UNCHANGED <<pol, current, compared, baseline>> \/ verdict = NoVerdict,
         todo' \subseteq DOMAIN current'
  PROVE  TypeInv'
<1>1. \A s : Weighed(s)' = Weighed(s)
  BY DEF Weighed
<1>2. DOMAIN current' \subseteq Endpoints
  BY DEF DataInv, IsRunStats
<1>3. PassTallies'
  BY DEF TypeInv, PassTallies, NoVerdict
<1>4. verdict' # NoVerdict => \A s \in Statuses : summary'[s] = Cardinality(Reported(s)')
  <2> SUFFICES ASSUME verdict # NoVerdict PROVE \A s \in Statuses : summary'[s] = Cardinality(Reported(s)')
    OBVIOUS
  <2>1. \A s : Reported(s)' = Reported(s)
    BY DEF Reported, FindingsOf
  <2> QED BY <2>1 DEF TypeInv
<1> QED BY <1>1, <1>2, <1>3, <1>4 DEF TypeInv

LEMMA EvaluateKeepsTypeInv == ASSUME GateInv, TypeInv, NEW e \in Endpoints, EvaluateEndpoint(e) PROVE TypeInv'
<1> DEFINE new == EndpointFindings(pol, current, compared, baseline, e)
<1>1. new \subseteq FindingSet /\ IsFiniteSet(new)
  BY FindingType, FindingsAreFinite
<1> HIDE DEF new
<1>2. findings' = findings \cup new
  BY DEF EvaluateEndpoint, new
<1>3. findings' \subseteq FindingSet /\ IsFiniteSet(findings') /\ untallied' \subseteq findings'
  <2>1. findings \subseteq FindingSet /\ IsFiniteSet(findings) /\ untallied \subseteq findings /\ untallied' = untallied
    BY DEF TypeInv, EvaluateEndpoint
  <2>2. IsFiniteSet(findings \cup new)
    BY <1>1, <2>1, FS_Union
  <2> QED BY <1>1, <1>2, <2>1, <2>2
<1>4. PassTallies'
  BY DEF TypeInv, PassTallies, EvaluateEndpoint
<1>5. verdict' = NoVerdict
  BY DEF GateInv, EvaluateInv, EvaluateEndpoint
<1> QED BY <1>3, <1>4, <1>5 DEF TypeInv, EvaluateEndpoint

LEMMA BuildKeepsTypeInv == ASSUME GateInv, TypeInv, Build PROVE TypeInv'
<1>1. \A s \in Statuses : summary'[s] = 0
  BY DEF Build, TypeInv
<1>2. \A s : Weighed(s)' = {}
  BY DEF Build, Weighed
<1>3. \A s \in Statuses : summary'[s] = Cardinality(Weighed(s)')
  BY <1>1, <1>2, FS_EmptySet
<1>4. PassTallies'
  BY DEF TypeInv, PassTallies, Build
<1>5. verdict' = NoVerdict
  BY DEF GateInv, EvaluateInv, Build
<1> QED BY <1>3, <1>4, <1>5 DEF TypeInv, Build

LEMMA TallyKeepsTypeInv == ASSUME GateInv, DataInv, TypeInv, NEW f \in untallied, Tally(f) PROVE TypeInv'
<1>1. f \in findings /\ f \in FindingSet /\ f.status \in Statuses /\ verdict = NoVerdict /\ verdict' = verdict
  BY DEF TypeInv, FindingSet, Tally, GateInv, BuildInv
<1>2. ASSUME NEW s \in Statuses PROVE summary'[s] = Cardinality(Weighed(s)')
  <2>1. summary[s] = Cardinality(Weighed(s)) /\ summary' = [summary EXCEPT ![f.status] = @ + 1]
    BY <1>2 DEF TypeInv, Tally
  <2>2. IsFiniteSet(Weighed(s)) /\ f \notin Weighed(s)
    <3>1. Weighed(s) \in SUBSET findings
      BY DEF Weighed
    <3> QED BY <3>1, FS_Subset DEF TypeInv, Weighed
  <2>3. Cardinality(Weighed(s)) \in Nat
    BY <2>2, FS_CardinalityType
  <2>4. CASE f.status = s
    <3>1. Weighed(s)' = Weighed(s) \cup {f}
      BY <1>1, <2>4 DEF Weighed, Tally
    <3>2. Cardinality(Weighed(s)') = Cardinality(Weighed(s)) + 1
      BY <2>2, <3>1, FS_AddElement
    <3> QED BY <1>1, <2>1, <2>3, <2>4, <3>2 DEF TypeInv
  <2>5. CASE f.status # s
    <3>1. Weighed(s)' = Weighed(s)
      BY <1>1, <2>5 DEF Weighed, Tally
    <3> QED BY <1>1, <2>1, <2>5, <3>1 DEF TypeInv
  <2> QED BY <2>4, <2>5
<1>3. summary' \in [Statuses -> Nat]
  BY <1>1 DEF TypeInv, Tally
<1>4. worst' \in {"PASS", "WARN", "FAIL"}
  <2>1. Effective(pol, f) \in {"PASS", "WARN", "FAIL"}
    BY <1>1 DEF Effective, Statuses, GateInv, PolicyInv, Tally
  <2> QED BY <2>1 DEF TypeInv, Tally, Worse
<1>5. PassTallies'
  BY <1>1 DEF PassTallies, NoVerdict
<1>6. verdict' = NoVerdict
  BY <1>1
<1> QED BY <1>2, <1>3, <1>4, <1>5, <1>6 DEF TypeInv, Tally

\* A verdict of PASS has weighed no finding that failed or warned, and none that is UNKNOWN unless that counts as PASS.
LEMMA ReportKeepsTypeInv == ASSUME GateInv, DataInv, TypeInv, Report PROVE TypeInv'
<1>1. /\ stage = "build" /\ stage' = "done" /\ untallied = {} /\ verdict' = worst /\ worst' = worst
      /\ findings = FindingsOf(DOMAIN current) /\ worst = Overall(pol, findings) /\ pol.unknown \in {"PASS", "WARN", "FAIL"} /\ req \in Requests
      /\ UNCHANGED <<pol, current, compared, baseline, todo, findings, untallied, summary>>
  <2>1. findings \ untallied = findings
    BY DEF Report
  <2> QED BY <2>1 DEF GateInv, BuildInv, PolicyInv, DataInv, Report, Answer
<1>2. code' \in Nat
  <2>1. req.warnExitCode \in Nat
    BY <1>1, RequestsAssumption
  <2> QED BY <2>1 DEF Report, Answer, ExitCode, ExitPolicyFailure, ExitPass
<1>3. PassTallies'
  <2> SUFFICES ASSUME worst = "PASS"
               PROVE  summary["FAIL"] = 0 /\ summary["WARN"] = 0 /\ (summary["UNKNOWN"] = 0 \/ pol.unknown = "PASS")
    BY <1>1 DEF PassTallies
  <2>1. \A f \in findings : Effective(pol, f) \notin {"FAIL", "WARN"}
    BY <1>1 DEF Overall
  <2>2. ASSUME NEW s \in Statuses, s \in {"FAIL", "WARN"} \/ (s = "UNKNOWN" /\ pol.unknown # "PASS")
        PROVE  summary[s] = 0
    <3>1. Weighed(s) = {}
      BY <1>1, <2>1, <2>2 DEF Weighed, Effective
    <3> QED BY <1>1, <3>1, FS_EmptySet DEF TypeInv
  <2> QED BY <2>2 DEF Statuses
<1>4. \A s \in Statuses : summary'[s] = Cardinality(Reported(s)')
  <2>1. \A s : Reported(s)' = Weighed(s)
    BY <1>1 DEF Reported, Weighed, FindingsOf
  <2> QED BY <1>1, <2>1 DEF TypeInv
<1> QED BY <1>1, <1>2, <1>3, <1>4 DEF TypeInv

LEMMA StepKeepsTypeInv == GateInv /\ DataInv /\ TypeInv /\ DataInv' /\ [Next]_vars => TypeInv'
<1> SUFFICES ASSUME GateInv, DataInv, TypeInv, DataInv', [Next]_vars PROVE TypeInv'
  OBVIOUS
<1>1. code \in Nat /\ todo \subseteq DOMAIN current
  BY DEF TypeInv
<1>2. ErrorAnswer => stage' = "done" /\ code' \in Nat
  BY DEF ErrorAnswer, Answer, ExitToolError
<1>3. CASE ParseArguments
  BY <1>1, <1>2, <1>3, QuietKeepsTypeInv DEF ParseArguments
<1>4. CASE LoadPolicy
  <2>1. verdict = NoVerdict
    BY <1>4 DEF LoadPolicy, GateInv, LoadInv
  <2>2. code' \in Nat /\ stage = "policy" /\ stage' \in {"current", "done"}
    BY <1>1, <1>2, <1>4 DEF LoadPolicy
  <2> QED BY <1>1, <1>4, <2>1, <2>2, QuietKeepsTypeInv DEF LoadPolicy
<1>5. CASE LoadCurrent
  <2>1. code' \in Nat /\ stage = "current" /\ stage' \in {"baseline", "done"} /\ todo' \subseteq DOMAIN current'
        /\ verdict = NoVerdict
    BY <1>1, <1>2, <1>5 DEF LoadCurrent, GateInv, LoadInv
  <2> QED BY <1>5, <2>1, QuietKeepsTypeInv DEF LoadCurrent
<1>6. CASE LoadBaseline
  <2>1. code' \in Nat /\ stage = "baseline" /\ stage' \in {"evaluate", "done"} /\ verdict = NoVerdict
    BY <1>1, <1>2, <1>6 DEF LoadBaseline, GateInv, LoadInv
  <2> QED BY <1>1, <1>6, <2>1, QuietKeepsTypeInv DEF LoadBaseline
<1>7. CASE Fails
  BY <1>1, <1>2, <1>7, QuietKeepsTypeInv DEF Fails
<1>8. ASSUME NEW e \in Endpoints, EvaluateEndpoint(e) PROVE TypeInv'
  BY <1>8, EvaluateKeepsTypeInv
<1>9. CASE Build
  BY <1>9, BuildKeepsTypeInv
<1>10. ASSUME NEW f \in untallied, Tally(f) PROVE TypeInv'
  BY <1>10, TallyKeepsTypeInv
<1>11. CASE Report
  BY <1>11, ReportKeepsTypeInv
<1>12. CASE UNCHANGED vars
  BY <1>1, <1>12, QuietKeepsTypeInv DEF vars
<1> QED BY <1>3, <1>4, <1>5, <1>6, <1>7, <1>8, <1>9, <1>10, <1>11, <1>12 DEF Next

LEMMA TypeInvariant == Spec => [](GateInv /\ DataInv /\ TypeInv)
  BY DataInvariant, InitTypeInv, StepKeepsTypeInv, PTL DEF Spec

\* Whatever the policies, files and requests, the variables have their types, and the summary counts every finding that
\* was weighed once and agrees with a verdict of PASS.
THEOREM SummaryIsOfTheFindings == Spec => []TypeOK
<1>1. ASSUME GateInv, DataInv, TypeInv PROVE TypeOK
  <2>1. stage \in Stages /\ (stage \in {"current", "baseline", "evaluate", "build"} => pol.unknown \in {"PASS", "WARN", "FAIL"})
    BY <1>1 DEF GateInv, StageInv, PolicyInv
  <2>2. req \in Requests /\ IsRunStats(current) /\ IsRunStats(baseline) /\ compared \in BOOLEAN
    BY <1>1 DEF DataInv
  <2>3. /\ todo \subseteq DOMAIN current /\ findings \subseteq FindingSet /\ untallied \subseteq findings
        /\ summary \in [Statuses -> Nat] /\ worst \in {"PASS", "WARN", "FAIL"}
        /\ verdict \in {NoVerdict, "PASS", "WARN", "FAIL"} /\ code \in Nat
        /\ stage = "build" => \A s \in Statuses : summary[s] = Cardinality(Weighed(s))
        /\ verdict # NoVerdict => \A s \in Statuses : summary[s] = Cardinality(Reported(s))
    BY <1>1 DEF TypeInv
  <2>4. verdict = "PASS" => summary["FAIL"] = 0 /\ summary["WARN"] = 0 /\ (summary["UNKNOWN"] = 0 \/ pol.unknown = "PASS")
    BY <1>1 DEF TypeInv, PassTallies
  <2> QED BY <2>1, <2>2, <2>3, <2>4 DEF TypeOK
<1> QED BY <1>1, TypeInvariant, PTL

-----------------------------------------------------------------------------
(* What a verdict is worth *)

\* The budget, the relative threshold, the noise floor and the tiers never work against each other: no metric of an
\* endpoint that gets worse, by any amount, makes the verdict of Evaluate better.
THEOREM NoRewardForSlowness == Spec => []SlowerIsNeverBetter
<1>1. ASSUME GateInv, DataInv PROVE SlowerIsNeverBetter
  <2> SUFFICES ASSUME verdict # NoVerdict, NEW e \in DOMAIN current, NEW m \in Metrics, NEW by \in Slowdowns
               PROVE  Rank(OverallStatus(pol, [current EXCEPT ![e].value[m] = @ + by], compared, baseline)) >= Rank(verdict)
    BY DEF SlowerIsNeverBetter
  <2>1. verdict = OverallStatus(pol, current, compared, baseline)
    BY <1>1 DEF GateInv, VerdictIsWorst, FindingsOf, OverallStatus
  <2>2. PolicyOK(pol) /\ IsRunStats(current) /\ IsRunStats(baseline) /\ compared \in BOOLEAN
    BY <1>1 DEF DataInv, Compares
  <2>3. by \in Nat
    BY NamesAssumption
  <2> QED BY <2>1, <2>2, <2>3, SlowerStatusIsNoBetter
<1> QED BY <1>1, DataInvariant, PTL

\* Whatever the baseline, asking Evaluate for a comparison with it gives a verdict at least as bad as the budgets alone.
THEOREM BudgetsAreNotHidden == Spec => []BaselineHidesNothing
<1>1. ASSUME GateInv, verdict # NoVerdict PROVE Rank(verdict) >= Rank(OverallStatus(pol, current, FALSE, NoStats))
  <2> DEFINE F == UNION {EndpointFindings(pol, current, FALSE, NoStats, e) : e \in DOMAIN current}
  <2>1. verdict = Overall(pol, FindingsOf(DOMAIN current))
    BY <1>1 DEF GateInv, VerdictIsWorst
  <2>2. \A e : EndpointFindings(pol, current, FALSE, NoStats, e) \subseteq EndpointFindings(pol, current, compared, baseline, e)
    BY DEF EndpointFindings
  <2>3. F \subseteq FindingsOf(DOMAIN current)
    BY <2>2 DEF FindingsOf
  <2>4. \A f : AsBad(pol, f, f)
    BY DEF AsBad
  <2> HIDE DEF F
  <2>5. Rank(Overall(pol, FindingsOf(DOMAIN current))) >= Rank(Overall(pol, F))
    BY <2>3, <2>4, OverallMonotone
  <2> QED BY <2>1, <2>5 DEF OverallStatus, F
<1>2. GateInv => BaselineHidesNothing
  BY <1>1 DEF BaselineHidesNothing
<1> QED BY <1>2, GateInvariant, PTL

\* "Never silently PASS": under a policy for which UNKNOWN is not PASS, a PASS has made every configured check, on enough
\* requests of the current run and of the baseline (evaluateLatency, evaluateErrorRate and build).
THEOREM NeverSilentlyPass == Spec => []PassIsTrusted
<1>1. ASSUME GateInv, DataInv, verdict = "PASS", pol.unknown # "PASS", NEW e \in DOMAIN current, NEW m \in Metrics
      PROVE  LET t == EffectiveMetricPolicy(pol, e).limits[m]
                 Enough(stats) == e \in DOMAIN stats /\ stats[e].requests >= MinSamples(pol, e)
             IN  /\ t.max \cup t.warn # {} => Enough(current)
                 /\ compared /\ t.maxRegression \cup t.warnRegression # {} => Enough(current) /\ Enough(baseline)
  <2> DEFINE t == EffectiveMetricPolicy(pol, e).limits[m]
  <2>1. verdict = Overall(pol, FindingsOf(DOMAIN current)) /\ PolicyOK(pol) /\ IsRunStats(current) /\ IsRunStats(baseline)
    BY <1>1 DEF GateInv, VerdictIsWorst, DataInv, Compares, NoVerdict
  <2>2. \A f \in FindingsOf(DOMAIN current) : Effective(pol, f) \notin {"WARN", "FAIL"}
    BY <1>1, <2>1 DEF Overall
  <2>3. \A f \in FindingsOf(DOMAIN current) : f.status # "UNKNOWN"
    BY <1>1, <2>1, <2>2 DEF Effective, PolicyOK
  <2>4. \A check, reason : UnknownFinding(e, m, check, reason) \notin EndpointFindings(pol, current, compared, baseline, e)
    BY <2>3 DEF FindingsOf, UnknownFinding, Finding
  <2>5. /\ BudgetChecks(pol, current, e, m) \subseteq EndpointFindings(pol, current, compared, baseline, e)
        /\ compared => RegressionChecks(pol, current, baseline, e, m)
                         \subseteq EndpointFindings(pol, current, compared, baseline, e)
    BY DEF EndpointFindings
  <2>6. MinSamples(pol, e) \in Int /\ current[e].requests \in Nat /\ (e \in DOMAIN baseline => baseline[e].requests \in Nat)
    BY <2>1, EffectivePolicyType DEF IsRunStats
  <2>7. ASSUME t.max \cup t.warn # {} PROVE ~(current[e].requests < MinSamples(pol, e))
    BY <2>4, <2>5, <2>7 DEF BudgetChecks
  <2>8. ASSUME compared, t.maxRegression \cup t.warnRegression # {}
        PROVE  /\ e \in DOMAIN baseline
               /\ ~(current[e].requests < MinSamples(pol, e)) /\ ~(baseline[e].requests < MinSamples(pol, e))
    BY <2>4, <2>5, <2>8 DEF RegressionChecks
  <2> HIDE DEF t
  <2>9. t.max \cup t.warn # {} => current[e].requests >= MinSamples(pol, e)
    BY <2>6, <2>7
  <2>10. compared /\ t.maxRegression \cup t.warnRegression # {} =>
           /\ e \in DOMAIN baseline
           /\ current[e].requests >= MinSamples(pol, e) /\ baseline[e].requests >= MinSamples(pol, e)
    BY <2>6, <2>8
  <2> QED BY <2>9, <2>10 DEF t
<1>2. GateInv /\ DataInv => PassIsTrusted
  BY <1>1 DEF PassIsTrusted
<1> QED BY <1>2, DataInvariant, PTL

\* Only a run that is named can be missing: loadEndpointStats takes the sole run of a file when none is named.
THEOREM EmptyPassIsAskedFor == Spec => []EmptyPassNamesAMissingRun
<1>1. ASSUME DataInv, verdict = "PASS", DOMAIN current = {} PROVE req.run # NoRun /\ req.run \notin DOMAIN file
  <2>1. file \in Databases /\ \E r \in ResolvedRun(file, req.run) : current = EndpointStats(file, r)
    BY <1>1 DEF DataInv, Compares, CurrentIsLoaded, NoVerdict
  <2>2. PICK r \in ResolvedRun(file, req.run) : current = EndpointStats(file, r)
    BY <2>1
  <2>3. r \notin DOMAIN file
    BY <1>1, <2>1, <2>2, DatabasesAssumption DEF EndpointStats
  <2>4. SoleRun(file) \subseteq DOMAIN file
    BY DEF SoleRun
  <2> QED BY <2>2, <2>3, <2>4 DEF ResolvedRun
<1>2. GateInv /\ DataInv => EmptyPassNamesAMissingRun
  BY <1>1 DEF EmptyPassNamesAMissingRun
<1> QED BY <1>2, DataInvariant, PTL

\* A regression is not found between equal values, unless a limit is negative.
LEMMA EqualValuesDoNotRegress ==
  ASSUME NEW p, PolicyOK(p), NEW e, NEW m \in Metrics, NEW was \in Nat,
         \A l \in EffectiveMetricPolicy(p, e).limits[m].maxRegression
                  \cup EffectiveMetricPolicy(p, e).limits[m].warnRegression : l >= 0
  PROVE  RegressionFinding(e, m, EffectiveMetricPolicy(p, e).limits[m], was, was).status = "PASS"
<1> DEFINE t == EffectiveMetricPolicy(p, e).limits[m]
<1>1. t.maxRegression \subseteq Int /\ t.warnRegression \subseteq Int
  BY EffectivePolicyType
<1>2. \A l \in t.maxRegression \cup t.warnRegression : l >= 0
  OBVIOUS
<1> HIDE DEF t
<1>3. ASSUME NEW l \in Int, l >= 0 PROVE ~(was - was > l) /\ ~(IF was = 0 THEN 0 > l ELSE (was - was) * 100 > l * was)
  <2>1. l * was >= 0
    BY <1>3
  <2> QED BY <1>3, <2>1
<1>4. ~Above(t.maxRegression, was - was) /\ ~Above(t.warnRegression, was - was)
  BY <1>1, <1>2, <1>3 DEF Above
<1>5. ~PercentAbove(t.maxRegression, was, was) /\ ~PercentAbove(t.warnRegression, was, was)
  BY <1>1, <1>2, <1>3 DEF PercentAbove
<1>6. RegressionFinding(e, m, t, was, was).status = "PASS"
  BY <1>4, <1>5 DEF RegressionFinding, Finding, Graded
<1> QED BY <1>6 DEF t

\* HandleGate reads the statistics of a run that is its own baseline twice: between the queries its endpoints can only
\* have grown, so each has a baseline as good as itself, and an endpoint that has not grown does not regress.
THEOREM OwnBaselineRegressesByGrowth == Spec => []SelfComparisonNeedsGrowth
<1>1. ASSUME DataInv, verdict # NoVerdict, req.baselineRun = req.run, req.run # NoRun,
             req.entry = "cli" => ~req.baselineFile, compared, NEW e \in DOMAIN current
      PROVE  /\ e \in DOMAIN baseline
             /\ baseline[e] = current[e] \/ baseline[e].requests > current[e].requests
  <2>1. Compares /\ IsRunStats(current) /\ file \in Databases
    BY <1>1 DEF DataInv, Compares, CurrentIsLoaded
  <2>2. current = EndpointStats(file, req.run)
    BY <1>1, <2>1 DEF DataInv, CurrentIsLoaded, ResolvedRun
  <2>3. req.run \in DOMAIN file /\ current = file[req.run]
    BY <2>2 DEF EndpointStats, NoStats
  <2>4. PICK db \in BaselineSource : baseline = EndpointStats(db, req.run)
    BY <1>1, <2>1 DEF DataInv, BaselineIsLoaded, ResolvedRun
  <2>5. req.entry \in {"cli", "http"}
    BY <1>1, RequestsAssumption DEF DataInv
  <2>6. CASE req.entry = "http"
    <3>1. db \in Grown(file)
      BY <2>4, <2>6 DEF BaselineSource
    <3>2. req.run \in DOMAIN db /\ e \in DOMAIN db[req.run]
          /\ (file[req.run][e] = db[req.run][e] \/ db[req.run][e].requests > file[req.run][e].requests)
      BY <3>1, <2>3 DEF Grown
    <3> QED BY <2>3, <2>4, <3>2 DEF EndpointStats
  <2>7. CASE req.entry = "cli"
    <3>1. db = file
      BY <1>1, <2>4, <2>7 DEF BaselineSource
    <3> QED BY <2>2, <2>4, <3>1
  <2> QED BY <2>5, <2>6, <2>7
<1>2. ASSUME DataInv, verdict # NoVerdict, req.baselineRun = req.run, req.run # NoRun,
             req.entry = "cli" => ~req.baselineFile,
             NEW f \in FindingsOf(DOMAIN current), f.check = "regression"
      PROVE  /\ f.reason \notin {"no_baseline_for_endpoint", "insufficient_baseline_samples"}
             /\ f.status \in {"WARN", "FAIL"} =>
                  \/ baseline[f.scope].requests > current[f.scope].requests
                  \/ LET t == EffectiveMetricPolicy(pol, f.scope).limits[f.metric]
                     IN  \E l \in t.maxRegression \cup t.warnRegression : l < 0
  <2>1. PolicyOK(pol) /\ IsRunStats(current) /\ IsRunStats(baseline)
    BY <1>2 DEF DataInv, Compares
  <2>2. PICK e \in DOMAIN current, m \in Metrics :
          \/ f \in BudgetChecks(pol, current, e, m)
          \/ compared /\ f \in RegressionChecks(pol, current, baseline, e, m)
    <3>1. PICK e \in DOMAIN current : f \in EndpointFindings(pol, current, compared, baseline, e)
      BY <1>2 DEF FindingsOf
    <3> QED BY <3>1 DEF EndpointFindings
  <2> DEFINE t == EffectiveMetricPolicy(pol, e).limits[m]
  <2>3. f \notin BudgetChecks(pol, current, e, m)
    <3>1. \A st, reason : Finding(e, m, "budget", st, reason).check = "budget"
      BY DEF Finding
    <3>2. \A g \in BudgetChecks(pol, current, e, m) : \E st, reason : g = Finding(e, m, "budget", st, reason)
      BY DEF BudgetChecks, BudgetFinding, UnknownFinding
    <3> QED BY <1>2, <3>1, <3>2
  <2>4. compared /\ f \in RegressionChecks(pol, current, baseline, e, m)
    BY <2>2, <2>3
  <2>5. e \in DOMAIN baseline /\ (baseline[e] = current[e] \/ baseline[e].requests > current[e].requests)
    BY <1>1, <1>2, <2>4
  <2>6. /\ MinSamples(pol, e) \in Int /\ current[e].requests \in Nat /\ baseline[e].requests \in Nat
        /\ current[e].value[m] \in Nat
        /\ t.maxRegression \subseteq Int /\ t.warnRegression \subseteq Int
    BY <2>1, <2>5, EffectivePolicyType DEF IsRunStats
  <2> HIDE DEF t
  <2>7. ~(current[e].requests < MinSamples(pol, e)) => ~(baseline[e].requests < MinSamples(pol, e))
    <3>1. baseline[e].requests >= current[e].requests
      BY <2>5, <2>6
    <3> QED BY <2>6, <3>1
  <2>8. \/ f = UnknownFinding(e, m, "regression", "insufficient_samples")
        \/ f = RegressionFinding(e, m, t, baseline[e].value[m], current[e].value[m])
    BY <2>4, <2>5, <2>7 DEF RegressionChecks, t
  <2>9. f.reason \in {"insufficient_samples", ""} /\ f.scope = e /\ f.metric = m
    <3>1. \E reason \in {"insufficient_samples", ""} : \E st : f = Finding(e, m, "regression", st, reason)
      BY <2>8 DEF UnknownFinding, RegressionFinding
    <3>2. PICK reason \in {"insufficient_samples", ""} : \E st : f = Finding(e, m, "regression", st, reason)
      BY <3>1
    <3>3. PICK st : f = Finding(e, m, "regression", st, reason)
      BY <3>2
    <3>4. f.reason = reason /\ f.scope = e /\ f.metric = m
      BY <3>3 DEF Finding
    <3> QED BY <3>2, <3>4
  <2>10. ASSUME f.status \in {"WARN", "FAIL"}, ~(baseline[e].requests > current[e].requests)
         PROVE  \E l \in t.maxRegression \cup t.warnRegression : l < 0
    <3>1. f = RegressionFinding(e, m, t, current[e].value[m], current[e].value[m])
      BY <2>5, <2>8, <2>10 DEF UnknownFinding, Finding
    <3>2. CASE \A l \in t.maxRegression \cup t.warnRegression : l >= 0
      <4>1. RegressionFinding(e, m, t, current[e].value[m], current[e].value[m]).status = "PASS"
        BY <2>1, <2>6, <3>2, EqualValuesDoNotRegress DEF t
      <4> QED BY <2>10, <3>1, <4>1
    <3>3. CASE \E l \in t.maxRegression \cup t.warnRegression : ~(l >= 0)
      BY <2>6, <3>3
    <3> QED BY <3>2, <3>3
  <2> QED BY <2>9, <2>10 DEF t
<1>3. GateInv /\ DataInv => SelfComparisonNeedsGrowth
  BY <1>2 DEF SelfComparisonNeedsGrowth
<1> QED BY <1>3, DataInvariant, PTL

-----------------------------------------------------------------------------
(* The gate view of the frontend *)

\* The limits of the view for a metric.
LimitsOfTheView(t, m, r, x) == /\ t.warn = {} /\ t.warnRegression = {} /\ t.floor = {}
                               /\ t.maxRegression = IF m = "p95" THEN {r} ELSE {}
                               /\ t.max = IF m = "error_rate" THEN {x} ELSE {}

\* The policy of the view: one request is enough, and of the limits only two are set.
LEMMA PolicyOfTheView ==
  ASSUME NEW r, NEW x, NEW e
  PROVE  /\ SamePolicy(r, x).unknown = "WARN"
         /\ MinSamples(SamePolicy(r, x), e) = 1
         /\ \A m \in Metrics : LimitsOfTheView(EffectiveMetricPolicy(SamePolicy(r, x), e).limits[m], m, r, x)
<1> DEFINE p == SamePolicy(r, x)
           unset == [max |-> {}, warn |-> {}, maxRegression |-> {}, warnRegression |-> {}, floor |-> {}]
           limits == [m \in Metrics |-> CASE m = "p95"        -> [unset EXCEPT !.maxRegression = {r}]
                                          [] m = "error_rate" -> [unset EXCEPT !.max = {x}]
                                          [] OTHER            -> unset]
<1>1. p = [version |-> 1, unknown |-> "WARN", endpoints |-> [y \in {} |-> unset],
           defaults |-> [minSamples |-> {1}, limits |-> limits]]
  BY DEF SamePolicy
<1>2. EffectiveMetricPolicy(p, e) = [minSamples |-> {1}, limits |-> limits]
  <2>1. p.defaults = [minSamples |-> {1}, limits |-> limits] /\ DOMAIN p.endpoints = {}
    BY <1>1
  <2> QED BY <2>1 DEF EffectiveMetricPolicy
<1>3. MinSamples(p, e) = 1
  <2>1. EffectiveMetricPolicy(p, e).minSamples = {1}
    BY <1>2
  <2> QED BY <2>1 DEF MinSamples
<1>4. ASSUME NEW m \in Metrics
      PROVE  limits[m] = [max |-> IF m = "error_rate" THEN {x} ELSE {}, warn |-> {},
                          maxRegression |-> IF m = "p95" THEN {r} ELSE {}, warnRegression |-> {}, floor |-> {}]
  <2>1. CASE m = "p95"
    BY <2>1
  <2>2. CASE m = "error_rate"
    BY <2>2
  <2>3. CASE ~(m = "p95") /\ ~(m = "error_rate")
    BY <2>3
  <2> QED BY <2>1, <2>2, <2>3
<1>5. p.unknown = "WARN"
  BY <1>1
<1>6. ASSUME NEW m \in Metrics
      PROVE  EffectiveMetricPolicy(p, e).limits[m] = limits[m]
  BY <1>2
<1> HIDE DEF limits, p
<1>7. ASSUME NEW m \in Metrics
      PROVE  LimitsOfTheView(EffectiveMetricPolicy(p, e).limits[m], m, r, x)
  <2>1. EffectiveMetricPolicy(p, e).limits[m] = limits[m]
    BY <1>6
  <2> DEFINE a == IF m = "error_rate" THEN {x} ELSE {}
             b == IF m = "p95" THEN {r} ELSE {}
             t == limits[m]
  <2>2. t = [max |-> a, warn |-> {}, maxRegression |-> b, warnRegression |-> {}, floor |-> {}]
    BY <1>4
  <2> HIDE DEF a, b, t
  <2>3. t.max = a /\ t.warn = {} /\ t.maxRegression = b /\ t.warnRegression = {} /\ t.floor = {}
    BY <2>2
  <2>4. LimitsOfTheView(limits[m], m, r, x)
    BY <2>3 DEF LimitsOfTheView, a, b, t
  <2> QED BY <2>1, <2>4
<1> QED BY <1>3, <1>5, <1>7 DEF p

\* An endpoint that the view shows as failed; and one that Evaluate fails, which does not fail an improvement.
BadInTheView(r, x, cur, base, e) == \/ cur[e].value["error_rate"] > x
                                    \/ e \in DOMAIN base /\ Rises(r, base[e].value["p95"], cur[e].value["p95"])
BadToEvaluate(r, x, cur, base, e) == \/ cur[e].value["error_rate"] > x
                                     \/ /\ e \in DOMAIN base
                                        /\ Rises(r, base[e].value["p95"], cur[e].value["p95"])
                                        /\ cur[e].value["p95"] >= base[e].value["p95"]

ShownAsFound(p, r, x, cur, base, e) ==
  LET F == EndpointFindings(p, cur, TRUE, base, e)
  IN  /\ (\E f \in F : Effective(p, f) = "FAIL") <=> BadToEvaluate(r, x, cur, base, e)
      /\ (\E f \in F : Effective(p, f) = "WARN") <=> e \notin DOMAIN base

\* What Evaluate finds for an endpoint under that policy.
LEMMA EndpointOfTheView ==
  ASSUME NEW r \in Int, NEW x \in Int, NEW cur, IsRunStats(cur), NEW base, IsRunStats(base),
         NEW e \in DOMAIN cur, cur[e].requests > 0, e \in DOMAIN base => base[e].requests > 0
  PROVE  ShownAsFound(SamePolicy(r, x), r, x, cur, base, e)
<1> DEFINE p == SamePolicy(r, x)
           T(m) == EffectiveMetricPolicy(p, e).limits[m]
           fails == cur[e].value["error_rate"] > x
<1>p. /\ p.unknown = "WARN" /\ MinSamples(p, e) = 1
      /\ \A m \in Metrics : /\ T(m).warn = {} /\ T(m).warnRegression = {} /\ T(m).floor = {}
                            /\ T(m).maxRegression = IF m = "p95" THEN {r} ELSE {}
                            /\ T(m).max = IF m = "error_rate" THEN {x} ELSE {}
  <2>1. /\ p.unknown = "WARN" /\ MinSamples(p, e) = 1
        /\ \A m \in Metrics : LimitsOfTheView(T(m), m, r, x)
    BY PolicyOfTheView
  <2> HIDE DEF T, p
  <2> QED BY <2>1 DEF LimitsOfTheView
<1>m. /\ "p95" \in Metrics /\ "error_rate" \in Metrics
      /\ \A m \in Metrics : cur[e].value[m] \in Nat
      /\ cur[e].requests \in Nat /\ cur[e].requests >= 1
      /\ e \in DOMAIN base => /\ base[e].value["p95"] \in Nat
                              /\ base[e].requests \in Nat /\ base[e].requests >= 1
  BY BrowserAssumption DEF Metrics, IsRunStats
<1> HIDE DEF p
<1>1. ASSUME NEW m \in Metrics, m # "error_rate"
      PROVE  BudgetChecks(p, cur, e, m) = {}
  <2>1. T(m).max \cup T(m).warn = {}
    BY <1>1, <1>p
  <2> QED BY <2>1 DEF BudgetChecks
<1>2. ASSUME NEW m \in Metrics, m # "p95"
      PROVE  RegressionChecks(p, cur, base, e, m) = {}
  <2>1. T(m).maxRegression \cup T(m).warnRegression = {}
    BY <1>2, <1>p
  <2> QED BY <2>1 DEF RegressionChecks
<1>3. BudgetChecks(p, cur, e, "error_rate")
        = {Finding(e, "error_rate", "budget", IF fails THEN "FAIL" ELSE "PASS", "")}
  <2> DEFINE t == T("error_rate")
  <2>1. t.max = {x} /\ t.warn = {}
    BY <1>p, <1>m
  <2>2. /\ t.max \cup t.warn # {} /\ ~(cur[e].requests < MinSamples(p, e))
    BY <2>1, <1>p, <1>m
  <2>3. BudgetChecks(p, cur, e, "error_rate") = {BudgetFinding(e, "error_rate", t, cur[e].value["error_rate"])}
    BY <2>2 DEF BudgetChecks
  <2>4. (Above(t.max, cur[e].value["error_rate"]) <=> fails) /\ ~Above(t.warn, cur[e].value["error_rate"])
    BY <2>1 DEF Above
  <2> QED BY <2>3, <2>4 DEF BudgetFinding, Graded
<1>u. ASSUME NEW a, NEW b, BudgetChecks(p, cur, e, "error_rate") = {a}, RegressionChecks(p, cur, base, e, "p95") = {b}
      PROVE  EndpointFindings(p, cur, TRUE, base, e) = {a, b}
  <2> DEFINE B(m) == BudgetChecks(p, cur, e, m)
             R(m) == RegressionChecks(p, cur, base, e, m)
  <2>1. EndpointFindings(p, cur, TRUE, base, e) = UNION {B(m) \cup R(m) : m \in Metrics}
    BY DEF EndpointFindings
  <2>2. /\ \A m \in Metrics : (m # "error_rate" => B(m) = {}) /\ (m # "p95" => R(m) = {})
        /\ B("error_rate") = {a} /\ R("p95") = {b}
    BY <1>1, <1>2, <1>u
  <2> HIDE DEF B, R
  <2>3. \A f : f \in UNION {B(m) \cup R(m) : m \in Metrics} <=> \E m \in Metrics : f \in B(m) \/ f \in R(m)
    OBVIOUS
  <2>4. \A f : (\E m \in Metrics : f \in B(m) \/ f \in R(m)) <=> f = a \/ f = b
    BY <2>2, <1>m
  <2> QED BY <2>1, <2>3, <2>4
<1>4. CASE e \notin DOMAIN base
  <2>1. T("p95").maxRegression \cup T("p95").warnRegression # {}
    BY <1>p, <1>m
  <2>2. RegressionChecks(p, cur, base, e, "p95") = {UnknownFinding(e, "p95", "regression", "no_baseline_for_endpoint")}
    BY <2>1, <1>4 DEF RegressionChecks
  <2>3. EndpointFindings(p, cur, TRUE, base, e)
          = {Finding(e, "error_rate", "budget", IF fails THEN "FAIL" ELSE "PASS", ""),
             UnknownFinding(e, "p95", "regression", "no_baseline_for_endpoint")}
    BY <1>3, <1>u, <2>2
  <2>4. /\ Effective(p, Finding(e, "error_rate", "budget", IF fails THEN "FAIL" ELSE "PASS", ""))
             = IF fails THEN "FAIL" ELSE "PASS"
        /\ Effective(p, UnknownFinding(e, "p95", "regression", "no_baseline_for_endpoint")) = "WARN"
    BY <1>p DEF Finding, UnknownFinding, Effective
  <2>5. BadToEvaluate(r, x, cur, base, e) <=> fails
    BY <1>4 DEF BadToEvaluate
  <2> HIDE DEF fails
  <2> QED BY <1>4, <2>3, <2>4, <2>5 DEF ShownAsFound, p
<1>5. CASE e \in DOMAIN base
  <2> DEFINE t == T("p95")
             was == base[e].value["p95"]
             is == cur[e].value["p95"]
  <2>1. t.maxRegression = {r} /\ t.warnRegression = {} /\ t.floor = {}
    BY <1>p, <1>m
  <2>2. t.maxRegression \cup t.warnRegression # {} /\ ~(cur[e].requests < MinSamples(p, e))
        /\ ~(base[e].requests < MinSamples(p, e))
    BY <2>1, <1>5, <1>p, <1>m
  <2>3. RegressionChecks(p, cur, base, e, "p95") = {RegressionFinding(e, "p95", t, was, is)}
    BY <2>2, <1>5 DEF RegressionChecks
  <2>4. was \in Nat /\ is \in Nat
    BY <1>5, <1>m
  <2> DEFINE regressed == Rises(r, was, is) /\ is >= was
  <2> HIDE DEF t, was, is
  <2>6. /\ PercentAbove({r}, was, is) <=> Rises(r, was, is)
        /\ ~PercentAbove({}, was, is)
    BY <2>4 DEF PercentAbove, Rises
  <2>8. Override({0}, {}) = {0}
    BY DEF Override
  <2>9. RegressionFinding(e, "p95", t, was, is)
          = Finding(e, "p95", "regression", IF regressed THEN "FAIL" ELSE "PASS", "")
    <3>1. (\A l \in Override({0}, t.floor) : is - was >= l) <=> is >= was
      BY <2>1, <2>4, <2>8
    <3> QED BY <2>1, <2>6, <3>1 DEF RegressionFinding, Graded
  <2>10. EndpointFindings(p, cur, TRUE, base, e)
          = {Finding(e, "error_rate", "budget", IF fails THEN "FAIL" ELSE "PASS", ""),
             Finding(e, "p95", "regression", IF regressed THEN "FAIL" ELSE "PASS", "")}
    BY <1>3, <1>u, <2>3, <2>9
  <2>11. /\ Effective(p, Finding(e, "error_rate", "budget", IF fails THEN "FAIL" ELSE "PASS", ""))
              = IF fails THEN "FAIL" ELSE "PASS"
         /\ Effective(p, Finding(e, "p95", "regression", IF regressed THEN "FAIL" ELSE "PASS", ""))
              = IF regressed THEN "FAIL" ELSE "PASS"
    BY DEF Finding, Effective
  <2>12. BadToEvaluate(r, x, cur, base, e) <=> fails \/ regressed
    BY <1>5 DEF BadToEvaluate, was, is
  <2> HIDE DEF fails, regressed
  <2> QED BY <1>5, <2>10, <2>11, <2>12 DEF ShownAsFound, p
<1> QED BY <1>4, <1>5


\* The values of a function on a finite set are finitely many, and no more than its arguments.
LEMMA ImageIsFinite ==
  ASSUME NEW S, IsFiniteSet(S), NEW g, DOMAIN g = S
  PROVE  IsFiniteSet({g[c] : c \in S}) /\ Cardinality({g[c] : c \in S}) <= Cardinality(S)
<1> DEFINE g2 == [c \in S |-> g[c]]
<1>1. g2 \in Surjection(S, {g[c] : c \in S})
  BY DEF Surjection
<1> HIDE DEF g2
<1> QED BY <1>1, FS_Surjection

\* The findings of the view are finitely many, and the tally of a status is positive if a finding has it.
LEMMA ShownCounts ==
  ASSUME NEW r, NEW x, NEW cur, NEW base, IsFiniteSet(DOMAIN cur)
  PROVE  LET F == ShownFindings(cur, base, r, x) IN
         /\ IsFiniteSet(F) /\ \A f \in F : f.scope \in DOMAIN cur
         /\ \A s : Shown(F, s) \in Nat /\ (Shown(F, s) > 0 <=> \E f \in F : f.status = s)
         /\ Cardinality(F) = Shown(F, "FAIL") + Shown(F, "UNKNOWN")
<1> DEFINE F == ShownFindings(cur, base, r, x)
           D == DOMAIN cur
           g(check, st) == [e \in D |-> ShownFinding(e, check, st)]
           G(check, st) == {g(check, st)[e] : e \in D}
           S(s) == {f \in F : f.status = s}
<1>1. \A check, st : IsFiniteSet(G(check, st))
  <2> TAKE check, st
  <2>1. DOMAIN g(check, st) = D
    OBVIOUS
  <2> HIDE DEF g
  <2> QED BY <2>1, ImageIsFinite
<1>2. F \subseteq G("budget", "FAIL") \cup (G("regression", "UNKNOWN") \cup G("regression", "FAIL"))
  <2>1. \A e \in D : \A check, st : ShownFinding(e, check, st) \in G(check, st)
    OBVIOUS
  <2> HIDE DEF G
  <2> QED BY <2>1 DEF ShownFindings
<1>3. IsFiniteSet(F)
  <2> HIDE DEF F, G
  <2>0. IsFiniteSet(G("budget", "FAIL")) /\ IsFiniteSet(G("regression", "UNKNOWN")) /\ IsFiniteSet(G("regression", "FAIL"))
    BY <1>1
  <2>1. IsFiniteSet(G("regression", "UNKNOWN") \cup G("regression", "FAIL"))
    BY <2>0, FS_Union
  <2>2. IsFiniteSet(G("budget", "FAIL") \cup (G("regression", "UNKNOWN") \cup G("regression", "FAIL")))
    BY <2>0, <2>1, FS_Union
  <2> QED BY <1>2, <2>2, FS_Subset
<1>4. \A f \in F : f.status \in {"FAIL", "UNKNOWN"} /\ f.scope \in D
  BY DEF ShownFindings, ShownFinding
<1> HIDE DEF F, D, G, g
<1>5. \A s : IsFiniteSet(S(s)) /\ Shown(F, s) = Cardinality(S(s))
  <2> TAKE s
  <2>1. S(s) \subseteq F
    OBVIOUS
  <2> QED BY <1>3, <2>1, FS_Subset DEF Shown
<1>6. \A s : Shown(F, s) \in Nat /\ (Shown(F, s) > 0 <=> \E f \in F : f.status = s)
  <2> TAKE s
  <2>1. Shown(F, s) \in Nat /\ (Shown(F, s) = 0 <=> S(s) = {})
    BY <1>5, FS_CardinalityType, FS_EmptySet
  <2>2. S(s) = {} <=> ~\E f \in F : f.status = s
    OBVIOUS
  <2> QED BY <2>1, <2>2
<1>7. Cardinality(F) = Shown(F, "FAIL") + Shown(F, "UNKNOWN")
  <2>1. F = S("FAIL") \cup S("UNKNOWN") /\ S("FAIL") \cap S("UNKNOWN") = {}
    BY <1>4
  <2>2. Cardinality(S("FAIL") \cup S("UNKNOWN"))
          = Cardinality(S("FAIL")) + Cardinality(S("UNKNOWN")) - Cardinality(S("FAIL") \cap S("UNKNOWN"))
    <3>1. IsFiniteSet(S("FAIL")) /\ IsFiniteSet(S("UNKNOWN"))
      BY <1>5
    <3> HIDE DEF S
    <3> QED BY <3>1, FS_Union
  <2>3. Cardinality(S("FAIL") \cap S("UNKNOWN")) = 0
    BY <2>1, FS_EmptySet
  <2>4. Cardinality(S("FAIL")) \in Nat /\ Cardinality(S("UNKNOWN")) \in Nat
    BY <1>5, FS_CardinalityType
  <2> HIDE DEF S
  <2>5. Cardinality(F) = Cardinality(S("FAIL")) + Cardinality(S("UNKNOWN"))
    BY <2>1, <2>2, <2>3, <2>4
  <2> QED BY <1>5, <2>5
<1> QED BY <1>3, <1>4, <1>6, <1>7 DEF F, D

\* An endpoint shown as passed has no finding: each finding takes one endpoint off, and two may take off the same.
LEMMA ShownAsPassedHasNoFinding ==
  ASSUME NEW r, NEW x, NEW cur, NEW base, IsFiniteSet(DOMAIN cur)
  PROVE  ShownAsPassed(cur, ShownFindings(cur, base, r, x))
           <= Cardinality({e \in DOMAIN cur : \A f \in ShownFindings(cur, base, r, x) : f.scope # e})
<1> DEFINE F == ShownFindings(cur, base, r, x)
           D == DOMAIN cur
           without == {e \in D : \A f \in F : f.scope # e}
           scope == [f \in F |-> f.scope]
           with == {scope[f] : f \in F}
<1>1. /\ IsFiniteSet(F) /\ \A f \in F : f.scope \in D
      /\ Shown(F, "FAIL") \in Nat /\ Shown(F, "UNKNOWN") \in Nat
      /\ Cardinality(F) = Shown(F, "FAIL") + Shown(F, "UNKNOWN")
  BY ShownCounts
<1>2. IsFiniteSet(with) /\ Cardinality(with) <= Cardinality(F)
  <2>1. DOMAIN scope = F
    OBVIOUS
  <2> HIDE DEF scope, F
  <2> QED BY <1>1, <2>1, ImageIsFinite
<1>3. with \subseteq D /\ D = with \cup without /\ with \cap without = {}
  <2> HIDE DEF F
  <2> QED BY <1>1
<1>4. IsFiniteSet(without) /\ Cardinality(without) \in Nat
  BY <1>3, FS_Subset, FS_CardinalityType
<1> HIDE DEF F, without, with, D
<1>5. Cardinality(with \cup without) = Cardinality(with) + Cardinality(without) - Cardinality(with \cap without)
  BY <1>2, <1>4, FS_Union
<1>6. Cardinality(with \cap without) = 0 /\ Cardinality(with) \in Nat /\ Cardinality(F) \in Nat
  BY <1>1, <1>2, <1>3, FS_EmptySet, FS_CardinalityType
<1>7. Cardinality(D) = Cardinality(with) + Cardinality(without)
  BY <1>3, <1>4, <1>5, <1>6
<1>8. ShownAsPassed(cur, F) = Cardinality(D) - Shown(F, "FAIL") - Shown(F, "UNKNOWN")
  BY DEF ShownAsPassed, D
<1>9. ShownAsPassed(cur, F) <= Cardinality(without)
  BY <1>1, <1>2, <1>4, <1>6, <1>7, <1>8
<1> QED BY <1>9 DEF F, without, D

\* What Evaluate makes of that policy.
Told(r, x, cur, base) == OverallStatus(SamePolicy(r, x), cur, TRUE, base)

\* An endpoint of both runs that improved less than the limit asks for.
TooLittle(r, cur, base) ==
  \E e \in DOMAIN cur \cap DOMAIN base : ImprovesTooLittle(r, base[e].value["p95"], cur[e].value["p95"])

\* What the view shows is the overall status of Evaluate's findings, or such an endpoint.
LEMMA ShownStatusIsOverall ==
  ASSUME NEW r \in Int, NEW x \in Int, NEW cur, IsRunStats(cur), NEW base, IsRunStats(base), IsFiniteSet(DOMAIN cur),
         \A e \in DOMAIN cur : cur[e].requests > 0, \A e \in DOMAIN base : base[e].requests > 0
  PROVE  LET shown == ShownStatus(ShownFindings(cur, base, r, x)) IN
         shown = Told(r, x, cur, base) \/ (shown = "FAIL" /\ TooLittle(r, cur, base))
<1> DEFINE F == ShownFindings(cur, base, r, x)
           p == SamePolicy(r, x)
           E(e) == EndpointFindings(p, cur, TRUE, base, e)
           G == UNION {E(e) : e \in DOMAIN cur}
           counted == {Effective(p, f) : f \in G}
           bad(e) == BadInTheView(r, x, cur, base, e)
           judged(e) == BadToEvaluate(r, x, cur, base, e)
<1>1. \A e \in DOMAIN cur : /\ (\E f \in E(e) : Effective(p, f) = "FAIL") <=> judged(e)
                            /\ (\E f \in E(e) : Effective(p, f) = "WARN") <=> e \notin DOMAIN base
  <2>1. \A e \in DOMAIN cur : ShownAsFound(p, r, x, cur, base, e)
    BY EndpointOfTheView
  <2> QED BY <2>1 DEF ShownAsFound
<1>2. /\ (\E f \in F : f.status = "FAIL") <=> \E e \in DOMAIN cur : bad(e)
      /\ (\E f \in F : f.status = "UNKNOWN") <=> \E e \in DOMAIN cur : e \notin DOMAIN base
  <2>1. ASSUME NEW f \in F
        PROVE  /\ f.status = "FAIL" => bad(f.scope) /\ f.scope \in DOMAIN cur
               /\ f.status = "UNKNOWN" => f.scope \in DOMAIN cur /\ f.scope \notin DOMAIN base
    BY DEF ShownFindings, ShownFinding, BadInTheView
  <2>2. ASSUME NEW e \in DOMAIN cur, cur[e].value["error_rate"] > x
        PROVE  \E f \in F : f.status = "FAIL"
    <3>1. ShownFinding(e, "budget", "FAIL") \in F
      BY <2>2 DEF ShownFindings
    <3> QED BY <3>1 DEF ShownFinding
  <2>3. ASSUME NEW e \in DOMAIN cur, e \in DOMAIN base, Rises(r, base[e].value["p95"], cur[e].value["p95"])
        PROVE  \E f \in F : f.status = "FAIL"
    <3>1. ShownFinding(e, "regression", "FAIL") \in F
      BY <2>3 DEF ShownFindings
    <3> QED BY <3>1 DEF ShownFinding
  <2>4. ASSUME NEW e \in DOMAIN cur, e \notin DOMAIN base
        PROVE  \E f \in F : f.status = "UNKNOWN"
    <3>1. ShownFinding(e, "regression", "UNKNOWN") \in F
      BY <2>4 DEF ShownFindings
    <3> QED BY <3>1 DEF ShownFinding
  <2> HIDE DEF F
  <2> QED BY <2>1, <2>2, <2>3, <2>4 DEF BadInTheView
<1>3. \A s : Shown(F, s) > 0 <=> \E f \in F : f.status = s
  BY ShownCounts
<1>4. Told(r, x, cur, base) = IF "FAIL" \in counted THEN "FAIL" ELSE IF "WARN" \in counted THEN "WARN" ELSE "PASS"
  BY DEF Told, OverallStatus, Overall
<1>v. \A e \in DOMAIN cur : bad(e) <=> judged(e) \/ (bad(e) /\ TooLittle(r, cur, base))
  <2> TAKE e \in DOMAIN cur
  <2>1. judged(e) => bad(e)
    BY DEF BadInTheView, BadToEvaluate
  <2>2. ASSUME bad(e), ~judged(e)
        PROVE  TooLittle(r, cur, base)
    <3>1. /\ e \in DOMAIN base /\ Rises(r, base[e].value["p95"], cur[e].value["p95"])
          /\ ~(cur[e].value["p95"] >= base[e].value["p95"])
      BY <2>2 DEF BadInTheView, BadToEvaluate
    <3>2. cur[e].value["p95"] \in Nat /\ base[e].value["p95"] \in Nat
      BY <3>1, BrowserAssumption DEF IsRunStats, Metrics
    <3>3. cur[e].value["p95"] < base[e].value["p95"]
      BY <3>1, <3>2
    <3> QED BY <3>1, <3>3 DEF TooLittle, ImprovesTooLittle
  <2> QED BY <2>1, <2>2
<1> HIDE DEF E, F, p, bad, judged
<1>5. /\ "FAIL" \in counted <=> \E e \in DOMAIN cur : \E f \in E(e) : Effective(p, f) = "FAIL"
      /\ "WARN" \in counted <=> \E e \in DOMAIN cur : \E f \in E(e) : Effective(p, f) = "WARN"
  OBVIOUS
<1> HIDE DEF counted
<1>6. CASE ~TooLittle(r, cur, base)
  <2>1. ShownStatus(F) = IF "FAIL" \in counted THEN "FAIL" ELSE IF "WARN" \in counted THEN "WARN" ELSE "PASS"
    BY <1>1, <1>2, <1>3, <1>5, <1>6, <1>v DEF ShownStatus
  <2> QED BY <1>4, <2>1 DEF F
<1>7. CASE TooLittle(r, cur, base)
  <2>1. \E e \in DOMAIN cur : bad(e)
    BY <1>7 DEF TooLittle, ImprovesTooLittle, bad, BadInTheView
  <2>2. ShownStatus(F) = "FAIL"
    BY <1>2, <1>3, <2>1 DEF ShownStatus
  <2> QED BY <1>7, <2>2 DEF F
<1> QED BY <1>6, <1>7

\* Whatever limit and budget the user enters, negative ones included (Slowdowns may be all numbers): if the view of the
\* browser shows a verdict, it is that of Evaluate for the policy that says the same, or FAIL because an endpoint
\* improved less than a negative limit asks for; and it counts no endpoint with a finding as passed (app.js 262-330).
THEOREM TheViewMirrorsEvaluate == Spec => []BrowserAgrees
<1>1. ASSUME GateInv, DataInv, TypeInv, stage = "evaluate", compared,
             NEW r \in ViewLimits, NEW x \in ViewLimits
      PROVE  LET F == ShownFindings(current, baseline, r, x)
             IN  /\ \/ ShownStatus(F) = OverallStatus(SamePolicy(r, x), current, TRUE, baseline)
                    \/ ShownStatus(F) = "FAIL" /\ TooLittle(r, current, baseline)
                 /\ ShownAsPassed(current, F) <= Cardinality({e \in DOMAIN current : \A f \in F : f.scope # e})
  <2>1. IsRunStats(current) /\ IsRunStats(baseline) /\ CurrentIsLoaded /\ BaselineIsLoaded /\ DOMAIN current \subseteq Endpoints
    BY <1>1 DEF DataInv, Compares, TypeInv
  <2>2. \A db \in Databases : \A run : \A e \in DOMAIN EndpointStats(db, run) : EndpointStats(db, run)[e].requests > 0
    BY BrowserAssumption DEF EndpointStats, NoStats
  <2>3. \A e \in DOMAIN current : current[e].requests > 0
    BY <2>1, <2>2 DEF CurrentIsLoaded
  <2>4. \A e \in DOMAIN baseline : baseline[e].requests > 0
    BY <1>1, <2>1, <2>2 DEF BaselineIsLoaded
  <2>5. IsFiniteSet(DOMAIN current)
    BY <2>1, BrowserAssumption, FS_Subset
  <2>6. r \in Int /\ x \in Int
    BY NamesAssumption DEF ViewLimits
  <2> DEFINE shown == ShownStatus(ShownFindings(current, baseline, r, x))
  <2>7. shown = Told(r, x, current, baseline) \/ (shown = "FAIL" /\ TooLittle(r, current, baseline))
    BY <2>1, <2>3, <2>4, <2>5, <2>6, ShownStatusIsOverall
  <2>8. ShownAsPassed(current, ShownFindings(current, baseline, r, x))
          <= Cardinality({e \in DOMAIN current : \A f \in ShownFindings(current, baseline, r, x) : f.scope # e})
    BY <2>5, ShownAsPassedHasNoFinding
  <2> QED BY <2>7, <2>8 DEF Told
<1>2. GateInv /\ DataInv /\ TypeInv => BrowserAgrees
  BY <1>1 DEF BrowserAgrees, TooLittle
<1> QED BY <1>2, TypeInvariant, PTL

-----------------------------------------------------------------------------
(* check-analysis, as a subcommand of duckload *)

Registered ==
  /\ catalog = {Parse(f) : f \in files}
  /\ \A q, r \in catalog : q.id = r.id => q = r
Complete(k) == report[k].built /\ report[k].passed = All

\* What has passed so far is sound, and failed tells whether a fixture is not complete.
CatalogInv ==
  /\ files \in Directories
  /\ checking \in {"start", "panic", "ready", "fixture", "validate", "checked"}
  /\ checking \in {"start", "panic", "ready"} => report = <<>> /\ passed = {} /\ failed = FALSE
  /\ checking \in {"ready", "fixture", "validate", "checked"} => Registered
  /\ report \in Seq([built : BOOLEAN, passed : SUBSET All])
  /\ checking = "checked" => Len(report) = Len(Scenarios) /\ report # <<>>
  /\ passed \subseteq All
  /\ \A q \in catalog : q.id \in passed => Sound(q)
  /\ \A k \in DOMAIN report : \A q \in catalog : q.id \in report[k].passed => Sound(q)
  /\ failed \in BOOLEAN
  /\ failed <=> \E k \in DOMAIN report : ~Complete(k)

\* The catalog takes part in a step of the process as the package init, as check-analysis, or not at all.
LEMMA CatalogSteps == [DuckloadNext]_processVars => Register \/ CheckNext \/ UNCHANGED catalogVars
<1>1. StartProcess => Register
  BY DEF StartProcess
<1>2. CheckAnalysis => CheckNext \/ UNCHANGED catalogVars
  BY DEF CheckAnalysis
<1>3. StartGate \/ GateStep \/ EndGate \/ Analyse \/ Usage => UNCHANGED catalogVars
  BY DEF StartGate, GateStep, EndGate, Analyse, Usage
<1> QED BY <1>1, <1>2, <1>3 DEF DuckloadNext, processVars

\* Two files of a directory that init accepts never have the same name.
LEMMA RegisterKeepsCatalogInv == ASSUME CatalogInv, Register PROVE CatalogInv'
<1>1. report = <<>> /\ passed = {} /\ failed = FALSE /\ UNCHANGED <<files, report, passed, failed>>
  BY DEF CatalogInv, Register
<1>2. CASE checking' = "panic" /\ UNCHANGED catalog
  BY <1>1, <1>2 DEF CatalogInv, All, Complete
<1>3. CASE ~Unregistrable(files) /\ checking' = "ready" /\ catalog' = {Parse(f) : f \in files}
  <2>1. \A q, r \in catalog' : q.id = r.id => q = r
    BY <1>3 DEF Unregistrable
  <2>2. DOMAIN report = {} /\ report' \in Seq([built : BOOLEAN, passed : SUBSET All'])
    BY <1>1
  <2> QED BY <1>1, <1>3, <2>1, <2>2 DEF CatalogInv, Registered, Complete
<1> QED BY <1>2, <1>3 DEF Register

\* A fixture ends with the queries that have passed on it.
LEMMA ConcludeKeepsCatalogInv ==
  ASSUME CatalogInv, checking \in {"fixture", "validate"}, NEW built \in BOOLEAN, NEW all \in SUBSET passed,
         Conclude(built, all), UNCHANGED <<files, catalog>>
  PROVE  CatalogInv'
<1> DEFINE new == [built |-> built, passed |-> all]
<1>1. UNCHANGED <<All, Registered>> /\ passed' = {} /\ checking' \in {"fixture", "checked"}
  BY DEF Conclude, All, Registered
<1>2. /\ new \in [built : BOOLEAN, passed : SUBSET All]
      /\ report \in Seq([built : BOOLEAN, passed : SUBSET All])
      /\ report' = Append(report, new)
  BY DEF CatalogInv, Conclude
<1>3. /\ report' \in Seq([built : BOOLEAN, passed : SUBSET All]) /\ report' # <<>>
      /\ Len(report') = Len(report) + 1 /\ DOMAIN report' = 1..Len(report) + 1 /\ DOMAIN report = 1..Len(report)
      /\ \A k \in DOMAIN report : report'[k] = report[k]
      /\ report'[Len(report) + 1] = new
      /\ Len(report) \in Nat
  <2> HIDE DEF new
  <2> QED BY <1>2
<1>4. checking' = "checked" => Len(report') = Len(Scenarios)
  BY DEF Conclude
<1>5. \A k \in DOMAIN report : Complete(k)' <=> Complete(k)
  BY <1>1, <1>3 DEF Complete
<1>6. \A k : k = Len(report) + 1 => (Complete(k)' <=> built /\ all = All)
  BY <1>1, <1>3 DEF Complete, Conclude
<1>7. failed' <=> failed \/ ~built \/ all # All
  BY DEF Conclude, AnyFailure
<1>8. failed' \in BOOLEAN /\ (failed' <=> \E k \in DOMAIN report' : ~Complete(k)')
  <2>1. DOMAIN report' = DOMAIN report \cup {Len(report) + 1}
    BY <1>3
  <2>2. failed' \in BOOLEAN
    BY DEF Conclude, AnyFailure, CatalogInv
  <2> HIDE DEF new
  <2> QED BY <1>5, <1>6, <1>7, <2>1, <2>2, Zenon DEF CatalogInv
<1>9. \A k \in DOMAIN report' : \A q \in catalog' : q.id \in report'[k].passed => Sound(q)
  <2>1. \A q \in catalog : q.id \in all => Sound(q)
    BY DEF CatalogInv
  <2>2. \A k \in DOMAIN report : \A q \in catalog : q.id \in report[k].passed => Sound(q)
    BY DEF CatalogInv
  <2>3. new.passed = all /\ catalog' = catalog
    OBVIOUS
  <2> HIDE DEF new
  <2> QED BY <1>3, <2>1, <2>2, <2>3
<1>10. Registered'
  BY <1>1 DEF CatalogInv
<1> QED BY <1>1, <1>3, <1>4, <1>8, <1>9, <1>10 DEF CatalogInv, Conclude

LEMMA CheckKeepsCatalogInv == ASSUME CatalogInv, CheckNext PROVE CatalogInv'
<1>1. CASE StartCheck
  BY <1>1 DEF CatalogInv, StartCheck, Registered, All, Complete
<1>2. CASE BuildFixture
  <2>1. CASE checking' = "validate" /\ UNCHANGED <<report, passed, failed>>
    BY <1>2, <2>1 DEF CatalogInv, BuildFixture, Registered, All, Complete
  <2>2. CASE Conclude(FALSE, {})
    BY <1>2, <2>2, ConcludeKeepsCatalogInv DEF BuildFixture
  <2> QED BY <1>2, <2>1, <2>2 DEF BuildFixture
<1>3. CASE ValidateNext
  <2>1. CASE Conclude(TRUE, passed)
    BY <1>3, <2>1, ConcludeKeepsCatalogInv DEF ValidateNext
  <2>2. ASSUME NEW q \in catalog, Sound(q), passed' = passed \cup {q.id}, UNCHANGED <<files, catalog, report, failed, checking>>
        PROVE  CatalogInv'
    <3>1. Registered
      BY <1>3 DEF CatalogInv, ValidateNext
    <3>2. \A r \in catalog : r.id \in passed' => Sound(r)
      BY <2>2, <3>1 DEF CatalogInv, Registered
    <3>3. passed' \subseteq All
      BY <2>2 DEF CatalogInv, All
    <3> QED BY <1>3, <2>2, <3>2, <3>3 DEF CatalogInv, ValidateNext, Registered, All, Complete
  <2> QED BY <1>3, <2>1, <2>2 DEF ValidateNext, First
<1> QED BY <1>1, <1>2, <1>3 DEF CheckNext

LEMMA CatalogInvariant == DuckloadSpec => []CatalogInv
<1>1. DuckloadInit => CatalogInv
  <2> SUFFICES ASSUME CatalogInit PROVE CatalogInv
    BY DEF DuckloadInit
  <2>1. report = <<>> /\ DOMAIN report = {} /\ report \in Seq([built : BOOLEAN, passed : SUBSET All])
    BY DEF CatalogInit
  <2> QED BY <2>1 DEF CatalogInit, CatalogInv, Complete
<1>2. CatalogInv /\ [DuckloadNext]_processVars => CatalogInv'
  <2>1. CatalogInv /\ UNCHANGED catalogVars => CatalogInv'
    BY DEF CatalogInv, catalogVars, Registered, All, Complete
  <2> QED BY <2>1, CatalogSteps, RegisterKeepsCatalogInv, CheckKeepsCatalogInv
<1> QED BY <1>1, <1>2, PTL DEF DuckloadSpec

\* The columns that the last line with the key requires are those that Validate looks for.
LEMMA LastLineIsRequired ==
  ASSUME NEW f, f.header \in Seq([key : STRING, names : Seq(STRING)]), HasRequiredColumns(Parse(f)),
         NEW i \in DOMAIN f.header, f.header[i].key = "required_columns",
         \A j \in i + 1..Len(f.header) : f.header[j].key # "required_columns"
  PROVE  ToSet(f.header[i].names) \subseteq TableColumns
<1> DEFINE lines == LinesWith(f.header, "required_columns")
<1>1. DOMAIN f.header = 1..Len(f.header) /\ Len(f.header) \in Nat
  OBVIOUS
<1>2. i \in lines /\ \A j \in lines : j \in Int /\ j <= i
  BY <1>1 DEF LinesWith
<1>3. Max(lines) = i
  <2> HIDE DEF lines
  <2> QED BY <1>1, <1>2 DEF Max
<1>4. Declared(f.header, "required_columns") = f.header[i].names
  BY <1>2, <1>3 DEF Declared
<1> QED BY <1>4 DEF HasRequiredColumns, Parse

\* Whatever the files of sql/ contain and whichever queries the fixtures fail, check-analysis answers as the test of CI
\* does, except for a query that lacks an output; and a check that has passed means that required columns are there.
THEOREM CheckIsTheTest == DuckloadSpec => []PassedCheckTells
<1>1. CatalogInv => PassedCheckTells
  <2> SUFFICES ASSUME CatalogInv, checking = "checked" PROVE PassedCheckTells
    BY DEF PassedCheckTells
  <2>1. Registered /\ Len(report) = Len(Scenarios) /\ report # <<>> /\ DOMAIN report = 1..Len(report) /\ Len(report) \in Nat
    BY DEF CatalogInv
  <2>2. DOMAIN Scenarios = DOMAIN report /\ 1 \in DOMAIN report
    BY <2>1, CatalogAssumption
  <2>3. IsFiniteSet(All) /\ \A f \in files : Parse(f) \in catalog /\ Parse(f).id \in All
    <3> DEFINE named == [f \in files |-> Parse(f).id]
    <3>1. IsFiniteSet(files) /\ DOMAIN named = files
      BY CatalogAssumption DEF CatalogInv
    <3>2. All = {named[f] : f \in files}
      BY <2>1 DEF All, Registered
    <3>3. IsFiniteSet({named[f] : f \in files})
      <4> HIDE DEF named
      <4> QED BY <3>1, ImageIsFinite
    <3> QED BY <2>1, <3>2, <3>3 DEF All, Registered
  <2>4. \A k \in DOMAIN report : /\ report[k].passed \subseteq All
                                 /\ Cardinality(report[k].passed) = Cardinality(All) => report[k].passed = All
    <3> TAKE k \in DOMAIN report
    <3> DEFINE Entries == [built : BOOLEAN, passed : SUBSET All]
    <3>0. report \in Seq(Entries)
      BY DEF CatalogInv
    <3>1. report[k] \in Entries
      <4> HIDE DEF Entries
      <4> QED BY <2>1, <3>0
    <3>2. report[k].passed \in SUBSET All
      BY <3>1
    <3> QED BY <2>3, <3>2, FS_Subset
  <2>5. failed => ~TestPasses
    BY <2>4 DEF CatalogInv, Complete, TestPasses
  <2>6. ASSUME ~failed PROVE \A k \in DOMAIN report : report[k].built /\ report[k].passed = All
    BY <2>6 DEF CatalogInv, Complete
  <2>7. ~failed /\ ~TestPasses => \E q \in catalog : MissingOutput(q) # {}
    BY <2>6 DEF TestPasses
  <2>8. ~failed => \A k \in DOMAIN Scenarios, f \in files : Parse(f).id \in report[k].passed
    BY <2>2, <2>3, <2>6
  <2>9. ASSUME ~failed, NEW f \in files, NEW i \in DOMAIN f.header, f.header[i].key = "required_columns",
               \A j \in i + 1..Len(f.header) : f.header[j].key # "required_columns"
        PROVE  ToSet(f.header[i].names) \subseteq TableColumns
    <3>1. Sound(Parse(f))
      BY <2>2, <2>3, <2>6, <2>9 DEF CatalogInv
    <3>2. f.header \in Seq([key : STRING, names : Seq(STRING)])
      BY CatalogAssumption DEF CatalogInv
    <3> QED BY <2>9, <3>1, <3>2, LastLineIsRequired DEF Sound
  <2> QED BY <2>5, <2>7, <2>8, <2>9 DEF PassedCheckTells
<1> QED BY <1>1, CatalogInvariant, PTL

-----------------------------------------------------------------------------
(* parseArgs reads what was typed *)

\* Natural numbers: a set of them has a least one, so what holds at 0 and goes from each number to the next holds of all.
LEMMA HasLeast ==
  ASSUME NEW T, T \subseteq Nat, T # {}
  PROVE  \E x \in T : \A y \in T : x <= y
<1>1. PICK x \in T : \A y \in T : ~(<<y, x>> \in OpToRel(<, Nat))
  BY NatLessThanWellFounded, WFMin
<1>2. \A y \in T : ~(y < x)
  BY <1>1 DEF OpToRel
<1> QED BY <1>2

LEMMA Counting ==
  ASSUME NEW P, 0 \in P, \A n \in Nat : n \in P => n + 1 \in P
  PROVE  Nat \subseteq P
<1> SUFFICES ASSUME Nat \ P # {}
             PROVE  FALSE
  OBVIOUS
<1>1. PICK x \in Nat \ P : \A y \in Nat \ P : x <= y
  BY HasLeast
<1>2. x # 0 /\ x - 1 \in Nat /\ x - 1 \notin Nat \ P
  BY <1>1
<1>3. (x - 1) + 1 \in P
  BY <1>2
<1> QED BY <1>1, <1>3

\* A set of positions has a last one, and Max finds it.
LEMMA HasLast ==
  ASSUME NEW n \in Nat, NEW S \in SUBSET (1..n), S # {}
  PROVE  Max(S) \in S /\ \A x \in S : x <= Max(S)
<1> DEFINE T == {n - x : x \in S}
<1>0. \A x \in S : x \in Int /\ n - x \in Nat
  OBVIOUS
<1>1. T \subseteq Nat /\ T # {}
  BY <1>0
<1>2. PICK y \in T : \A z \in T : y <= z
  <2> HIDE DEF T
  <2> QED BY <1>1, HasLeast
<1>3. PICK x \in S : y = n - x
  BY <1>2
<1>4. \A z \in S : n - z \in T
  OBVIOUS
<1>5. \A z \in S : x >= z
  <2> TAKE z \in S
  <2>1. n - x <= n - z
    BY <1>2, <1>3, <1>4
  <2> QED BY <1>0, <2>1
<1> QED BY <1>5 DEF Max

LEMMA HasFirst ==
  ASSUME NEW n \in Nat, NEW S \in SUBSET (1..n), S # {}
  PROVE  Min(S) \in S /\ \A x \in S : Min(S) <= x
<1>1. S \subseteq Nat
  OBVIOUS
<1>2. PICK x \in S : \A z \in S : x <= z
  BY <1>1, HasLeast
<1> QED BY <1>2 DEF Min

\* The sequences between which FlattenSeq goes: each is the one before it and one more part.
LEMMA PartsExist ==
  ASSUME NEW X, NEW s \in Seq(Seq(X))
  PROVE  \E g \in [1..Len(s) -> Seq(X)] : \A i \in 1..Len(s) : g[i] = IF i = 1 THEN s[i] ELSE g[i - 1] \o s[i]
<1> DEFINE Ok(n) == \E g \in [1..n -> Seq(X)] : \A i \in 1..n : g[i] = IF i = 1 THEN s[i] ELSE g[i - 1] \o s[i]
           P == {n \in Nat : n <= Len(s) => Ok(n)}
<1>0. Len(s) \in Nat /\ \A i \in 1..Len(s) : s[i] \in Seq(X)
  BY ElementOfSeq
<1>1. Ok(0)
  <2> DEFINE h == [i \in 1..0 |-> <<>>]
  <2>1. \A i \in 1..0 : FALSE
    OBVIOUS
  <2>2. h \in [1..0 -> Seq(X)]
    BY <2>1
  <2> QED BY <2>1, <2>2
<1>2. ASSUME NEW n \in Nat, Ok(n), n + 1 <= Len(s) PROVE Ok(n + 1)
  <2>1. PICK g \in [1..n -> Seq(X)] : \A i \in 1..n : g[i] = IF i = 1 THEN s[i] ELSE g[i - 1] \o s[i]
    BY <1>2
  <2> DEFINE new == IF n = 0 THEN s[n + 1] ELSE g[n] \o s[n + 1]
             h == [i \in 1..n + 1 |-> IF i <= n THEN g[i] ELSE new]
  <2>2. s[n + 1] \in Seq(X)
    BY <1>0, <1>2
  <2>3. new \in Seq(X)
    BY <2>2
  <2> HIDE DEF new
  <2>4. h \in [1..n + 1 -> Seq(X)]
    BY <2>3
  <2>5. \A i \in 1..n : h[i] = g[i]
    OBVIOUS
  <2>6. h[n + 1] = new
    OBVIOUS
  <2> HIDE DEF h
  <2>7. ASSUME NEW i \in 1..n + 1 PROVE h[i] = IF i = 1 THEN s[i] ELSE h[i - 1] \o s[i]
    <3>1. CASE i <= n
      <4>1. i \in 1..n /\ (i # 1 => i - 1 \in 1..n)
        BY <3>1
      <4> QED BY <2>1, <2>5, <4>1
    <3>2. CASE i = n + 1
      <4>1. n # 0 => h[n] = g[n]
        BY <2>5
      <4> QED BY <2>6, <3>2, <4>1 DEF new
    <3> QED BY <3>1, <3>2
  <2> QED BY <2>4, <2>7
<1> HIDE DEF Ok
<1>3. 0 \in P /\ \A n \in Nat : n \in P => n + 1 \in P
  BY <1>0, <1>1, <1>2
<1>4. Nat \subseteq P
  <2> HIDE DEF P
  <2> QED BY <1>3, Counting
<1>5. Ok(Len(s))
  BY <1>0, <1>4
<1> QED BY <1>5 DEF Ok

\* FlattenSeq ends with the last of them, and each is a sequence.
LEMMA FlattenedInParts ==
  ASSUME NEW X, NEW s \in Seq(Seq(X)), s # <<>>
  PROVE  \E g : /\ FlattenSeq(s) = g[Len(s)]
                /\ \A i \in 1..Len(s) : g[i] \in Seq(X) /\ g[i] = IF i = 1 THEN s[i] ELSE g[i - 1] \o s[i]
<1> DEFINE Equation(g) == g = [i \in 1..Len(s) |-> IF i = 1 THEN s[i] ELSE g[i - 1] \o s[i]]
           g == CHOOSE h : Equation(h)
<1>0. Len(s) \in Nat /\ Len(s) # 0 /\ \A i \in 1..Len(s) : s[i] \in Seq(X)
  BY ElementOfSeq
<1>1. FlattenSeq(s) = g[Len(s)]
  BY <1>0 DEF FlattenSeq
<1>2. \E h : Equation(h)
  <2>1. PICK h \in [1..Len(s) -> Seq(X)] : \A i \in 1..Len(s) : h[i] = IF i = 1 THEN s[i] ELSE h[i - 1] \o s[i]
    BY PartsExist
  <2> QED BY <2>1
<1> HIDE DEF Equation
<1>3. Equation(g)
  BY <1>2
<1> HIDE DEF g
<1>4. \A i \in 1..Len(s) : g[i] = IF i = 1 THEN s[i] ELSE g[i - 1] \o s[i]
  BY <1>3 DEF Equation
<1> DEFINE P == {n \in Nat : n \in 1..Len(s) => g[n] \in Seq(X)}
<1>5. 0 \in P
  OBVIOUS
<1>6. ASSUME NEW n \in Nat, n \in P PROVE n + 1 \in P
  <2> SUFFICES ASSUME n + 1 <= Len(s) PROVE g[n + 1] \in Seq(X)
    BY <1>0
  <2>1. CASE n = 0
    BY <1>0, <1>4, <2>1
  <2>2. CASE n # 0
    <3>1. n \in 1..Len(s) /\ n + 1 \in 1..Len(s) /\ n + 1 # 1 /\ (n + 1) - 1 = n
      BY <1>0, <2>2
    <3>2. g[n] \in Seq(X) /\ s[n + 1] \in Seq(X)
      BY <1>0, <1>6, <3>1
    <3>3. g[n + 1] = g[n] \o s[n + 1]
      BY <1>4, <3>1
    <3> QED BY <3>2, <3>3
  <2> QED BY <2>1, <2>2
<1>7. Nat \subseteq P
  <2> HIDE DEF P
  <2> QED BY <1>5, <1>6, Counting
<1>8. \A i \in 1..Len(s) : g[i] \in Seq(X)
  BY <1>0, <1>7
<1> QED BY <1>1, <1>4, <1>8

\* Which arguments are taken as values: the one after a bare flag that is not itself taken.
TakenAre(args, T) ==
  T \subseteq DOMAIN args /\ \A i \in DOMAIN args : i \in T <=> i > 1 /\ Bare(args[i - 1]) /\ i - 1 \notin T

LEMMA TakenIs ==
  ASSUME NEW X, NEW args \in Seq(X), NEW T, TakenAre(args, T)
  PROVE  Taken(args) = T
<1> DEFINE Equation(g) == g = [i \in 0..Len(args) |-> i > 1 /\ Bare(args[i - 1]) /\ ~g[i - 1]]
           g == CHOOSE h : Equation(h)
           t == [i \in 0..Len(args) |-> i \in T]
<1>0. Len(args) \in Nat /\ DOMAIN args = 1..Len(args)
  OBVIOUS
<1>1. Taken(args) = {i \in DOMAIN args : g[i]}
  BY DEF Taken
<1>2. Equation(t)
  <2>1. \A i \in 0..Len(args) : t[i] = (i > 1 /\ Bare(args[i - 1]) /\ ~t[i - 1])
    <3> TAKE i \in 0..Len(args)
    <3>1. CASE i > 1
      <4>1. i \in DOMAIN args /\ i - 1 \in 0..Len(args)
        BY <1>0, <3>1
      <4>2. t[i] = (i \in T) /\ t[i - 1] = (i - 1 \in T)
        BY <4>1
      <4>3. i \in T <=> i > 1 /\ Bare(args[i - 1]) /\ i - 1 \notin T
        BY <4>1 DEF TakenAre
      <4> HIDE DEF t
      <4>4. i \in T <=> i > 1 /\ Bare(args[i - 1]) /\ ~t[i - 1]
        BY <4>2, <4>3
      <4> DEFINE B == i > 1 /\ Bare(args[i - 1]) /\ ~t[i - 1]
      <4>5. B \in BOOLEAN /\ (i \in T <=> B)
        BY <4>4
      <4> HIDE DEF B
      <4>6. t[i] = B
        <5>1. CASE i \in T
          BY <4>2, <4>5, <5>1
        <5>2. CASE i \notin T
          BY <4>2, <4>5, <5>2
        <5> QED BY <5>1, <5>2
      <4> QED BY <4>6 DEF B
    <3>2. CASE ~(i > 1)
      <4>1. i \notin T
        BY <1>0, <3>2 DEF TakenAre
      <4> QED BY <3>2, <4>1
    <3> QED BY <3>1, <3>2
  <2> QED BY <2>1
<1>3. \A i \in 0..Len(args) : t[i] <=> i \in T
  OBVIOUS
<1> HIDE DEF Equation, t
<1>4. Equation(g)
  BY <1>2
<1> HIDE DEF g
<1>5. \A h : Equation(h) => \A i \in 0..Len(args) : h[i] <=> i > 1 /\ Bare(args[i - 1]) /\ ~h[i - 1]
  BY DEF Equation
<1>6. \A i \in 0..Len(args) : g[i] <=> t[i]
  <2> DEFINE Wrong == {i \in 0..Len(args) : ~(g[i] <=> t[i])}
  <2> SUFFICES ASSUME Wrong # {} PROVE FALSE
    OBVIOUS
  <2>1. Wrong \subseteq Nat
    BY <1>0
  <2>2. PICK i \in Wrong : \A j \in Wrong : i <= j
    <3> HIDE DEF Wrong
    <3> QED BY <2>1, HasLeast
  <2>3. CASE i > 1
    <3>1. i - 1 \in 0..Len(args) /\ i - 1 \notin Wrong
      BY <1>0, <2>2, <2>3
    <3>2. g[i - 1] <=> t[i - 1]
      BY <3>1
    <3> QED BY <1>2, <1>4, <1>5, <2>2, <3>2
  <2>4. CASE ~(i > 1)
    BY <1>2, <1>4, <1>5, <2>2, <2>4
  <2> QED BY <2>3, <2>4
<1>7. {i \in DOMAIN args : g[i]} = T
  BY <1>0, <1>3, <1>6 DEF TakenAre
<1> QED BY <1>1, <1>7

\* The words of a command line: strings, of which the provers do not know that literals belong to them.
Text == STRING \cup {"--", "", "path", "json", "0", "1", "2"}
Argument == Seq(Text)

\* What the arguments say, when T are the values among them: every flag is one of the invocation, with its value, every
\* word is its file, and the last argument waits for no value.
Says(i, args, T) ==
  /\ args \in Seq(Argument)
  /\ TakenAre(args, T)
  /\ \A j \in DOMAIN args \ T : IsFlag(args[j]) =>
       args[j][2] \in DOMAIN i.flags /\ ValueAt(args, j) = {i.flags[args[j][2]]}
  /\ \A j \in DOMAIN args \ T : ~IsFlag(args[j]) => args[j][1] = i.file /\ i.file # ""
  /\ \A j \in DOMAIN args : Bare(args[j]) /\ j \notin T => j + 1 \in DOMAIN args

Mentions(args, T, n) ==
  \E j \in DOMAIN args \ T : IF n = "file" THEN ~IsFlag(args[j]) ELSE IsFlag(args[j]) /\ args[j][2] = n
IsGiven(i, n) == IF n = "file" THEN i.file # "" ELSE n \in DOMAIN i.flags

IsInvocation(i) ==
  /\ i.file \in Text /\ "file" \notin DOMAIN i.flags
  /\ \A n \in DOMAIN i.flags : i.flags[n] \in Text

LEMMA SeqFacts ==
  ASSUME NEW X, NEW s \in Seq(X)
  PROVE  Len(s) \in Nat /\ DOMAIN s = 1..Len(s) /\ \A j \in 1..Len(s) : s[j] \in X
  OBVIOUS

LEMMA SeqOfMore == ASSUME NEW X, NEW Y, X \subseteq Y, NEW s \in Seq(X) PROVE s \in Seq(Y)
  OBVIOUS

LEMMA ConcatFacts ==
  ASSUME NEW X, NEW s \in Seq(X), NEW t \in Seq(X)
  PROVE  /\ s \o t \in Seq(X) /\ DOMAIN (s \o t) = 1..Len(s) + Len(t)
         /\ \A j \in 1..Len(s) : (s \o t)[j] = s[j]
         /\ \A j \in 1..Len(t) : (s \o t)[Len(s) + j] = t[j]
  OBVIOUS

LEMMA Ranges == \A l, m \in Nat : 1..l \subseteq 1..l + m /\ \A j \in 1..l : j > 1 => j - 1 \in 1..l
  OBVIOUS

LEMMA ShortSequences ==
  ASSUME NEW X, NEW x \in X, NEW y \in X, NEW z \in X
  PROVE  /\ <<x>> \in Seq(X) /\ Len(<<x>>) = 1 /\ <<x>>[1] = x
         /\ <<x, y>> \in Seq(X) /\ Len(<<x, y>>) = 2 /\ <<x, y>>[1] = x /\ <<x, y>>[2] = y
         /\ <<x, y, z>> \in Seq(X) /\ Len(<<x, y, z>>) = 3 /\ <<x, y, z>>[2] = y /\ <<x, y, z>>[3] = z
  OBVIOUS

LEMMA ValueOfBare ==
  ASSUME NEW args, NEW j, Bare(args[j]), j + 1 \in DOMAIN args
  PROVE  ValueAt(args, j) = {IF IsFlag(args[j + 1]) THEN "--" ELSE args[j + 1][1]}
<1>1. {j + 1} \cap DOMAIN args = {j + 1}
  OBVIOUS
<1> DEFINE Value(k) == IF IsFlag(args[k]) THEN "--" ELSE args[k][1]
<1>2. ValueAt(args, j) = {Value(k) : k \in {j + 1} \cap DOMAIN args}
  BY DEF ValueAt
<1> HIDE DEF Value
<1>3. ValueAt(args, j) = {Value(j + 1)}
  BY <1>1, <1>2
<1> QED BY <1>3 DEF Value

\* What follows does not change what has been said.
LEMMA SaysMore ==
  ASSUME NEW i, NEW args, NEW T, Says(i, args, T), NEW more \in Seq(Argument), NEW U \in SUBSET DOMAIN (args \o more),
         \A j \in DOMAIN args : j \in U <=> j \in T,
         \A j \in DOMAIN (args \o more) \ DOMAIN args :
           LET a == args \o more IN
           /\ j \in U <=> j > 1 /\ Bare(a[j - 1]) /\ j - 1 \notin U
           /\ j \notin U /\ IsFlag(a[j]) => a[j][2] \in DOMAIN i.flags /\ ValueAt(a, j) = {i.flags[a[j][2]]}
           /\ j \notin U /\ ~IsFlag(a[j]) => a[j][1] = i.file /\ i.file # ""
           /\ Bare(a[j]) /\ j \notin U => j + 1 \in DOMAIN a
  PROVE  Says(i, args \o more, U) /\ \A n : Mentions(args, T, n) => Mentions(args \o more, U, n)
<1> DEFINE a == args \o more
<1>0. args \in Seq(Argument) /\ \A j \in DOMAIN args : Bare(args[j]) /\ j \notin T => j + 1 \in DOMAIN args
  BY DEF Says
<1>1. Len(args) \in Nat /\ Len(more) \in Nat /\ DOMAIN args = 1..Len(args)
  BY <1>0, SeqFacts
<1>2. /\ a \in Seq(Argument) /\ DOMAIN args = 1..Len(args) /\ DOMAIN a = 1..Len(args) + Len(more)
      /\ \A j \in DOMAIN args : a[j] = args[j]
  <2>1. /\ args \o more \in Seq(Argument) /\ DOMAIN (args \o more) = 1..Len(args) + Len(more)
        /\ \A j \in 1..Len(args) : (args \o more)[j] = args[j]
    <3>1. args \in Seq(Argument) /\ more \in Seq(Argument)
      BY <1>0
    <3> HIDE DEF a
    <3> QED BY ONLY <3>1, ConcatFacts
  <2> QED BY <1>1, <2>1 DEF a
<1> HIDE DEF a
<1>3. DOMAIN args \subseteq DOMAIN a /\ \A j \in DOMAIN args : j > 1 => j - 1 \in DOMAIN args
  <2>1. DOMAIN args = 1..Len(args) /\ DOMAIN a = 1..Len(args) + Len(more)
    BY <1>1, <1>2
  <2> QED BY <1>1, <2>1, Ranges
<1>4. TakenAre(a, U)
  <2>1. ASSUME NEW j \in DOMAIN args PROVE j \in U <=> j > 1 /\ Bare(a[j - 1]) /\ j - 1 \notin U
    BY <1>2, <1>3, <2>1 DEF Says, TakenAre
  <2> QED BY <2>1 DEF TakenAre, a
<1>5. ASSUME NEW j \in DOMAIN args, j \notin T PROVE ValueAt(a, j) = ValueAt(args, j)
  <2>1. Bare(args[j]) => j + 1 \in DOMAIN args /\ j + 1 \in DOMAIN a /\ a[j + 1] = args[j + 1]
    BY <1>2, <1>3, <1>5 DEF Says
  <2>2. CASE Bare(args[j])
    <3>1. Bare(a[j]) /\ j + 1 \in DOMAIN a /\ j + 1 \in DOMAIN args /\ a[j + 1] = args[j + 1]
      BY <1>2, <2>1, <2>2
    <3>2. /\ ValueAt(a, j) = {IF IsFlag(a[j + 1]) THEN "--" ELSE a[j + 1][1]}
          /\ ValueAt(args, j) = {IF IsFlag(args[j + 1]) THEN "--" ELSE args[j + 1][1]}
      BY <2>2, <3>1, ValueOfBare
    <3> QED BY <3>1, <3>2
  <2>3. CASE ~Bare(args[j])
    BY <1>2, <2>3 DEF ValueAt
  <2> QED BY <2>2, <2>3
<1>6. \A j \in DOMAIN a \ U : IsFlag(a[j]) => a[j][2] \in DOMAIN i.flags /\ ValueAt(a, j) = {i.flags[a[j][2]]}
  <2> TAKE j \in DOMAIN a \ U
  <2>1. CASE j \in DOMAIN args
    BY <1>2, <1>5, <2>1 DEF Says
  <2>2. CASE j \notin DOMAIN args
    BY <2>2 DEF a
  <2> QED BY <2>1, <2>2
<1>7. \A j \in DOMAIN a \ U : ~IsFlag(a[j]) => a[j][1] = i.file /\ i.file # ""
  <2> TAKE j \in DOMAIN a \ U
  <2>1. CASE j \in DOMAIN args
    BY <1>2, <2>1 DEF Says
  <2>2. CASE j \notin DOMAIN args
    BY <2>2 DEF a
  <2> QED BY <2>1, <2>2
<1>8. \A j \in DOMAIN a : Bare(a[j]) /\ j \notin U => j + 1 \in DOMAIN a
  <2> TAKE j \in DOMAIN a
  <2>1. CASE j \in DOMAIN args
    BY <1>2, <1>3, <2>1 DEF Says
  <2>2. CASE j \notin DOMAIN args
    BY <2>2 DEF a
  <2> QED BY <2>1, <2>2
<1>9. \A n : Mentions(args, T, n) => Mentions(a, U, n)
  <2> SUFFICES ASSUME NEW n, Mentions(args, T, n) PROVE Mentions(a, U, n)
    OBVIOUS
  <2>1. PICK j \in DOMAIN args \ T : IF n = "file" THEN ~IsFlag(args[j]) ELSE IsFlag(args[j]) /\ args[j][2] = n
    BY DEF Mentions
  <2>2. j \in DOMAIN a \ U /\ a[j] = args[j]
    BY <1>2, <1>3
  <2> QED BY <2>1, <2>2 DEF Mentions
<1>10. Says(i, a, U)
  BY <1>2, <1>4, <1>6, <1>7, <1>8 DEF Says
<1> QED BY <1>9, <1>10 DEF a

\* One more name of the order: the file or a flag is typed, if it is given.
LEMMA TypedIsSaid ==
  ASSUME NEW i, IsInvocation(i), NEW args, NEW T, Says(i, args, T), NEW n \in Text, NEW style
  PROVE  /\ Typed(i, n, style) \in Seq(Argument)
         /\ \E U : LET a == args \o Typed(i, n, style) IN
              /\ Says(i, a, U) /\ (IsGiven(i, n) => Mentions(a, U, n))
              /\ \A m : Mentions(args, T, m) => Mentions(a, U, m)
<1> DEFINE more == Typed(i, n, style)
           a == args \o more
           L == Len(args)
<1>0. /\ args \in Seq(Argument) /\ T \subseteq DOMAIN args
      /\ \A j \in DOMAIN args : Bare(args[j]) /\ j \notin T => j + 1 \in DOMAIN args
  BY DEF Says, TakenAre
<1>1. args \in Seq(Argument) /\ L \in Nat /\ DOMAIN args = 1..L /\ T \subseteq 1..L
  BY <1>0, SeqFacts
<1>2. L \in DOMAIN args => ~Bare(args[L]) \/ L \in T
  BY <1>0, <1>1
<1>3. CASE n = "file" /\ i.file # ""
  <2> DEFINE w == <<i.file>>
  <2>0. more = <<w>> /\ i.file \in Text
    BY <1>3 DEF Typed, IsInvocation
  <2>1. more = <<w>> /\ w \in Argument /\ Len(w) = 1 /\ w[1] = i.file
    BY <2>0, ShortSequences DEF Argument
  <2> HIDE DEF more, w
  <2>2. more \in Seq(Argument) /\ Len(more) = 1
    BY <2>1
  <2>3. DOMAIN a = 1..L + 1 /\ a[L + 1] = w /\ \A j \in 1..L : a[j] = args[j]
    BY <1>1, <2>1, <2>2
  <2> HIDE DEF a
  <2>4. ~IsFlag(w) /\ ~Bare(w)
    BY <2>1 DEF IsFlag, Bare
  <2>5. \A j \in DOMAIN a \ DOMAIN args : j = L + 1 /\ j \notin T
    BY <1>1, <2>3
  <2>6. ~(L + 1 > 1 /\ Bare(a[L]) /\ L \notin T)
    BY <1>1, <1>2, <2>3
  <2>7. Says(i, a, T) /\ \A m : Mentions(args, T, m) => Mentions(a, T, m)
    <3>1. T \in SUBSET DOMAIN a
      BY <1>1, <2>3
    <3>2. \A j \in DOMAIN a \ DOMAIN args :
            /\ j \in T <=> j > 1 /\ Bare(a[j - 1]) /\ j - 1 \notin T
            /\ j \notin T /\ IsFlag(a[j]) => a[j][2] \in DOMAIN i.flags /\ ValueAt(a, j) = {i.flags[a[j][2]]}
            /\ j \notin T /\ ~IsFlag(a[j]) => a[j][1] = i.file /\ i.file # ""
            /\ Bare(a[j]) /\ j \notin T => j + 1 \in DOMAIN a
      <4> TAKE j \in DOMAIN a \ DOMAIN args
      <4>1. j = L + 1 /\ j \notin T /\ j - 1 = L /\ a[j] = w
        BY <1>1, <2>3, <2>5
      <4> QED BY <1>3, <2>1, <2>4, <2>6, <4>1
    <3> QED BY <2>2, <3>1, <3>2, SaysMore DEF a
  <2>8. Mentions(a, T, n)
    <3>1. L + 1 \in DOMAIN a \ T
      BY <1>1, <2>3
    <3> QED BY <1>3, <2>3, <2>4, <3>1 DEF Mentions
  <2> QED BY <2>2, <2>7, <2>8 DEF a, more
<1>4. CASE n \in DOMAIN i.flags /\ n \in style
  <2> DEFINE w == <<"--", n, i.flags[n]>>
  <2>0. more = <<w>> /\ i.flags[n] \in Text /\ "--" \in Text /\ n # "file"
    <3>1. i.flags[n] \in Text /\ n # "file"
      BY <1>4 DEF IsInvocation
    <3>2. more = <<w>>
      BY <1>4, <3>1 DEF Typed
    <3> QED BY <3>1, <3>2 DEF Text
  <2>1. more = <<w>> /\ w \in Argument /\ Len(w) = 3 /\ w[2] = n /\ w[3] = i.flags[n]
    BY <2>0, ShortSequences DEF Argument
  <2> HIDE DEF more, w
  <2>2. more \in Seq(Argument) /\ Len(more) = 1
    BY <2>1
  <2>3. DOMAIN a = 1..L + 1 /\ a[L + 1] = w /\ \A j \in 1..L : a[j] = args[j]
    BY <1>1, <2>1, <2>2
  <2> HIDE DEF a
  <2>4. IsFlag(w) /\ ~Bare(w)
    BY <2>1 DEF IsFlag, Bare
  <2>5. \A j \in DOMAIN a \ DOMAIN args : j = L + 1 /\ j \notin T
    BY <1>1, <2>3
  <2>6. ~(L + 1 > 1 /\ Bare(a[L]) /\ L \notin T)
    BY <1>1, <1>2, <2>3
  <2>7. ValueAt(a, L + 1) = {i.flags[n]}
    BY <2>1, <2>3, <2>4 DEF ValueAt
  <2>8. Says(i, a, T) /\ \A m : Mentions(args, T, m) => Mentions(a, T, m)
    <3>1. T \in SUBSET DOMAIN a
      BY <1>1, <2>3
    <3>2. \A j \in DOMAIN a \ DOMAIN args :
            /\ j \in T <=> j > 1 /\ Bare(a[j - 1]) /\ j - 1 \notin T
            /\ j \notin T /\ IsFlag(a[j]) => a[j][2] \in DOMAIN i.flags /\ ValueAt(a, j) = {i.flags[a[j][2]]}
            /\ j \notin T /\ ~IsFlag(a[j]) => a[j][1] = i.file /\ i.file # ""
            /\ Bare(a[j]) /\ j \notin T => j + 1 \in DOMAIN a
      <4> TAKE j \in DOMAIN a \ DOMAIN args
      <4>1. j = L + 1 /\ j \notin T /\ j - 1 = L /\ a[j] = w
        BY <1>1, <2>3, <2>5
      <4> QED BY <1>4, <2>1, <2>4, <2>6, <2>7, <4>1
    <3> QED BY <2>2, <3>1, <3>2, SaysMore DEF a
  <2>9. Mentions(a, T, n)
    <3>1. L + 1 \in DOMAIN a \ T
      BY <1>1, <2>3
    <3> QED BY <2>0, <2>1, <2>3, <2>4, <3>1 DEF Mentions
  <2> QED BY <2>2, <2>8, <2>9 DEF a, more
<1>5. CASE n \in DOMAIN i.flags /\ n \notin style
  <2> DEFINE w == <<"--", n>>
             v == <<i.flags[n]>>
             U == T \cup {L + 2}
  <2>1. /\ more = <<w, v>> /\ w \in Argument /\ Len(w) = 2 /\ w[2] = n
        /\ v \in Argument /\ Len(v) = 1 /\ v[1] = i.flags[n]
    <3>1. i.flags[n] \in Text /\ "--" \in Text /\ n # "file"
      BY <1>5 DEF IsInvocation, Text
    <3>2. more = <<w, v>>
      BY <1>5, <3>1 DEF Typed
    <3> QED BY <3>1, <3>2, ShortSequences DEF Argument
  <2> HIDE DEF more, w, v
  <2>2. more \in Seq(Argument) /\ Len(more) = 2
    BY <2>1
  <2>3. DOMAIN a = 1..L + 2 /\ a[L + 1] = w /\ a[L + 2] = v /\ \A j \in 1..L : a[j] = args[j]
    BY <1>1, <2>1, <2>2
  <2> HIDE DEF a
  <2>4. IsFlag(w) /\ Bare(w) /\ ~IsFlag(v) /\ ~Bare(v)
    BY <2>1 DEF IsFlag, Bare
  <2>5. \A j \in DOMAIN a \ DOMAIN args : j = L + 1 \/ j = L + 2
    BY <1>1, <2>3
  <2>6. L + 1 \notin U /\ L + 2 \in U /\ ~(L + 1 > 1 /\ Bare(a[L]) /\ L \notin U)
    <3>1. L + 1 \notin T /\ L + 1 # L + 2
      BY <1>1
    <3>2. L + 1 > 1 => L \in DOMAIN args /\ a[L] = args[L]
      BY <1>1, <2>3
    <3> QED BY <1>2, <3>1, <3>2
  <2>7. ValueAt(a, L + 1) = {i.flags[n]}
    <3>1. {(L + 1) + 1} \cap DOMAIN a = {L + 2}
      BY <1>1, <2>3
    <3> QED BY <2>1, <2>3, <2>4, <3>1 DEF ValueAt
  <2>8. Says(i, a, U) /\ \A m : Mentions(args, T, m) => Mentions(a, U, m)
    <3>0. T \subseteq DOMAIN a /\ L + 2 \in DOMAIN a /\ L + 2 \notin DOMAIN args
      BY <1>1, <2>3
    <3>1. U \in SUBSET DOMAIN a /\ \A j \in DOMAIN args : j \in U <=> j \in T
      BY <3>0
    <3>2. \A j \in DOMAIN a \ DOMAIN args :
            /\ j \in U <=> j > 1 /\ Bare(a[j - 1]) /\ j - 1 \notin U
            /\ j \notin U /\ IsFlag(a[j]) => a[j][2] \in DOMAIN i.flags /\ ValueAt(a, j) = {i.flags[a[j][2]]}
            /\ j \notin U /\ ~IsFlag(a[j]) => a[j][1] = i.file /\ i.file # ""
            /\ Bare(a[j]) /\ j \notin U => j + 1 \in DOMAIN a
      <4> TAKE j \in DOMAIN a \ DOMAIN args
      <4> HIDE DEF U
      <4>1. CASE j = L + 1
        <5>1. j - 1 = L /\ j + 1 = L + 2 /\ j + 1 \in DOMAIN a
          BY <1>1, <2>3, <4>1
        <5> QED BY <1>5, <2>1, <2>3, <2>4, <2>6, <2>7, <4>1, <5>1
      <4>2. CASE j = L + 2
        <5>1. j - 1 = L + 1 /\ j > 1
          BY <1>1, <4>2
        <5> QED BY <2>3, <2>4, <2>6, <4>2, <5>1
      <4> QED BY <2>5, <4>1, <4>2
    <3> HIDE DEF U
    <3> QED BY <2>2, <3>1, <3>2, SaysMore DEF a
  <2>9. Mentions(a, U, n)
    <3>0. L + 1 \in DOMAIN a
      BY <1>1, <2>3
    <3>1. L + 1 \in DOMAIN a \ U /\ n # "file"
      BY <1>5, <2>6, <3>0 DEF IsInvocation
    <3> QED BY <2>1, <2>3, <2>4, <3>1 DEF Mentions
  <2> QED BY <2>2, <2>8, <2>9 DEF a, more
<1>6. CASE ~IsGiven(i, n)
  <2>0. more = <<>>
    BY <1>6 DEF Typed, IsGiven, IsInvocation
  <2>1. more = <<>> /\ more \in Seq(Argument)
    BY <2>0
  <2>2. a = args
    BY <1>1, <2>1
  <2> QED BY <1>6, <2>1, <2>2
<1> QED BY <1>3, <1>4, <1>5, <1>6 DEF IsGiven

\* The whole command line says what is meant, and mentions everything that is given and has a place in the order.
LEMMA LineIsSaid ==
  ASSUME NEW i, IsInvocation(i), NEW o \in Seq(Text), o # <<>>, NEW style
  PROVE  \E T : /\ Says(i, Arguments(i, o, style), T)
                /\ \A k \in DOMAIN o : IsGiven(i, o[k]) => Mentions(Arguments(i, o, style), T, o[k])
<1> DEFINE s == [k \in DOMAIN o |-> Typed(i, o[k], style)]
<1>1. Len(o) \in Nat /\ Len(o) # 0 /\ DOMAIN o = 1..Len(o) /\ \A k \in 1..Len(o) : o[k] \in Text
  BY SeqFacts
<1>2. Says(i, <<>>, {}) /\ <<>> \in Seq(Argument)
  BY DEF Says, TakenAre
<1>3. \A k \in 1..Len(o) : s[k] = Typed(i, o[k], style) /\ s[k] \in Seq(Argument)
  <2> TAKE k \in 1..Len(o)
  <2>1. Typed(i, o[k], style) \in Seq(Argument)
    BY <1>1, <1>2, TypedIsSaid
  <2> QED BY <1>1, <2>1
<1>4. s \in Seq(Seq(Argument)) /\ s # <<>> /\ Len(s) = Len(o)
  BY <1>1, <1>3
<1>5. Arguments(i, o, style) = FlattenSeq(s)
  BY DEF Arguments
<1> HIDE DEF s
<1>6. PICK g : /\ FlattenSeq(s) = g[Len(s)]
               /\ \A k \in 1..Len(s) : g[k] \in Seq(Argument) /\ g[k] = IF k = 1 THEN s[k] ELSE g[k - 1] \o s[k]
  BY <1>4, FlattenedInParts
<1> DEFINE Ok(n) == \E T : /\ Says(i, g[n], T)
                           /\ \A k \in 1..n : IsGiven(i, o[k]) => Mentions(g[n], T, o[k])
           P == {n \in Nat : n \in 1..Len(o) => Ok(n)}
<1>7. ASSUME NEW n \in Nat, n \in P PROVE n + 1 \in P
  <2> SUFFICES ASSUME n + 1 \in 1..Len(o) PROVE Ok(n + 1)
    OBVIOUS
  <2>1. o[n + 1] \in Text /\ s[n + 1] = Typed(i, o[n + 1], style) /\ s[n + 1] \in Seq(Argument)
    BY <1>1, <1>3
  <2>2. CASE n = 0
    <3>1. n + 1 = 1 /\ g[n + 1] = s[n + 1] /\ <<>> \o s[n + 1] = s[n + 1]
      BY <1>4, <1>6, <2>1, <2>2
    <3>2. PICK U : Says(i, <<>> \o s[n + 1], U) /\ (IsGiven(i, o[n + 1]) => Mentions(<<>> \o s[n + 1], U, o[n + 1]))
      BY <1>2, <2>1, TypedIsSaid
    <3>3. \A k \in 1..n + 1 : k = n + 1
      BY <2>2
    <3> QED BY <3>1, <3>2, <3>3
  <2>3. CASE n # 0
    <3>1. n \in 1..Len(o) /\ (n + 1) - 1 = n /\ n + 1 # 1
      BY <1>1, <2>3
    <3>2. g[n + 1] = g[n] \o s[n + 1]
      BY <1>4, <1>6, <3>1
    <3>3. PICK T : Says(i, g[n], T) /\ \A k \in 1..n : IsGiven(i, o[k]) => Mentions(g[n], T, o[k])
      BY <1>7, <3>1
    <3>4. PICK U : /\ Says(i, g[n] \o s[n + 1], U) /\ (IsGiven(i, o[n + 1]) => Mentions(g[n] \o s[n + 1], U, o[n + 1]))
                   /\ \A m : Mentions(g[n], T, m) => Mentions(g[n] \o s[n + 1], U, m)
      BY <2>1, <3>3, TypedIsSaid
    <3>5. \A k \in 1..n + 1 : k \in 1..n \/ k = n + 1
      OBVIOUS
    <3>6. \A k \in 1..n + 1 : IsGiven(i, o[k]) => Mentions(g[n + 1], U, o[k])
      BY <3>2, <3>3, <3>4, <3>5
    <3> QED BY <3>2, <3>4, <3>6
  <2> QED BY <2>2, <2>3
<1> HIDE DEF Ok
<1>8. 0 \in P
  OBVIOUS
<1>9. Nat \subseteq P
  <2> HIDE DEF P
  <2> QED BY <1>7, <1>8, Counting
<1>10. Ok(Len(o))
  BY <1>1, <1>9
<1> QED BY <1>1, <1>4, <1>5, <1>6, <1>10 DEF Ok

\* parseArgs and the flag package find the flags of the invocation, each with its value, and its file.
IsRead(i, args) ==
  /\ \A n : n # "file" => FlagValue(args, n) = IF n \in DOMAIN i.flags THEN i.flags[n] ELSE ""
  /\ Positional(args) = {} <=> i.file = ""
  /\ Positional(args) # {} => args[Min(Positional(args))][1] = i.file
  /\ \A j \in FlagPositions(args) : args[j][2] \in DOMAIN i.flags /\ ValueAt(args, j) = {i.flags[args[j][2]]}

LEMMA LineIsRead ==
  ASSUME NEW i, IsInvocation(i), NEW o \in Orders, NEW style, DOMAIN i.flags \subseteq GateFlags
  PROVE  IsRead(i, Arguments(i, o, style))
<1> DEFINE args == Arguments(i, o, style)
<1>1. o \in Seq(Text) /\ GateFlags \cup {"file"} \subseteq ToSet(o) /\ o # <<>>
  <2>1. o \in Seq(STRING) /\ GateFlags \cup {"file"} \subseteq ToSet(o)
    BY LineAssumption
  <2>2. o \in Seq(Text)
    <3>1. STRING \subseteq Text
      BY DEF Text
    <3> QED BY <2>1, <3>1, SeqOfMore
  <2>3. o # <<>>
    BY <2>1, SMTT(20) DEF ToSet
  <2> QED BY <2>1, <2>2, <2>3
<1>2. PICK T : Says(i, args, T) /\ \A k \in DOMAIN o : IsGiven(i, o[k]) => Mentions(args, T, o[k])
  BY <1>1, LineIsSaid
<1> HIDE DEF args
<1>3. /\ args \in Seq(Argument) /\ TakenAre(args, T)
      /\ \A j \in DOMAIN args \ T : IsFlag(args[j]) =>
           args[j][2] \in DOMAIN i.flags /\ ValueAt(args, j) = {i.flags[args[j][2]]}
      /\ \A j \in DOMAIN args \ T : ~IsFlag(args[j]) => args[j][1] = i.file /\ i.file # ""
  BY <1>2 DEF Says
<1>4. Len(args) \in Nat /\ DOMAIN args = 1..Len(args)
  BY <1>3, SeqFacts
<1>5. Taken(args) = T
  BY <1>3, TakenIs
<1>6. /\ FlagPositions(args) = {j \in DOMAIN args \ T : IsFlag(args[j])}
      /\ Positional(args) = {j \in DOMAIN args \ T : ~IsFlag(args[j])}
  BY <1>5 DEF FlagPositions, Positional
<1>7. \A n \in GateFlags \cup {"file"} : IsGiven(i, n) => Mentions(args, T, n)
  BY <1>1, <1>2 DEF ToSet
<1>8. ASSUME NEW n, n # "file" PROVE FlagValue(args, n) = IF n \in DOMAIN i.flags THEN i.flags[n] ELSE ""
  <2> DEFINE at == {j \in FlagPositions(args) : args[j][2] = n}
  <2>1. \A j \in at : ValueAt(args, j) = {i.flags[n]} /\ n \in DOMAIN i.flags
    BY <1>3, <1>6
  <2>2. n \in DOMAIN i.flags => at # {}
    <3> SUFFICES ASSUME n \in DOMAIN i.flags PROVE at # {}
      OBVIOUS
    <3>1. Mentions(args, T, n)
      BY <1>7, <1>8 DEF IsGiven
    <3>2. PICK j \in DOMAIN args \ T : IsFlag(args[j]) /\ args[j][2] = n
      BY <1>8, <3>1 DEF Mentions
    <3> QED BY <1>6, <3>2
  <2>3. FlagValue(args, n) = IF at = {} THEN "" ELSE CHOOSE v \in ValueAt(args, Max(at)) : TRUE
    BY DEF FlagValue
  <2>4. at \subseteq 1..Len(args)
    BY <1>4, <1>6
  <2> HIDE DEF at
  <2>5. CASE at = {}
    BY <2>2, <2>3, <2>5
  <2>6. CASE at # {}
    <3>1. Max(at) \in at
      BY <1>4, <2>4, <2>6, HasLast
    <3>2. ValueAt(args, Max(at)) = {i.flags[n]} /\ n \in DOMAIN i.flags
      BY <2>1, <3>1
    <3>3. (CHOOSE v \in {i.flags[n]} : TRUE) = i.flags[n]
      OBVIOUS
    <3> QED BY <2>3, <2>6, <3>2, <3>3
  <2> QED BY <2>5, <2>6
<1>9. Positional(args) = {} <=> i.file = ""
  <2>1. i.file # "" => Mentions(args, T, "file")
    BY <1>7 DEF IsGiven
  <2>2. Mentions(args, T, "file") => Positional(args) # {}
    BY <1>6 DEF Mentions
  <2> QED BY <1>3, <1>6, <2>1, <2>2
<1>10. Positional(args) # {} => args[Min(Positional(args))][1] = i.file
  <2>1. Positional(args) \subseteq 1..Len(args)
    BY <1>4, <1>6
  <2>2. Positional(args) # {} => Min(Positional(args)) \in Positional(args)
    BY <1>4, <2>1, HasFirst
  <2> QED BY <1>3, <1>6, <2>2
<1> QED BY <1>3, <1>6, <1>8, <1>9, <1>10 DEF IsRead, args

LEMMA NumeralsAre ==
  /\ DOMAIN Numerals = 0..2 /\ Numerals[0] = "0" /\ Numerals[1] = "1" /\ Numerals[2] = "2"
  /\ \A n \in 0..2 : n = 0 \/ n = 1 \/ n = 2
  BY DEF Numerals

\* What the invocations of a request have in common, and what makes an invalid request invalid.
LEMMA InvocationsOfGate ==
  ASSUME NEW q \in Requests, NEW i \in GateInvocations(q)
  PROVE  /\ i.command = "gate" /\ IsInvocation(i) /\ DOMAIN i.flags \subseteq GateFlags
         /\ q.valid <=> i.file = "" /\ "current" \in DOMAIN i.flags /\ "policy" \in DOMAIN i.flags
         /\ \A n \in {"current", "policy"} \cap DOMAIN i.flags : i.flags[n] = "path"
         /\ ("run-id" \in DOMAIN i.flags <=> q.run # NoRun) /\ (q.run # NoRun => i.flags["run-id"] = q.run)
         /\ "baseline" \in DOMAIN i.flags <=> q.baselineFile
         /\ q.baselineFile => i.flags["baseline"] = "path"
         /\ "baseline-run-id" \in DOMAIN i.flags <=> q.baselineRun # NoRun
         /\ q.baselineRun # NoRun => i.flags["baseline-run-id"] = q.baselineRun
         /\ "format" \in DOMAIN i.flags => i.flags["format"] = "json"
         /\ "warn-exit-code" \in DOMAIN i.flags <=> q.warnExitCode # ExitPass
         /\ q.warnExitCode # ExitPass => i.flags["warn-exit-code"] = Numerals[q.warnExitCode]
<1> DEFINE given == [n \in GateFlags |-> CASE n \in {"current", "policy"} -> TRUE
                                           [] n = "run-id"           -> q.run # NoRun
                                           [] n = "baseline"         -> q.baselineFile
                                           [] n = "baseline-run-id"  -> q.baselineRun # NoRun
                                           [] n = "warn-exit-code"   -> q.warnExitCode # ExitPass
                                           [] n = "format"           -> q.baselineFile]
           value == [n \in GateFlags |-> CASE n = "run-id"          -> q.run
                                           [] n = "baseline-run-id" -> q.baselineRun
                                           [] n = "warn-exit-code"  -> Numerals[q.warnExitCode]
                                           [] n = "format"          -> "json"
                                           [] OTHER                 -> "path"]
           flags == {n \in GateFlags : given[n]}
           With(word, names) == [command |-> "gate", file |-> word, flags |-> [n \in names |-> value[n]]]
<1>1. /\ q.valid => i = With("", flags)
      /\ ~q.valid => i \in {With("", flags \ {"policy"}), With("", flags \ {"current"}), With("path", flags)}
  BY DEF GateInvocations
<1>2. PICK word \in {"", "path"}, names \in SUBSET flags :
        /\ i = With(word, names) /\ flags \ {"policy", "current"} \subseteq names
        /\ q.valid <=> word = "" /\ "current" \in names /\ "policy" \in names
  <2>1. "current" \in flags /\ "policy" \in flags
    BY DEF GateFlags
  <2> HIDE DEF flags, With
  <2>2. CASE q.valid
    <3> WITNESS "" \in {"", "path"}, flags \in SUBSET flags
    <3> QED BY <1>1, <2>1, <2>2
  <2>3. CASE ~q.valid
    <3>1. CASE i = With("", flags \ {"policy"})
      <4> WITNESS "" \in {"", "path"}, flags \ {"policy"} \in SUBSET flags
      <4> QED BY <2>3, <3>1
    <3>2. CASE i = With("", flags \ {"current"})
      <4> WITNESS "" \in {"", "path"}, flags \ {"current"} \in SUBSET flags
      <4> QED BY <2>3, <3>2
    <3>3. CASE i = With("path", flags)
      <4> WITNESS "path" \in {"", "path"}, flags \in SUBSET flags
      <4> QED BY <2>3, <3>3
    <3> QED BY <1>1, <2>3, <3>1, <3>2, <3>3
  <2> QED BY <2>2, <2>3
<1>3. i.command = "gate" /\ i.file = word /\ DOMAIN i.flags = names /\ \A n \in names : i.flags[n] = value[n]
  <2> HIDE DEF flags, value
  <2> QED BY <1>2
<1>4. /\ flags \subseteq GateFlags /\ "file" \notin GateFlags
      /\ "run-id" \in flags <=> q.run # NoRun
      /\ ("baseline" \in flags <=> q.baselineFile)
      /\ "baseline-run-id" \in flags <=> q.baselineRun # NoRun
      /\ "warn-exit-code" \in flags <=> q.warnExitCode # ExitPass
  BY DEF GateFlags
<1>5. /\ value["run-id"] = q.run /\ value["baseline-run-id"] = q.baselineRun /\ value["format"] = "json"
      /\ value["warn-exit-code"] = Numerals[q.warnExitCode]
      /\ \A n \in {"baseline", "current", "policy"} : value[n] = "path"
  BY DEF GateFlags
<1>6. \A n \in flags : value[n] \in Text
  <2>1. q.warnExitCode \in 0..2 /\ Numerals[q.warnExitCode] \in {"0", "1", "2"}
    <3>1. q.warnExitCode \in 0..2
      BY LineAssumption
    <3> QED BY <3>1, NumeralsAre
  <2>2. /\ q.run # NoRun => q.run \in STRING
        /\ q.baselineRun # NoRun => q.baselineRun \in STRING
    BY LineAssumption, RequestsAssumption
  <2>3. \A n \in flags : n \in {"run-id", "baseline-run-id", "warn-exit-code", "format", "baseline", "current", "policy"}
    BY DEF GateFlags
  <2> HIDE DEF flags, value
  <2> QED BY <1>4, <1>5, <2>1, <2>2, <2>3 DEF Text
<1> HIDE DEF flags, value, given
<1>7. IsInvocation(i)
  BY <1>2, <1>3, <1>4, <1>6 DEF IsInvocation, Text
<1> QED BY <1>2, <1>3, <1>4, <1>5, <1>7

\* Each spelling of an invocation of gate is accepted, and it is understood as the request that is meant.
LEMMA GateLineIsUnderstood ==
  ASSUME NEW q \in Requests, q.entry = "cli", NEW i \in GateInvocations(q), NEW o \in Orders, NEW style,
         NEW args, args = Arguments(i, o, style)
  PROVE  Accepted(args, GateFlags) /\ GateRequest(args) = q
<1> DEFINE D == DOMAIN i.flags
           value(n) == FlagValue(args, n)
<1>1. /\ IsInvocation(i) /\ D \subseteq GateFlags
      /\ q.valid <=> i.file = "" /\ "current" \in D /\ "policy" \in D
      /\ \A n \in {"current", "policy"} \cap D : i.flags[n] = "path"
      /\ ("run-id" \in D <=> q.run # NoRun) /\ (q.run # NoRun => i.flags["run-id"] = q.run)
      /\ "baseline" \in D <=> q.baselineFile
      /\ q.baselineFile => i.flags["baseline"] = "path"
      /\ "baseline-run-id" \in D <=> q.baselineRun # NoRun
      /\ q.baselineRun # NoRun => i.flags["baseline-run-id"] = q.baselineRun
      /\ "format" \in D => i.flags["format"] = "json"
      /\ "warn-exit-code" \in D <=> q.warnExitCode # ExitPass
      /\ q.warnExitCode # ExitPass => i.flags["warn-exit-code"] = Numerals[q.warnExitCode]
  BY InvocationsOfGate, ZenonT(30)
<1>2. /\ \A n : n # "file" => value(n) = IF n \in D THEN i.flags[n] ELSE ""
      /\ Positional(args) = {} <=> i.file = ""
      /\ \A j \in FlagPositions(args) : args[j][2] \in D /\ ValueAt(args, j) = {i.flags[args[j][2]]}
  <2>1. IsInvocation(i) /\ DOMAIN i.flags \subseteq GateFlags
    BY <1>1
  <2>2. IsRead(i, args)
    BY <2>1, LineIsRead
  <2> QED BY <2>2 DEF IsRead
<1>3. /\ q = [entry |-> q.entry, valid |-> q.valid, run |-> q.run, baselineFile |-> q.baselineFile,
              baselineRun |-> q.baselineRun, warnExitCode |-> q.warnExitCode]
      /\ q.valid \in BOOLEAN /\ q.baselineFile \in BOOLEAN
      /\ q.run # NoRun => q.run # "" /\ q.run \in RunIDs
      /\ q.baselineRun # NoRun => q.baselineRun # "" /\ q.baselineRun \in RunIDs
      /\ q.warnExitCode \in 0..2
  BY RequestsAssumption, LineAssumption
<1> HIDE DEF D, value
<1>4. Accepted(args, GateFlags)
  <2> SUFFICES ASSUME NEW j \in FlagPositions(args)
               PROVE  /\ args[j][2] \in GateFlags /\ ValueAt(args, j) # {}
                      /\ args[j][2] = "warn-exit-code" => \E n \in DOMAIN Numerals : Numerals[n] \in ValueAt(args, j)
    BY DEF Accepted, Unacceptable
  <2>1. args[j][2] \in GateFlags /\ ValueAt(args, j) = {i.flags[args[j][2]]}
    BY <1>1, <1>2
  <2>2. args[j][2] = "warn-exit-code" => Numerals[q.warnExitCode] \in ValueAt(args, j)
    <3> SUFFICES ASSUME args[j][2] = "warn-exit-code" PROVE i.flags["warn-exit-code"] = Numerals[q.warnExitCode]
      BY <2>1
    <3>1. "warn-exit-code" \in D
      BY <1>2
    <3> QED BY <1>1, <3>1
  <2> QED BY <1>3, <2>1, <2>2, NumeralsAre
<1>5. value("current") # "" <=> "current" \in D
  BY <1>1, <1>2
<1>6. value("policy") # "" <=> "policy" \in D
  BY <1>1, <1>2
<1>7. value("format") \in {"", "human", "json"}
  BY <1>1, <1>2
<1>8. RunOf(value("run-id")) = q.run
  BY <1>1, <1>2, <1>3 DEF RunOf
<1>9. RunOf(value("baseline-run-id")) = q.baselineRun
  BY <1>1, <1>2, <1>3 DEF RunOf
<1>10. value("baseline") # "" <=> q.baselineFile
  BY <1>1, <1>2
<1>11. WarnExitCode(value("warn-exit-code")) = q.warnExitCode
  <2>1. CASE q.warnExitCode = ExitPass
    BY <1>1, <1>2, <2>1 DEF WarnExitCode
  <2>2. CASE q.warnExitCode # ExitPass
    <3>1. value("warn-exit-code") = Numerals[q.warnExitCode] /\ Numerals[q.warnExitCode] # ""
      BY <1>1, <1>2, <1>3, <2>2, NumeralsAre
    <3>2. \A n \in 0..2 : Numerals[n] = Numerals[q.warnExitCode] => n = q.warnExitCode
      BY <1>3, NumeralsAre
    <3>3. (CHOOSE n \in 0..2 : Numerals[n] = Numerals[q.warnExitCode]) = q.warnExitCode
      BY <1>3, <3>2
    <3> QED BY <3>1, <3>3, NumeralsAre DEF WarnExitCode
  <2> QED BY <2>1, <2>2
<1> DEFINE valid == /\ Positional(args) = {}
                    /\ value("current") # "" /\ value("policy") # ""
                    /\ value("format") \in {"", "human", "json"}
           withBaseline == value("baseline") # ""
<1>12. valid = q.valid
  <2>1. valid \in BOOLEAN /\ (valid <=> q.valid)
    BY <1>1, <1>2, <1>5, <1>6, <1>7
  <2> HIDE DEF valid
  <2>2. CASE valid
    BY <1>3, <2>1, <2>2
  <2>3. CASE ~valid
    BY <1>3, <2>1, <2>3
  <2> QED BY <2>2, <2>3
<1>13. withBaseline = q.baselineFile
  <2>1. withBaseline \in BOOLEAN /\ (withBaseline <=> q.baselineFile)
    BY <1>10
  <2> HIDE DEF withBaseline
  <2>2. CASE withBaseline
    BY <1>3, <2>1, <2>2
  <2>3. CASE ~withBaseline
    BY <1>3, <2>1, <2>3
  <2> QED BY <2>2, <2>3
<1>14. GateRequest(args) = [entry |-> "cli", valid |-> valid, run |-> RunOf(value("run-id")), baselineFile |-> withBaseline,
                            baselineRun |-> RunOf(value("baseline-run-id")), warnExitCode |-> WarnExitCode(value("warn-exit-code"))]
  BY DEF GateRequest, value
<1> HIDE DEF valid, withBaseline
<1> QED BY <1>3, <1>4, <1>8, <1>9, <1>11, <1>12, <1>13, <1>14

\* Each spelling of another subcommand is accepted, and its file and flags are found.
IsUnderstood(i, args) ==
  /\ i.file # "" /\ i = [command |-> i.command, file |-> i.file, flags |-> i.flags]
  /\ Accepted(args, FlagsOf(i.command))
  /\ Positional(args) # {} /\ args[Min(Positional(args))][1] = i.file
  /\ [n \in FlagsOf(i.command) |-> FlagValue(args, n)] = i.flags
  /\ \A n \in DOMAIN i.flags : i.flags[n] # ""

LEMMA OtherLineIsUnderstood ==
  ASSUME NEW i \in Others, NEW o \in Orders, NEW style
  PROVE  IsUnderstood(i, Arguments(i, o, style))
<1> DEFINE args == Arguments(i, o, style)
<1>1. /\ i.command \in {"summary", "endpoints", "compare", "diagnose"} /\ i.file # "" /\ i.file \in STRING
      /\ i = [command |-> i.command, file |-> i.file, flags |-> i.flags]
      /\ i.flags \in [FlagsOf(i.command) -> STRING \ {""}]
  BY LineAssumption
<1>2. FlagsOf(i.command) \subseteq GateFlags /\ "file" \notin GateFlags /\ "warn-exit-code" \notin FlagsOf(i.command)
  BY <1>1 DEF FlagsOf, GateFlags
<1>3. DOMAIN i.flags = FlagsOf(i.command) /\ \A n \in DOMAIN i.flags : i.flags[n] \in STRING /\ i.flags[n] # ""
  BY <1>1
<1>4. IsInvocation(i)
  BY <1>1, <1>2, <1>3 DEF IsInvocation, Text
<1>5. /\ \A n : n # "file" => FlagValue(args, n) = IF n \in DOMAIN i.flags THEN i.flags[n] ELSE ""
      /\ Positional(args) = {} <=> i.file = ""
      /\ Positional(args) # {} => args[Min(Positional(args))][1] = i.file
      /\ \A j \in FlagPositions(args) : args[j][2] \in DOMAIN i.flags /\ ValueAt(args, j) = {i.flags[args[j][2]]}
  <2>1. DOMAIN i.flags \subseteq GateFlags
    BY <1>2, <1>3
  <2>2. IsRead(i, args)
    BY <1>4, <2>1, LineIsRead
  <2> QED BY <2>2 DEF IsRead
<1> HIDE DEF args
<1>6. Accepted(args, FlagsOf(i.command))
  BY <1>2, <1>3, <1>5 DEF Accepted, Unacceptable
<1>7. \A n \in FlagsOf(i.command) : FlagValue(args, n) = i.flags[n]
  BY <1>2, <1>3, <1>5
<1>8. [n \in FlagsOf(i.command) |-> FlagValue(args, n)] = i.flags
  BY <1>1, <1>7
<1> QED BY <1>1, <1>3, <1>5, <1>6, <1>8 DEF IsUnderstood, args

LEMMA TailOfLine ==
  ASSUME NEW X, NEW x \in X, NEW s \in Seq(X)
  PROVE  <<x>> \o s # <<>> /\ (<<x>> \o s)[1] = x /\ Tail(<<x>> \o s) = s
<1> DEFINE t == <<x>> \o s
<1>1. t \in Seq(X) /\ Len(t) = Len(s) + 1 /\ t[1] = x /\ \A j \in 1..Len(s) : t[j + 1] = s[j]
  OBVIOUS
<1>2. Len(s) \in Nat /\ t # <<>>
  BY <1>1
<1> HIDE DEF t
<1>3. Tail(t) \in Seq(X) /\ Len(Tail(t)) = Len(s) /\ \A j \in 1..Len(s) : Tail(t)[j] = s[j]
  BY <1>1, <1>2
<1>4. Tail(t) = s
  BY <1>3
<1> QED BY <1>1, <1>2, <1>4 DEF t

\* A command line is its command and its arguments.
LEMMA LineHasCommand ==
  ASSUME NEW i, IsInvocation(i), NEW o \in Orders, NEW s, DOMAIN i.flags \subseteq GateFlags
  PROVE  /\ Line(i, o, s) \notin {<<>>, NoLine} /\ Line(i, o, s)[1][1] = i.command
         /\ Tail(Line(i, o, s)) = Arguments(i, o, s)
<1> DEFINE args == Arguments(i, o, s)
           c == <<i.command>>
<1>1. o \in Seq(Text) /\ o # <<>>
  <2>1. o \in Seq(STRING) /\ "file" \in ToSet(o)
    BY LineAssumption
  <2>2. o \in Seq(Text)
    <3>1. STRING \subseteq Text
      BY DEF Text
    <3> QED BY <2>1, <3>1, SeqOfMore
  <2>3. o # <<>>
    BY <2>1 DEF ToSet
  <2> QED BY <2>2, <2>3
<1>2. args \in Seq(Argument)
  BY <1>1, LineIsSaid DEF Says
<1> HIDE DEF args
<1>3. args \in Seq(Argument \cup {c}) /\ c \in Argument \cup {c}
  BY <1>2, SeqOfMore
<1>4. c[1] = i.command /\ c # <<>>
  OBVIOUS
<1> HIDE DEF c
<1>5. <<c>> \o args # <<>> /\ (<<c>> \o args)[1] = c /\ Tail(<<c>> \o args) = args
  BY <1>3, TailOfLine
<1>6. NoLine[1] = <<>>
  BY DEF NoLine
<1> QED BY <1>4, <1>5, <1>6 DEF Line, args, c

\* Until gate has understood its request, the line is still there, and it is one of those that mean something or an odd one.
LineInv ==
  /\ \/ typed = NoLine /\ meant = Nothing
     \/ /\ req \in Requests /\ req.entry = "cli"
        /\ \E o \in Orders, s \in Styles :
             \/ \E i \in GateInvocations(req) : typed = Line(i, o, s) /\ meant = Nothing
             \/ \E i \in Others : typed = Line(i, o, s) /\ meant = i
     \/ typed \in Odd /\ meant = Nothing
  /\ meant # Nothing => files = Shipped
  /\ meant # Nothing /\ status # Running => asked = meant

LEMMA OthersAreInvocations ==
  ASSUME NEW i \in Others
  PROVE  IsInvocation(i) /\ DOMAIN i.flags \subseteq GateFlags /\ i # Nothing
         /\ i.command \in {"summary", "endpoints", "compare", "diagnose"}
<1>1. /\ i.command \in {"summary", "endpoints", "compare", "diagnose"} /\ i.file \in STRING
      /\ i.flags \in [FlagsOf(i.command) -> STRING \ {""}]
  BY LineAssumption
<1>2. FlagsOf(i.command) \subseteq GateFlags /\ "file" \notin GateFlags
  BY <1>1 DEF FlagsOf, GateFlags
<1>3. i # Nothing
  <2>1. Nothing.command = ""
    BY DEF Nothing
  <2> QED BY <1>1, <2>1
<1> QED BY <1>1, <1>2, <1>3 DEF IsInvocation, Text

\* What another subcommand is meant to be is what is on the line.
LEMMA MeantIsTyped ==
  ASSUME LineInv, meant # Nothing
  PROVE  /\ meant \in Others /\ typed \notin {<<>>, NoLine} /\ Command = meant.command
         /\ \E o \in Orders, s \in Styles : Tail(typed) = Arguments(meant, o, s)
<1>1. PICK o \in Orders, s \in Styles : meant \in Others /\ typed = Line(meant, o, s)
  BY DEF LineInv
<1> QED BY <1>1, OthersAreInvocations, LineHasCommand DEF Command

\* gate starts with the request that is meant, or it does not start.
LEMMA GateStartsAsMeant == ASSUME LineInv, StartGate PROVE UNCHANGED vars /\ meant = Nothing
<1>1. Command = "gate" /\ typed \notin {<<>>, NoLine} /\ typed[1][1] = "gate"
  BY DEF StartGate, Command
<1>2. meant = Nothing
  <2> SUFFICES ASSUME meant # Nothing PROVE FALSE
    OBVIOUS
  <2> QED BY <1>1, MeantIsTyped, OthersAreInvocations
<1>3. req' = req
  <2>1. CASE typed \in Odd
    <3>1. ~Accepted(Tail(typed), GateFlags)
      BY <1>1, <2>1, LineAssumption
    <3> QED BY <3>1 DEF StartGate
  <2>2. CASE typed \notin Odd
    <3>1. \A i \in Others : i # Nothing
      BY OthersAreInvocations
    <3>2. req \in Requests /\ req.entry = "cli"
      BY <1>1, <2>2 DEF LineInv
    <3>3. PICK o \in Orders, s \in Styles : \E i \in GateInvocations(req) : typed = Line(i, o, s)
      BY <1>1, <1>2, <2>2, <3>1 DEF LineInv
    <3>4. PICK i \in GateInvocations(req) : typed = Line(i, o, s)
      BY <3>3
    <3>5. IsInvocation(i) /\ DOMAIN i.flags \subseteq GateFlags
      BY <3>2, InvocationsOfGate
    <3>6. Tail(typed) = Arguments(i, o, s)
      BY <3>4, <3>5, LineHasCommand
    <3>7. GateRequest(Tail(typed)) = req
      BY <3>2, <3>6, GateLineIsUnderstood
    <3> QED BY <3>7 DEF StartGate
  <2> QED BY <2>1, <2>2
<1> QED BY <1>2, <1>3 DEF StartGate, vars

\* A step of the process is a step of the gate, or the gate does not notice it.
LEMMA StepOfGate == LineInv /\ [DuckloadNext]_processVars => [Next]_vars
<1>1. LineInv /\ StartGate => UNCHANGED vars
  BY GateStartsAsMeant
<1>2. GateStep => Next
  BY DEF GateStep
<1>3. StartProcess \/ EndGate \/ Analyse \/ CheckAnalysis \/ Usage => UNCHANGED vars
  BY DEF StartProcess, EndGate, Analyse, CheckAnalysis, Usage
<1> QED BY <1>1, <1>2, <1>3 DEF DuckloadNext, processVars

LEMMA InitLineInv == DuckloadInit => LineInv
<1> SUFFICES ASSUME DuckloadInit PROVE LineInv
  OBVIOUS
<1>1. req \in Requests /\ status = Running
  BY DEF DuckloadInit, Init
<1>2. /\ \/ typed = NoLine /\ meant = Nothing
         \/ /\ req \in Requests /\ req.entry = "cli"
            /\ \E o \in Orders, s \in Styles :
                 \/ \E i \in GateInvocations(req) : typed = Line(i, o, s) /\ meant = Nothing
                 \/ \E i \in Others : typed = Line(i, o, s) /\ meant = i
         \/ typed \in Odd /\ meant = Nothing
  BY <1>1 DEF DuckloadInit
<1>3. ASSUME meant # Nothing PROVE files = Shipped
  <2>1. PICK o \in Orders, s \in Styles : meant \in Others /\ typed = Line(meant, o, s)
    BY <1>2, <1>3
  <2>2. Command = meant.command /\ meant.command # "check-analysis"
    BY <2>1, OthersAreInvocations, LineHasCommand DEF Command
  <2> QED BY <2>2 DEF DuckloadInit
<1> QED BY <1>1, <1>2, <1>3 DEF LineInv

\* While nothing of the line changes, it means the same.
LEMMA QuietLine ==
  ASSUME LineInv, UNCHANGED <<typed, meant, files>>, typed # NoLine => req' = req,
         meant # Nothing /\ status' # Running => asked' = meant
  PROVE  LineInv'
<1>1. typed = NoLine => meant = Nothing
  <2> SUFFICES ASSUME typed = NoLine, meant # Nothing PROVE FALSE
    OBVIOUS
  <2> QED BY MeantIsTyped
<1>2. CASE typed = NoLine
  BY <1>1, <1>2 DEF LineInv
<1>3. CASE typed # NoLine
  BY <1>3 DEF LineInv
<1> QED BY <1>2, <1>3

\* The answer of another subcommand is to the question that was meant.
LEMMA AnalysesAsMeant == ASSUME LineInv, Analyse, meant # Nothing PROVE asked' = meant
<1>1. /\ meant \in Others /\ Command = meant.command
      /\ \E o \in Orders, s \in Styles : Tail(typed) = Arguments(meant, o, s)
  BY MeantIsTyped
<1> DEFINE args == Tail(typed)
           found == [command |-> Command,
                     file |-> IF Positional(args) = {} THEN "" ELSE args[Min(Positional(args))][1],
                     flags |-> [n \in FlagsOf(Command) |-> FlagValue(args, n)]]
<1>2. PICK o \in Orders, s \in Styles : args = Arguments(meant, o, s)
  BY <1>1
<1> HIDE DEF args
<1>3. /\ meant.file # "" /\ meant = [command |-> meant.command, file |-> meant.file, flags |-> meant.flags]
      /\ Accepted(args, FlagsOf(meant.command))
      /\ Positional(args) # {} /\ args[Min(Positional(args))][1] = meant.file
      /\ [n \in FlagsOf(meant.command) |-> FlagValue(args, n)] = meant.flags
      /\ \A n \in DOMAIN meant.flags : meant.flags[n] # ""
  <2>1. IsUnderstood(meant, args)
    BY <1>1, <1>2, OtherLineIsUnderstood
  <2> QED BY <2>1 DEF IsUnderstood
<1>4. found = meant
  BY <1>1, <1>3
<1>5. IF ~Accepted(args, FlagsOf(Command)) THEN Exit(ParseExit(args, FlagsOf(Command))) /\ UNCHANGED asked
      ELSE IF found.file = "" \/ \E n \in DOMAIN found.flags : found.flags[n] = "" THEN Exit(1) /\ UNCHANGED asked
      ELSE asked' = found /\ (Exit(0) \/ Exit(1))
  BY DEF Analyse, args
<1> HIDE DEF found
<1> QED BY <1>1, <1>3, <1>4, <1>5

LEMMA LineStep == LineInv /\ [DuckloadNext]_processVars => LineInv'
<1> SUFFICES ASSUME LineInv, [DuckloadNext]_processVars PROVE LineInv'
  OBVIOUS
<1>0. meant # Nothing => typed # NoLine /\ files = Shipped /\ Command \in {"summary", "endpoints", "compare", "diagnose"}
  BY MeantIsTyped, OthersAreInvocations DEF LineInv
<1>1. meant # Nothing /\ status # Running => asked = meant
  BY DEF LineInv
<1>2. CASE StartProcess
  <2>1. UNCHANGED <<typed, meant, files, req, asked>>
    BY <1>2 DEF StartProcess, Register, vars
  <2>2. meant # Nothing => UNCHANGED status
    BY <1>0, <1>2, LineAssumption DEF StartProcess, Register
  <2> QED BY <1>1, <2>1, <2>2, QuietLine
<1>3. CASE StartGate
  <2>1. meant = Nothing /\ UNCHANGED <<meant, files, req>>
    BY <1>3, GateStartsAsMeant DEF StartGate, vars, catalogVars
  <2>2. CASE typed' = NoLine
    BY <2>1, <2>2 DEF LineInv
  <2>3. CASE typed' = typed
    BY <2>1, <2>3, QuietLine
  <2> QED BY <1>3, <2>2, <2>3 DEF StartGate
<1>4. CASE GateStep
  <2>1. typed = NoLine /\ UNCHANGED <<typed, meant, files, asked, status>>
    BY <1>4 DEF GateStep, lineVars, catalogVars
  <2> QED BY <1>1, <2>1, QuietLine
<1>5. CASE EndGate
  <2>1. typed = NoLine /\ UNCHANGED <<typed, meant, files>>
    BY <1>5 DEF EndGate, catalogVars
  <2> QED BY <1>0, <2>1, QuietLine
<1>6. CASE Analyse
  <2>1. UNCHANGED <<typed, meant, files, req>>
    BY <1>6 DEF Analyse, vars, catalogVars
  <2> QED BY <1>6, <2>1, AnalysesAsMeant, QuietLine
<1>7. CASE CheckAnalysis \/ Usage
  <2>1. UNCHANGED <<typed, meant, req>> /\ meant = Nothing
    BY <1>0, <1>7 DEF CheckAnalysis, Usage, vars
  <2> QED BY <2>1 DEF LineInv
<1>8. CASE UNCHANGED processVars
  <2>1. UNCHANGED <<typed, meant, files, req, asked, status>>
    BY <1>8 DEF processVars, vars, lineVars, catalogVars
  <2> QED BY <1>1, <2>1, QuietLine
<1> QED BY <1>2, <1>3, <1>4, <1>5, <1>6, <1>7, <1>8 DEF DuckloadNext

\* In whatever order and spelling the flags of any invocation are typed, parseArgs and the flag package understand what is
\* meant: duckload refines the gate with the request of the user, and the other subcommands answer what they were asked.
THEOREM CommandsAreUnderstood == DuckloadSpec => RunsAsMeant
<1>1. DuckloadInit => Init
  BY DEF DuckloadInit
<1>2. LineInv => (meant # Nothing /\ status # Running => asked = meant)
  BY DEF LineInv
<1> QED BY <1>1, <1>2, InitLineInv, LineStep, StepOfGate, PTL DEF DuckloadSpec, RunsAsMeant, Spec

=============================================================================
