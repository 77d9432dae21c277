------------------------------ MODULE RunAnalysis ------------------------------
(***************************************************************************)
(* The analysis of stored runs (sidecar-go/analysis) behind compare,       *)
(* run-stats, baseline, trend, endpoints and diagnose of                   *)
(* analysis_handlers.go and the subcommands of duckload.                   *)
(*                                                                         *)
(* Every question is answered from several SQL queries, each a snapshot of *)
(* its own; in the sidecar, flushes store rows between them.  The queries  *)
(* share nothing else, so one question at a time is enough.  A number is a *)
(* fraction: percentages are compared without dividing.                    *)
(***************************************************************************)
EXTENDS Integers, Sequences, FiniteSets, Functions

CONSTANTS
    Rows,         \* identities of the rows that may be stored
    Tables,       \* what they may contain: functions from Rows to rows
    Runs,
    Endpoints,    \* COALESCE(NULLIF(name, ''), url)
    Pods,
    Phases,       \* timing phases in the order of largestPhase
    Questions,    \* [kind, runs, thresholds, limit]
    MaxBatches    \* bound: batches stored

Statistics == {"P50_RTT", "P95_RTT", "P99_RTT"}
Limits == Statistics \cup {"ERROR_RATE", "ERROR_RATE_ABSOLUTE", "RPS"}
RowsOfRuns == [run : Runs, endpoint : Endpoints, pod : Pods, rtt : Nat, failed : BOOLEAN, ts : Nat,
               phase : [1..Len(Phases) -> Nat]]

\* only finitely many rows are ever stored
ASSUME RowsAssumption == IsFiniteSet(Rows) /\ MaxBatches \in Nat /\ Phases \in Seq(STRING)
ASSUME TablesAssumption == \A t \in Tables : DOMAIN t = Rows /\ \A i \in Rows : t[i] \in RowsOfRuns
\* a request gives any thresholds, negative ones included (analysis_handlers.go 66-81)
ASSUME QuestionsAssumption ==
    \A q \in Questions :
        /\ q.kind \in {"compare", "run-stats", "baseline", "trend", "endpoints", "diagnose"}
        /\ q.runs \in Seq(Runs) /\ q.limit \in Nat
        /\ q.kind # "trend" => q.runs # <<>>
        /\ q.kind \in {"compare", "diagnose"} => Len(q.runs) = 2
        /\ q.kind \in {"run-stats", "endpoints"} => Len(q.runs) = 1
        /\ DOMAIN q.thresholds = Limits /\ \A m \in Limits : q.thresholds[m] \in Int

Every == "every run"
ASSUME RunsAssumption == Every \notin Runs

VARIABLES
    table,      \* what the rows contain
    stored,     \* rows in the metrics table
    batches,    \* batches stored so far
    stage,      \* where the handler is
    question,
    seen,       \* the rows each query has read so far
    podsSeen,   \* the rows read by affectedPods, for each endpoint explained so far
    cut         \* ghost: the queries of a trend whose answer was cut short

vars == <<table, stored, batches, stage, question, seen, podsSeen, cut>>

-------------------------------------------------------------------------------
(***************************************************************************)
(* Aggregates of a set S of rows.                                          *)
(***************************************************************************)

Of(S, e) == {i \in S : table[i].endpoint = e}
EndpointsIn(S) == {table[i].endpoint : i \in S}

\* The element at place k, from 0, of the sorted response times.
Ranked(S, k) ==
    CHOOSE v \in {table[i].rtt : i \in S} :
        /\ Cardinality({i \in S : table[i].rtt < v}) <= k
        /\ k < Cardinality({i \in S : table[i].rtt <= v})

\* PERCENTILE_CONT interpolates between the two places around p percent.
Percentile(S, p) ==
    LET place == p * (Cardinality(S) - 1)
        lower == place \div 100
        part  == place % 100
    IN  [n |-> (100 - part) * Ranked(S, lower) + (IF part = 0 THEN 0 ELSE part * Ranked(S, lower + 1)),
         d |-> 100]

Errors(S) == Cardinality({i \in S : table[i].failed})
ErrorRate(S) == [n |-> 100 * Errors(S), d |-> Cardinality(S)]

\* Requests per second of the span of the timestamps, 0 when there is none.
RPS(S) ==
    LET span == CHOOSE d \in {table[i].ts - table[j].ts : i, j \in S} :
                    \A i, j \in S : table[i].ts - table[j].ts <= d
    IN  IF span = 0 THEN [n |-> 0, d |-> 1] ELSE [n |-> 1000 * Cardinality(S), d |-> span]

RunStats(S) ==
    [P50_RTT |-> Percentile(S, 50), P95_RTT |-> Percentile(S, 95), P99_RTT |-> Percentile(S, 99),
     ERROR_RATE |-> ErrorRate(S), RPS |-> RPS(S)]

Less(x, y) == x.n * y.d < y.n * x.d

-------------------------------------------------------------------------------
(***************************************************************************)
(* Faulty variants, by which the properties are tested.                    *)
(***************************************************************************)
ScanTakesNull(S) == FALSE                      \* the error of Scan ignored
ExceedsEitherWay(base, cur, percent) ==        \* the change without its sign
    /\ base.n # 0
    /\ LET change == 100 * (cur.n * base.d - base.n * cur.d) IN
       \/ change > percent * base.n * cur.d
       \/ -change > percent * base.n * cur.d
MeetsLimit(base, cur, percent) ==              \* >= for >
    base.n # 0 /\ 100 * (cur.n * base.d - base.n * cur.d) >= percent * base.n * cur.d
NewErrorsOnly(base, cur, limits) ==            \* a relative instead of an absolute check
    /\ cur.n > limits["ERROR_RATE_ABSOLUTE"] * cur.d
    /\ Less(base, cur)
SevereLatencyOnly(latency, failing) == latency \* line 83 without regressedErrors
AverageOverAsked(sum, valid, asked) ==         \* a run without rows still counted
    [n |-> sum, d |-> 100 * asked]
BottleneckOfDetection == 1                     \* evidence reused from an earlier query
DistributedAll(first, second) == EndpointsIn(second)           \* line 89 without ok
LargestIncrease(a, b) == a < b                 \* abs forgotten
OutlierInverted(p95, sum, count) == 10 * p95 * count > 7 * sum   \* 1/1.3 for 1.3

-------------------------------------------------------------------------------
(***************************************************************************)
(* Comparison of two runs (comparator.go): rows B of the baseline, C of    *)
(* the current run.                                                        *)
(***************************************************************************)

\* A run without rows has NULL aggregates, which Scan refuses.
NoStats(S) == S = {}

\* checkRegression: the value rose by more than so many percent.  From 0 nothing
\* does, whatever the percentage.
Exceeds(base, cur, percent) ==
    base.n # 0 /\ 100 * (cur.n * base.d - base.n * cur.d) > percent * base.n * cur.d

\* checkRPSRegression: it fell by more than that.
FallsBelow(base, cur, percent) ==
    base.n # 0 /\ 100 * (base.n * cur.d - cur.n * base.d) > percent * base.n * cur.d

OverLimit(rate, limits) == rate.n > limits["ERROR_RATE_ABSOLUTE"] * rate.d

\* The regressions of Compare.
CompareStats(base, cur, limits) ==
    LET rose == {m \in Statistics \cup {"ERROR_RATE"} : Exceeds(base[m], cur[m], limits[m])}
        fell == {m \in {"RPS"} : FallsBelow(base[m], cur[m], limits[m])}
        over == {m \in {"ERROR_RATE"} : OverLimit(cur[m], limits)}
    IN  {[metric |-> m, critical |-> Exceeds(base[m], cur[m], 2 * limits[m])] : m \in rose}
        \cup {[metric |-> m, critical |-> FallsBelow(base[m], cur[m], 2 * limits[m])] : m \in fell}
        \cup {[metric |-> "ERROR_RATE_ABSOLUTE", critical |-> TRUE] : m \in over}
Compare(B, C, limits) == CompareStats(RunStats(B), RunStats(C), limits)

IsPassing(regressions) == \A r \in regressions : ~r.critical

\* CalculateBaseline: percentiles are averaged over the runs that have
\* statistics, errors are pooled.  The runs are given as a sequence of row sets.
Valid(runs) == {k \in DOMAIN runs : ~NoStats(runs[k])}
Average(sum, valid, asked) == [n |-> sum, d |-> 100 * valid]
Baseline(runs) ==
    LET Averaged(p) == Average(SumFunction([k \in Valid(runs) |-> Percentile(runs[k], p).n]),
                               Cardinality(Valid(runs)), Len(runs))
    IN  [P50_RTT |-> Averaged(50), P95_RTT |-> Averaged(95), P99_RTT |-> Averaged(99),
         ERROR_RATE |-> [n |-> 100 * SumFunction([k \in Valid(runs) |-> Errors(runs[k])]),
                         d |-> SumFunction([k \in Valid(runs) |-> Cardinality(runs[k])])]]

-------------------------------------------------------------------------------
(***************************************************************************)
(* GetHistoricalTrend and HandleTrend: the runs of the rows S, latest start *)
(* first.  Runs that start together come in any order.                     *)
(***************************************************************************)

\* 0 stands for a limit that is missing or not a positive number.
MaxLimit == 100
Limit(asked) == IF asked \in 1..MaxLimit THEN asked ELSE 10

RunsIn(S) == {table[i].run : i \in S}
Start(S, r) ==
    LET times == {table[i].ts : i \in {j \in S : table[j].run = r}}
    IN  CHOOSE t \in times : \A u \in times : t <= u
LastSeen(S, r) ==                              \* MAX(ts) for MIN(ts)
    LET times == {table[i].ts : i \in {j \in S : table[j].run = r}}
    IN  CHOOSE t \in times : \A u \in times : u <= t
OrderedBy(S, r) == Start(S, r)

\* What the answer may list.
Trends(S, asked) ==
    {runs \in SUBSET RunsIn(S) :
        /\ \A r \in runs, x \in RunsIn(S) \ runs : OrderedBy(S, x) <= OrderedBy(S, r)
        /\ \/ Cardinality(runs) = Limit(asked)
           \/ Cardinality(runs) < Limit(asked) /\ runs = RunsIn(S)}

-------------------------------------------------------------------------------
(***************************************************************************)
(* Comparison by endpoint (endpoint.go, regression.go, bottleneck.go,      *)
(* explain.go).                                                            *)
(***************************************************************************)

\* CompareEndpoints: endpoints that both runs have.
Compared(B, C) == EndpointsIn(B) \cap EndpointsIn(C)

\* percentChange is 0 from 0, and compared like any other change.
Rose(base, cur, percent) ==
    IF base.n = 0 THEN 0 > percent
    ELSE 100 * (cur.n * base.d - base.n * cur.d) > percent * base.n * cur.d
LatencyRose(B, C, e, percent) == Rose(Percentile(Of(B, e), 95), Percentile(Of(C, e), 95), percent)
ErrorsOverLimit(base, cur, limits) == OverLimit(cur, limits)
Failing(B, C, e, limits) == ErrorsOverLimit(ErrorRate(Of(B, e)), ErrorRate(Of(C, e)), limits)

DetectEndpointRegressions(B, C, limits) ==
    {[metric |-> "p95_rtt", scope |-> e, critical |-> LatencyRose(B, C, e, 2 * limits["P95_RTT"])] :
        e \in {x \in Compared(B, C) : LatencyRose(B, C, x, limits["P95_RTT"])}}
    \cup {[metric |-> "error_rate", scope |-> e, critical |-> TRUE] :
             e \in {x \in Compared(B, C) : Failing(B, C, x, limits)}}

\* Explain: which endpoints it explains, and how severe it calls each.
Explained(B, C, limits) ==
    {e \in Compared(B, C) : LatencyRose(B, C, e, limits["P95_RTT"]) \/ Failing(B, C, e, limits)}
Severe(latency, failing) == failing \/ latency
ExplainedAsCritical(B, C, e, limits) ==
    Severe(LatencyRose(B, C, e, 2 * limits["P95_RTT"]), Failing(B, C, e, limits))

\* largestPhase: the first of the phases whose average moved most.  The changes
\* of the averages are compared over their common denominator.
Abs(v) == IF v < 0 THEN -v ELSE v
MovedLess(a, b) == Abs(a) < Abs(b)
LargestPhase(B, C, e) ==
    LET Total(S, k) == SumFunction([i \in S |-> table[i].phase[k]])
        Moved(k) == Total(Of(C, e), k) * Cardinality(Of(B, e)) - Total(Of(B, e), k) * Cardinality(Of(C, e))
    IN  CHOOSE k \in DOMAIN Phases :
            /\ \A j \in DOMAIN Phases : ~MovedLess(Moved(k), Moved(j))
            /\ \A j \in 1..k - 1 : MovedLess(Moved(j), Moved(k))

\* affectedPods: pods whose p95 is more than 1.3 times the average of the pods'.
Outlier(p95, sum, count) == 10 * p95 * count > 13 * sum
AffectedPods(S) ==
    LET pods   == {table[i].pod : i \in S}
        P95(p) == Percentile({i \in S : table[i].pod = p}, 95).n
    IN  {p \in pods : Outlier(P95(p), SumFunction([q \in pods |-> P95(q)]), Cardinality(pods))}

\* GetEndpointStats fills in the status distribution by a second query, for
\* endpoints that the first has found.
Distributed(first, second) == EndpointsIn(first) \cap EndpointsIn(second)

-------------------------------------------------------------------------------
(***************************************************************************)
(* Handlers.                                                               *)
(***************************************************************************)

\* The runs that a handler's queries ask for, in order.  HandleDiagnose reads
\* both runs three times: to detect, to explain and for the bottlenecks.  The
\* trend is shown, and shown again when the page is loaded again.
Queries ==
    CASE question.kind = "endpoints" -> question.runs \o question.runs
      [] question.kind = "trend"     -> <<Every, Every>>
      [] question.kind = "diagnose"  -> question.runs \o question.runs \o question.runs
      [] OTHER                       -> question.runs
ExplainAt == 3
BottleneckAt == 5

\* The rows of the baseline and of the current run in the queries from number k.
BaselineRows(k) == seen[k]
CurrentRows(k) == seen[k + 1]

Init ==
    /\ table \in Tables
    /\ stored = {} /\ batches = 0
    /\ stage = "idle"
    /\ question \in Questions
    /\ seen = <<>>
    /\ podsSeen = [e \in {} |-> {}]
    /\ cut = {}

\* A flush commits a batch (duckdb.go); DuckDB shows all of it or nothing.
StoreBatch ==
    /\ batches < MaxBatches
    /\ \E batch \in SUBSET (Rows \ stored) :
          batch # {} /\ stored' = stored \cup batch
    /\ batches' = batches + 1
    /\ UNCHANGED <<table, stage, question, seen, podsSeen, cut>>

\* The request names its runs and is decoded; the handler starts to query.
Ask ==
    /\ stage = "idle"
    /\ stage' = "query"
    /\ UNCHANGED <<table, stored, batches, question, seen, podsSeen, cut>>

RowsOf(r) == {i \in stored : r \in {table[i].run, Every}}

\* Where a handler goes after its queries have read what is in all.
AfterQuery(all) ==
    IF Len(all) < Len(Queries) THEN "query"
    ELSE IF question.kind = "baseline" /\ Valid(all) = {} THEN "failed"
    ELSE IF question.kind = "diagnose" /\ Explained(all[ExplainAt], all[ExplainAt + 1], question.thresholds) # {}
         THEN "pods"
    ELSE "answered"

\* The next query.  Compare and GetRunStats fail on a run that has no rows; in
\* CalculateBaseline such a run is skipped.
Query ==
    /\ stage = "query"
    /\ LET rows == RowsOf(Queries[Len(seen) + 1]) IN
       IF question.kind \in {"compare", "run-stats"} /\ NoStats(rows)
       THEN stage' = "failed" /\ UNCHANGED seen
       ELSE seen' = Append(seen, rows) /\ stage' = AfterQuery(seen')
    /\ UNCHANGED <<table, stored, batches, question, podsSeen, cut>>

\* A query fails; only CalculateBaseline goes on, as if the run had no rows.
QueryFails ==
    /\ stage \in {"query", "pods"}
    /\ IF question.kind = "baseline"
       THEN seen' = Append(seen, {}) /\ stage' = AfterQuery(seen')
       ELSE stage' = "failed" /\ UNCHANGED seen
    /\ UNCHANGED <<table, stored, batches, question, podsSeen, cut>>

\* The rows of a trend end in an error, which GetHistoricalTrend does not look for:
\* it answers with the runs that it got, and what it knows is their rows.
TrendCutShort ==
    /\ stage = "query" /\ question.kind = "trend"
    /\ LET rows == RowsOf(Queries[Len(seen) + 1]) IN
       \E got \in {{}} \cup UNION {Trends(rows, n) : n \in 1..Limit(question.limit) - 1} :
          seen' = Append(seen, {i \in rows : table[i].run \in got})
    /\ stage' = AfterQuery(seen')
    /\ cut' = cut \cup {Len(seen) + 1}
    /\ UNCHANGED <<table, stored, batches, question, podsSeen>>

\* Explain asks for the pods of each endpoint it explains.
ToExplain == Explained(BaselineRows(ExplainAt), CurrentRows(ExplainAt), question.thresholds)
QueryPods(e) ==
    /\ stage = "pods"
    /\ e \in ToExplain \ DOMAIN podsSeen
    /\ podsSeen' = [x \in DOMAIN podsSeen \cup {e} |->
                       IF x = e THEN Of(RowsOf(question.runs[2]), e) ELSE podsSeen[x]]
    /\ stage' = IF ToExplain = DOMAIN podsSeen' THEN "answered" ELSE "pods"
    /\ UNCHANGED <<table, stored, batches, question, seen, cut>>

Next == StoreBatch \/ Ask \/ Query \/ QueryFails \/ TrendCutShort \/ \E e \in Endpoints : QueryPods(e)

Spec == Init /\ [][Next]_vars

-------------------------------------------------------------------------------
(***************************************************************************)
(* Properties.                                                             *)
(***************************************************************************)

Answered(kind) == stage = "answered" /\ question.kind = kind

\* Between the queries of the handler nothing was stored for the runs it reads:
\* queries for the same run have read the same rows.
AtRest == \A j, k \in DOMAIN seen : Queries[j] = Queries[k] => seen[j] = seen[k]

\* Types; and aggregates are never formed over no rows (GetRunStats).
TypeOK ==
    /\ table \in Tables /\ stored \subseteq Rows /\ batches \in 0..MaxBatches
    /\ stage \in {"idle", "query", "pods", "answered", "failed"}
    /\ question \in Questions
    /\ seen \in Seq(SUBSET Rows) /\ Len(seen) <= Len(Queries)
    /\ cut \subseteq 1..2 /\ (question.kind # "trend" => cut = {})
    /\ DOMAIN podsSeen \subseteq Endpoints
    /\ question.kind \in {"compare", "run-stats"} => \A k \in DOMAIN seen : seen[k] # {}

\* Compare respects the order of the statistics (comparator.go 144-202, 213, 241).
\* A run compared with itself at rest shows no regression but the absolute one and
\* those whose threshold the request made negative; a threshold left out of it (0)
\* makes none.  And what is at least as bad in every statistic never passes where
\* the better fails, whatever the thresholds.  Parts of the current run stand for runs.
WorseNeverPasses ==
    /\ TypeOK
    /\ Answered("compare") =>
          LET limits == question.thresholds
              stats  == [S \in (SUBSET seen[2]) \ {{}} |-> RunStats(S)]
              Passes(S) == IsPassing(CompareStats(RunStats(seen[1]), stats[S], limits))
          IN  /\ AtRest /\ question.runs[1] = question.runs[2] =>
                    \A r \in Compare(seen[1], seen[2], limits) :
                        r.metric = "ERROR_RATE_ABSOLUTE" \/ limits[r.metric] < 0
              /\ \A S, T \in DOMAIN stats :
                    /\ \A m \in Statistics \cup {"ERROR_RATE"} : ~Less(stats[T][m], stats[S][m])
                    /\ ~Less(stats[S]["RPS"], stats[T]["RPS"])
                    => (Passes(T) => Passes(S))

\* The baseline lies between the runs it is made of, in every percentile and in
\* the error rate, whichever runs CalculateBaseline had to leave out
\* (comparator.go 331-360).
BaselineIsBetweenItsRuns ==
    Answered("baseline") =>
        LET all == Baseline(seen) IN
        \A m \in Statistics \cup {"ERROR_RATE"} :
            /\ \E k \in Valid(seen) : ~Less(all[m], RunStats(seen[k])[m])
            /\ \E k \in Valid(seen) : ~Less(RunStats(seen[k])[m], all[m])

\* A run that is no longer among the latest has given way to a run that started
\* no earlier: to a new one, or else it has turned out to have started earlier
\* itself, or the two started together.  Late rows of an older run push nothing
\* off the list (comparator.go 277-279).  A list cut short by an error has lost any.
TrendLosesOnlyToLater ==
    Answered("trend") /\ 2 \notin cut =>
        \A before \in Trends(seen[1], question.limit), after \in Trends(seen[2], question.limit) :
            \A r \in before \ after : \E x \in after \ before :
                /\ Start(seen[2], x) >= Start(seen[2], r)
                /\ x \in RunsIn(seen[1]) => \/ Start(seen[2], r) < Start(seen[1], r)
                                           \/ Start(seen[1], x) = Start(seen[1], r)

\* However many rows arrive between the two queries of GetEndpointStats, every
\* endpoint listed has a status distribution, which accounts for at least the
\* requests counted, and no other endpoint has one (endpoint.go 50-95).
DistributionCoversCount ==
    Answered("endpoints") =>
        /\ Distributed(seen[1], seen[2]) = EndpointsIn(seen[1])
        /\ \A e \in EndpointsIn(seen[1]) : Cardinality(Of(seen[2], e)) >= Cardinality(Of(seen[1], e))

\* analysis_handlers.go 268: diagnose "returns regression findings plus a
\* structured, deterministic explanation of what changed for each regressed
\* endpoint": at rest, the endpoints with a finding are those explained, and an
\* explanation is critical if and only if one of the findings is.  And an error
\* rate that compare finds over its absolute limit, diagnose finds in some
\* endpoint, unless the baseline lacks one of them (comparator.go 182,
\* regression.go 102).
FindingsAreExplained ==
    Answered("diagnose") /\ AtRest =>
        LET limits   == question.thresholds
            B        == BaselineRows(1)
            C        == CurrentRows(1)
            findings == DetectEndpointRegressions(B, C, limits)
        IN  /\ C # {} /\ EndpointsIn(C) \subseteq EndpointsIn(B) /\ OverLimit(ErrorRate(C), limits)
               => \E f \in findings : f.metric = "error_rate"
            /\ {f.scope : f \in findings} = DOMAIN podsSeen
            /\ \A e \in DOMAIN podsSeen :
                  ExplainedAsCritical(BaselineRows(ExplainAt), CurrentRows(ExplainAt), e, limits)
                  <=> \E f \in findings : f.scope = e /\ f.critical

\* Whatever is stored meanwhile, every explanation names a phase and rests on
\* rows of some pod: the later queries find every endpoint that the earlier ones
\* found (explain.go 38-80).
ExplanationsHaveEvidence ==
    Answered("diagnose") =>
        \A e \in DOMAIN podsSeen :
            /\ e \in Compared(BaselineRows(BottleneckAt), CurrentRows(BottleneckAt))
            /\ podsSeen[e] # {}

\* The evidence of an explanation is about differences.  Affected pods stand out
\* among their peers: they are never all pods of an endpoint, nor the only one
\* (explain.go 94-138).  The phase that moved most is the same whichever of the
\* two runs is called the baseline (bottleneck.go 87-111).
EvidenceIsRelative ==
    Answered("diagnose") =>
        \A e \in DOMAIN podsSeen :
            LET B == BaselineRows(BottleneckAt)
                C == CurrentRows(BottleneckAt)
            IN  /\ podsSeen[e] # {} => AffectedPods(podsSeen[e]) # {table[i].pod : i \in podsSeen[e]}
                /\ e \in Compared(B, C) => LargestPhase(B, C, e) = LargestPhase(C, B, e)
===============================================================================
