----------------------------- MODULE MCRunAnalysis -----------------------------
(* RunAnalysis with two runs of two endpoints on two pods.  The tables are made *)
(* for the default thresholds, halved, met, exceeded once and exceeded twice,   *)
(* and for the thresholds of a request that names only some of them.            *)
EXTENDS RunAnalysis

Row(r, e, p, rtt, failed, ts, dns, ttfb) ==
    [run |-> r, endpoint |-> e, pod |-> p, rtt |-> rtt, failed |-> failed, ts |-> ts, phase |-> <<dns, ttfb>>]

\* a gets slower on one pod, b fails
Slower == <<Row("base", "a", "p", 100, FALSE, 0, 10, 80), Row("base", "b", "p", 40, FALSE, 1000, 10, 20),
            Row("new", "a", "p", 100, FALSE, 0, 10, 80), Row("new", "a", "q", 140, FALSE, 500, 5, 125),
            Row("new", "b", "q", 40, TRUE, 1000, 10, 20)>>
\* a is just over its limit, b twice, c is new; the baseline had errors and needs longer
Mixed == <<Row("base", "a", "p", 100, TRUE, 0, 0, 90), Row("base", "b", "p", 50, FALSE, 3000, 20, 20),
           Row("new", "a", "q", 116, FALSE, 100, 9, 99), Row("new", "b", "p", 66, FALSE, 100, 30, 26),
           Row("new", "c", "p", 0, TRUE, 900, 0, 0)>>
\* the baseline has no latency; everything at one instant
Edge == <<Row("base", "a", "p", 0, FALSE, 7, 0, 0), Row("base", "a", "q", 0, FALSE, 7, 0, 0),
          Row("new", "a", "p", 23, FALSE, 7, 3, 20), Row("new", "a", "q", 10, FALSE, 7, 9, 1),
          Row("new", "b", "q", 20, TRUE, 7, 0, 20)>>
MCTables == {Slower, Mixed, Edge}

Thresholds(p50, p95, p99, errors, absolute, rps) ==
    [m \in Limits |-> CASE m = "P50_RTT" -> p50 [] m = "P95_RTT" -> p95 [] m = "P99_RTT" -> p99
                        [] m = "ERROR_RATE" -> errors [] m = "ERROR_RATE_ABSOLUTE" -> absolute [] m = "RPS" -> rps]
DefaultThresholds == Thresholds(10, 15, 20, 50, 5, 10)
OnlyP95 == Thresholds(0, 15, 0, 0, 0, 0)
Lenient == Thresholds(40, 40, 40, 100, 40, 40)
Negative == Thresholds(-10, -15, -20, -50, -5, -10)

MCPhases == <<"dns", "ttfb">>
Question(k, r, t) == [kind |-> k, runs |-> r, thresholds |-> t, limit |-> 0]
Trend(n) == [kind |-> "trend", runs |-> <<>>, thresholds |-> DefaultThresholds, limit |-> n]
MCQuestions ==
    {Question(k, r, t) : k \in {"compare", "diagnose"}, r \in {<<"base", "new">>, <<"new", "new">>},
                         t \in {DefaultThresholds, OnlyP95, Lenient, Negative}}
    \cup {Question("baseline", r, DefaultThresholds) : r \in {<<"base", "new">>, <<"new", "base", "new">>}}
    \cup {Question(k, <<"new">>, DefaultThresholds) : k \in {"run-stats", "endpoints"}}
    \cup {Trend(n) : n \in {0, 1}}
===============================================================================
