----------------------------- MODULE BrowserGate -----------------------------
(* The gate view of the frontend (frontend/app.js), "a minimal, client-side approximation of `duckload gate`": one p95  *)
(* regression threshold and one error-rate budget, two numbers that the user enters, for every endpoint of two runs.    *)
(* Nothing keeps the numbers from being negative (the inputs are of type number, without a minimum).                    *)
EXTENDS PerformanceGate

\* the view judges p95; an endpoint is a group of rows, so that it has requests, and there are finitely many
ASSUME BrowserAssumption ==
  /\ "p95" \in LatencyMetrics /\ IsFiniteSet(Endpoints)
  /\ \A db \in Databases : \A r \in DOMAIN db : \A e \in DOMAIN db[r] : db[r][e].requests > 0

\* percentages; a field that is left empty is 0
ShownFinding(e, check, status) == [scope |-> e, check |-> check, status |-> status]

RisesTo(limit, was, is) == IF was = 0 THEN 0 >= limit ELSE (is - was) * 100 >= limit * was   \* >= for >
\* changePct > maxRegressionPct: from a baseline of zero the change is 0, which is compared as well
Rises(limit, was, is) == IF was = 0 THEN 0 > limit ELSE (is - was) * 100 > limit * was

\* Every endpoint of the current run is judged; one without a baseline only by its errors.
ShownFindings(cur, base, maxRegression, maxErrors) ==
  {ShownFinding(e, "budget", "FAIL") : e \in {x \in DOMAIN cur : cur[x].value["error_rate"] > maxErrors}}
  \cup {ShownFinding(e, "regression", "UNKNOWN") : e \in DOMAIN cur \ DOMAIN base}
  \cup {ShownFinding(e, "regression", "FAIL") :
          e \in {x \in DOMAIN cur \cap DOMAIN base : Rises(maxRegression, base[x].value["p95"], cur[x].value["p95"])}}

\* What the client library makes of COUNT(*). The error rate of an endpoint is the quotient of two counts times 100; where
\* they are BigInts the multiplication throws, the handler ends, and the page stays as it was.
CountTypes == {"Number", "BigInt"}
Shows(counts, cur) == counts = "Number" \/ DOMAIN cur = {}

Shown(F, status) == Cardinality({f \in F : f.status = status})
ShownStatus(F) == IF Shown(F, "FAIL") > 0 THEN "FAIL" ELSE IF Shown(F, "UNKNOWN") > 0 THEN "WARN" ELSE "PASS"
ShownAsPassed(cur, F) == Cardinality(DOMAIN cur) - Shown(F, "FAIL") - Shown(F, "UNKNOWN")
-----------------------------------------------------------------------------
\* The policy that says the same, which counts an endpoint from its first request on.
SamePolicy(maxRegression, maxErrors) ==
  LET unset == [max |-> {}, warn |-> {}, maxRegression |-> {}, warnRegression |-> {}, floor |-> {}]
  IN  [version |-> 1, unknown |-> "WARN", endpoints |-> [e \in {} |-> unset],
       defaults |-> [minSamples |-> {1},
                     limits |-> [m \in Metrics |-> CASE m = "p95"        -> [unset EXCEPT !.maxRegression = {maxRegression}]
                                                     [] m = "error_rate" -> [unset EXCEPT !.max = {maxErrors}]
                                                     [] OTHER            -> unset]]]

ViewLimits == Slowdowns \cup {0} \cup {-l : l \in Slowdowns}

\* A negative limit asks for an improvement, and this one is too small. Evaluate does not count it as a regression, as
\* the difference has to reach the floor, which is 0 if it is not set (gate.go 245-249); the view knows no floor.
ImprovesTooLittle(limit, was, is) == is < was /\ Rises(limit, was, is)

\* app.js 262-268: the view mirrors the evaluation engine "closely enough to give a quick PASS/WARN/FAIL read": where it
\* shows anything it gives the verdict of Evaluate for that policy, or FAIL because an endpoint improved less than a
\* negative limit asks for; and the endpoints it counts as passed are at most those without a finding (they may be fewer,
\* even less than none, as an endpoint with two findings is taken off twice).
BrowserAgrees ==
  stage = "evaluate" /\ compared /\ todo = DOMAIN current =>
    \A counts \in CountTypes, r \in ViewLimits, x \in ViewLimits :
      LET F == ShownFindings(current, baseline, r, x)
      IN  Shows(counts, current) =>
            /\ \/ ShownStatus(F) = OverallStatus(SamePolicy(r, x), current, TRUE, baseline)
               \/ /\ ShownStatus(F) = "FAIL"
                  /\ \E e \in DOMAIN current \cap DOMAIN baseline :
                       ImprovesTooLittle(r, baseline[e].value["p95"], current[e].value["p95"])
            /\ ShownAsPassed(current, F) <= Cardinality({e \in DOMAIN current : \A f \in F : f.scope # e})
=============================================================================
