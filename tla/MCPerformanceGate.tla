--------------------------- MODULE MCPerformanceGate ---------------------------
(* Duckload and PerformanceGate with a few policies and files around every threshold: minimum samples 2 and 3, a p95   *)
(* budget of 20 (warn above 15), a regression limit of 50% (warn above 20%) with a floor of 3, an error budget of 5.   *)
(* The directories of queries hold one good file and one that may be wrong in every respect.                           *)
EXTENDS Duckload, BrowserGate

AnyRequest == [entry : {"cli", "http"}, valid : BOOLEAN, run : {"r1", NoRun}, baselineFile : BOOLEAN,
               baselineRun : {"r1", "r2", NoRun}, warnExitCode : {0, 1}]
MCRequests == {q \in AnyRequest : q.entry = "http" => ~q.baselineFile /\ q.warnExitCode = 0}

Limits(max, warn, maxReg, warnReg, floor) ==
  [max |-> max, warn |-> warn, maxRegression |-> maxReg, warnRegression |-> warnReg, floor |-> floor]
Unset == Limits({}, {}, {}, {}, {})
Both == [minSamples |-> {}, limits |-> [p95 |-> Limits({20}, {15}, {50}, {20}, {3}), error_rate |-> Limits({5}, {}, {2}, {}, {})]]
OnlyRegression == [minSamples |-> {3}, limits |-> [p95 |-> Limits({}, {}, {50}, {0}, {}), error_rate |-> Unset]]
Own == [minSamples |-> {3}, limits |-> [p95 |-> Limits({}, {}, {}, {30}, {8}), error_rate |-> Limits({}, {2}, {}, {-1}, {})]]
None == [e \in {} |-> Unset]

MCPolicies == {[version |-> 1, unknown |-> u, defaults |-> d, endpoints |-> o] :
                 u \in {"", "PASS", "FAIL"}, d \in {Both, OnlyRegression}, o \in {None, [e \in {"e1"} |-> Own]}}
              \cup {[version |-> v, unknown |-> u, defaults |-> Both, endpoints |-> None] : v \in {2}, u \in {"WARN", "SKIP"}}

Stats(n, p95, errors) == [requests |-> n, value |-> [p95 |-> p95, error_rate |-> errors]]
Alone(e, s) == [x \in {e} |-> s]
Pair(s, t) == [x \in {"e1", "e2"} |-> IF x = "e1" THEN s ELSE t]
MCRuns == {Alone("e1", Stats(3, 0, 0)), Alone("e2", Stats(1, 30, 9)),
           Pair(Stats(3, 10, 0), Stats(2, 12, 0)), Pair(Stats(3, 14, 3), Stats(3, 18, 1)), Pair(Stats(4, 9, 0), Stats(4, 21, 6))}
MCDatabases == {[r \in {} |-> NoStats]} \cup {[r \in {"r1"} |-> s] : s \in MCRuns}
               \cup {[r \in {"r1", "r2"} |-> IF r = "r1" THEN s ELSE t] : s \in MCRuns, t \in MCRuns}
               \cup {[r \in {"r2"} |-> s] : s \in MCRuns}

MCOrders == LET names == <<"current", "policy", "run-id", "file", "baseline", "baseline-run-id", "format", "warn-exit-code">>
            IN  {names, Reverse(names), <<"file">> \o Remove(names, "file"), SubSeq(names, 5, 8) \o SubSeq(names, 1, 4)}
MCStyles == {{}, GateFlags, {"run-id", "policy", "baseline"}}
MCOthers == {[command |-> c, file |-> "path", flags |-> [n \in {"run-id"} |-> "r1"]] : c \in {"summary", "endpoints"}}
            \cup {[command |-> c, file |-> "path", flags |-> [n \in {"baseline", "current"} |-> IF n = "current" THEN "r1" ELSE "r2"]] :
                    c \in {"compare", "diagnose"}}
W(w) == <<w>>
MCOdd == {<<>>, <<W("help")>>, <<<<"--", "h">>>>, <<W("sumary"), W("path")>>, <<W("check-analysis")>>,
          <<W("check-analysis"), <<"--", "v">>>>, <<W("gate"), <<"--", "h">>>>, <<W("gate"), <<"--", "runid", "r1">>>>,
          <<W("gate"), <<"--", "current">>>>, <<W("gate"), <<"--", "warn-exit-code">>, <<"--", "policy">>>>,
          <<W("summary"), W("path")>>, <<W("compare"), <<"--", "current">>, W("r1"), <<"--", "baseline", "r2">>>>,
          <<W("summary"), W("path"), <<"--", "run-id">>>>}

Header(id, required, more) ==
  <<[key |-> "id", names |-> id], [key |-> "purpose", names |-> <<>>], [key |-> "description", names |-> <<>>],
   [key |-> Prose, names |-> <<>>], [key |-> "required_columns", names |-> required]>> \o more
Parameters == <<[key |-> "parameters", names |-> <<"run_id">>]>>
Output(names) == <<[key |-> "expected_output", names |-> names]>>
File(header, reads, n, returns) == [header |-> header, reads |-> reads, placeholders |-> n, returns |-> returns]
Summary == File(Header(<<"endpoint_summary">>, <<"rtt">>, Parameters \o Output(<<"p95">>)), {"run_id", "rtt"}, 1, {"p95"})
MCShipped == {Summary, File(Header(<<"pod_summary">>, <<"pod_id">>, Parameters \o Output(<<"pod_id">>)), {"run_id", "pod_id"}, 1, {"pod_id", "p95"})}
PodHeaders(id) ==
  LET lines == {<<"pod_id">>, <<"pod_id", "pod">>}
      more  == {<<>>, Parameters, Parameters \o <<[key |-> "required_columns", names |-> <<"rtt">>]>>}
  IN  {Header(id, l, Output(<<"pod_id">>) \o m) : l \in lines, m \in more} \cup {Parameters \o Header(id, l, <<>>) : l \in lines}
MCDirectories ==
  {MCShipped} \cup
  {others \cup {File(h, reads, n, returns)} :
     others \in {{}, {Summary}}, h \in UNION {PodHeaders(id) : id \in {<<>>, <<"endpoint_summary">>, <<"pod_summary">>}},
     reads \in {{"pod_id"}, {"pod"}}, n \in {0, 1}, returns \in {{}, {"pod_id"}}}
MCIDs == <<"endpoint_summary", "pod_summary">>
MCScenarios == <<"healthy", "pod-outlier">>
=============================================================================
