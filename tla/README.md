# duckdb-load-testing-toolkit: specifications and proofs

This directory holds TLA+ modules for the parts of the toolkit in which state, concurrency and failure meet, the TLC
configurations that check them on small instances, and TLAPS proofs for instances of any size. Line numbers refer to the files
of the repository under `src/`; `go` files are under `src/sidecar-go/`.

## 1. The system

A k6 process in a pod reports each request it makes to a Go **sidecar** in the same pod. The sidecar keeps the requests in
memory, writes them in batches to a local DuckDB file, streams live statistics over WebSocket and uploads the file to S3. An
**orchestrator** library tracks the pods, asks them to flush and waits for them to drain. An aggregation job merges the files
of all pods. **Analysis** code reads the table afterwards: comparison of runs, diagnosis, and the performance gate that CI acts
on.

```
k6 VU --POST /ingest--> handlers --AddEvent--> storage.buffer --Flush/writeBatch--> CSV --COPY--> metrics table
                            |                       ^ ticker, /flush, /flush-upload, /stats            |
                            +--BroadcastEvent--> hub.broadcast --> client.send --> WebSocket           +--> S3 object
orchestrator --/health, /flush, /flush-upload, /stats--> handlers                                      +--> gate, analysis
```

| component | state it keeps | operations | what is hard | what makes it correct |
|---|---|---|---|---|
| storage, `storage/duckdb.go` | buffer (under `bufferMu`), table, one temporary CSV path | AddEvent(s), BufferSize, Flush, queries | writeBatch works outside the lock; up to four kinds of callers at once; errors put the batch back; a crash loses memory | one row per reported request, in order, none lost but by a crash; everything is flushed in the end |
| handlers, `handlers/handlers.go` | none of their own; several goroutines | ingest, flush, flush-upload, download, stats, health | several storage calls in one answer, others in between | what a 200 says about object and counts |
| S3 uploader, `storage/s3.go` | one object per pod | UploadFile; Download, List, Delete (no callers) | read and PUT are far apart, PUTs overtake | the object only grows |
| process, `main.go` | ticker goroutine | start, flush every 5 s | no shutdown path | a flush that was reported survives |
| realtime hub, `realtime/hub.go`, `client.go` | client map, bounded channels, statistics | Register, Unregister, BroadcastEvent, sendStats, two pumps per client | everything meets in one select loop; channels fill and are closed | never a double close, ordered delivery, clients leave, no deadlock |
| orchestrator, `orchestrator/controller.go` | pods and runs under two mutexes | Register/UnregisterPod, HealthCheckAll, FlushAll, Start/EndRun, WaitForCompletion, GetStats | HTTP calls without a lock between reads and writes of an entry | no crash, states that mean what they say, "drained" only when drained |
| policy, `analysis/policy` | none (a parsed file) | Load, Parse, Validate, EffectiveMetricPolicy | optional fields, field-by-field merge | overrides change what they name |
| gate, `analysis/gate`, `cmd/duckload` | findings of one evaluation | Evaluate, build, ExitCode, runGate, HandleGate | boundaries, missing data, every step can fail | verdict justified, monotone; exit code 2 is no verdict |
| comparator, endpoint, regression, bottleneck, explain, `analysis/` | results of the queries already made | GetRunStats, Compare, CalculateBaseline, GetEndpointStats, CompareEndpoints, DetectEndpointRegressions, AnalyzeBottleneck, Explain | several queries per answer while rows are stored; runs and endpoints that are missing; baselines of zero; two code paths for one judgement | their answers agree with each other, are monotone and rest on rows |
| query catalog, validator, `analysis/queries`, `analysis/validator` | the registered queries | init, All, Validate, ValidateAll, check-analysis | declarations and SQL are written by hand and need not agree; text may be taken for something else; several fixtures, one exit code | what passes the check is what the test of CI passes |
| command line, `cmd/duckload` | os.Args | parseArgs, dispatch, six subcommands | flags and files in any order, two spellings | the analysis that runs is the one that was asked for |
| k6 scripts | event buffer per virtual user | push, sendBatch, teardown | no retry, answer ignored, teardown has its own context | what was made is reported at most once, and it is known what is missing |
| frontend, `frontend/app.js` | a loaded file | five views, one of which judges | a second implementation of the gate | it says what the gate says |
| aggregate job, fixtures, e2e support, CI, k8s | - | - | - | - |

`PROJECT.json` lists the components with what is left out of each, and the hazards at the lines where they bite.

## 2. Modules

| module | models | built on |
|---|---|---|
| `EventStore` | what the storage promises: accepted requests become rows in order, once each, or are forgotten in a crash | - |
| `SidecarStorage` | `DuckDBStorage` and everyone who calls `Flush`; refines `EventStore` for one flusher | - |
| `SidecarAPI` | the HTTP handlers, the ticker and the uploader over the storage | EXTENDS `SidecarStorage`, every step of which is a step of it |
| `RealtimeHub` | `Hub.Run`, the two pumps of each client, the ingest handlers that broadcast | - |
| `HubStatistics` | the numbers of the live view: RecordEvent, UpdateBufferSize, sendStats, and who calls them | - |
| `LoadGenerator` | virtual users, the connection, the batch handler and the store behind it | INSTANCE `EventStore` as the sidecar's memory and table |
| `Controller` | the orchestrator with arbitrary sidecar answers | - |
| `PerformanceGate` | policy, gate, `duckload gate` and `HandleGate` | - |
| `QueryCatalog` | catalog, validator and `check-analysis` | - |
| `Duckload` | the process `duckload` from its arguments to its exit code | EXTENDS `PerformanceGate` and `QueryCatalog`, refines the former |
| `BrowserGate` | the gate view of the frontend | EXTENDS `PerformanceGate` |
| `RunAnalysis` | the analysis handlers, query by query, and the functions they compute, over a table that grows | - |
| `SidecarStorageProofs`, `SidecarAPIProofs`, `RealtimeHubProofs`, `HubStatisticsProofs`, `LoadGeneratorProofs`, `ControllerProofs`, `RunAnalysisProofs` | theorems | the module of the same name; `SidecarAPIProofs` also EXTENDS `SidecarStorageProofs` |
| `PerformanceGateProofs` | theorems about the gate, the browser's view of it, check-analysis and the command line | `Duckload` (and so `PerformanceGate`, `QueryCatalog`), `BrowserGate` |
| `MC...` | constants, symmetry and input sets for TLC | |

### How state and actions correspond to the code

**SidecarStorage.** `buffer`, `table` and `batch[f]` are the fields and local variables of the same name. `Take` is the locked
section 117-124; `Create`, `WriteLine`, `Copy` and the removal are the file operations of `writeBatch` (139-215), one step each,
since nothing protects them from other flushers; `Requeue` is the locked section 129-131. The CSV file is modelled through its
path: `os.Create` truncates what the path names, `os.Remove` frees the path while another goroutine may go on writing to its
unlinked file, and writing behind the end of a truncated file leaves holes. `Poison` requests are those whose values do not fit
their column (e.g. `vu` beyond INTEGER, line 53). `accepted`, `reported`, `dropped` and `raced` are ghosts: what ingestion
answered, what Flush reported, what a crash took, and whether two `writeBatch` calls have ever overlapped.

**SidecarAPI.** A flusher other than the ticker is a handler goroutine; `at[f]` says where in its handler it is. `seen` is what
the call read, `object` what is in S3. `HandleStats` ignores the error of Flush and so does `AfterFlushError`. `UploadFile` (s3.go:92)
and `HandleDownload` (handlers.go:157) read the database file beside the DuckDB that has it open; what COPY has committed is in
DuckDB's log (`.wal`) until a checkpoint, and the sidecar issues none. So `inFile` says how many rows of the table have reached the file
(`FileRows`; the others are `LogRows`), `Checkpoint` may happen at any time, and a checkpoint in the middle of a copy leaves the
copy as the file was, as it is now, or unreadable. Ghosts: `logged`, whose rows were only in the log when the call opened the
file, and `torn`, whether a checkpoint came into its reading. A query (`StatsCounts`) sees file and log.

**RealtimeHub.** `hub` tells whether `Run` is in its select or blocked in `sendStats`. Unbuffered channels are joint steps.
The non-blocking loop over the clients (93-105) is one step because what it does to one client's channel is independent of the
others. Messages are numbered in the order in which they enter `broadcast`.

**HubStatistics.** Every section under `statsMu`, `rttBufferMu` or the store's lock is a step: a handler records its requests one
after the other (`record`, `count`, `append`), reads the buffer size and shows it; the background flusher reads and shows too;
`sendStats` copies the window, writes the latencies and publishes. `clock` are the seconds that RecordEvent reads before it has the
lock. `recorded` and `stamped` are ghosts: all response times in order, and how many requests were counted for each second.

**LoadGenerator.** A virtual user is a JavaScript context: `eventBuffer[v]` and at most one post at a time. A post that returns
(`PostReturns`) says nothing of its batch, which is `underWay` until the handler stores it, refuses it, or it is lost. Teardown
runs in a context whose buffer is empty. `pending` and `stored` are the memory and the table of the sidecar, of which only
`EventStore` is used; that the storage with one flusher keeps this promise is checked by `storage_ticker` and proved
(`OneFlusherStoresInOrder`).

**Controller.** Pods are numbered by registration, so an answer of an old registration is told from a new one. Each lock
section is a step; each goroutine of `HealthCheckAll`, `FlushAll` and `GetStats` is a task with a stage. Every answer of a sidecar is
possible at any time: 200 with a size, 200 with a body that cannot be decoded, an error, a timeout.

**PerformanceGate.** One behaviour is one invocation. Early returns are `ErrorAnswer` and `Fails`. `EvaluateEndpoint` is one turn
of the loop of `Evaluate`, in any order (SQL orders by request count and leaves ties open); `Tally` is one turn of the loop of
`build`. An optional field is the set of its value; numbers are integers, so rounding of floats is not modelled. `p50`, `p95` and
`p99` go through the same function and are members of `LatencyMetrics`. `HandleGate` reads its two runs from a database that
grows (`Grown`): other runs and endpoints may have come, and where requests have come the other numbers are any.

**Duckload.** `typed` is the command line, made from what the user means (`Line`, the command and its `Arguments`): in several orders
and with `--flag value` or `--flag=value`. `--warn-exit-code` is typed as one of the numerals 0, 1 and 2 (`Numerals`). `Taken`, `FlagPositions` and `ValueAt` are the loop of `parseArgs`, and with `Accepted` the flag package, with which
every bad flag ends the process with code 2 (`ParseExit`). `StartGate` hands the request it has understood to
`PerformanceGate`; `RunsAsMeant` contains the refinement `Spec`, which keeps `req`, so that the request is the one that was meant. The other
subcommands leave what they have understood in `asked`, beside `meant`. Every process first registers the queries
(`StartProcess`).

**QueryCatalog.** A file is its header, line by line, and what its SQL does: the columns it reads, its placeholders, the
columns it returns. `LinesWith` is the recognition of keys: the places of the lines that have one; of several the last counts
(`Declared`). The catalog is a set, as the map of the code is; the order that `All` gives it is `Precedes`, and `ValidateNext`
takes the `First` of what has not passed. `Conclude` ends a fixture, whether it was not built, a query failed, or all passed;
`AnyFailure` is the variable `failed`.

**BrowserGate.** No state: the two loops of the view are sets of findings over the statistics of the two runs, `ShownStatus` and
`ShownAsPassed` what is printed. The two limits are numbers of any sign, since the inputs have no minimum. `CountTypes` are the
JavaScript types that DuckDB-WASM may give `COUNT(*)`: with BigInt the error rate of app.js:294 throws a TypeError for every
endpoint, so the page stays as it was (`Shows`).

**RunAnalysis.** A row has the columns that the queries group or aggregate by; `table` says what the rows will contain and
`stored` which have been flushed (`StoreBatch`: a batch becomes visible as a whole). One behaviour is one request: `Query` is the
next SQL query of its handler, which reads the table as it is at that moment, and `seen` what the queries have read; `QueryPods`
is `affectedPods` for one endpoint. A trend is asked for twice, as by a page that is loaded again;
`TrendCutShort` is a list that ends in an error, for which GetHistoricalTrend does not look (comparator.go:287), and the ghost `cut`
says which of the two it was. Thresholds are integers of any sign: no handler validates them (analysis_handlers.go:66). The two
codes for a change differ at a zero baseline, `Exceeds` (checkRegression) and `Rose` (percentChange). The answers are operators on what was read: `Compare`, `Baseline`, `DetectEndpointRegressions`,
`Explained`, `LargestPhase`, `AffectedPods`. Numbers are fractions of integers, so percentages are compared exactly and without
the rounding of floats. The subcommands of `duckload` ask the same questions of a file at rest: the behaviours without
`StoreBatch` after `Ask`.

## 3. Runs

| run | instance | shows |
|---|---|---|
| `storage_race` | 3 flushers, 3 requests (one poison), 1 I/O error, batches up to 2, COPY may read damaged files | memory accounts balance whatever overlaps; rows are exactly-once until two `writeBatch` calls overlap; no row comes from a file a crash left |
| `storage_ticker` | the ticker alone, 4 requests (one poison), 2 I/O errors | the storage implements `EventStore`; under fairness every accepted request is flushed unless a poison request is in memory |
| `storage_overlap` (violation) | 2 flushers, 2 requests, no fault | "one row per request" is violated by two overlapping flushes |
| `api` | 2 handlers and the ticker, 2 requests (one poison), 2 calls, checkpoints at any time | what a successful `/flush-upload` can miss, `/stats` counts nothing twice, the object shrinks only through overtaking PUTs and torn copies |
| `hub` | 2 clients, 2 handlers, broadcast capacity 1, send capacity 2, 2 events, 1 tick | no panic, gaps only for clients on their way out, order, removal in the end |
| `hub_wedge` (violation) | 1 client, 2 handlers, capacity 1 | the hub blocks on its own channel |
| `statistics` | 2 handlers, the background flusher, 3 requests, a window of 2, 2 seconds, 1 failed flush | a message is one window and counts its requests, counters follow the store, the rate is never overstated, the size shown becomes the true one |
| `load` | 2 virtual users, 5 requests each, batches of 2, crashes and lost posts, one request with an error code | each request is in one place, what is left behind, order |
| `k6_failures` (violation) | the same | a batch with the error code of a failed request is refused |
| `controller` | 2 names, 2 registrations, 2 callers, 2 calls | a flushing status belongs to a flush at work; `nil` of WaitForCompletion means drained, unheard or overwritten; every call ends; a panic takes an UnregisterPod during a call |
| `gate` | 2 endpoints, 2 metrics, 14 policies, 36 files; command lines in 4 orders and 3 spellings; 2 fixtures, 385 directories of queries | the gate that runs is the one asked for; its verdict is justified, monotone and independent of order; exit code 2 is no verdict; the browser agrees, for limits of every sign; check-analysis is the test of CI, but for outputs |
| `analysis` | 2 runs, 3 endpoints, 2 pods, 5 rows in 3 tables, 4 sets of thresholds (one negative), up to 3 batches, lists cut short | comparison is monotone and, but for negative thresholds, reflexive, a run leaves the trend only for a later one, baselines lie between their runs, findings and explanations agree at rest, and explanations rest on rows even while rows arrive |

Each module has one type invariant. `APITypeOK` contains that of the storage, which is also proved; `TypeOK` of the gate is
checked by itself, since it says that the summary counts what was weighed; the others are the first conjunct of `NoPanic`,
`FlushingHasFlusher`, `ShownIsStored`, `ReportedOnceInOrder` and `WorseNeverPasses`.

### Bounds, and why they are enough

* *Storage.* Two flushers make every overlap of `writeBatch`; the third lets a truncation, a removal and a COPY come from
  different goroutines. With three requests and batches of two, a failed batch meets both an older and a newer request.
  `MaxFaults` bounds I/O errors; crashes are unbounded. `raced` is a guard on what is promised, not on what may happen: the runs
  explore overlapping flushes, and `AcceptedAccounted` and `NoResurrection` are claimed for them.
* *API.* Two calls suffice for a call to be caught by another's flush or PUT, and the ticker is a third party. `LenientCopy` is
  FALSE here because overlap is excluded by `~raced` from what is claimed. A checkpoint may come before, into and after the reading
  of the file, and one part of the rows may be in the file and another in the log.
* *Hub.* Capacities 1 and 2 stand for 256: full, not full and empty occur, and two events and a tick overflow a client's
  channel; two messages in it are the least that can be written in the wrong order. The wedge needs
  as many blocked or queued messages as the channel holds, whatever the capacity.
* *Statistics.* Three requests overflow a window of two, so two windows differ in every number; a second boundary, two
  handlers and a late one are what `lastSecond` can be set back by; the ticker's flush fails once.
* *Load.* Five requests are two full batches and a rest; a batch that timed out can be overtaken by the next one; two virtual
  users meet in the handler and in the store.
* *Controller.* Two registrations give two pods, or one pod registered again; two callers give every overlap of a health check,
  a flush and a wait. `MaxRounds` stands for `maxWait`. `CallsEnd` is an action
  property, a variant that every step of a call lowers, and needs no fairness.
* *Gate.* Thresholds, samples and floor are each met exactly, missed and exceeded by the statistics of `MCRuns`; endpoints are
  missing on either side. Limits of the browser are those of `Slowdowns`, their negatives, and 0.
* *Command line and catalog.* Every flag comes before and after every other and the file, and with both spellings; `MCOdd` has
  what no analysis can answer. One query is right and one may be wrong in its id, its declarations, the order of its header
  lines, its columns, its placeholders and its outputs; two fixtures let the first fail and the second pass.
* *Analysis.* The tables hold values below, at, just over and twice over the default thresholds, a zero baseline, equal
  timestamps, an endpoint of one run only; thresholds are the defaults, lenient, mostly left out (0), and negative. Three batches let rows arrive before a diagnosis, between its first and
  its third pair of queries, and before the pods are read. Any subset of the rows may have come first, so the tables stand for
  all their parts; `WorseNeverPasses` compares all parts of what was read.

Deadlock is not checked where the system stops: the hub after its bounded inputs (or wedged), the controller after its bounded
calls (or a panic), the gate and an analysis when they have answered. Symmetry is used only in runs without liveness and permutes flushers other
than the ticker, or pods and callers.

### Fairness

`SidecarStorage!Fairness`: a started `Flush` runs on (`WF` of its steps) and the ticker calls it again and again (`WF` of
`Take(Ticker)`, main.go 63-74); nobody is obliged to call an endpoint. `MaxFaults` makes errors finite, without which no flush
need ever succeed. `HubStatistics!Fairness` is the same with the ticker's second half (main.go 72), and a handler that has
started goes on; no request has to come. `RealtimeHub!Fairness`: goroutines that can go on do; a Go `select` picks among ready cases at random, so the
cases of `Run` are fair one by one. New events, ticks, connecting and leaving peers are not fair.

## 4. What is proved

Every property that a passing run checks is also a theorem, except the three liveness properties. The theorems hold for every
value of the constants, under the named assumptions of the modules, which TLC evaluates in the runs.

| theorem | says |
|---|---|
| **`SidecarStorageProofs`** | |
| `TypeCorrect` | `Spec => []TypeOK` |
| `NothingSlipsFromMemory` | `Spec => []AcceptedAccounted`: each accepted request is in exactly one of buffer, one batch, reported, dropped |
| `ExactlyOnceWithoutOverlap` | `Spec => []ExactlyOnceUnlessRaced` |
| `NoRowFromBeforeTheCrash` | `Spec => NoResurrection`, with overlapping flushers |
| `OneFlusherStoresInOrder` | `Spec => StoresInOrder` if the ticker is the only flusher: the storage implements `EventStore` |
| **`SidecarAPIProofs`** | |
| `StorageInside` | `APISpec => Spec`: the handlers are a behaviour of the storage, whose theorems therefore hold with them |
| `APITypeCorrect` | `APISpec => []APITypeOK`: types, the file holds no more rows than the table, and a handler waits for Flush exactly while its Flush is at work |
| `UploadMissesNothingElse` | `APISpec => []UploadMissesOnlyElsewhere` |
| `UploadsOnlyExtend` | `APISpec => ObjectLosesRowsOnlyToOvertaking`, an action property |
| `StatsNeverCountTwice` | `APISpec => []StatsCountNothingTwice` |
| **`RealtimeHubProofs`** | |
| `HubInvariant` | `Spec => []HubInv` |
| `HubNeverPanics` | `Spec => []NoPanic`: no double close, no send to a closed channel |
| `ClientsAreWrittenInOrder` | `Spec => []InOrder`, for any capacity of the channels |
| **`HubStatisticsProofs`** | |
| `StatisticsInvariant` | `Spec => []StatInv` |
| `LiveNumbersAgree` | `Spec => []ShownIsStored` |
| `RateIsOfOneSecond` | `Spec => []RateIsNeverOverstated` |
| **`LoadGeneratorProofs`** | |
| `LoadInvariant` | `Spec => []LoadInv` |
| `RequestsAreReportedOnce` | `Spec => []ReportedOnceInOrder` |
| `TeardownLeavesTheLast` | `Spec => []OnlyTheLastBatchIsLeft` |
| **`ControllerProofs`** | |
| `ControllerInvariant` | `Spec => []ControllerInv` |
| `FlushingIsTemporary` | `Spec => []FlushingHasFlusher` |
| `NilMeansDrained` | `Spec => []DrainedOrUnseen` |
| `OnlyUnregisterPanics` | `Spec => []PanicNeedsUnregister` |
| `EveryCallEnds` | `Spec => CallsEnd`: every step of a call leaves fewer to come |
| **`PerformanceGateProofs`** | |
| `VerdictDoesNotDependOnOrder` | `Spec => []VerdictIsWorst` |
| `ExitCodeContract` | `Spec => []ToolErrorIsNoVerdict` |
| `SummaryIsOfTheFindings` | `Spec => []TypeOK`: types, and what the summary counts |
| `NoRewardForSlowness` | `Spec => []SlowerIsNeverBetter` |
| `BudgetsAreNotHidden` | `Spec => []BaselineHidesNothing` |
| `NeverSilentlyPass` | `Spec => []PassIsTrusted` |
| `EmptyPassIsAskedFor` | `Spec => []EmptyPassNamesAMissingRun` |
| `OwnBaselineRegressesByGrowth` | `Spec => []SelfComparisonNeedsGrowth` |
| `TheViewMirrorsEvaluate` | `Spec => []BrowserAgrees` |
| `CheckIsTheTest` | `DuckloadSpec => []PassedCheckTells` |
| `CommandsAreUnderstood` | `DuckloadSpec => RunsAsMeant`, which contains the refinement of `PerformanceGate` |
| **`RunAnalysisProofs`** | |
| `AnalysisInvariant` | `Spec => []AnalysisInv` |
| `ExplanationsRest` | `Spec => []ExplanationsHaveEvidence`, for every table and any number of flushes between the queries |
| `DistributionIsOfTheCounted` | `Spec => []DistributionCoversCount` |
| `TrendIsLostToLater` | `Spec => []TrendLosesOnlyToLater`, for every limit |
| `CompareRespectsTheOrder` | `Spec => []WorseNeverPasses` |
| `BaselineIsAMean` | `Spec => []BaselineIsBetweenItsRuns` |
| `FindingsHaveExplanations` | `Spec => []FindingsAreExplained` |
| `EvidenceIsAboutDifferences` | `Spec => []EvidenceIsRelative` |

### Assumptions

Most assumptions give the constants their types. These say more:

* `ControllerAssumption`: finitely many names, so that a call starts finitely many goroutines.
* `DatabasesAssumption`, `BrowserAssumption`: a run or an endpoint is in a file by its rows, so it has at least one endpoint and one
  request. (Without the first, a run of no endpoints would pass although the file holds it.) The browser judges finitely many endpoints, by p95.
* `RowsAssumption`: finitely many rows.
* `CatalogAssumption`: directories of finitely many files, a sequence of fixtures.
* `LineAssumption`: every order of typing has a place for the file and for each flag; names and values are not empty (the shell can
  pass `""`, which the program does not tell from a missing flag); warn exit codes are 0, 1 or 2, for which there are
  numerals; what is `Odd` for gate is not accepted by the flag package; what the repository ships can be registered.

`OneFlusherStoresInOrder` is for one flusher because with two it is false: that is the finding of `storage_overlap`.

### Arguments

*Storage.* `AcceptedAccounted` becomes inductive with the types and the fact that an idle flusher holds no batch (`AccountInv`).
`ExactlyOnceUnlessRaced` needs `FileInv` in addition: while nothing has overlapped, at most one goroutine is between create and
remove, the path names its file, and the file holds exactly the header and the lines it has written so far; hence COPY reads the
batch and nothing else, and by the accounting the batch has no row yet. A crash in the middle of `writeBatch` leaves a file but
no flusher at work on it, and the next create empties it; that the rows of the file are never those of a dropped request
(`FileOrigin` in `StorageInv`, which needs no `~raced`) gives `NoRowFromBeforeTheCrash`. For the refinement, one flusher never
races and takes no empty batch (`AloneInv`), and the pending requests of `EventStore` are what it has in hand (`Held`) before
the buffer: taking and putting back leave this sequence as it is, COPY moves its first part to the table, a crash forgets it.

*API.* `StepOfStorage` shows that each handler step is a storage step or leaves the storage alone. `UploadInv` says for each
stage of `HandleFlushUpload` what the requests due at its start have become: before Flush looks, in memory or stored; afterwards
stored, in its own batch, or in `elsewhere`; and rows once stored stay (there is no step that shortens the table). What is stored is
in the file or in the log (`RowsOfTheFile`), and what was in the log when the file was opened is in `logged`. `ReadInv`: the file
is a beginning of the table to which checkpoints only add, and so is all that has been read from it or uploaded, unless it is torn;
of two of them one extends the other, and which one is the order of the reads; hence only an overtaken or torn PUT can take rows
back. `StatsInv`: the rows read earlier and the buffer read later
are different accepted requests, whatever has moved from one to the other in between, since a request leaves the buffer for good or for a
batch that is put back.

*Hub.* `HubInv` says that a client in the map has an open channel and that only `Run` closes it, when it takes the client
out; for order, that what a client was written and what waits in its channel, one after the other, are an unbroken part of the
messages Run has taken, up to the last one for a subscribed client; a client that missed one is leaving.

*Statistics.* The counters are under one lock, the window under another, and several handlers work at once. `StatInv` names for each
handler the place in `Load` of its first unrecorded request: the handlers hold disjoint intervals of the accepted requests, the
counters have had what nobody holds. The window is the last `WindowSize` of what was recorded, and what `sendStats` shows is of one
moment. For the rate, `inSecond` is at most what was stamped with `lastSecond`, even when a late handler sets it back.

*Load generator.* What has left the buffers is split by five places: on its way, in the sidecar, lost, refused, left behind
(`PlaceInv`). A batch is a run of one virtual user; a virtual user that never stopped waiting has at most one
under way, newer than all of its rows (`OrderInv`), which is why storing it keeps the order. That `made` is a multiple of the batch size
and a rest is carried as the quotient (`LeftInv`), so that no property of `%` is needed before the last step.

*Controller.* `ControllerInv` holds what the goroutines of a call know of the pods they copied: a copied pod is registered unless
the call lost it to UnregisterPod, and WaitForCompletion has written what the pod answered wherever nobody else wrote. `EveryCallEnds`
shows for each step that `StepsLeft` falls, from the bounded rounds and the finite set of tasks.

*Gate.* `GateInv` states how far the two loops are: `findings` are those of the endpoints no longer in `todo`, `worst` is the
overall status of the findings no longer in `untallied`. `OneMoreFinding` is the algebra of `worse` that makes the order
irrelevant; `FindingHasStatus` that every check yields one of four statuses. `DataInv` adds where the two sets of statistics came
from, `TypeInv` that the summary tallies the findings weighed so far. The monotonicity theorems then are about operators:
`Graded`, the checks of one metric, of one endpoint, and `Overall` are monotone one after the other. For `SelfComparisonNeedsGrowth`
the attempt to prove it showed that a negative regression limit, which Validate lets through, fails a run against itself; the
property says so now. The browser has at most two findings for an endpoint, and each has a counterpart of the same weight under
`SamePolicy`.

*Check-analysis.* `CatalogInv`: what has passed on a fixture is sound and from the catalog; `failed` is set exactly when a fixture
was not complete. The catalog is what `Parse` makes of the files, different ids for different files, so a report with as many ids as the
catalog is about all of them. Of the lines with one key the last one is what counts (`LastLineIsRequired`).

*Command line.* What is typed is said in parts, one for each flag and one for the file (`Says`), and any order of parts says
the same: `LineIsSaid` goes by induction over the parts typed so far, of which each adds its positions at the end. `TakenIs` shows
that the recursive function of `Taken` marks exactly the values that stand apart from their flags, so `LineIsRead`: the flags
have the values that were typed and the file is the only word. `LineInv` keeps the line as it was made until it is read, and
`StepOfGate` shows that from then on each step is one of `PerformanceGate` or leaves it alone.

*Analysis.* `DiagnosisInv`: rows are only added, so a later query for a run has read at least what an earlier one has
(`QueriesGrow`), and the rows read for the pods of an endpoint contain those that its explanation is based on (`PodsHaveRows`).
`DiagnoseQueries` computes which run each of the six queries asks for. `AnalysisInv` says the same of the other handlers, and that no
aggregate is formed over no rows. What the answers compute is reached by lemmas about its parts: order statistics are values of the
rows (`RankedIsAValue`), sums over a finite set of rows exist and compare term by term (`SumsExist`, `SumsCompare`), and
fractions with positive denominators compare by cross-multiplication (`TimesKeepsLess`, `LargerStaysAbove`),
which holds for thresholds of every sign. `RisesCritically` says when a change is critical: over the threshold and over twice the
threshold, of which the second is the lower one if they are negative. A trend loses a run only
if another took its place among the first `limit` (`SomeoneTookThePlace`, by counting).

### Only model-checked

The three liveness properties, `EventuallyFlushed`, `GoneIsRemoved` and `SizeIsShownInTheEnd`: the prover handles neither fairness
nor ENABLED. Induction over data is done without the induction theorems of the library, which take an operator as parameter:
the places where a statement fails form a set of natural numbers, which has a least element unless it is empty (`WFMin`, in
`HasLeast`). No module that is proved about reaches a RECURSIVE operator.

## 5. Disagreements between code and documents

Three have a run that finds them.

1. **Overlapping flushes** (`storage_overlap`, duckdb.go:140): all `writeBatch` calls share one temporary file and hold no lock;
   requests are reported as flushed and have no row, or have two. README.md:74 "stores one row per request".
2. **The hub can block on itself** (`hub_wedge`, hub.go:190): `Run` sends to the channel that only `Run` empties. hub.go:167.
3. **A failed request costs its batch** (`k6_failures`, k6-script.js:62): k6 gives `error_code` as a number, `models/event.go:34`
   takes a string, so HandleIngestBatch answers 400 to the whole batch, and k6 does not look at the answer.

The others are excluded by name in a property that holds, which says how far they go.

* A request that COPY rejects (duckdb.go:130) is put back with its batch for ever and stops all writing until the process ends
  (README.md:104); the exception in `EventuallyFlushed`.
* UnregisterPod during a call (controller.go:118) leads to a nil dereference, although both lock the map (controller.go:74, 93);
  `PanicNeedsUnregister`.
* A `--run-id` the file does not hold gives PASS and exit code 0 (cmd/duckload/main.go:297, docs/performance-gate.md:53);
  `EmptyPassNamesAMissingRun`. (Without `--run-id`, an empty file is refused with exit code 2.)
* "Flush remaining events on teardown" (k6-script.js:108) sends nothing: `OnlyTheLastBatchIsLeft` says what stays behind.
* check-analysis is not "the same check CI runs" (cmd/duckload/main.go:249): it does not look at `MissingOutput`, so a query
  without a declared output passes it and fails validator_test.go:34; `PassedCheckTells`.
* main promises exit code 1 on any error of the other subcommands; a bad flag ends them with 2 (`flag.ExitOnError`), and
  `gate -h` ends with 0 without a verdict. `ParseExit` has what happens.
* The browser's gate takes an endpoint with two findings off the passed ones twice, down to "-1 passed" (app.js:322);
  `BrowserAgrees` claims only that the number is not too high.
* The aggregation job inserts all columns of `metrics` into a table with six (aggregate-scripts-configmap.yaml:70 and 74), which DuckDB
  refuses, so the merged file of README.md:118 is never written; its image has neither of the two libraries it imports. It is not
  modelled for that reason.
* The frontend attaches every file under one name and never detaches it (app.js:52), so a second file cannot be loaded before the
  page is reloaded, and the views are left with a closed connection.

Further: `/flush-upload` (handlers.go:125), "Flush and upload the database" (README.md:301), can answer 200 and have uploaded a
file without requests accepted before it. They may have been in the hands of another goroutine; that is the exception `elsewhere` of
`UploadMissesOnlyElsewhere`. And its own Flush may have put them only into DuckDB's log, since it uploads the database file of an
open database (s3.go:92) without a checkpoint: the exception `logged`. A checkpoint in the middle of the reading may make the copy
unreadable: `torn`.
The view of the frontend approximates the gate "closely enough" (app.js:262) but for negative limits, where it fails an endpoint
that improved too little and Go does not (gate.go:249); `BrowserAgrees` names the case.
A trend that an error cuts short is answered 200 like a whole one (comparator.go:287; the endpoint queries look, endpoint.go:71).
On a sidecar that is still storing rows, `diagnose` may list findings without an explanation or explain an endpoint without a
finding (analysis_handlers.go:268 promises one for each), since Explain queries again: `FindingsAreExplained` claims it at rest
only. HandleCompare says "No regressions detected" (analysis_handlers.go:111) above a list of warnings. controller.go:328 says that WaitForCompletion "waits for all pods to have empty buffers", but it
counts pods that are unhealthy, unknown or flushing as empty (line 340), so a cancelled context makes it return nil
(`DrainedOrUnseen` states what holds). `--warn-exit-code 2` makes 2 a verdict, against docs/performance-gate.md
(`ToolErrorIsNoVerdict` excludes it). docs/performance-gate.md names `insufficient_samples` where the code says
`insufficient_baseline_samples` for the baseline, and says the floor must be exceeded where `>=` is enough (gate.go:249).

## 6. Abstractions and what is not modelled

* A COPY is one transaction. What COPY makes of a damaged file is left open (`LenientCopy`): it may reject it or import some
  undamaged stretch. Lines of the CSV file are cells of equal length.
* The database file and its log are a beginning of the table and the rest of it. When DuckDB checkpoints is left open. A copy that a
  checkpoint tears is the old file, the new one, or unreadable, and of an unreadable one nothing but `torn` is said. A download is
  read at once: no property is about what it holds.
* A crash keeps the table and the CSV file as they are, without loss in the operating system's cache.
* Request contents are abstracted to identity and whether COPY accepts them; each request is ingested once (a client that posts
  a batch again is not modelled).
* Analysis: rounding of floats, answers 400 to requests that cannot be decoded, the wording of explanations, the deltas of p50
  and p99 that explanations only display.
* Live statistics are exact: the average is kept as sum and number. `active_vus` is written by nobody.
* SQL is columns and placeholders; whether a query fails on the rows of a fixture is left open.
* What the other views of the frontend show is one query each; loading the page, its libraries and files, drawing and DuckDB-WASM are outside. The aggregation
  job fails at its first INSERT (section 5). Fixtures, end-to-end support, deployment and CI are data and configuration.

## 7. Plan

Done: all components with behaviour of their own, as above, and proofs of every property that a passing run checks, but for
liveness. What is left to model is named in section 6 and is I/O, data, or text.

To do: the refinement of `EventStore` is used by `LoadGenerator` as a promise and proved for the ticker alone; a weaker abstract
storage, which allows what overlapping flushes do and no more, would tie the handlers of `SidecarAPI` to the load generator as well. Proofs that
repeat the same steps for several actions (`ControllerProofs`, `PerformanceGateProofs`) can be shortened by lemmas on what an
action leaves alone. The variants that would turn the liveness properties into action properties, as `CallsEnd` is for
the controller, are worth stating for `Flush` and the hub's removal of a client.
