---------------------------- MODULE QueryCatalog ----------------------------
(* The catalog of analysis queries (analysis/queries/catalog.go), its validator (analysis/validator/validator.go) and  *)
(* duckload check-analysis, which validates every query on every fixture. The catalog is read from the embedded .sql    *)
(* files when the process starts.                                                                                       *)
(*                                                                                                                     *)
(* A file is a header, which declares things about the query, and the query, which does things; the two are written by *)
(* hand and need not agree. A header line is a key with the names after it; text without a key has the key Prose.       *)
EXTENDS Naturals, Sequences, FiniteSets, SequencesExt

CONSTANTS
  TableColumns,   \* columns of the table metrics
  Directories,    \* what sql/ may contain: sets of [header, reads, placeholders, returns]
  Shipped,        \* what it contains in the repository
  IDs,            \* names that queries may have, in the order of sort.Slice
  Scenarios       \* the fixtures, in order

\* What sql/ and the fixtures are: finitely many files, whose headers are sequences of lines, and a sequence of fixtures.
ASSUME CatalogAssumption ==
  /\ \A S \in Directories \cup {Shipped} :
       /\ IsFiniteSet(S)
       /\ \A f \in S : f.header \in Seq([key : STRING, names : Seq(STRING)])
  /\ Scenarios \in Seq(STRING)

VARIABLES
  files,          \* what sql/ contains
  catalog,        \* queries that init has registered
  report,         \* for each fixture so far: whether it was built, and which queries have passed on it
  passed,         \* queries that have passed on the fixture at hand
  failed,         \* the variable of runCheckAnalysis
  checking        \* where the process is

catalogVars == <<files, catalog, report, passed, failed, checking>>

Prose == ""
BoundParams == 1  \* check-analysis binds the run_id of the fixture
-----------------------------------------------------------------------------
(* parse *)

UpToProse(header, key) ==                                \* the header ends at text without a key
  {i \in DOMAIN header : header[i].key = key /\ \A j \in 1..i : header[j].key # Prose}
LinesWith(header, key) == {i \in DOMAIN header : header[i].key = key}

\* A later line replaces an earlier one with the same key. What is continued on the next line is prose.
Declared(header, key) ==
  LET lines == LinesWith(header, key) IN IF lines = {} THEN <<>> ELSE header[Max(lines)].names

Parse(f) ==
  [id         |-> Declared(f.header, "id"),
   required   |-> ToSet(Declared(f.header, "required_columns")),
   parameters |-> Len(Declared(f.header, "parameters")),
   expected   |-> ToSet(Declared(f.header, "expected_output")),
   sql        |-> f]

\* init registers every file or panics.
Unregistrable(S) ==
  \/ \E f \in S : Parse(f).id = <<>>
  \/ \E f, g \in S : f # g /\ Parse(f).id = Parse(g).id

\* All: the queries of the catalog, sorted by name.
All == {q.id : q \in catalog}
Precedes(a, b) == \E i, j \in DOMAIN IDs : i < j /\ a = <<IDs[i]>> /\ b = <<IDs[j]>>
First(S) == {q \in S : \A r \in S : ~Precedes(r.id, q.id)}
-----------------------------------------------------------------------------
(* Validate *)

\* What DuckDB accepts.
Binds(f, bound) == f.reads \subseteq TableColumns /\ f.placeholders = bound

HasRequiredColumns(q) == q.required \subseteq TableColumns

\* The steps that fail for the query alone, whatever rows the fixture has.
Sound(q) ==
  /\ HasRequiredColumns(q)
  /\ q.parameters = BoundParams
  /\ Binds(q.sql, BoundParams)

MissingOutput(q) == q.expected \ q.sql.returns
-----------------------------------------------------------------------------
(* The process *)

CatalogInit ==
  /\ files \in Directories
  /\ catalog = {} /\ report = <<>> /\ passed = {} /\ failed = FALSE
  /\ checking = "start"

\* init of the package, before main
Register ==
  /\ checking = "start"
  /\ IF Unregistrable(files) THEN checking' = "panic" /\ UNCHANGED catalog
     ELSE checking' = "ready" /\ catalog' = {Parse(f) : f \in files}
  /\ UNCHANGED <<files, report, passed, failed>>

FailureOfTheLast(before, now) == now                     \* = for the assignment under if
AnyFailure(before, now) == before \/ now

Conclude(built, all) ==
  /\ report' = Append(report, [built |-> built, passed |-> all])
  /\ failed' = AnyFailure(failed, ~built \/ all # All)
  /\ passed' = {}
  /\ checking' = IF Len(report') = Len(Scenarios) THEN "checked" ELSE "fixture"

StartCheck ==
  /\ checking = "ready"
  /\ checking' = "fixture"
  /\ UNCHANGED <<files, catalog, report, passed, failed>>

\* BuildDB fills a new database, or fails.
BuildFixture ==
  /\ checking = "fixture"
  /\ \/ checking' = "validate" /\ UNCHANGED <<report, passed, failed>>
     \/ Conclude(FALSE, {})
  /\ UNCHANGED <<files, catalog>>

\* ValidateAll stops at the first query that fails; any query may fail when it is executed.
ValidateNext ==
  /\ checking = "validate"
  /\ IF passed = All THEN Conclude(TRUE, passed)
     ELSE \E q \in First({r \in catalog : r.id \notin passed}) :
            \/ Sound(q) /\ passed' = passed \cup {q.id} /\ UNCHANGED <<report, failed, checking>>
            \/ Conclude(TRUE, passed)
  /\ UNCHANGED <<files, catalog>>

CheckNext == StartCheck \/ BuildFixture \/ ValidateNext
-----------------------------------------------------------------------------
(* Properties *)

\* What validator_test.go asks of the same answers.
TestPasses ==
  /\ \A k \in DOMAIN report : report[k].built /\ Cardinality(report[k].passed) = Cardinality(All)
  /\ \A q \in catalog : MissingOutput(q) = {}

\* main.go 246: check-analysis is "the same check CI runs": with the same answers of the database it passes where the
\* test passes, and where only it passes, a query that ran everywhere lacks an output that it declares.  And what the header
\* declares "that the validator and analysis packages read" (catalog.go 1-5) holds when the check has passed: every column
\* that a line requires is there, unless another line with the key comes after it.
PassedCheckTells ==
  checking = "checked" =>
    /\ failed => ~TestPasses
    /\ ~failed /\ ~TestPasses =>
         /\ \E q \in catalog : MissingOutput(q) # {}
         /\ \A k \in DOMAIN Scenarios, f \in files : Parse(f).id \in report[k].passed
    /\ ~failed =>
         \A f \in files : \A i \in DOMAIN f.header :
           f.header[i].key = "required_columns" =>
             \/ ToSet(f.header[i].names) \subseteq TableColumns
             \/ \E j \in i + 1..Len(f.header) : f.header[j].key = "required_columns"
=============================================================================
