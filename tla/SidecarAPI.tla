------------------------------ MODULE SidecarAPI ------------------------------
(***************************************************************************)
(* The HTTP handlers of the sidecar that ingest, flush, upload, download   *)
(* and report (sidecar-go/handlers/handlers.go), on top of SidecarStorage. *)
(* Every flusher but the ticker is a handler goroutine serving one call    *)
(* after the other; its call goes through Flush and then to the uploader   *)
(* or the statistics query.                                                *)
(*                                                                         *)
(* /flush-upload and /download read the database file itself, beside the   *)
(* DuckDB that has it open.  What COPY commits goes to DuckDB's log (.wal) *)
(* first and reaches the file with a checkpoint; the sidecar never asks    *)
(* for one, so DuckDB decides when, and the log is not read.  A query sees *)
(* both.  A PUT replaces the object as a whole; its key is the same for    *)
(* all calls (handlers.go 141), so there is one object.                    *)
(***************************************************************************)
EXTENDS SidecarStorage

CONSTANTS
    S3Configured,  \* has the sidecar an uploader with a bucket
    MaxCalls       \* bound: calls of /flush, /flush-upload, /download and /stats

ASSUME APIAssumption ==
    /\ S3Configured \in BOOLEAN
    /\ MaxCalls \in Nat

VARIABLES
    kind,      \* the endpoint a handler serves, or served last
    at,        \* where the handler is
    answer,    \* the answer to the last call
    inFile,    \* rows of the table that are in the database file, the rest being in its log
    seen,      \* rows the call read: from the file to upload or serve, from the table to count
    left,      \* buffer_size in the answer of /stats
    object,    \* rows of the uploaded object
    calls,     \* calls so far
    due,       \* ghost: requests that were accepted, and not lost, when the call began
    own,       \* ghost: requests the call's own Flush reported
    elsewhere, \* ghost: requests other flushers had in hand when the call's Flush looked
    overtaken, \* ghost: another call's PUT came between this call's read and its PUT
    logged,    \* ghost: requests whose rows were only in the log when the call opened the file
    torn       \* ghost: a checkpoint rewrote the file while the call was reading it

disk    == <<inFile, logged, torn>>
api     == <<kind, at, answer, seen, left, object, calls, due, own, elsewhere, overtaken, disk>>
storage == vars
apiVars == <<storage, api>>

Callers   == Flushers \ {Ticker}
Endpoints == {"flush", "upload", "download", "stats"}

CallersTypeOK ==
    /\ kind \in [Callers -> Endpoints \cup {"none"}]
    /\ at \in [Callers -> {"none", "flush", "wait", "open", "put", "serve", "count", "size"}]
    /\ answer \in [Callers -> {"none", "ok", "failed"}]
    /\ seen \in [Callers -> Seq(Events)]
    /\ left \in [Callers -> Nat]
    /\ object \in Seq(Events)
    /\ calls \in 0..MaxCalls
    /\ due \in [Callers -> SUBSET Events]
    /\ own \in [Callers -> SUBSET Events]
    /\ elsewhere \in [Callers -> SUBSET Events]
    /\ overtaken \in [Callers -> BOOLEAN]
    /\ \A f \in Callers : pc[f] # "idle" <=> at[f] = "wait"

DiskTypeOK ==
    /\ inFile \in 0..Len(table)
    /\ logged \in [Callers -> SUBSET Events]
    /\ torn \in [Callers -> BOOLEAN]

\* The types of the storage, of the handlers' state and of the database file; a
\* handler waits for Flush exactly while its Flush is at work.
APITypeOK == TypeOK /\ CallersTypeOK /\ DiskTypeOK

-------------------------------------------------------------------------------
(***************************************************************************)
(* Faulty variants, by which the properties are tested.                    *)
(***************************************************************************)
UploadAnyway(f) ==                    \* /flush-upload goes on after a failed Flush
    at' = [at EXCEPT ![f] = IF kind[f] = "upload" THEN "open"
                            ELSE IF kind[f] = "stats" THEN "count" ELSE "none"]
StayInFlush(f) == UNCHANGED at        \* the early return after the error forgotten
CountInHandToo ==                     \* BufferSize counts batches that are being written
    Len(buffer) + Cardinality(UNION {Range(batch[f]) : f \in Flushers})
ReadOn(f) ==                          \* one open file for all calls, not rewound
    seen' = [seen EXCEPT ![f] = SubSeq(table, Len(object) + 1, inFile)]

-------------------------------------------------------------------------------
APIInit ==
    /\ Init
    /\ kind = [f \in Callers |-> "none"]
    /\ at = [f \in Callers |-> "none"]
    /\ answer = [f \in Callers |-> "none"]
    /\ seen = [f \in Callers |-> <<>>]
    /\ left = [f \in Callers |-> 0]
    /\ object = <<>>
    /\ calls = 0
    /\ due = [f \in Callers |-> {}]
    /\ own = [f \in Callers |-> {}]
    /\ elsewhere = [f \in Callers |-> {}]
    /\ overtaken = [f \in Callers |-> FALSE]
    /\ inFile = 0
    /\ logged = [f \in Callers |-> {}]
    /\ torn = [f \in Callers |-> FALSE]

\* HandleIngest and HandleIngestBatch; a body that cannot be decoded, or holds
\* no event, is refused before storage is called.
Ingest ==
    /\ \E n \in 1..MaxIngest : \E es \in [1..n -> Events] : AddEvents(es)
    /\ UNCHANGED api

\* The router starts the handler of endpoint e.  HandleDownload does not flush.
Enter(f, e) ==
    /\ kind' = [kind EXCEPT ![f] = e]
    /\ at' = [at EXCEPT ![f] = IF e = "download" THEN "serve" ELSE "flush"]
    /\ seen' = [seen EXCEPT ![f] = <<>>]

Call(f, e) ==
    /\ at[f] = "none"
    /\ calls < MaxCalls
    /\ calls' = calls + 1
    /\ Enter(f, e)
    /\ answer' = [answer EXCEPT ![f] = "none"]
    /\ left' = [left EXCEPT ![f] = 0]
    /\ due' = [due EXCEPT ![f] = accepted \ dropped]
    /\ own' = [own EXCEPT ![f] = {}]
    /\ elsewhere' = [elsewhere EXCEPT ![f] = {}]
    /\ overtaken' = [overtaken EXCEPT ![f] = FALSE]
    /\ logged' = [logged EXCEPT ![f] = {}]
    /\ torn' = [torn EXCEPT ![f] = FALSE]
    /\ UNCHANGED <<storage, object, inFile>>

\* Flush looks at the buffer; what others have in hand is not in it.
LookAtBuffer(f) ==
    elsewhere' = [elsewhere EXCEPT ![f] =
                     UNION {Range(batch[g]) : g \in Flushers \ {f}}]

\* Where a handler goes, and what it answers, when Flush returned no error:
\* /flush-upload without a bucket answers 200 with uploaded = false.
Uploads(f) == kind[f] = "upload" /\ S3Configured

FlushedOk(f) ==
    /\ at' = [at EXCEPT ![f] = IF Uploads(f) THEN "open"
                               ELSE IF kind[f] = "stats" THEN "count" ELSE "none"]
    /\ answer' = [answer EXCEPT ![f] =
                     IF Uploads(f) \/ kind[f] = "stats" THEN "none" ELSE "ok"]

\* After an error /flush and /flush-upload answer 500; /stats ignores it.
AfterFlushError(f) ==
    at' = [at EXCEPT ![f] = IF kind[f] = "stats" THEN "count" ELSE "none"]

\* Flush finds an empty buffer and returns 0.
FlushNothing(f) ==
    /\ at[f] = "flush"
    /\ buffer = <<>>
    /\ LookAtBuffer(f)
    /\ FlushedOk(f)
    /\ UNCHANGED <<storage, kind, seen, left, object, calls, due, own, overtaken, disk>>

FlushTakes(f) ==
    /\ at[f] = "flush"
    /\ Take(f)
    /\ LookAtBuffer(f)
    /\ at' = [at EXCEPT ![f] = "wait"]
    /\ UNCHANGED <<kind, answer, seen, left, object, calls, due, own, overtaken, disk>>

FlushWorks(f) ==
    /\ at[f] = "wait"
    /\ FlushStep(f)
    /\ pc[f] \notin {"removeOk", "requeue"}
    /\ UNCHANGED api

FlushReturns(f) ==
    /\ at[f] = "wait"
    /\ ReturnStored(f)
    /\ own' = [own EXCEPT ![f] = Range(batch[f])]
    /\ FlushedOk(f)
    /\ UNCHANGED <<kind, seen, left, object, calls, due, elsewhere, overtaken, disk>>

FlushErrs(f) ==
    /\ at[f] = "wait"
    /\ Requeue(f)
    /\ AfterFlushError(f)
    /\ answer' = [answer EXCEPT ![f] = IF kind[f] = "stats" THEN "none" ELSE "failed"]
    /\ UNCHANGED <<kind, seen, left, object, calls, due, own, elsewhere, overtaken, disk>>

\* The rows in the database file, and those that are still in its log.
FileRows == SubSeq(table, 1, inFile)
LogRows  == SubSeq(table, inFile + 1, Len(table))

\* What a reader of the file finds in it.
ReadFile(f) == seen' = [seen EXCEPT ![f] = FileRows]

\* UploadFile opens and reads the database file, ...
UploadOpens(f) ==
    /\ at[f] = "open"
    /\ ReadFile(f)
    /\ logged' = [logged EXCEPT ![f] = Range(LogRows)]
    /\ at' = [at EXCEPT ![f] = "put"]
    /\ UNCHANGED <<storage, kind, answer, left, object, calls, due, own, elsewhere, overtaken,
                   inFile, torn>>

\* ... and the PUT takes effect some time later.
UploadPuts(f) ==
    /\ at[f] = "put"
    /\ object' = seen[f]
    /\ overtaken' = [g \in Callers |-> overtaken[g] \/ (g # f /\ at[g] = "put")]
    /\ answer' = [answer EXCEPT ![f] = "ok"]
    /\ at' = [at EXCEPT ![f] = "none"]
    /\ UNCHANGED <<storage, kind, seen, left, calls, due, own, elsewhere, disk>>

\* The file cannot be opened, or the upload fails: 500.
UploadFails(f) ==
    /\ at[f] \in {"open", "put"}
    /\ answer' = [answer EXCEPT ![f] = "failed"]
    /\ at' = [at EXCEPT ![f] = "none"]
    /\ UNCHANGED <<storage, kind, seen, left, object, calls, due, own, elsewhere, overtaken, disk>>

\* HandleDownload serves the file as it is (taken at once: nothing is stated of
\* what a download holds).
Download(f) ==
    /\ at[f] = "serve"
    /\ ReadFile(f)
    /\ answer' = [answer EXCEPT ![f] = "ok"]
    /\ at' = [at EXCEPT ![f] = "none"]
    /\ UNCHANGED <<storage, kind, left, object, calls, due, own, elsewhere, overtaken, disk>>

\* GetStats counts the rows; on an empty table the aggregates are NULL, which
\* Scan refuses, and the answer is 500.
StatsCounts(f) ==
    /\ at[f] = "count"
    /\ seen' = [seen EXCEPT ![f] = table]
    /\ at' = [at EXCEPT ![f] = IF table = <<>> THEN "none" ELSE "size"]
    /\ answer' = [answer EXCEPT ![f] = IF table = <<>> THEN "failed" ELSE "none"]
    /\ UNCHANGED <<storage, kind, left, object, calls, due, own, elsewhere, overtaken, disk>>

\* BufferSize: the requests in the buffer, not those in a flusher's hands.
BufferSize == Len(buffer)

\* buffer_size is read after the rows were counted.
StatsReadsSize(f) ==
    /\ at[f] = "size"
    /\ left' = [left EXCEPT ![f] = BufferSize]
    /\ answer' = [answer EXCEPT ![f] = "ok"]
    /\ at' = [at EXCEPT ![f] = "none"]
    /\ UNCHANGED <<storage, kind, seen, object, calls, due, own, elsewhere, overtaken, disk>>

\* The background flusher of main.go.
TickerWorks ==
    /\ Take(Ticker) \/ FlushStep(Ticker)
    /\ UNCHANGED api

\* DuckDB moves what is in its log to the file.  A copy that is being read then
\* may turn out as the file was, as it is now, or unreadable.
Checkpoint ==
    /\ inFile < Len(table)
    /\ inFile' = Len(table)
    /\ torn' = [f \in Callers |-> torn[f] \/ at[f] = "put"]
    /\ \E renewed \in SUBSET {f \in Callers : at[f] = "put"} :
          \E unreadable \in SUBSET renewed :
             seen' = [f \in Callers |-> IF f \in unreadable THEN <<>>
                                        ELSE IF f \in renewed THEN table ELSE seen[f]]
    /\ UNCHANGED <<storage, kind, at, answer, left, object, calls, due, own, elsewhere, overtaken,
                   logged>>

\* The calls in progress die with the process, the object does not.  What was
\* committed is in the file and its log, from which DuckDB takes it up again.
APICrash ==
    /\ Crash
    /\ kind' = [f \in Callers |-> "none"]
    /\ at' = [f \in Callers |-> "none"]
    /\ answer' = [f \in Callers |-> "none"]
    /\ seen' = [f \in Callers |-> <<>>]
    /\ left' = [f \in Callers |-> 0]
    /\ due' = [f \in Callers |-> {}]
    /\ own' = [f \in Callers |-> {}]
    /\ elsewhere' = [f \in Callers |-> {}]
    /\ overtaken' = [f \in Callers |-> FALSE]
    /\ logged' = [f \in Callers |-> {}]
    /\ torn' = [f \in Callers |-> FALSE]
    /\ UNCHANGED <<object, calls, inFile>>

HandlerStep(f) ==
    \/ FlushNothing(f) \/ FlushTakes(f) \/ FlushWorks(f) \/ FlushReturns(f) \/ FlushErrs(f)
    \/ UploadOpens(f) \/ UploadPuts(f) \/ UploadFails(f)
    \/ Download(f)
    \/ StatsCounts(f) \/ StatsReadsSize(f)

APINext ==
    \/ Ingest
    \/ \E f \in Callers : HandlerStep(f) \/ \E e \in Endpoints : Call(f, e)
    \/ TickerWorks
    \/ Checkpoint
    \/ APICrash

APISpec == APIInit /\ [][APINext]_apiVars
-------------------------------------------------------------------------------
\* A 200 of /flush-upload with an upload.
Uploaded(f) == Uploads(f) /\ answer[f] = "ok"

\* What a 200 of /flush-upload is worth (HandleFlushUpload, handlers.go 124-153).
\* Unless writeBatch calls overlap or a checkpoint tears the copy, the object
\* lacks rows of the call's own batch only if they were still in DuckDB's log,
\* and of what was accepted before the call only those and what another Flush
\* had in hand: with an empty buffer Flush returns 0 at once.
UploadMissesOnlyElsewhere ==
    ~raced => \A f \in Callers : Uploaded(f) /\ ~torn[f] =>
        /\ own[f] \subseteq Range(seen[f]) \cup logged[f]
        /\ due[f] \ Range(seen[f]) \subseteq elsewhere[f] \cup logged[f]

\* The numbers of /stats, which the orchestrator adds up over the pods, may
\* leave out what is being written but count no request twice, although rows
\* and buffer are read one after the other (handlers.go 186-205).
StatsCountNothingTwice ==
    ~raced => \A f \in Callers :
        kind[f] = "stats" /\ answer[f] = "ok" =>
            Len(seen[f]) + left[f] <= Cardinality(accepted)

\* A PUT takes rows of the object back only if another call's PUT overtook it,
\* or a checkpoint tore its copy: all calls write the same key (handlers.go 141).
ObjectLosesRowsOnlyToOvertaking ==
    [][\A f \in Callers : UploadPuts(f) /\ ~overtaken[f] /\ ~torn[f] =>
          /\ Len(object) <= Len(object')
          /\ SubSeq(object', 1, Len(object)) = object]_apiVars
===============================================================================
