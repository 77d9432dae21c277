---------------------------- MODULE SidecarStorage ----------------------------
(***************************************************************************)
(* DuckDBStorage of the sidecar (sidecar-go/storage/duckdb.go) and the     *)
(* goroutines that call Flush: the 5 s ticker of main.go and the handlers  *)
(* of /flush, /flush-upload and /stats.                                    *)
(*                                                                         *)
(* Flush swaps the in-memory buffer for an empty one under bufferMu and    *)
(* then works without a lock: it writes the batch to a CSV file whose name *)
(* is the same for every caller, lets DuckDB COPY that file into the table *)
(* and removes the file.  On any error the batch goes back to the front of *)
(* the buffer.                                                             *)
(*                                                                         *)
(* The file is modelled through its path.  os.Create truncates the file    *)
(* the path names, or makes a new one when the path is free, so a          *)
(* goroutine's open file is either the one the path names ("linked") or    *)
(* one that was removed under it, whose content nobody can read any more.  *)
(* A line of the file (the header, or one request) is one cell; a write    *)
(* beyond the end of a truncated file leaves Holes before it.              *)
(***************************************************************************)
EXTENDS Naturals, Sequences, FiniteSets, Functions

CONSTANTS
    Events,      \* requests reported to the sidecar, each accepted at most once
    Poison,      \* requests with a value its column cannot hold: COPY rejects them
    Flushers,    \* goroutines that call Flush
    Ticker,      \* the one of them that main.go starts
    Header,      \* the first line of the CSV file
    Hole,        \* a stretch of a file nobody wrote
    LenientCopy, \* may COPY accept a damaged file and read some rows of it
    MaxIngest,   \* bound: requests in one ingest call
    MaxFaults    \* bound: I/O errors (create, write, COPY) of a behaviour

ASSUME StorageAssumption ==
    /\ Poison \subseteq Events
    /\ Ticker \in Flushers
    /\ Header \notin Events /\ Hole \notin Events /\ Header # Hole
    /\ LenientCopy \in BOOLEAN
    /\ MaxIngest \in Nat \ {0}
    /\ MaxFaults \in Nat

VARIABLES
    buffer,      \* DuckDBStorage.buffer
    pc,          \* where each flusher is in Flush / writeBatch
    batch,       \* the batch a flusher took
    written,     \* lines of it the flusher has written to its file
    csvExists,   \* does the path of the temporary CSV file name a file
    csv,         \* the lines of that file
    linked,      \* flushers whose open file is the one the path names
    table,       \* rows of the metrics table, oldest first (survives a crash)
    faults,      \* I/O errors so far
    accepted,    \* ghost: requests an ingest call has added
    reported,    \* ghost: requests of batches whose Flush returned no error
    dropped,     \* ghost: requests in memory when the process died
    raced        \* ghost: two writeBatch calls have overlapped

memory == <<buffer, pc, batch, written>>
file   == <<csvExists, csv, linked>>
ghosts == <<accepted, reported, dropped, raced>>
vars   == <<memory, file, table, faults, ghosts>>

Lines == Events \cup {Header, Hole}

\* Between os.Create and the deferred os.Remove of writeBatch.
InWriteBatch == {"write", "copy", "removeOk", "removeErr"}

\* A taken batch that no COPY of its own flusher has committed.
Unstored == {"create", "write", "copy", "removeErr", "requeue"}

PCs == {"idle", "create"} \cup InWriteBatch \cup {"requeue"}

TypeOK ==
    /\ buffer \in Seq(Events)
    /\ pc \in [Flushers -> PCs]
    /\ batch \in [Flushers -> Seq(Events)]
    /\ written \in [Flushers -> Nat]
    /\ \A f \in Flushers : pc[f] = "write" => written[f] \in 0..Len(batch[f])
    /\ csvExists \in BOOLEAN
    /\ csv \in Seq(Lines)
    /\ linked \subseteq Flushers
    /\ table \in Seq(Events)
    /\ faults \in 0..MaxFaults
    /\ accepted \subseteq Events
    /\ reported \subseteq Events
    /\ dropped \subseteq Events
    /\ raced \in BOOLEAN

-------------------------------------------------------------------------------
\* The k-th line writeBatch writes for batch b.
Line(b, k) == IF k = 1 THEN Header ELSE b[k - 1]

\* File content c after x is written at line k.
PutAt(c, k, x) ==
    [i \in 1..(IF Len(c) < k THEN k ELSE Len(c)) |->
        IF i = k THEN x ELSE IF i <= Len(c) THEN c[i] ELSE Hole]

\* A header followed by whole rows.
WellFormed(c) ==
    /\ Len(c) > 0
    /\ c[1] = Header
    /\ \A i \in 2..Len(c) : c[i] \in Events

\* The rows COPY may read from a file: all of a well-formed one; of a damaged
\* one either none, or (what DuckDB makes of it is not decided here) some
\* undamaged stretch of it.
Importable(c) ==
    {r \in {SubSeq(c, i, j) : i \in 1..Len(c) + 1, j \in 0..Len(c)} :
        /\ \A k \in 1..Len(r) : r[k] \in Events
        /\ IF WellFormed(c) THEN Len(r) = Len(c) - 1 ELSE LenientCopy}

-------------------------------------------------------------------------------
(***************************************************************************)
(* Faulty variants of the steps below: bugs this code could have had, by   *)
(* which the properties are tested.  No specification uses them.           *)
(***************************************************************************)
TakeWithoutSwap == UNCHANGED buffer                  \* line 123 forgotten
OpenWithoutTruncation ==                             \* os.OpenFile without O_TRUNC
    /\ csvExists' = TRUE
    /\ UNCHANGED csv
CommitThenError(f) == pc' = [pc EXCEPT ![f] = "removeErr"]  \* error after the commit
PutBackBehind(f) == buffer' = buffer \o batch[f]     \* append(s.buffer, batch...)
PutNothingBack(f) == UNCHANGED buffer                \* lines 129-131 forgotten

-------------------------------------------------------------------------------
\* NewDuckDBStorage on a fresh data directory.
Init ==
    /\ buffer = <<>>
    /\ pc = [f \in Flushers |-> "idle"]
    /\ batch = [f \in Flushers |-> <<>>]
    /\ written = [f \in Flushers |-> 0]
    /\ csvExists = FALSE /\ csv = <<>> /\ linked = {}
    /\ table = <<>>
    /\ faults = 0
    /\ accepted = {} /\ reported = {} /\ dropped = {}
    /\ raced = FALSE

\* AddEvent (one request) and AddEvents (a batch), under bufferMu.
AddEvents(es) ==
    /\ IsInjective(es)
    /\ Range(es) \cap accepted = {}
    /\ buffer' = buffer \o es
    /\ accepted' = accepted \cup Range(es)
    /\ UNCHANGED <<pc, batch, written, file, table, faults, reported, dropped, raced>>

\* The buffer Flush installs in place of the one it takes.
SwapBuffer == buffer' = <<>>

\* Flush takes the whole buffer under bufferMu.  With an empty buffer Flush
\* returns 0 at once and changes nothing.
Take(f) ==
    /\ pc[f] = "idle"
    /\ buffer # <<>>
    /\ batch' = [batch EXCEPT ![f] = buffer]
    /\ SwapBuffer
    /\ pc' = [pc EXCEPT ![f] = "create"]
    /\ UNCHANGED <<written, file, table, faults, ghosts>>

\* os.Create: truncate the file the path names, or make a new one.
OpenCsv ==
    /\ csvExists' = TRUE
    /\ csv' = <<>>

\* The new csv writer starts at the beginning of the file.
StartCsv(f) == written' = [written EXCEPT ![f] = 0]

Create(f) ==
    /\ pc[f] = "create"
    /\ OpenCsv
    /\ linked' = linked \cup {f}
    /\ StartCsv(f)
    /\ pc' = [pc EXCEPT ![f] = "write"]
    /\ raced' = (raced \/ \E g \in Flushers : pc[g] \in InWriteBatch)
    /\ UNCHANGED <<buffer, batch, table, faults, accepted, reported, dropped>>

\* os.Create fails: the deferred os.Remove is not yet registered.
CreateFails(f) ==
    /\ pc[f] = "create"
    /\ faults < MaxFaults
    /\ faults' = faults + 1
    /\ pc' = [pc EXCEPT ![f] = "requeue"]
    /\ UNCHANGED <<buffer, batch, written, file, table, ghosts>>

\* The next line reaches the file, at the offset this flusher's descriptor
\* has come to; the last one is followed by Close.
WriteLine(f) ==
    LET k == written[f] + 1 IN
    /\ pc[f] = "write"
    /\ csv' = IF f \in linked THEN PutAt(csv, k, Line(batch[f], k)) ELSE csv
    /\ written' = [written EXCEPT ![f] = k]
    /\ pc' = [pc EXCEPT ![f] = IF k = Len(batch[f]) + 1 THEN "copy" ELSE "write"]
    /\ UNCHANGED <<buffer, batch, csvExists, linked, table, faults, ghosts>>

\* Writing the header, a row or the csv writer's last block fails.
WriteFails(f) ==
    /\ pc[f] = "write"
    /\ faults < MaxFaults
    /\ faults' = faults + 1
    /\ pc' = [pc EXCEPT ![f] = "removeErr"]
    /\ UNCHANGED <<buffer, batch, written, file, table, ghosts>>

\* writeBatch goes on to return len(batch) and no error.
CopyDone(f) == pc' = [pc EXCEPT ![f] = "removeOk"]

\* COPY commits the rows it read from the file the path names at this moment.
Copy(f) ==
    /\ pc[f] = "copy"
    /\ csvExists
    /\ \E rows \in Importable(csv) :
          /\ Range(rows) \cap Poison = {}
          /\ table' = table \o rows
    /\ CopyDone(f)
    /\ UNCHANGED <<buffer, batch, written, file, faults, ghosts>>

\* COPY rejects what it finds: no file, a damaged file, or a value that does
\* not fit its column.  The whole statement is rolled back.
CopyRejects(f) ==
    /\ pc[f] = "copy"
    /\ \/ ~csvExists
       \/ ~WellFormed(csv)
       \/ Range(csv) \cap Poison # {}
    /\ pc' = [pc EXCEPT ![f] = "removeErr"]
    /\ UNCHANGED <<buffer, batch, written, file, table, faults, ghosts>>

\* COPY fails for a reason that is not in the file.
CopyFails(f) ==
    /\ pc[f] = "copy"
    /\ faults < MaxFaults
    /\ faults' = faults + 1
    /\ pc' = [pc EXCEPT ![f] = "removeErr"]
    /\ UNCHANGED <<buffer, batch, written, file, table, ghosts>>

\* The deferred os.Remove frees the path, whoever's file it names.
RemoveCsv ==
    /\ csvExists' = FALSE
    /\ csv' = <<>>
    /\ linked' = {}

\* writeBatch returned no error, and so does Flush.
ReturnStored(f) ==
    /\ pc[f] = "removeOk"
    /\ RemoveCsv
    /\ pc' = [pc EXCEPT ![f] = "idle"]
    /\ batch' = [batch EXCEPT ![f] = <<>>]
    /\ reported' = reported \cup Range(batch[f])
    /\ UNCHANGED <<buffer, written, table, faults, accepted, dropped, raced>>

\* writeBatch returned an error after os.Create.
RemoveAfterError(f) ==
    /\ pc[f] = "removeErr"
    /\ RemoveCsv
    /\ pc' = [pc EXCEPT ![f] = "requeue"]
    /\ UNCHANGED <<buffer, batch, written, table, faults, ghosts>>

\* Flush puts the batch back in front of what arrived since, under bufferMu.
PutBack(f) == buffer' = batch[f] \o buffer

\* ... and returns the error.
Requeue(f) ==
    /\ pc[f] = "requeue"
    /\ PutBack(f)
    /\ batch' = [batch EXCEPT ![f] = <<>>]
    /\ pc' = [pc EXCEPT ![f] = "idle"]
    /\ UNCHANGED <<written, file, table, faults, ghosts>>

\* The requests that only memory holds, or that a Flush still has in hand.
InMemory == Range(buffer) \cup UNION {Range(batch[f]) : f \in Flushers}

\* The process dies and is started again on the same data directory: main
\* has no shutdown path, memory is lost, table and CSV file stay.
\* NewDuckDBStorage looks at the table only.
Crash ==
    /\ buffer' = <<>>
    /\ pc' = [f \in Flushers |-> "idle"]
    /\ batch' = [f \in Flushers |-> <<>>]
    /\ written' = [f \in Flushers |-> 0]
    /\ linked' = {}
    /\ dropped' = dropped \cup InMemory
    /\ UNCHANGED <<csvExists, csv, table, faults, accepted, reported, raced>>

FlushStep(f) ==
    \/ Create(f)   \/ CreateFails(f)
    \/ WriteLine(f) \/ WriteFails(f)
    \/ Copy(f)     \/ CopyRejects(f) \/ CopyFails(f)
    \/ ReturnStored(f)
    \/ RemoveAfterError(f)
    \/ Requeue(f)

Next ==
    \/ \E n \in 1..MaxIngest : \E es \in [1..n -> Events] : AddEvents(es)
    \/ \E f \in Flushers : Take(f) \/ FlushStep(f)
    \/ Crash

Spec == Init /\ [][Next]_vars

\* A started Flush runs on, and the ticker calls Flush again and again; nobody
\* is obliged to call an endpoint.
Fairness ==
    /\ WF_vars(Take(Ticker))
    /\ \A f \in Flushers : WF_vars(FlushStep(f))

FairSpec == Spec /\ Fairness
-------------------------------------------------------------------------------
(***************************************************************************)
(* Safety.                                                                 *)
(***************************************************************************)

\* Whatever the flushers do at the same time, every accepted request is in
\* exactly one place: the buffer, the batch of one Flush, a batch reported as
\* flushed, or among those a crash took.  (The swap and the put-back of Flush
\* under bufferMu, duckdb.go 117-132.)
AcceptedAccounted ==
    /\ IsInjective(buffer)
    /\ \A f \in Flushers :
          /\ IsInjective(batch[f])
          /\ Range(batch[f]) \cap Range(buffer) = {}
          /\ \A g \in Flushers \ {f} : Range(batch[f]) \cap Range(batch[g]) = {}
    /\ InMemory \cap (reported \cup dropped) = {}
    /\ reported \cap dropped = {}
    /\ accepted = InMemory \cup reported \cup dropped

\* As long as no two writeBatch calls overlap, every request reported as
\* flushed has exactly one row, and a request that is still to be flushed, be
\* it for the first time or after errors, has none: a retry duplicates nothing.
\* (The temporary file of duckdb.go 140-145 has one name for all callers.)
ExactlyOnceUnlessRaced ==
    ~raced =>
        /\ IsInjective(table)
        /\ reported \subseteq Range(table)
        /\ Range(buffer) \cap Range(table) = {}
        /\ \A f \in Flushers :
              pc[f] \in Unstored => Range(batch[f]) \cap Range(table) = {}

\* A request a crash took from memory before it had a row never gets one from
\* the CSV file the crash left behind, even when flushers race: every COPY is
\* preceded by the truncation of os.Create (duckdb.go 141).
NoResurrection ==
    [][Range(table') \cap dropped \subseteq Range(table)]_vars

\* README.md 74: the toolkit "stores one row per request".  A request that a
\* Flush reported as written has one row, and no request has two.
OneRowPerRequest ==
    /\ IsInjective(table)
    /\ reported \subseteq Range(table)

-------------------------------------------------------------------------------
(***************************************************************************)
(* Liveness and refinement.                                                *)
(***************************************************************************)

\* README.md 104: the sidecar "buffers them, periodically writes them to
\* DuckDB".  Every accepted request is flushed in the end, unless the process
\* dies first, or a request that COPY rejects is accepted: its batch is put
\* back as a whole (duckdb.go 130), nothing is written any more, and only a
\* restart helps.
EventuallyFlushed ==
    \A e \in Events :
        e \in accepted ~> \/ e \in reported \cup dropped
                          \/ InMemory \cap Poison # {}

\* The batch in hand that has no rows yet (of one flusher, if there is one).
InHand ==
    IF \E f \in Flushers : pc[f] \in Unstored
    THEN batch[CHOOSE f \in Flushers : pc[f] \in Unstored]
    ELSE <<>>

Store == INSTANCE EventStore WITH pending <- InHand \o buffer, stored <- table

\* With the ticker as the only flusher, accepted requests become rows once
\* each and in the order of their arrival, however often a flush fails: a
\* failed batch goes back in front of what arrived since (duckdb.go 130).
StoresInOrder == Store!Spec
===============================================================================
