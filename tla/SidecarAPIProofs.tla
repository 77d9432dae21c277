--------------------------- MODULE SidecarAPIProofs ---------------------------
(***************************************************************************)
(* Theorems about SidecarAPI: the handlers use the storage only through    *)
(* its operations, so that the theorems of SidecarStorageProofs hold with  *)
(* them, and what a successful /flush-upload guarantees.                   *)
(***************************************************************************)
EXTENDS SidecarAPI, SidecarStorageProofs, FiniteSetTheorems

-------------------------------------------------------------------------------
(***************************************************************************)
(* The storage inside.                                                     *)
(***************************************************************************)

\* A step of the handlers is a step of the storage, or leaves it alone.
LEMMA StepOfStorage == [APINext]_apiVars => [Next]_vars
<1> SUFFICES ASSUME APINext PROVE Next \/ UNCHANGED vars
    BY DEF apiVars, storage
<1>t. Callers \subseteq Flushers /\ Ticker \in Flushers
    BY StorageAssumption DEF Callers
<1>1. CASE Ingest
    BY <1>1 DEF Ingest, Next
<1>2. CASE \E f \in Callers : FlushTakes(f) \/ FlushWorks(f) \/ FlushReturns(f) \/ FlushErrs(f)
    BY <1>2, <1>t DEF FlushTakes, FlushWorks, FlushReturns, FlushErrs, Next, FlushStep
<1>3. CASE \E f \in Callers :
              \/ FlushNothing(f) \/ UploadOpens(f) \/ UploadPuts(f) \/ UploadFails(f)
              \/ Download(f) \/ StatsCounts(f) \/ StatsReadsSize(f)
              \/ \E e \in Endpoints : Call(f, e)
    BY <1>3 DEF FlushNothing, UploadOpens, UploadPuts, UploadFails, Download, StatsCounts,
                StatsReadsSize, Call, storage
<1>4. CASE TickerWorks
    BY <1>4, <1>t DEF TickerWorks, Next
<1>5. CASE APICrash
    BY <1>5 DEF APICrash, Next
<1>6. CASE Checkpoint
    BY <1>6 DEF Checkpoint, storage
<1> QED BY <1>1, <1>2, <1>3, <1>4, <1>5, <1>6 DEF APINext, HandlerStep

\* The handlers, the ticker and crashes together are a behaviour of the
\* storage: what is proved of it holds whichever endpoints are called.
THEOREM StorageInside == APISpec => Spec
<1>1. APIInit => Init
    BY DEF APIInit
<1> QED BY <1>1, StepOfStorage, PTL DEF APISpec, Spec

\* In particular its inductive invariant.
LEMMA StorageInvInside == APISpec => []StorageInv
<1>1. Init => StorageInv
    BY StorageInit
<1>2. StorageInv /\ [Next]_vars => StorageInv'
    BY StorageStep
<1> QED BY <1>1, <1>2, StorageInside, PTL DEF Spec

-------------------------------------------------------------------------------
(***************************************************************************)
(* Beginnings of the table.                                                *)
(***************************************************************************)

IsPrefixOf(s, t) == Len(s) <= Len(t) /\ \A i \in 1..Len(s) : s[i] = t[i]

\* The table only grows, at its end.
LEMMA TableGrows ==
    ASSUME StorageInv, [Next]_vars
    PROVE  table \in Seq(Events) /\ table' \in Seq(Events) /\ IsPrefixOf(table, table')
<1>1. table \in Seq(Events) /\ Len(table) \in Nat
    BY LenProperties DEF StorageInv, AccountInv, TypeOK
<1>2. CASE \E f \in Flushers : Copy(f)
    <2>1. PICK rows \in Seq(Events) : table' = table \o rows
        BY <1>2, CopyAdds
    <2>2. table' \in Seq(Events) /\ Len(table') = Len(table) + Len(rows) /\ Len(rows) \in Nat
        BY <1>1, <2>1, ConcatProperties, LenProperties
    <2>3. \A i \in 1..Len(table) : table'[i] = table[i]
        BY <1>1, <2>1, ConcatProperties, LenProperties
    <2> QED BY <1>1, <2>2, <2>3 DEF IsPrefixOf
<1>3. CASE table' = table
    BY <1>1, <1>3 DEF IsPrefixOf
<1>4. (\E f \in Flushers : Copy(f)) \/ table' = table
    BY DEF Next, FlushStep, AddEvents, Take, Create, CreateFails, WriteLine, WriteFails, CopyRejects, CopyFails,
           ReturnStored, RemoveAfterError, Requeue, Crash, vars
<1> QED BY <1>2, <1>3, <1>4

LEMMA PrefixesChain ==
    ASSUME NEW s \in Seq(Events), NEW t \in Seq(Events), NEW u \in Seq(Events),
           IsPrefixOf(s, t), IsPrefixOf(t, u)
    PROVE  IsPrefixOf(s, u)
<1>1. Len(s) \in Nat /\ Len(t) \in Nat /\ Len(u) \in Nat
    BY LenProperties
<1> QED BY <1>1 DEF IsPrefixOf

LEMMA PrefixesCompare ==
    ASSUME NEW s \in Seq(Events), NEW t \in Seq(Events), NEW u \in Seq(Events),
           IsPrefixOf(s, u), IsPrefixOf(t, u), Len(s) <= Len(t)
    PROVE  IsPrefixOf(s, t)
<1>1. Len(s) \in Nat /\ Len(t) \in Nat /\ Len(u) \in Nat
    BY LenProperties
<1> QED BY <1>1 DEF IsPrefixOf

LEMMA PrefixOfItself ==
    ASSUME NEW s \in Seq(Events)
    PROVE  IsPrefixOf(s, s) /\ IsPrefixOf(<<>>, s)
<1>1. Len(s) \in Nat /\ Len(<<>>) = 0
    BY LenProperties
<1> QED BY <1>1 DEF IsPrefixOf

\* A prefix as the property states it.
LEMMA PrefixIsSubSeq ==
    ASSUME NEW s \in Seq(Events), NEW t \in Seq(Events), IsPrefixOf(s, t)
    PROVE  SubSeq(t, 1, Len(s)) = s
<1> DEFINE n == Len(s)
           p == SubSeq(t, 1, n)
<1>1. n \in Nat /\ Len(t) \in Nat /\ n <= Len(t)
    BY LenProperties DEF IsPrefixOf
<1>2. \A i \in 1..n : t[i] \in Events
    BY <1>1, ElementOfSeq
<1>3. /\ p \in Seq(Events)
      /\ Len(p) = IF 1 <= n THEN n - 1 + 1 ELSE 0
      /\ \A i \in 1..n - 1 + 1 : p[i] = t[1 + i - 1]
    BY <1>1, <1>2, SubSeqProperties
<1>4. Len(p) = n
    BY <1>1, <1>3
<1>5. \A i \in 1..n : p[i] = s[i]
    <2> TAKE i \in 1..n
    <2>1. p[i] = t[i]
        BY <1>1, <1>3
    <2> QED BY <2>1 DEF IsPrefixOf
<1> QED BY <1>3, <1>4, <1>5, SeqEqual

\* The rows in the database file are a beginning of the table, and those that
\* are not in it are in the log.
LEMMA RowsOfTheFile ==
    ASSUME StorageInv, DiskTypeOK
    PROVE  /\ FileRows \in Seq(Events) /\ IsPrefixOf(FileRows, table)
           /\ Len(FileRows) = inFile
           /\ Range(LogRows) \subseteq Events
           /\ Range(table) \subseteq Range(FileRows) \cup Range(LogRows)
<1>1. /\ table \in Seq(Events) /\ Len(table) \in Nat /\ inFile \in 0..Len(table)
      /\ DOMAIN table = 1..Len(table)
    BY LenProperties DEF StorageInv, AccountInv, TypeOK, DiskTypeOK
<1>2. \A i \in 1..Len(table) : table[i] \in Events
    BY <1>1, ElementOfSeq
<1>3. /\ FileRows \in Seq(Events)
      /\ Len(FileRows) = IF 1 <= inFile THEN inFile - 1 + 1 ELSE 0
      /\ \A i \in 1..inFile - 1 + 1 : FileRows[i] = table[1 + i - 1]
    BY <1>1, <1>2, SubSeqProperties DEF FileRows
<1>4. Len(FileRows) = inFile /\ \A i \in 1..inFile : FileRows[i] = table[i]
    BY <1>1, <1>3
<1>5. IsPrefixOf(FileRows, table)
    BY <1>1, <1>4 DEF IsPrefixOf
<1> DEFINE m == inFile + 1
           n == Len(table)
<1>6. /\ LogRows \in Seq(Events)
      /\ Len(LogRows) = IF m <= n THEN n - m + 1 ELSE 0
      /\ \A i \in 1..n - m + 1 : LogRows[i] = table[m + i - 1]
    BY <1>1, <1>2, SubSeqProperties DEF LogRows
<1>7. Range(LogRows) \subseteq Events
    BY <1>6, RangeOfSeq
<1>8. ASSUME NEW i \in 1..Len(table)
      PROVE  table[i] \in Range(FileRows) \cup Range(LogRows)
    <2>1. CASE i <= inFile
        <3>1. i \in DOMAIN FileRows /\ FileRows[i] = table[i]
            BY <1>1, <1>3, <1>4, <2>1, LenProperties
        <3> QED BY <3>1 DEF Range
    <2>2. CASE i > inFile
        <3>1. /\ i - inFile \in 1..n - m + 1 /\ m <= n
              /\ m + (i - inFile) - 1 = i
            BY <1>1, <2>2
        <3>2. Len(LogRows) = n - m + 1
            BY <1>6, <3>1
        <3>3. LogRows[i - inFile] = table[i]
            BY <1>6, <3>1
        <3>4. DOMAIN LogRows = 1..n - m + 1
            BY <1>6, <3>2, LenProperties
        <3> QED BY <3>1, <3>3, <3>4 DEF Range
    <2> QED BY <1>1, <2>1, <2>2
<1>9. Range(table) \subseteq Range(FileRows) \cup Range(LogRows)
    BY <1>1, <1>8 DEF Range
<1> QED BY <1>3, <1>4, <1>5, <1>7, <1>9

-------------------------------------------------------------------------------
(***************************************************************************)
(* What /flush-upload guarantees.                                          *)
(***************************************************************************)

\* A call of /flush-upload begins with requests that are accounted for.
EnterInv(f) ==
    at[f] = "flush" => due[f] \subseteq accepted \ dropped /\ own[f] = {}

\* While its Flush works, what was due is in its own batch, was elsewhere when
\* Flush looked, or has been reported.
WaitInv(f) ==
    at[f] = "wait" => /\ due[f] \subseteq Range(batch[f]) \cup elsewhere[f] \cup reported
                      /\ own[f] = {}

\* Before the file is opened, what was due is reported or was elsewhere.
OpenInv(f) ==
    at[f] = "open" => /\ due[f] \subseteq elsewhere[f] \cup reported
                      /\ own[f] \subseteq reported

\* From then on the rows that were read, or those in the log, hold it.
SeenInv(f) ==
    (at[f] = "put" \/ answer[f] = "ok") /\ ~raced /\ ~torn[f] =>
        /\ due[f] \subseteq elsewhere[f] \cup logged[f] \cup Range(seen[f])
        /\ own[f] \subseteq logged[f] \cup Range(seen[f])

\* A call that has not returned has not answered, and is where its endpoint
\* takes it.
StageInv(f) ==
    /\ answer[f] # "none" => at[f] = "none"
    /\ at[f] = "serve" => kind[f] = "download"
    /\ at[f] \in {"count", "size"} => kind[f] = "stats"

CallerInv(f) ==
    StageInv(f) /\ (Uploads(f) => EnterInv(f) /\ WaitInv(f) /\ OpenInv(f) /\ SeenInv(f))

UploadInv == \A f \in Callers : CallerInv(f)

APIInv == StorageInv /\ CallersTypeOK /\ DiskTypeOK /\ UploadInv

-------------------------------------------------------------------------------
(***************************************************************************)
(* Types.                                                                  *)
(***************************************************************************)

\* The handlers start with nothing.
LEMMA APITypeInit == APIInit => CallersTypeOK
<1> SUFFICES ASSUME APIInit PROVE CallersTypeOK
    OBVIOUS
<1>1. \A f \in Callers : pc[f] = "idle"
    BY DEF APIInit, Init, Callers
<1>2. <<>> \in Seq(Events)
    OBVIOUS
<1> QED BY <1>1, <1>2, APIAssumption DEF APIInit, CallersTypeOK, Endpoints

\* What a step of one flusher leaves alone.
LEMMA FlusherFrame ==
    ASSUME TypeOK, NEW g \in Flushers, Take(g) \/ FlushStep(g)
    PROVE  /\ accepted' = accepted /\ dropped' = dropped
           /\ reported \subseteq reported'
           /\ raced => raced'
           /\ \A f \in Flushers \ {g} : pc'[f] = pc[f] /\ batch'[f] = batch[f]
<1> USE DEF TypeOK, ghosts
<1>1. CASE Take(g)
    BY <1>1 DEF Take
<1>2. CASE Create(g)
    BY <1>2 DEF Create
<1>3. CASE CreateFails(g) \/ WriteLine(g) \/ WriteFails(g) \/ CopyRejects(g) \/ CopyFails(g)
    BY <1>3 DEF CreateFails, WriteLine, WriteFails, CopyRejects, CopyFails
<1>4. CASE Copy(g)
    BY <1>4 DEF Copy, CopyDone
<1>5. CASE ReturnStored(g)
    BY <1>5 DEF ReturnStored
<1>6. CASE RemoveAfterError(g) \/ Requeue(g)
    BY <1>6 DEF RemoveAfterError, Requeue
<1> QED BY <1>1, <1>2, <1>3, <1>4, <1>5, <1>6 DEF FlushStep

\* Until Flush returns, its flusher stays in it with the same batch.
LEMMA WorkingFrame ==
    ASSUME TypeOK, NEW f \in Flushers, FlushStep(f), pc[f] \notin {"removeOk", "requeue"}
    PROVE  pc[f] # "idle" /\ pc'[f] # "idle" /\ batch'[f] = batch[f]
<1> USE DEF TypeOK
<1>1. CASE Create(f) \/ CreateFails(f) \/ WriteLine(f) \/ WriteFails(f)
    BY <1>1 DEF Create, CreateFails, WriteLine, WriteFails
<1>2. CASE Copy(f) \/ CopyRejects(f) \/ CopyFails(f) \/ RemoveAfterError(f)
    BY <1>2 DEF Copy, CopyDone, CopyRejects, CopyFails, RemoveAfterError
<1>3. CASE ReturnStored(f) \/ Requeue(f)
    BY <1>3 DEF ReturnStored, Requeue
<1> QED BY <1>1, <1>2, <1>3 DEF FlushStep

\* No step of a flusher disturbs the handlers of others.
LEMMA APITypeStep ==
    StorageInv /\ TypeOK' /\ CallersTypeOK /\ DiskTypeOK /\ [APINext]_apiVars => CallersTypeOK'
<1> SUFFICES ASSUME StorageInv, TypeOK, TypeOK', CallersTypeOK, DiskTypeOK, [APINext]_apiVars
             PROVE  CallersTypeOK'
    BY DEF StorageInv, AccountInv
<1>t. Callers \subseteq Flushers \ {Ticker} /\ Ticker \in Flushers
    BY StorageAssumption DEF Callers
<1>e. <<>> \in Seq(Events) /\ Len(buffer) \in Nat
    BY LenProperties DEF TypeOK
<1>u. ASSUME NEW f \in Callers PROVE UNION {Range(batch[g]) : g \in Flushers \ {f}} \subseteq Events
    <2>1. \A g \in Flushers : Range(batch[g]) \subseteq Events
        BY RangeOfSeq DEF TypeOK
    <2> QED BY <2>1
<1> USE <1>t, <1>e DEF CallersTypeOK, Endpoints
<1>1. CASE Ingest
    BY <1>1 DEF Ingest, AddEvents, api
<1>2. ASSUME NEW f \in Callers, HandlerStep(f) PROVE CallersTypeOK'
    <2>1. CASE FlushNothing(f)
        <3>1. elsewhere' \in [Callers -> SUBSET Events]
            BY <1>u, <2>1 DEF FlushNothing, LookAtBuffer
        <3>2. /\ at' \in [Callers -> {"none", "flush", "wait", "open", "put", "serve", "count", "size"}]
              /\ answer' \in [Callers -> {"none", "ok", "failed"}]
              /\ \A g \in Callers : at'[g] = "wait" <=> at[g] = "wait"
            BY <2>1 DEF FlushNothing, FlushedOk
        <3> QED BY <2>1, <3>1, <3>2 DEF FlushNothing, storage, vars, memory
    <2>2. CASE FlushTakes(f)
        <3>1. elsewhere' \in [Callers -> SUBSET Events]
            BY <1>u, <2>2 DEF FlushTakes, LookAtBuffer
        <3>2. /\ at' = [at EXCEPT ![f] = "wait"]
              /\ pc' = [pc EXCEPT ![f] = "create"]
            BY <2>2 DEF FlushTakes, Take
        <3> QED BY <2>2, <3>1, <3>2 DEF FlushTakes, TypeOK
    <2>3. CASE FlushWorks(f)
        <3>1. /\ pc[f] # "idle" /\ pc'[f] # "idle"
              /\ \A g \in Callers \ {f} : pc'[g] = pc[g]
            BY <2>3, FlusherFrame, WorkingFrame DEF FlushWorks
        <3>2. UNCHANGED api
            BY <2>3 DEF FlushWorks
        <3> QED BY <3>1, <3>2 DEF api
    <2>4. CASE FlushReturns(f)
        BY <2>4 DEF FlushReturns, ReturnStored, FlushedOk, TypeOK
    <2>5. CASE FlushErrs(f)
        BY <2>5 DEF FlushErrs, Requeue, AfterFlushError, TypeOK
    <2>6. CASE UploadOpens(f) \/ Download(f) \/ StatsCounts(f)
        <3>0. \E rows \in Seq(Events) : seen' = [seen EXCEPT ![f] = rows]
            BY <2>6, RowsOfTheFile DEF UploadOpens, Download, StatsCounts, ReadFile, TypeOK
        <3>1. seen' \in [Callers -> Seq(Events)]
            BY <3>0
        <3>2. /\ at' \in [Callers -> {"none", "flush", "wait", "open", "put", "serve", "count", "size"}]
              /\ answer' \in [Callers -> {"none", "ok", "failed"}]
              /\ \A g \in Callers : at'[g] = "wait" <=> at[g] = "wait"
            BY <2>6 DEF UploadOpens, Download, StatsCounts
        <3>3. UNCHANGED <<pc, kind, left, object, calls, due, own, elsewhere, overtaken>>
            BY <2>6 DEF UploadOpens, Download, StatsCounts, storage, vars, memory
        <3> QED BY <3>1, <3>2, <3>3
    <2>7. CASE UploadPuts(f)
        BY <2>7 DEF UploadPuts, storage, vars, memory
    <2>8. CASE UploadFails(f) \/ StatsReadsSize(f)
        <3>1. UNCHANGED <<storage, kind, seen, object, calls, due, own, elsewhere, overtaken>>
            BY <2>8 DEF UploadFails, StatsReadsSize
        <3>2. left' = left \/ left' = [left EXCEPT ![f] = BufferSize]
            BY <2>8 DEF UploadFails, StatsReadsSize
        <3>3. /\ at[f] \in {"open", "put", "size"} /\ at' = [at EXCEPT ![f] = "none"]
              /\ \E a \in {"ok", "failed"} : answer' = [answer EXCEPT ![f] = a]
            BY <2>8 DEF UploadFails, StatsReadsSize
        <3>4. \A g \in Callers : at'[g] = "wait" <=> at[g] = "wait"
            BY <3>3
        <3>5. /\ at' \in [Callers -> {"none", "flush", "wait", "open", "put", "serve", "count", "size"}]
              /\ answer' \in [Callers -> {"none", "ok", "failed"}]
            BY <3>3
        <3>6. left' \in [Callers -> Nat]
            BY <3>2 DEF BufferSize
        <3>7. pc' = pc
            BY <3>1 DEF storage, vars, memory
        <3> QED BY <3>1, <3>4, <3>5, <3>6, <3>7
    <2> QED BY <1>2, <2>1, <2>2, <2>3, <2>4, <2>5, <2>6, <2>7, <2>8 DEF HandlerStep
<1>3. CASE \E f \in Callers : \E e \in Endpoints : Call(f, e)
    BY <1>3, APIAssumption DEF Call, Enter, storage, vars, memory, ghosts, TypeOK
<1>4. CASE TickerWorks
    <2>1. \A g \in Callers : pc'[g] = pc[g]
        BY <1>4, FlusherFrame DEF TickerWorks
    <2> QED BY <1>4, <2>1 DEF TickerWorks, api
<1>5. CASE APICrash
    BY <1>5 DEF APICrash, Crash
<1>6. CASE UNCHANGED apiVars
    BY <1>6 DEF apiVars, storage, vars, memory, api
<1>7. CASE Checkpoint
    <2>1. UNCHANGED <<storage, kind, at, answer, left, object, calls, due, own, elsewhere, overtaken>>
        BY <1>7 DEF Checkpoint
    <2>2. seen' \in [Callers -> Seq(Events)]
        BY <1>7 DEF Checkpoint, TypeOK
    <2> QED BY <2>1, <2>2 DEF storage, vars, memory
<1> QED BY <1>1, <1>2, <1>3, <1>4, <1>5, <1>6, <1>7 DEF APINext

\* The rows in the file never exceed the table, which only grows.
LEMMA DiskTypeStep ==
    StorageInv /\ DiskTypeOK /\ [APINext]_apiVars => DiskTypeOK' /\ inFile <= inFile'
<1> SUFFICES ASSUME StorageInv, DiskTypeOK, [APINext]_apiVars
             PROVE  DiskTypeOK' /\ inFile <= inFile'
    OBVIOUS
<1>1. Len(table) \in Nat /\ Len(table') \in Nat /\ Len(table) <= Len(table')
    BY StepOfStorage, TableGrows, LenProperties DEF IsPrefixOf
<1>2. Range(LogRows) \subseteq Events
    BY RowsOfTheFile
<1> USE <1>1, <1>2 DEF DiskTypeOK
<1>3. CASE UNCHANGED disk
    BY <1>3 DEF disk
<1>4. ASSUME NEW f \in Callers, UploadOpens(f) \/ \E e \in Endpoints : Call(f, e)
      PROVE  DiskTypeOK' /\ inFile <= inFile'
    <2>1. /\ UNCHANGED <<table, inFile>>
          /\ torn' = torn \/ torn' = [torn EXCEPT ![f] = FALSE]
          /\ \/ logged' = [logged EXCEPT ![f] = Range(LogRows)]
             \/ logged' = [logged EXCEPT ![f] = {}]
        BY <1>4 DEF UploadOpens, Call, storage, vars
    <2>2. logged' \in [Callers -> SUBSET Events]
        BY <2>1
    <2>3. torn' \in [Callers -> BOOLEAN]
        BY <2>1
    <2>4. inFile' \in 0..Len(table') /\ inFile <= inFile'
        BY <2>1
    <2> QED BY <2>2, <2>3, <2>4
<1>5. CASE Checkpoint
    <2>1. table' = table
        BY <1>5 DEF Checkpoint, storage, vars
    <2> QED BY <1>5, <2>1 DEF Checkpoint
<1>6. CASE APICrash
    BY <1>6 DEF APICrash
<1>7. CASE \E f \in Callers : HandlerStep(f) /\ ~UploadOpens(f)
    BY <1>3, <1>7 DEF HandlerStep, FlushNothing, FlushTakes, FlushWorks, FlushReturns, FlushErrs, UploadPuts,
                      UploadFails, Download, StatsCounts, StatsReadsSize, api
<1>8. CASE Ingest \/ TickerWorks \/ UNCHANGED apiVars
    BY <1>3, <1>8 DEF Ingest, TickerWorks, apiVars, api
<1> QED BY <1>4, <1>5, <1>6, <1>7, <1>8 DEF APINext

\* The types of the handlers' state.
LEMMA CallersTypeCorrect == APISpec => [](CallersTypeOK /\ DiskTypeOK)
<1>1. APIInit => CallersTypeOK /\ DiskTypeOK
    BY APITypeInit, LenProperties DEF APIInit, Init, DiskTypeOK
<1>2. StorageInv /\ StorageInv' /\ CallersTypeOK /\ DiskTypeOK /\ [APINext]_apiVars
      => CallersTypeOK'
    BY APITypeStep DEF StorageInv, AccountInv
<1> QED BY <1>1, <1>2, DiskTypeStep, StorageInvInside, PTL DEF APISpec

\* The types of the storage, of the handlers' state and of the database file, which
\* never holds more rows than the table; and a handler waits for
\* Flush (handlers.go 111, 125) exactly while its Flush is at work.
THEOREM APITypeCorrect == APISpec => []APITypeOK
<1>1. StorageInv /\ CallersTypeOK /\ DiskTypeOK => APITypeOK
    BY DEF StorageInv, AccountInv, APITypeOK
<1> QED BY <1>1, StorageInvInside, CallersTypeCorrect, PTL

-------------------------------------------------------------------------------
(***************************************************************************)
(* The upload.                                                             *)
(***************************************************************************)

\* Steps in which a handler takes no part do not disturb what its call relies on.
LEMMA BystanderKeeps ==
    ASSUME NEW f \in Callers, CallerInv(f),
           kind'[f] = kind[f], at'[f] = at[f], answer'[f] = answer[f], seen'[f] = seen[f],
           due'[f] = due[f], own'[f] = own[f], elsewhere'[f] = elsewhere[f],
           logged'[f] = logged[f], torn'[f] = torn[f],
           at[f] = "wait" => batch'[f] = batch[f],
           accepted \ dropped \subseteq accepted' \ dropped',
           reported \subseteq reported',
           raced => raced'
    PROVE  CallerInv(f)'
<1>1. StageInv(f)' /\ (Uploads(f)' <=> Uploads(f))
    BY DEF CallerInv, StageInv, Uploads
<1>2. Uploads(f) => EnterInv(f)' /\ WaitInv(f)' /\ OpenInv(f)' /\ SeenInv(f)'
    BY DEF CallerInv, EnterInv, WaitInv, OpenInv, SeenInv
<1> QED BY <1>1, <1>2 DEF CallerInv

\* Where a call goes when Flush returned no error.
LEMMA FlushedOkAnswers ==
    ASSUME CallersTypeOK, NEW f \in Callers, FlushedOk(f), kind' = kind
    PROVE  /\ Uploads(f) => at'[f] = "open" /\ answer'[f] = "none"
           /\ ~Uploads(f) => \/ at'[f] = "none"
                             \/ at'[f] = "count" /\ kind'[f] = "stats" /\ answer'[f] = "none"
           /\ Uploads(f)' <=> Uploads(f)
<1>1. at'[f] = IF Uploads(f) THEN "open" ELSE IF kind[f] = "stats" THEN "count" ELSE "none"
    BY DEF FlushedOk, CallersTypeOK
<1>2. answer'[f] = IF Uploads(f) \/ kind[f] = "stats" THEN "none" ELSE "ok"
    BY DEF FlushedOk, CallersTypeOK
<1>3. Uploads(f)' <=> Uploads(f)
    BY DEF Uploads
<1> QED BY <1>1, <1>2, <1>3

\* When Flush finds the buffer empty, what was due is stored or elsewhere.
LEMMA FlushNothingKeeps ==
    ASSUME APIInv, NEW f \in Callers, FlushNothing(f)
    PROVE  CallerInv(f)'
<1>t. f \in Flushers
    BY DEF Callers
<1>1. at[f] = "flush" /\ pc[f] = "idle"
    BY DEF FlushNothing, APIInv, CallersTypeOK
<1>2. Range(batch[f]) = {}
    BY <1>t, <1>1, EmptyRange DEF APIInv, StorageInv, AccountInv, IdleHoldsNothing
<1>3. elsewhere'[f] = UNION {Range(batch[g]) : g \in Flushers \ {f}}
    BY DEF FlushNothing, LookAtBuffer, APIInv, CallersTypeOK
<1>4. accepted \ dropped \subseteq elsewhere'[f] \cup reported
    <2>1. InMemory \subseteq elsewhere'[f]
        BY <1>2, <1>3, EmptyRange DEF InMemory, FlushNothing
    <2> QED BY <2>1 DEF APIInv, StorageInv, AccountInv, AcceptedAccounted
<1>5. Uploads(f) => due[f] \subseteq elsewhere'[f] \cup reported /\ own[f] = {}
    BY <1>1, <1>4 DEF APIInv, UploadInv, CallerInv, EnterInv
<1>6. /\ Uploads(f) => at'[f] = "open" /\ answer'[f] = "none"
      /\ ~Uploads(f) => \/ at'[f] = "none"
                        \/ at'[f] = "count" /\ kind'[f] = "stats" /\ answer'[f] = "none"
      /\ Uploads(f)' <=> Uploads(f)
    BY FlushedOkAnswers DEF FlushNothing, APIInv
<1>7. UNCHANGED <<due, own, reported>>
    BY DEF FlushNothing, storage, vars, ghosts
<1> QED BY <1>5, <1>6, <1>7
           DEF CallerInv, StageInv, EnterInv, WaitInv, OpenInv, SeenInv

\* When Flush takes the buffer, what was due is in its batch, stored or elsewhere.
LEMMA FlushTakesKeeps ==
    ASSUME APIInv, NEW f \in Callers, FlushTakes(f)
    PROVE  CallerInv(f)'
<1>t. f \in Flushers
    BY DEF Callers
<1>1. at[f] = "flush" /\ pc[f] = "idle"
    BY DEF FlushTakes, Take
<1>2. Range(batch[f]) = {}
    BY <1>t, <1>1, EmptyRange DEF APIInv, StorageInv, AccountInv, IdleHoldsNothing
<1>3. elsewhere'[f] = UNION {Range(batch[g]) : g \in Flushers \ {f}}
    BY DEF FlushTakes, LookAtBuffer, APIInv, CallersTypeOK
<1>4. batch'[f] = buffer
    BY <1>t DEF FlushTakes, Take, APIInv, StorageInv, AccountInv, TypeOK
<1>5. accepted \ dropped \subseteq Range(batch'[f]) \cup elsewhere'[f] \cup reported
    <2>1. InMemory \subseteq Range(batch'[f]) \cup elsewhere'[f]
        BY <1>2, <1>3, <1>4 DEF InMemory
    <2> QED BY <2>1 DEF APIInv, StorageInv, AccountInv, AcceptedAccounted
<1>6. Uploads(f) =>
          due[f] \subseteq Range(batch'[f]) \cup elsewhere'[f] \cup reported /\ own[f] = {}
    BY <1>1, <1>5 DEF APIInv, UploadInv, CallerInv, EnterInv
<1>7. /\ at'[f] = "wait" /\ answer'[f] = answer[f] /\ answer[f] = "none"
      /\ Uploads(f)' <=> Uploads(f)
    BY <1>1 DEF FlushTakes, Uploads, APIInv, CallersTypeOK, UploadInv, CallerInv, StageInv
<1>8. UNCHANGED <<due, own, reported>>
    BY DEF FlushTakes, Take, ghosts
<1> QED BY <1>6, <1>7, <1>8
           DEF CallerInv, StageInv, EnterInv, WaitInv, OpenInv, SeenInv

\* When Flush returns, its batch is reported; after an error the call ends.
LEMMA FlushEndsKeeps ==
    ASSUME APIInv, NEW f \in Callers, FlushReturns(f) \/ FlushErrs(f)
    PROVE  CallerInv(f)'
<1>1. CASE FlushReturns(f)
    <2>1. /\ reported' = reported \cup Range(batch[f])
          /\ own'[f] = Range(batch[f])
          /\ due' = due /\ elsewhere' = elsewhere
        BY <1>1 DEF FlushReturns, ReturnStored, APIInv, CallersTypeOK
    <2>2. Uploads(f) => /\ due'[f] \subseteq elsewhere'[f] \cup reported'
                        /\ own'[f] \subseteq reported'
        BY <1>1, <2>1 DEF FlushReturns, APIInv, UploadInv, CallerInv, WaitInv
    <2>3. /\ Uploads(f) => at'[f] = "open" /\ answer'[f] = "none"
          /\ ~Uploads(f) => \/ at'[f] = "none"
                            \/ at'[f] = "count" /\ kind'[f] = "stats" /\ answer'[f] = "none"
          /\ Uploads(f)' <=> Uploads(f)
        BY <1>1, FlushedOkAnswers DEF FlushReturns, APIInv
    <2> QED BY <2>2, <2>3 DEF CallerInv, StageInv, EnterInv, WaitInv, OpenInv, SeenInv
<1>2. CASE FlushErrs(f)
    <2>1. /\ at'[f] = IF kind[f] = "stats" THEN "count" ELSE "none"
          /\ answer'[f] = IF kind[f] = "stats" THEN "none" ELSE "failed"
          /\ kind' = kind
        BY <1>2 DEF FlushErrs, AfterFlushError, APIInv, CallersTypeOK
    <2> QED BY <2>1 DEF CallerInv, StageInv, EnterInv, WaitInv, OpenInv, SeenInv, Uploads
<1> QED BY <1>1, <1>2

\* UploadFile reads the table when everything it should hold is stored.
LEMMA UploadKeeps ==
    ASSUME APIInv, NEW f \in Callers, UploadOpens(f) \/ UploadPuts(f) \/ UploadFails(f)
    PROVE  CallerInv(f)'
<1>1. CASE UploadOpens(f)
    <2>1. ~raced => reported \subseteq Range(FileRows) \cup Range(LogRows)
        BY RowsOfTheFile DEF APIInv, StorageInv, ExactlyOnceUnlessRaced
    <2>2. /\ seen'[f] = FileRows /\ logged'[f] = Range(LogRows)
          /\ at[f] = "open" /\ at'[f] = "put"
        BY <1>1 DEF UploadOpens, ReadFile, APIInv, CallersTypeOK, DiskTypeOK
    <2>3. UNCHANGED <<due, own, elsewhere, raced, answer, kind>>
        BY <1>1 DEF UploadOpens, storage, vars, ghosts
    <2>4. answer[f] = "none"
        BY <2>2 DEF APIInv, CallersTypeOK, UploadInv, CallerInv, StageInv
    <2>5. Uploads(f) => SeenInv(f)'
        BY <2>1, <2>2, <2>3 DEF SeenInv, APIInv, UploadInv, CallerInv, OpenInv
    <2>6. Uploads(f)' <=> Uploads(f)
        BY <2>3 DEF Uploads
    <2> QED BY <2>2, <2>3, <2>4, <2>5, <2>6 DEF CallerInv, StageInv, EnterInv, WaitInv, OpenInv
<1>2. CASE UploadPuts(f)
    <2>1. at[f] = "put" /\ at'[f] = "none" /\ answer'[f] = "ok"
        BY <1>2 DEF UploadPuts, APIInv, CallersTypeOK
    <2>2. UNCHANGED <<due, own, elsewhere, raced, kind, seen, logged, torn>>
        BY <1>2 DEF UploadPuts, storage, vars, ghosts, disk
    <2>3. Uploads(f) => SeenInv(f)'
        BY <2>1, <2>2 DEF APIInv, UploadInv, CallerInv, SeenInv
    <2>4. Uploads(f)' <=> Uploads(f)
        BY <2>2 DEF Uploads
    <2> QED BY <2>1, <2>3, <2>4 DEF CallerInv, StageInv, EnterInv, WaitInv, OpenInv
<1>3. CASE UploadFails(f)
    <2>1. at'[f] = "none" /\ answer'[f] = "failed"
        BY <1>3 DEF UploadFails, APIInv, CallersTypeOK
    <2> QED BY <2>1 DEF CallerInv, StageInv, EnterInv, WaitInv, OpenInv, SeenInv
<1> QED BY <1>1, <1>2, <1>3

\* A call begins, or a call of another endpoint goes on.
LEMMA OtherCallKeeps ==
    ASSUME APIInv, NEW f \in Callers, NEW e \in Endpoints,
           \/ Call(f, e)
           \/ Download(f) \/ StatsCounts(f) \/ StatsReadsSize(f)
    PROVE  CallerInv(f)'
<1>1. CASE Call(f, e)
    <2>1. /\ answer'[f] = "none"
          /\ at'[f] = "flush" \/ (at'[f] = "serve" /\ kind'[f] = "download")
          /\ due'[f] = accepted \ dropped /\ own'[f] = {}
        BY <1>1 DEF Call, Enter, APIInv, CallersTypeOK
    <2>2. UNCHANGED <<accepted, dropped>>
        BY <1>1 DEF Call, storage, vars, ghosts
    <2> QED BY <2>1, <2>2 DEF CallerInv, StageInv, EnterInv, WaitInv, OpenInv, SeenInv
<1>2. CASE Download(f)
    <2>1. kind[f] = "download"
        BY <1>2 DEF Download, APIInv, UploadInv, CallerInv, StageInv
    <2>2. at'[f] = "none" /\ kind' = kind
        BY <1>2 DEF Download, APIInv, CallersTypeOK
    <2> QED BY <2>1, <2>2 DEF CallerInv, StageInv, Uploads
<1>3. CASE StatsCounts(f) \/ StatsReadsSize(f)
    <2>1. kind[f] = "stats"
        BY <1>3 DEF StatsCounts, StatsReadsSize, APIInv, UploadInv, CallerInv, StageInv
    <2>2. /\ kind' = kind
          /\ at'[f] = "none" \/ (at'[f] = "size" /\ answer'[f] = "none")
        BY <1>3 DEF StatsCounts, StatsReadsSize, APIInv, CallersTypeOK
    <2> QED BY <2>1, <2>2 DEF CallerInv, StageInv, Uploads
<1> QED BY <1>1, <1>2, <1>3

\* A step of one handler keeps the invariant of all.
LEMMA HandlerKeeps ==
    ASSUME APIInv, NEW f \in Callers, HandlerStep(f) \/ \E e \in Endpoints : Call(f, e)
    PROVE  UploadInv'
<1>t. /\ f \in Flushers /\ Callers \subseteq Flushers
      /\ \A g \in Callers : CallerInv(g)
      /\ TypeOK
    BY DEF Callers, APIInv, UploadInv, StorageInv, AccountInv
<1>1. ASSUME NEW g \in Callers \ {f}
      PROVE  /\ UNCHANGED <<kind[g], at[g], answer[g], seen[g], due[g], own[g], elsewhere[g]>>
             /\ logged'[g] = logged[g] /\ torn'[g] = torn[g]
             /\ batch'[g] = batch[g]
             /\ accepted' = accepted /\ dropped' = dropped
             /\ reported \subseteq reported'
             /\ raced => raced'
    <2> USE DEF APIInv, CallersTypeOK, DiskTypeOK, disk
    <2>1. CASE FlushNothing(f)
        BY <2>1 DEF FlushNothing, FlushedOk, LookAtBuffer, storage, vars, memory, ghosts
    <2>2. CASE FlushTakes(f)
        BY <1>t, <2>2, FlusherFrame DEF FlushTakes, LookAtBuffer
    <2>3. CASE FlushWorks(f)
        BY <1>t, <2>3, FlusherFrame DEF FlushWorks, api
    <2>4. CASE FlushReturns(f) \/ FlushErrs(f)
        <3>1. FlushStep(f)
            BY <2>4 DEF FlushReturns, FlushErrs, FlushStep
        <3>2. /\ UNCHANGED <<kind[g], at[g], answer[g], seen[g], due[g], own[g], elsewhere[g]>>
              /\ logged'[g] = logged[g] /\ torn'[g] = torn[g]
            BY <2>4 DEF FlushReturns, FlushErrs, FlushedOk, AfterFlushError
        <3> QED BY <1>t, <3>1, <3>2, FlusherFrame
    <2>5. CASE UploadOpens(f) \/ UploadPuts(f) \/ UploadFails(f)
        BY <2>5 DEF UploadOpens, UploadPuts, UploadFails, ReadFile, storage, vars, memory, ghosts
    <2>6. CASE Download(f) \/ StatsCounts(f) \/ StatsReadsSize(f)
        BY <2>6 DEF Download, StatsCounts, StatsReadsSize, ReadFile, storage, vars, memory, ghosts
    <2>7. CASE \E e \in Endpoints : Call(f, e)
        BY <2>7 DEF Call, Enter, storage, vars, memory, ghosts
    <2> QED BY <2>1, <2>2, <2>3, <2>4, <2>5, <2>6, <2>7 DEF HandlerStep
<1>2. \A g \in Callers \ {f} : CallerInv(g)'
    BY <1>t, <1>1, BystanderKeeps
<1>3. CASE FlushWorks(f)
    <2>1. /\ batch'[f] = batch[f]
          /\ accepted' = accepted /\ dropped' = dropped
          /\ reported \subseteq reported' /\ (raced => raced')
        BY <1>t, <1>3, FlusherFrame, WorkingFrame DEF FlushWorks
    <2>2. UNCHANGED <<kind[f], at[f], answer[f], seen[f], due[f], own[f], elsewhere[f],
                      logged[f], torn[f]>>
        BY <1>3 DEF FlushWorks, api, disk
    <2>3. CallerInv(f)'
        BY <1>t, <2>1, <2>2, BystanderKeeps
    <2> QED BY <1>2, <2>3 DEF UploadInv
<1>4. CASE HandlerStep(f) /\ ~FlushWorks(f)
    <2>1. "flush" \in Endpoints
        BY DEF Endpoints
    <2>2. CallerInv(f)'
        BY <1>4, <2>1, FlushNothingKeeps, FlushTakesKeeps, FlushEndsKeeps, UploadKeeps,
           OtherCallKeeps DEF HandlerStep
    <2> QED BY <1>2, <2>2 DEF UploadInv
<1>5. CASE \E e \in Endpoints : Call(f, e)
    <2>1. CallerInv(f)'
        BY <1>5, OtherCallKeeps
    <2> QED BY <1>2, <2>1 DEF UploadInv
<1> QED BY <1>3, <1>4, <1>5

\* Every step keeps the invariant.
LEMMA UploadStep == APIInv /\ [APINext]_apiVars => UploadInv'
<1> SUFFICES ASSUME APIInv, [APINext]_apiVars PROVE UploadInv'
    OBVIOUS
<1>t. /\ \A f \in Callers : CallerInv(f) /\ f \in Flushers \ {Ticker}
      /\ Ticker \in Flushers /\ TypeOK
    BY StorageAssumption DEF Callers, APIInv, UploadInv, StorageInv, AccountInv
<1>1. CASE \E f \in Callers : HandlerStep(f) \/ \E e \in Endpoints : Call(f, e)
    BY <1>1, HandlerKeeps
<1>2. CASE Ingest \/ TickerWorks \/ UNCHANGED apiVars
    <2>1. ASSUME NEW f \in Callers
          PROVE  /\ batch'[f] = batch[f]
                 /\ accepted \ dropped \subseteq accepted' \ dropped'
                 /\ reported \subseteq reported'
                 /\ raced => raced'
        <3>1. CASE Ingest
            BY <3>1 DEF Ingest, AddEvents
        <3>2. CASE TickerWorks
            BY <1>t, <3>2, FlusherFrame DEF TickerWorks
        <3>3. CASE UNCHANGED apiVars
            BY <3>3 DEF apiVars, storage, vars, memory, ghosts
        <3> QED BY <1>2, <3>1, <3>2, <3>3
    <2>2. UNCHANGED api
        BY <1>2 DEF Ingest, TickerWorks, apiVars
    <2> QED BY <1>t, <2>1, <2>2, BystanderKeeps DEF UploadInv, api, disk
<1>3. CASE APICrash
    <2>1. \A f \in Callers : at'[f] = "none" /\ answer'[f] = "none"
        BY <1>3 DEF APICrash
    <2> QED BY <2>1 DEF UploadInv, CallerInv, StageInv, EnterInv, WaitInv, OpenInv, SeenInv
<1>4. CASE Checkpoint
    <2>1. ASSUME NEW f \in Callers
          PROVE  CallerInv(f)'
        <3>1. UNCHANGED <<storage, kind, at, answer, due, own, elsewhere, logged>>
            BY <1>4 DEF Checkpoint
        <3>2. /\ torn'[f] <=> torn[f] \/ at[f] = "put"
              /\ at[f] # "put" => seen'[f] = seen[f]
            BY <1>4 DEF Checkpoint
        <3>3. CASE at[f] = "put"
            <4>1. answer[f] = "none" /\ torn'[f]
                BY <1>t, <3>2, <3>3 DEF CallerInv, StageInv, APIInv, CallersTypeOK
            <4>2. StageInv(f)' /\ SeenInv(f)'
                BY <1>t, <3>1, <3>3, <4>1 DEF CallerInv, StageInv, SeenInv
            <4> QED BY <3>1, <3>3, <4>2 DEF CallerInv, EnterInv, WaitInv, OpenInv
        <3>4. CASE at[f] # "put"
            <4>1. torn'[f] = torn[f]
                BY <3>2, <3>4, <1>4 DEF Checkpoint, APIInv, DiskTypeOK
            <4>2. UNCHANGED <<batch, accepted, dropped, reported, raced>>
                BY <3>1 DEF storage, vars, memory, ghosts
            <4> QED BY <1>t, <3>1, <3>2, <3>4, <4>1, <4>2, BystanderKeeps
        <3> QED BY <3>3, <3>4
    <2> QED BY <2>1 DEF UploadInv
<1> QED BY <1>1, <1>2, <1>3, <1>4 DEF APINext

\* The object of a successful /flush-upload lacks rows the call flushed itself
\* only if they were still in DuckDB's log when it opened the database file
\* (s3.go 92), and of what was accepted before the call it lacks only those and
\* what another Flush had in hand when it looked at the buffer: wherever the
\* checkpoints fall (except into the reading of the file), for every number of
\* handlers and requests, with I/O errors, rejected values and restarts.
THEOREM UploadMissesNothingElse == APISpec => []UploadMissesOnlyElsewhere
<1>1. APIInit => UploadInv
    BY DEF APIInit, UploadInv, CallerInv, StageInv, EnterInv, WaitInv, OpenInv, SeenInv
<1>2. StorageInv /\ CallersTypeOK /\ DiskTypeOK /\ UploadInv /\ [APINext]_apiVars => UploadInv'
    BY UploadStep DEF APIInv
<1>3. UploadInv => UploadMissesOnlyElsewhere
    BY DEF UploadInv, CallerInv, SeenInv, UploadMissesOnlyElsewhere, Uploaded
<1> QED BY <1>1, <1>2, <1>3, StorageInvInside, CallersTypeCorrect, PTL DEF APISpec

-------------------------------------------------------------------------------
(***************************************************************************)
(* What the readers of the table have read.                                *)
(***************************************************************************)

\* What was read is a beginning of the table; what was uploaded, or is going to
\* be, one that is in the file; and until another PUT overtakes a call or a
\* checkpoint tears its copy, what it will upload continues the object.
Continues(f) ==
    at[f] = "put" => /\ Len(seen[f]) <= inFile
                     /\ ~overtaken[f] /\ ~torn[f] => IsPrefixOf(object, seen[f])

ReadInv ==
    /\ \A f \in Callers : IsPrefixOf(seen[f], table)
    /\ IsPrefixOf(object, table) /\ Len(object) <= inFile
    /\ \A f \in Callers : Continues(f)

LEMMA ReadInit == APIInit => ReadInv
<1> SUFFICES ASSUME APIInit PROVE ReadInv
    OBVIOUS
<1>1. /\ table = <<>> /\ object = <<>> /\ inFile = 0
      /\ \A f \in Callers : seen[f] = <<>> /\ at[f] = "none"
    BY DEF APIInit, Init
<1>2. IsPrefixOf(<<>>, <<>>) /\ Len(<<>>) <= 0
    BY DEF IsPrefixOf
<1> QED BY <1>1, <1>2 DEF ReadInv, Continues

\* A step that neither reads the file nor uploads nor touches it.
LEMMA NoReadKeeps ==
    ASSUME APIInv, ReadInv, [Next]_vars, UNCHANGED <<object, inFile>>,
           \A f \in Callers :
              \/ IsPrefixOf(seen'[f], table) /\ seen'[f] \in Seq(Events) /\ at'[f] # "put"
              \/ /\ seen'[f] = seen[f]
                 /\ at'[f] = "put" =>
                       at[f] = "put" /\ overtaken'[f] = overtaken[f] /\ torn'[f] = torn[f]
    PROVE  ReadInv'
<1>1. /\ table \in Seq(Events) /\ table' \in Seq(Events) /\ IsPrefixOf(table, table')
      /\ object \in Seq(Events) /\ \A f \in Callers : seen[f] \in Seq(Events)
    BY TableGrows DEF APIInv, CallersTypeOK
<1>2. IsPrefixOf(object', table') /\ Len(object') <= inFile'
    BY <1>1, PrefixesChain DEF ReadInv
<1>3. ASSUME NEW f \in Callers
      PROVE  IsPrefixOf(seen'[f], table')
    <2>1. IsPrefixOf(seen'[f], table) /\ seen'[f] \in Seq(Events)
        BY <1>1 DEF ReadInv
    <2> QED BY <1>1, <2>1, PrefixesChain
<1>4. \A f \in Callers : Continues(f)'
    BY DEF ReadInv, Continues
<1> QED BY <1>2, <1>3, <1>4 DEF ReadInv

LEMMA ReadStep == APIInv /\ ReadInv /\ [APINext]_apiVars => ReadInv'
<1> SUFFICES ASSUME APIInv, ReadInv, [APINext]_apiVars PROVE ReadInv'
    OBVIOUS
<1>0. [Next]_vars
    BY StepOfStorage
<1>t. /\ table \in Seq(Events) /\ object \in Seq(Events) /\ \A f \in Callers : seen[f] \in Seq(Events)
      /\ at \in [Callers -> {"none", "flush", "wait", "open", "put", "serve", "count", "size"}]
      /\ seen \in [Callers -> Seq(Events)] /\ overtaken \in [Callers -> BOOLEAN]
      /\ torn \in [Callers -> BOOLEAN] /\ inFile \in Nat /\ Len(table) \in Nat
    BY LenProperties DEF APIInv, StorageInv, AccountInv, TypeOK, CallersTypeOK, DiskTypeOK
<1>r. /\ FileRows \in Seq(Events) /\ IsPrefixOf(FileRows, table) /\ Len(FileRows) = inFile
      /\ IsPrefixOf(table, table) /\ <<>> \in Seq(Events) /\ IsPrefixOf(<<>>, table)
    BY <1>t, RowsOfTheFile, PrefixOfItself DEF APIInv
<1>1. ASSUME NEW f \in Callers, UploadOpens(f)
      PROVE  ReadInv'
    <2>1. /\ seen' = [seen EXCEPT ![f] = FileRows] /\ UNCHANGED <<table, object, overtaken, inFile, torn>>
          /\ \A g \in Callers \ {f} : at'[g] = at[g]
        BY <1>1, <1>t DEF UploadOpens, ReadFile, storage, vars
    <2>2. seen'[f] = FileRows /\ \A g \in Callers \ {f} : seen'[g] = seen[g]
        BY <1>t, <2>1
    <2>3. IsPrefixOf(object, FileRows)
        BY <1>t, <1>r, PrefixesCompare DEF ReadInv
    <2>4. Continues(f)'
        BY <1>r, <1>t, <2>1, <2>2, <2>3 DEF Continues
    <2>5. \A g \in Callers \ {f} : Continues(g)'
        BY <2>1, <2>2 DEF ReadInv, Continues
    <2> QED BY <1>r, <2>1, <2>2, <2>4, <2>5 DEF ReadInv
<1>2. ASSUME NEW f \in Callers, UploadPuts(f)
      PROVE  ReadInv'
    <2>1. /\ object' = seen[f] /\ UNCHANGED <<table, seen, inFile>> /\ at[f] = "put"
          /\ overtaken' = [g \in Callers |-> overtaken[g] \/ (g # f /\ at[g] = "put")]
          /\ at' = [at EXCEPT ![f] = "none"]
        BY <1>2 DEF UploadPuts, storage, vars, disk
    <2>2. \A g \in Callers : at'[g] = "put" => overtaken'[g] /\ at[g] = "put"
        <3> TAKE g \in Callers
        <3>1. CASE g = f
            BY <1>t, <2>1, <3>1
        <3>2. CASE g # f
            <4>1. at'[g] = at[g]
                BY <1>t, <2>1, <3>2
            <4>2. overtaken'[g] <=> overtaken[g] \/ (g # f /\ at[g] = "put")
                BY <2>1, Zenon
            <4> QED BY <3>2, <4>1, <4>2, Zenon
        <3> QED BY <3>1, <3>2
    <2>3. /\ \A g \in Callers : IsPrefixOf(seen[g], table)
          /\ IsPrefixOf(seen[f], table) /\ Len(seen[f]) <= inFile
        BY <2>1 DEF ReadInv, Continues
    <2>4. \A g \in Callers : Continues(g)'
        BY <2>1, <2>2 DEF ReadInv, Continues
    <2> QED BY <2>1, <2>3, <2>4 DEF ReadInv
<1>3. ASSUME NEW f \in Callers, NEW e \in Endpoints, Call(f, e)
      PROVE  ReadInv'
    <2>1. /\ UNCHANGED <<object, inFile>>
          /\ seen' = [seen EXCEPT ![f] = <<>>]
          /\ at' = [at EXCEPT ![f] = IF e = "download" THEN "serve" ELSE "flush"]
          /\ overtaken' = [overtaken EXCEPT ![f] = FALSE]
          /\ torn' = [torn EXCEPT ![f] = FALSE]
        BY <1>3 DEF Call, Enter
    <2>2. seen'[f] = <<>> /\ at'[f] # "put"
        BY <1>t, <2>1
    <2>3. \A g \in Callers \ {f} : /\ seen'[g] = seen[g] /\ at'[g] = at[g]
                                   /\ overtaken'[g] = overtaken[g] /\ torn'[g] = torn[g]
        BY <1>t, <2>1
    <2> QED BY <1>0, <1>r, <2>1, <2>2, <2>3, NoReadKeeps
<1>4. CASE APICrash
    <2>1. UNCHANGED <<object, inFile>> /\ \A f \in Callers : seen'[f] = <<>> /\ at'[f] # "put"
        BY <1>4 DEF APICrash
    <2> QED BY <1>0, <1>r, <2>1, NoReadKeeps
<1>5. ASSUME NEW f \in Callers, \/ FlushNothing(f) \/ FlushTakes(f) \/ FlushReturns(f) \/ FlushErrs(f)
                                \/ UploadFails(f) \/ StatsReadsSize(f)
      PROVE  ReadInv'
    <2>1. /\ UNCHANGED <<object, seen, overtaken, inFile, torn>> /\ at'[f] # "put"
          /\ \A g \in Callers \ {f} : at'[g] = at[g]
        BY <1>5, <1>t DEF FlushNothing, FlushTakes, FlushReturns, FlushErrs, UploadFails, StatsReadsSize,
                          FlushedOk, AfterFlushError, disk
    <2> QED BY <1>0, <2>1, NoReadKeeps
<1>6. CASE Ingest \/ TickerWorks \/ (\E f \in Callers : FlushWorks(f)) \/ UNCHANGED apiVars
    <2>1. UNCHANGED api
        BY <1>6 DEF Ingest, TickerWorks, FlushWorks, apiVars
    <2> QED BY <1>0, <2>1, NoReadKeeps DEF api, disk
<1>7. ASSUME NEW f \in Callers, Download(f) \/ StatsCounts(f)
      PROVE  ReadInv'
    <2>1. /\ UNCHANGED <<object, overtaken, inFile, torn>> /\ at'[f] # "put"
          /\ seen'[f] = FileRows \/ seen'[f] = table
          /\ \A g \in Callers \ {f} : at'[g] = at[g] /\ seen'[g] = seen[g]
        BY <1>7, <1>t DEF Download, StatsCounts, ReadFile, disk
    <2> QED BY <1>0, <1>t, <1>r, <2>1, NoReadKeeps
<1>8. CASE Checkpoint
    <2>1. /\ inFile' = Len(table) /\ inFile < Len(table) /\ UNCHANGED <<table, object, at>>
          /\ \A g \in Callers : torn'[g] <=> torn[g] \/ at[g] = "put"
          /\ \A g \in Callers : seen'[g] = <<>> \/ seen'[g] = table \/ seen'[g] = seen[g]
        BY <1>8 DEF Checkpoint, storage, vars
    <2>2. \A g \in Callers : IsPrefixOf(seen'[g], table)
        BY <1>r, <2>1 DEF ReadInv
    <2>3. \A g \in Callers : Len(seen'[g]) <= Len(table)
        BY <2>2 DEF IsPrefixOf
    <2>4. \A g \in Callers : Continues(g)'
        BY <2>1, <2>3 DEF Continues
    <2>5. Len(object) <= Len(table)
        BY DEF ReadInv, IsPrefixOf
    <2> QED BY <2>1, <2>2, <2>4, <2>5 DEF ReadInv
<1> QED BY <1>1, <1>2, <1>3, <1>4, <1>5, <1>6, <1>7, <1>8 DEF APINext, HandlerStep

\* All that is known of the handlers.
LEMMA HandlersInv == APISpec => [](APIInv /\ ReadInv)
<1>1. APIInit => UploadInv
    BY DEF APIInit, UploadInv, CallerInv, StageInv, EnterInv, WaitInv, OpenInv, SeenInv
<1>2. StorageInv /\ CallersTypeOK /\ DiskTypeOK /\ UploadInv /\ [APINext]_apiVars => UploadInv'
    BY UploadStep DEF APIInv
<1>3. StorageInv /\ CallersTypeOK /\ DiskTypeOK /\ UploadInv <=> APIInv
    BY DEF APIInv
<1> QED BY <1>1, <1>2, <1>3, ReadInit, ReadStep, StorageInvInside, CallersTypeCorrect, PTL DEF APISpec

\* A PUT takes no row of the object back that no other PUT has overtaken and no
\* checkpoint has torn: DuckDB's log goes to the file in the order of the
\* commits, so that what the call read continues what was uploaded last
\* (handlers.go 141, s3.go 92).
THEOREM UploadsOnlyExtend == APISpec => ObjectLosesRowsOnlyToOvertaking
<1>1. ASSUME APIInv, ReadInv, NEW f \in Callers, UploadPuts(f), ~overtaken[f], ~torn[f]
      PROVE  Len(object) <= Len(object') /\ SubSeq(object', 1, Len(object)) = object
    <2>1. object' = seen[f] /\ at[f] = "put"
        BY <1>1 DEF UploadPuts
    <2>2. object \in Seq(Events) /\ seen[f] \in Seq(Events) /\ IsPrefixOf(object, seen[f])
        BY <1>1, <2>1 DEF APIInv, CallersTypeOK, ReadInv, Continues
    <2> QED BY <2>1, <2>2, PrefixIsSubSeq DEF IsPrefixOf
<1>2. APIInv /\ ReadInv /\ [APINext]_apiVars
      => [\A f \in Callers : UploadPuts(f) /\ ~overtaken[f] /\ ~torn[f] =>
            /\ Len(object) <= Len(object')
            /\ SubSeq(object', 1, Len(object)) = object]_apiVars
    BY <1>1
<1> QED BY <1>2, HandlersInv, PTL DEF APISpec, ObjectLosesRowsOnlyToOvertaking

-------------------------------------------------------------------------------
(***************************************************************************)
(* The numbers of /stats.                                                  *)
(***************************************************************************)

\* A sequence that repeats nothing is as long as it has elements.
LEMMA LengthOfInjective ==
    ASSUME NEW S, NEW s \in Seq(S), IsInjective(s)
    PROVE  IsFiniteSet(Range(s)) /\ Cardinality(Range(s)) = Len(s)
<1>1. Len(s) \in Nat /\ DOMAIN s = 1..Len(s)
    BY LenProperties
<1>2. s \in Bijection(1..Len(s), Range(s))
    <2>1. s \in Surjection(1..Len(s), Range(s))
        BY <1>1 DEF Surjection, Range
    <2>2. s \in Injection(1..Len(s), Range(s))
        BY <1>1 DEF Injection, IsInjective, Range
    <2> QED BY <2>1, <2>2 DEF Bijection
<1>3. IsFiniteSet(1..Len(s)) /\ Cardinality(1..Len(s)) = Len(s)
    BY <1>1, FS_Interval
<1>4. ExistsBijection(1..Len(s), Range(s))
    BY <1>2 DEF ExistsBijection
<1> QED BY <1>3, <1>4, FS_Bijection

\* The accepted requests are finitely many, a call reads the file only to
\* upload it, and an answer of /stats counts at most what has been accepted.
StatsInv ==
    /\ IsFiniteSet(accepted)
    /\ \A f \in Callers : at[f] \in {"open", "put"} => kind[f] = "upload"
    /\ StatsCountNothingTwice

\* What has rows and what is in the buffer are different accepted requests, so
\* that the rows some earlier moment saw and the buffer do not exceed them.
LEMMA RowsAndBufferCount ==
    ASSUME StorageInv, IsFiniteSet(accepted), ~raced,
           NEW s \in Seq(Events), IsPrefixOf(s, table)
    PROVE  Len(s) + Len(buffer) <= Cardinality(accepted)
<1>1. /\ table \in Seq(Events) /\ IsInjective(table)
      /\ buffer \in Seq(Events) /\ IsInjective(buffer)
      /\ Range(buffer) \cap Range(table) = {}
      /\ Range(table) \subseteq accepted /\ Range(buffer) \subseteq accepted
    BY BatchIsAccepted DEF StorageInv, AccountInv, TypeOK, AcceptedAccounted, InMemory,
                           ExactlyOnceUnlessRaced, FileOrigin
<1>2. IsFiniteSet(Range(table)) /\ Cardinality(Range(table)) = Len(table)
    BY <1>1, LengthOfInjective
<1>3. IsFiniteSet(Range(buffer)) /\ Cardinality(Range(buffer)) = Len(buffer)
    BY <1>1, LengthOfInjective
<1>4. Cardinality(Range(table) \cup Range(buffer))
          = Cardinality(Range(table)) + Cardinality(Range(buffer))
            - Cardinality(Range(table) \cap Range(buffer))
    BY <1>2, <1>3, FS_Union
<1>5. Range(table) \cap Range(buffer) = {} /\ Cardinality({}) = 0
    BY <1>1, FS_EmptySet
<1>6. /\ Range(table) \cup Range(buffer) \in SUBSET accepted
      /\ Cardinality(Range(table) \cup Range(buffer)) <= Cardinality(accepted)
    BY <1>1, FS_Subset
<1>7. /\ Len(s) \in Nat /\ Len(table) \in Nat /\ Len(buffer) \in Nat
      /\ Len(s) <= Len(table) /\ Cardinality(accepted) \in Nat
    BY <1>1, LenProperties, FS_CardinalityType DEF IsPrefixOf
<1>8. Cardinality(Range(table) \cup Range(buffer)) = Len(table) + Len(buffer)
    <2>1. Cardinality(Range(table) \cap Range(buffer)) = 0
        BY <1>5
    <2>2. \A a, b \in Nat : a + b - 0 = a + b
        OBVIOUS
    <2> QED BY <1>2, <1>3, <1>4, <1>7, <2>1, <2>2
<1> QED BY <1>6, <1>7, <1>8

\* A step that gives no new answer of /stats and forgets no accepted request.
LEMMA NoAnswerKeeps ==
    ASSUME StatsInv, CallersTypeOK,
           accepted \subseteq accepted', IsFiniteSet(accepted'), raced => raced',
           \A f \in Callers : at'[f] \in {"open", "put"} => kind'[f] = "upload",
           \A f \in Callers : \/ kind'[f] # "stats"
                              \/ answer'[f] # "ok"
                              \/ /\ kind'[f] = kind[f] /\ answer'[f] = answer[f]
                                 /\ seen'[f] = seen[f] /\ left'[f] = left[f]
    PROVE  StatsInv'
<1>1. Cardinality(accepted) \in Nat /\ Cardinality(accepted') \in Nat
      /\ Cardinality(accepted) <= Cardinality(accepted')
    BY FS_CardinalityType, FS_Subset DEF StatsInv
<1>2. ASSUME ~raced', NEW f \in Callers, kind'[f] = "stats", answer'[f] = "ok"
      PROVE  Len(seen'[f]) + left'[f] <= Cardinality(accepted')
    <2>1. kind[f] = "stats" /\ answer[f] = "ok" /\ seen'[f] = seen[f] /\ left'[f] = left[f]
        BY <1>2
    <2>2. Len(seen[f]) + left[f] <= Cardinality(accepted)
        BY <1>2, <2>1 DEF StatsInv, StatsCountNothingTwice
    <2>3. Len(seen[f]) \in Nat /\ left[f] \in Nat
        BY LenProperties DEF CallersTypeOK
    <2> QED BY <1>1, <2>1, <2>2, <2>3
<1>3. StatsCountNothingTwice'
    BY <1>2 DEF StatsCountNothingTwice
<1> QED BY <1>3 DEF StatsInv

LEMMA StatsStep == APIInv /\ ReadInv /\ StatsInv /\ [APINext]_apiVars => StatsInv'
<1> SUFFICES ASSUME APIInv, ReadInv, StatsInv, [APINext]_apiVars PROVE StatsInv'
    OBVIOUS
<1>t. /\ CallersTypeOK /\ TypeOK /\ StorageInv
      /\ IsFiniteSet(accepted)
      /\ \A f \in Callers : at[f] \in {"open", "put"} => kind[f] = "upload"
      /\ \A f \in Callers : StageInv(f)
      /\ Callers \subseteq Flushers /\ Ticker \in Flushers
    BY StorageAssumption DEF APIInv, StorageInv, AccountInv, StatsInv, UploadInv, CallerInv, Callers
<1>k. /\ at \in [Callers -> {"none", "flush", "wait", "open", "put", "serve", "count", "size"}]
      /\ answer \in [Callers -> {"none", "ok", "failed"}]
      /\ kind \in [Callers -> Endpoints \cup {"none"}]
      /\ left \in [Callers -> Nat] /\ seen \in [Callers -> Seq(Events)]
    BY <1>t DEF CallersTypeOK
<1>1. CASE Ingest
    <2>0. PICK n \in 1..MaxIngest : \E es \in [1..n -> Events] : AddEvents(es)
        BY <1>1 DEF Ingest
    <2>1. PICK es \in [1..n -> Events] : AddEvents(es)
        BY <2>0
    <2>2. es \in Seq(Events) /\ IsInjective(es)
        BY <2>1 DEF AddEvents
    <2>3. accepted' = accepted \cup Range(es) /\ raced' = raced /\ UNCHANGED api
        BY <1>1, <2>1 DEF Ingest, AddEvents
    <2>4. IsFiniteSet(Range(es))
        BY <2>2, LengthOfInjective
    <2>5. IsFiniteSet(accepted')
        BY <1>t, <2>3, <2>4, FS_Union
    <2> QED BY <1>t, <2>3, <2>5, NoAnswerKeeps DEF api
<1>2. ASSUME NEW f \in Callers, StatsReadsSize(f)
      PROVE  StatsInv'
    <2>1. /\ left' = [left EXCEPT ![f] = Len(buffer)]
          /\ answer' = [answer EXCEPT ![f] = "ok"] /\ at' = [at EXCEPT ![f] = "none"]
          /\ UNCHANGED <<kind, seen, accepted, raced>>
        BY <1>2 DEF StatsReadsSize, BufferSize, storage, vars, ghosts
    <2>2. left'[f] = Len(buffer) /\ \A g \in Callers \ {f} : left'[g] = left[g] /\ answer'[g] = answer[g]
        BY <1>k, <2>1
    <2>3. \A g \in Callers : at'[g] \in {"open", "put"} => kind'[g] = "upload"
        BY <1>k, <1>t, <2>1
    <2>4. seen[f] \in Seq(Events) /\ IsPrefixOf(seen[f], table)
        BY <1>k DEF ReadInv
    <2>5. ~raced => Len(seen[f]) + Len(buffer) <= Cardinality(accepted)
        BY <1>t, <2>4, RowsAndBufferCount
    <2>6. ASSUME ~raced', NEW g \in Callers, kind'[g] = "stats", answer'[g] = "ok"
          PROVE  Len(seen'[g]) + left'[g] <= Cardinality(accepted')
        <3>1. CASE g = f
            BY <2>1, <2>2, <2>5, <2>6, <3>1
        <3>2. CASE g # f
            BY <2>1, <2>2, <2>6, <3>2 DEF StatsInv, StatsCountNothingTwice
        <3> QED BY <3>1, <3>2
    <2>7. StatsCountNothingTwice'
        BY <2>6 DEF StatsCountNothingTwice
    <2> QED BY <1>t, <2>1, <2>3, <2>7 DEF StatsInv
<1>3. ASSUME NEW f \in Callers, FlushTakes(f) \/ FlushWorks(f) \/ FlushReturns(f) \/ FlushErrs(f)
      PROVE  StatsInv'
    <2>1. accepted' = accepted /\ (raced => raced')
        BY <1>3, <1>t, FlusherFrame DEF FlushTakes, FlushWorks, FlushReturns, FlushErrs, FlushStep
    <2>2. UNCHANGED <<kind, seen, left>>
        BY <1>3 DEF FlushTakes, FlushWorks, FlushReturns, FlushErrs, api
    <2>3. /\ \A g \in Callers \ {f} : at'[g] = at[g] /\ answer'[g] = answer[g]
          /\ \/ at'[f] = at[f] /\ answer'[f] = answer[f]
             \/ at'[f] = "wait" /\ answer'[f] = answer[f]
             \/ /\ at'[f] \in {"open", "put"} => kind[f] = "upload"
                /\ kind[f] = "stats" => answer'[f] # "ok"
        BY <1>3, <1>k DEF FlushTakes, FlushWorks, FlushReturns, FlushErrs, FlushedOk, AfterFlushError,
                          Uploads, api
    <2> QED BY <1>t, <2>1, <2>2, <2>3, NoAnswerKeeps
<1>4. ASSUME NEW f \in Callers, \/ FlushNothing(f) \/ UploadOpens(f) \/ UploadPuts(f) \/ UploadFails(f)
                                \/ Download(f) \/ StatsCounts(f)
      PROVE  StatsInv'
    <2>1. UNCHANGED <<accepted, raced, kind, left>>
        BY <1>4 DEF FlushNothing, UploadOpens, UploadPuts, UploadFails, Download, StatsCounts,
                    storage, vars, ghosts
    <2>2. /\ \A g \in Callers \ {f} : at'[g] = at[g] /\ answer'[g] = answer[g] /\ seen'[g] = seen[g]
          /\ at'[f] \in {"open", "put"} => kind[f] = "upload"
          /\ kind[f] = "stats" => answer'[f] # "ok"
        <3>1. CASE FlushNothing(f)
            BY <3>1, <1>k DEF FlushNothing, FlushedOk, Uploads
        <3>2. CASE UploadOpens(f) \/ UploadPuts(f) \/ UploadFails(f)
            <4>1. at[f] \in {"open", "put"} /\ kind[f] = "upload"
                BY <3>2, <1>t DEF UploadOpens, UploadPuts, UploadFails
            <4> QED BY <3>2, <4>1, <1>k DEF UploadOpens, UploadPuts, UploadFails, ReadFile
        <3>3. CASE Download(f)
            <4>1. kind[f] = "download"
                BY <3>3, <1>t DEF Download, StageInv
            <4> QED BY <3>3, <4>1, <1>k DEF Download, ReadFile
        <3>4. CASE StatsCounts(f)
            BY <3>4, <1>k DEF StatsCounts, ReadFile
        <3> QED BY <1>4, <3>1, <3>2, <3>3, <3>4
    <2> QED BY <1>t, <2>1, <2>2, NoAnswerKeeps
<1>5. ASSUME NEW f \in Callers, NEW e \in Endpoints, Call(f, e)
      PROVE  StatsInv'
    <2>1. /\ UNCHANGED <<accepted, raced>>
          /\ kind' = [kind EXCEPT ![f] = e] /\ seen' = [seen EXCEPT ![f] = <<>>]
          /\ at' = [at EXCEPT ![f] = IF e = "download" THEN "serve" ELSE "flush"]
          /\ answer' = [answer EXCEPT ![f] = "none"] /\ left' = [left EXCEPT ![f] = 0]
        BY <1>5 DEF Call, Enter, storage, vars, ghosts
    <2>2. answer'[f] # "ok" /\ at'[f] \notin {"open", "put"}
        BY <1>k, <2>1
    <2>3. \A g \in Callers \ {f} : /\ kind'[g] = kind[g] /\ seen'[g] = seen[g] /\ at'[g] = at[g]
                                   /\ answer'[g] = answer[g] /\ left'[g] = left[g]
        BY <1>k, <2>1
    <2> QED BY <1>t, <2>1, <2>2, <2>3, NoAnswerKeeps
<1>6. CASE TickerWorks \/ UNCHANGED apiVars
    <2>1. accepted' = accepted /\ (raced => raced')
        BY <1>6, <1>t, FlusherFrame DEF TickerWorks, apiVars, storage, vars, ghosts
    <2>2. UNCHANGED api
        BY <1>6 DEF TickerWorks, apiVars
    <2> QED BY <1>t, <2>1, <2>2, NoAnswerKeeps DEF api
<1>7. CASE APICrash
    <2>1. /\ accepted' = accepted /\ raced' = raced
          /\ \A f \in Callers : at'[f] = "none" /\ answer'[f] = "none"
        BY <1>7 DEF APICrash, Crash
    <2> QED BY <1>t, <2>1, NoAnswerKeeps
<1>8. CASE Checkpoint
    <2>1. /\ UNCHANGED <<accepted, raced, kind, at, answer, left>>
          /\ \A f \in Callers : at[f] # "put" => seen'[f] = seen[f]
        BY <1>8 DEF Checkpoint, storage, vars, ghosts
    <2>2. \A f \in Callers : at[f] = "put" => kind[f] # "stats"
        BY <1>t
    <2> QED BY <1>t, <2>1, <2>2, NoAnswerKeeps
<1> QED BY <1>1, <1>2, <1>3, <1>4, <1>5, <1>6, <1>7, <1>8 DEF APINext, HandlerStep

\* As long as writeBatch calls do not overlap, the rows and the buffer of an
\* answer of /stats are never more than what was accepted, although the buffer
\* is read after the rows were counted (handlers.go 186-205): a request leaves
\* the buffer before it has a row, and comes back to it only without one.
THEOREM StatsNeverCountTwice == APISpec => []StatsCountNothingTwice
<1>1. APIInit => StatsInv
    BY FS_EmptySet DEF APIInit, Init, StatsInv, StatsCountNothingTwice
<1>2. StatsInv => StatsCountNothingTwice
    BY DEF StatsInv
<1> QED BY <1>1, <1>2, StatsStep, HandlersInv, PTL DEF APISpec

=============================================================================
