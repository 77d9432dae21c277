---------------------------- MODULE HubStatistics ----------------------------
(***************************************************************************)
(* The numbers of the live view: RecordEvent, UpdateBufferSize and         *)
(* sendStats of the hub (sidecar-go/realtime/hub.go), the ingest handlers  *)
(* that report to it (handlers/handlers.go) and the background flusher     *)
(* (main.go).  RealtimeHub has the channels by which the messages travel;  *)
(* here a message is what Hub.stats says.                                      *)
(*                                                                         *)
(* The counters are under statsMu, the window of response times is under   *)
(* rttBufferMu, the size shown for the store's buffer is read under the    *)
(* store's lock and written under statsMu: every lock section is a step.   *)
(* Of the store only the size of its buffer is kept.                       *)
(***************************************************************************)
EXTENDS Naturals, Sequences, FiniteSets, SequencesExt

CONSTANTS
    Handlers,     \* goroutines that serve the two ingest endpoints
    Ticker,       \* the background flusher
    Flushers,     \* Ticker and the handlers of the endpoints that flush
    Load,         \* the requests that may come, in this order
    WindowSize,   \* Hub.windowSize (1000)
    Percentiles,  \* of a statistics message (50, 95 and 99)
    BatchSizes,   \* how many requests a batch may hold
    MaxSeconds,   \* bound: the last second of the clock
    MaxFaults     \* bound: flushes that fail

ASSUME StatisticsAssumption ==
    /\ Ticker \in Flushers
    /\ Load \in Seq([rtt : Nat, error : BOOLEAN])
    /\ WindowSize \in Nat \ {0}
    /\ Percentiles \subseteq 0..99
    /\ BatchSizes \subseteq Nat \ {0}
    /\ MaxSeconds \in Nat \ {0} /\ MaxFaults \in Nat

VARIABLES
    clock,      \* seconds
    stage,      \* where a handler is
    single,     \* whether it serves /ingest or /ingest/batch
    todo,       \* the requests it has not recorded
    now,        \* the second RecordEvent read before it took statsMu
    size,       \* the buffer size a handler or the ticker has read
    counts,     \* the counters of Hub.stats, and lastSecond and reqCount
    shown,      \* Hub.stats.BufferSize
    rttBuffer,  \* Hub.rttBuffer
    latency,    \* the average and the percentiles in Hub.stats
    stats,      \* where sendStats is
    values,     \* its copy of the window
    buffer,     \* requests in the store's buffer
    taken,      \* requests a Flush has taken and not yet written
    ticker,     \* where the background flusher is
    faults,     \* failed flushes
    accepted,   \* ghost: requests given to the store
    recorded,   \* ghost: response times in the order in which they were recorded
    stamped,    \* ghost: how many requests were counted for a second
    since       \* ghost: Len(recorded) when sendStats began with its copy

handlerVars == <<stage, single, todo, now>>
hubVars     == <<counts, shown, rttBuffer, latency, stats, values>>
storeVars   == <<buffer, taken, ticker, faults, accepted>>
vars == <<clock, handlerVars, size, hubVars, storeVars, recorded, stamped, since>>

Seconds  == 1..MaxSeconds
Rtts     == {Load[i].rtt : i \in DOMAIN Load}

\* Of a percentile p, the value at index int((n-1)*p/100), counted from 0, of the
\* sorted values.
Percentile(sorted, p) == sorted[((Len(sorted) - 1) * p) \div 100 + 1]
Sorted(s) == SortSeq(s, <)

\* The average is kept as sum and number.
SumOf(s) == FoldSeq(+, 0, s)
Latency(s) == [sum |-> SumOf(s), number |-> Len(s),
               percentile |-> [p \in Percentiles |-> Percentile(Sorted(s), p)]]
NoLatency  == [sum |-> 0, number |-> 0, percentile |-> [p \in Percentiles |-> 0]]

\* The last WindowSize of the first n recorded response times.
WindowAfter(n) == SubSeq(recorded, IF n > WindowSize THEN n - WindowSize + 1 ELSE 1, n)

TypeOK ==
    /\ clock \in Seconds
    /\ stage \in [Handlers -> {"idle", "record", "count", "append", "size", "show"}]
    /\ single \in [Handlers -> BOOLEAN]
    /\ todo \in [Handlers -> Seq(Range(Load))]
    /\ now \in [Handlers -> Seconds \cup {0}]
    /\ size \in [Handlers \cup {Ticker} -> Nat]
    /\ counts \in [total : Nat, errors : Nat, rate : Nat,
                   lastSecond : 0..MaxSeconds, inSecond : Nat]
    /\ shown \in Nat
    /\ rttBuffer \in Seq(Rtts) /\ Len(rttBuffer) <= WindowSize
    /\ latency.number \in 0..WindowSize
    /\ stats \in {"idle", "copied", "done"}
    /\ values \in Seq(Rtts)
    /\ buffer \in Nat /\ taken \in [Flushers -> Nat]
    /\ ticker \in {"flush", "size", "show"}
    /\ faults \in 0..MaxFaults
    \* a handler in the middle of RecordEvent holds the request it records
    /\ \A h \in Handlers : stage[h] \in {"record", "count", "append"} => todo[h] # <<>>

-------------------------------------------------------------------------------
(***************************************************************************)
(* Faulty variants, by which the properties are tested.                    *)
(***************************************************************************)
SlideLate(w, rtt) ==                       \* the length looked at before append
    LET longer == Append(w, rtt) IN IF Len(w) > WindowSize THEN Tail(longer) ELSE longer
CountSuccess(c, request, t) ==             \* an error is counted instead of the request
    [c EXCEPT !.total = IF request.error THEN @ ELSE @ + 1,
              !.errors = IF request.error THEN @ + 1 ELSE @,
              !.rate = IF t # c.lastSecond THEN c.inSecond ELSE @,
              !.inSecond = IF t # c.lastSecond THEN 1 ELSE @ + 1, !.lastSecond = t]
CountInElse(c, request, t) ==              \* the first request of a second is not counted
    [c EXCEPT !.total = IF t # c.lastSecond THEN @ ELSE @ + 1,
              !.errors = IF request.error THEN @ + 1 ELSE @,
              !.rate = IF t # c.lastSecond THEN c.inSecond ELSE @,
              !.inSecond = IF t # c.lastSecond THEN 1 ELSE @ + 1, !.lastSecond = t]
CountFirst(c, request, t) ==               \* reqCount++ before the second is looked at
    [c EXCEPT !.total = @ + 1, !.errors = IF request.error THEN @ + 1 ELSE @,
              !.rate = IF t # c.lastSecond THEN c.inSecond + 1 ELSE @,
              !.inSecond = IF t # c.lastSecond THEN 1 ELSE @ + 1, !.lastSecond = t]
ShowIfAny ==                               \* the ticker shows only what is left over
    /\ ticker = "show"
    /\ shown' = IF size[Ticker] > 0 THEN size[Ticker] ELSE shown
    /\ size' = [size EXCEPT ![Ticker] = 0]
    /\ ticker' = "flush"
    /\ UNCHANGED <<clock, handlerVars, counts, rttBuffer, latency, stats, values,
                   buffer, taken, faults, accepted, recorded, stamped, since>>

-------------------------------------------------------------------------------
Init ==
    /\ clock = 1  \* not the zero value of lastSecond
    /\ stage = [h \in Handlers |-> "idle"]
    /\ single = [h \in Handlers |-> FALSE]
    /\ todo = [h \in Handlers |-> <<>>]
    /\ now = [h \in Handlers |-> 0]
    /\ size = [h \in Handlers \cup {Ticker} |-> 0]
    /\ counts = [total |-> 0, errors |-> 0, rate |-> 0, lastSecond |-> 0, inSecond |-> 0]
    /\ shown = 0
    /\ rttBuffer = <<>>
    /\ latency = NoLatency
    /\ stats = "idle" /\ values = <<>>
    /\ buffer = 0
    /\ taken = [f \in Flushers |-> 0]
    /\ ticker = "flush"
    /\ faults = 0 /\ accepted = 0
    /\ recorded = <<>>
    /\ stamped = [s \in Seconds |-> 0]
    /\ since = 0

Goto(h, s) == stage' = [stage EXCEPT ![h] = s]

SecondPasses ==
    /\ clock < MaxSeconds
    /\ clock' = clock + 1
    /\ UNCHANGED <<handlerVars, size, hubVars, storeVars, recorded, stamped, since>>

-------------------------------------------------------------------------------
(* Ingest handlers. *)

\* HandleIngest and HandleIngestBatch give the requests to the store.
Ingest(h) ==
    /\ stage[h] = "idle"
    /\ \E one \in BOOLEAN : \E n \in IF one THEN {1} ELSE BatchSizes :
          /\ accepted + n <= Len(Load)
          /\ accepted' = accepted + n
          /\ buffer' = buffer + n
          /\ todo' = [todo EXCEPT ![h] = SubSeq(Load, accepted + 1, accepted + n)]
          /\ single' = [single EXCEPT ![h] = one]
    /\ Goto(h, "record")
    /\ UNCHANGED <<clock, now, size, hubVars, taken, ticker, faults, recorded, stamped, since>>

\* RecordEvent reads the clock, ...
ReadClock(h) ==
    /\ stage[h] = "record"
    /\ now' = [now EXCEPT ![h] = clock]
    /\ Goto(h, "count")
    /\ UNCHANGED <<clock, single, todo, size, hubVars, storeVars, recorded, stamped, since>>

\* The counters after one more request, stamped t.
Counted(c, request, t) ==
    LET next == t # c.lastSecond IN
    [total |-> c.total + 1,
     errors |-> IF request.error THEN c.errors + 1 ELSE c.errors,
     rate |-> IF next THEN c.inSecond ELSE c.rate,
     lastSecond |-> t,
     inSecond |-> IF next THEN 1 ELSE c.inSecond + 1]

\* ... counts the request under statsMu ...
Count(h) ==
    /\ stage[h] = "count"
    /\ counts' = Counted(counts, Head(todo[h]), now[h])
    /\ stamped' = [stamped EXCEPT ![now[h]] = @ + 1]
    /\ now' = [now EXCEPT ![h] = 0]
    /\ Goto(h, "append")
    /\ UNCHANGED <<clock, single, todo, size, shown, rttBuffer, latency, stats, values,
                   storeVars, recorded, since>>

\* The window with one more value: the oldest goes when it is full.
Slide(w, rtt) == LET longer == Append(w, rtt) IN IF Len(longer) > WindowSize THEN Tail(longer) ELSE longer

\* ... and adds its response time to the window under rttBufferMu.  HandleIngest is
\* done then (it broadcasts the event and answers); HandleIngestBatch goes on with
\* the next request, and at the end with the buffer size.
AppendRtt(h) ==
    /\ stage[h] = "append"
    /\ rttBuffer' = Slide(rttBuffer, Head(todo[h]).rtt)
    /\ recorded' = Append(recorded, Head(todo[h]).rtt)
    /\ todo' = [todo EXCEPT ![h] = Tail(@)]
    /\ single' = [single EXCEPT ![h] = FALSE]
    /\ Goto(h, IF Len(todo[h]) > 1 THEN "record" ELSE IF single[h] THEN "idle" ELSE "size")
    /\ UNCHANGED <<clock, now, size, counts, shown, latency, stats, values,
                   storeVars, stamped, since>>

\* UpdateBufferSize(BufferSize()): the argument is read first.
ReadSize(h) ==
    /\ stage[h] = "size"
    /\ size' = [size EXCEPT ![h] = buffer]
    /\ Goto(h, "show")
    /\ UNCHANGED <<clock, single, todo, now, hubVars, storeVars, recorded, stamped, since>>

ShowSize(h) ==
    /\ stage[h] = "show"
    /\ shown' = size[h]
    /\ size' = [size EXCEPT ![h] = 0]
    /\ Goto(h, "idle")
    /\ UNCHANGED <<clock, single, todo, now, counts, rttBuffer, latency, stats, values,
                   storeVars, recorded, stamped, since>>

HandlerStep(h) == ReadClock(h) \/ Count(h) \/ AppendRtt(h) \/ ReadSize(h) \/ ShowSize(h)

-------------------------------------------------------------------------------
(* Flushing. *)

\* Flush takes what is in the buffer; the background flusher goes on when there is
\* nothing to take.
Take(f) ==
    /\ taken[f] = 0
    /\ f = Ticker => ticker = "flush"
    /\ IF buffer = 0 THEN f = Ticker /\ ticker' = "size" /\ UNCHANGED <<buffer, taken>>
       ELSE /\ taken' = [taken EXCEPT ![f] = buffer]
            /\ buffer' = 0
            /\ UNCHANGED ticker
    /\ UNCHANGED <<clock, handlerVars, size, hubVars, faults, accepted, recorded, stamped, since>>

\* writeBatch has written what was taken, or it failed and the requests are put back.
Flushed(f) ==
    /\ taken[f] > 0
    /\ taken' = [taken EXCEPT ![f] = 0]
    /\ \/ UNCHANGED <<buffer, faults>>
       \/ /\ faults < MaxFaults
          /\ faults' = faults + 1
          /\ buffer' = buffer + taken[f]
    /\ ticker' = IF f = Ticker THEN "size" ELSE ticker
    /\ UNCHANGED <<clock, handlerVars, size, hubVars, accepted, recorded, stamped, since>>

\* The background flusher then reads the size of the buffer, whether its Flush
\* succeeded or not, and shows it.
TickerReadsSize ==
    /\ ticker = "size"
    /\ size' = [size EXCEPT ![Ticker] = buffer]
    /\ ticker' = "show"
    /\ UNCHANGED <<clock, handlerVars, hubVars, buffer, taken, faults, accepted, recorded, stamped,
                   since>>

TickerShowsSize ==
    /\ ticker = "show"
    /\ shown' = size[Ticker]
    /\ size' = [size EXCEPT ![Ticker] = 0]
    /\ ticker' = "flush"
    /\ UNCHANGED <<clock, handlerVars, counts, rttBuffer, latency, stats, values,
                   buffer, taken, faults, accepted, recorded, stamped, since>>

-------------------------------------------------------------------------------
(* sendStats, which only Run calls. *)

\* calculatePercentiles copies the window under rttBufferMu, unless it is empty, ...
CopyWindow ==
    /\ stats = "idle"
    /\ values' = rttBuffer
    /\ since' = Len(recorded)
    /\ stats' = IF rttBuffer = <<>> THEN "done" ELSE "copied"
    /\ UNCHANGED <<clock, handlerVars, size, counts, shown, rttBuffer, latency, storeVars,
                   recorded, stamped>>

\* ... and writes the results under statsMu.
WriteLatency ==
    /\ stats = "copied"
    /\ latency' = Latency(values)
    /\ values' = <<>>
    /\ stats' = "done"
    /\ UNCHANGED <<clock, handlerVars, size, counts, shown, rttBuffer, storeVars, recorded,
                   stamped, since>>

\* The message is a copy of Hub.stats as it is now.  (Its error_rate is computed from
\* the two counters of the copy; active_vus is written by nobody.)
Publish ==
    /\ stats = "done"
    /\ stats' = "idle"
    /\ since' = 0
    /\ UNCHANGED <<clock, handlerVars, size, counts, shown, rttBuffer, latency, values, storeVars,
                   recorded, stamped>>

SendStats == CopyWindow \/ WriteLatency \/ Publish

Next ==
    \/ SecondPasses
    \/ \E h \in Handlers : Ingest(h) \/ HandlerStep(h)
    \/ \E f \in Flushers : Take(f) \/ Flushed(f)
    \/ TickerReadsSize \/ TickerShowsSize
    \/ SendStats

Spec == Init /\ [][Next]_vars

\* A handler and a flush that have started go on, the background flusher's ticker
\* ticks for ever.  No request has to come.
Fairness ==
    /\ \A h \in Handlers : WF_vars(HandlerStep(h))
    /\ \A f \in Flushers : WF_vars(Flushed(f))
    /\ WF_vars(Take(Ticker)) /\ WF_vars(TickerReadsSize) /\ WF_vars(TickerShowsSize)

FairSpec == Spec /\ Fairness

-------------------------------------------------------------------------------
(***************************************************************************)
(* Properties.                                                             *)
(***************************************************************************)

\* The moments since the running sendStats copied the window.
Moments == {n \in 1..Len(recorded) : n >= since}

\* The live numbers run behind the store and never ahead of it, and belong together
\* although counters and window are under two locks.  No request is counted before the
\* store has it, and each has been counted and is in the window once no handler is at
\* work (handlers.go 57-66, 85-94).  When a message is sent, its average and percentiles
\* are those of one window, the last WindowSize response times at one moment since
\* sendStats began, however many requests were recorded meanwhile, and the requests of
\* that window are among the total_requests of the same message (hub.go 130-158,
\* 168-173, 194-215).
ShownIsStored ==
    /\ TypeOK
    /\ counts.total <= accepted
    /\ (\A h \in Handlers : todo[h] = <<>>) =>
          /\ counts.total = accepted
          /\ counts.errors = Cardinality({i \in 1..accepted : Load[i].error})
          /\ rttBuffer = WindowAfter(accepted)
    /\ stats = "done" /\ latency.number > 0 =>
          \E n \in Moments : n <= counts.total /\ latency = Latency(WindowAfter(n))

\* requests_per_sec is at most the number of requests of one second, although
\* RecordEvent reads the clock before it has the lock and seconds may be counted
\* out of order (hub.go 131-148).
RateIsNeverOverstated ==
    counts.rate > 0 => \E s \in Seconds : counts.rate <= stamped[s]

\* The size shown may be stale, since reading and showing it are two steps of
\* several goroutines (handlers.go 93, main.go 72), but not for ever: in the end it is
\* the size of the buffer.
SizeIsShownInTheEnd == <>[](shown = buffer)
===============================================================================
