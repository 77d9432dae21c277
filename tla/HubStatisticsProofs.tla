------------------------- MODULE HubStatisticsProofs -------------------------
(***************************************************************************)
(* Theorems about HubStatistics, for every set of handlers and flushers,   *)
(* every load, every size of the window and every percentile.              *)
(*                                                                         *)
(* What is hard is that the counters and the window are under two locks    *)
(* while several handlers record.  StatInv follows each accepted request   *)
(* by its place in Load: a handler holds an interval of them, the          *)
(* intervals share nothing, and what no handler holds is in the counters   *)
(* and has been in the window.                                             *)
(***************************************************************************)
EXTENDS HubStatistics, SequenceTheorems, FiniteSetTheorems, TLAPS

-------------------------------------------------------------------------------
(***************************************************************************)
(* The inductive invariant.                                                *)
(***************************************************************************)

\* The requests handler h has not recorded, if the first of them is first[h].
Held(first, h) == first[h]..(first[h] + Len(todo[h]) - 1)

\* Those it has not counted.
Uncounted(first, h) ==
    IF stage[h] = "append" THEN Held(first, h) \ {first[h]} ELSE Held(first, h)

CountedBy(first)  == {i \in 1..accepted : \A h \in Handlers : i \notin Uncounted(first, h)}
RecordedBy(first) == {i \in 1..accepted : \A h \in Handlers : i \notin Held(first, h)}

Errors(S) == {i \in S : Load[i].error}

\* The handlers hold different requests, and the counters and the window have
\* had the others.
Shares(first) ==
    /\ \A h \in Handlers :
          /\ Held(first, h) \subseteq 1..accepted
          /\ \A k \in 1..Len(todo[h]) : todo[h][k] = Load[first[h] + k - 1]
    /\ \A g, h \in Handlers : g # h => Held(first, g) \cap Held(first, h) = {}
    /\ counts.total = Cardinality(CountedBy(first))
    /\ counts.errors = Cardinality(Errors(CountedBy(first)))
    /\ Len(recorded) = Cardinality(RecordedBy(first))

ShareInv ==
    /\ accepted \in 0..Len(Load)
    /\ \A h \in Handlers : stage[h] \notin {"record", "count", "append"} => todo[h] = <<>>
    /\ \E first \in [Handlers -> 1..accepted + 1] : Shares(first)

WindowInv ==
    /\ recorded \in Seq(Rtts)
    /\ rttBuffer = WindowAfter(Len(recorded))

\* The copy of the window is that of one moment, and so is what is shown of it.
MessageInv ==
    /\ since \in 0..Len(recorded)
    /\ stats = "copied" => since > 0 /\ values = WindowAfter(since)
    /\ latency.number > 0 => recorded # <<>>
    /\ stats = "done" /\ latency.number > 0 =>
          \E n \in Moments : latency = Latency(WindowAfter(n))

RateInv ==
    /\ stamped \in [Seconds -> Nat]
    /\ \A h \in Handlers : stage[h] = "count" => now[h] \in Seconds
    /\ counts.inSecond > 0 => /\ counts.lastSecond \in Seconds
                              /\ counts.inSecond <= stamped[counts.lastSecond]
    /\ RateIsNeverOverstated

StatInv ==
    /\ TypeOK
    /\ ShareInv
    /\ WindowInv
    /\ MessageInv
    /\ RateInv

-------------------------------------------------------------------------------
(***************************************************************************)
(* The window.                                                             *)
(***************************************************************************)

\* WindowAfter for any sequence.
LastOf(s, n) == SubSeq(s, IF n > WindowSize THEN n - WindowSize + 1 ELSE 1, n)
Shorter(n)   == IF n > WindowSize THEN WindowSize ELSE n

LEMMA LastOfProperties ==
    ASSUME NEW S, NEW s \in Seq(S), NEW n \in 0..Len(s)
    PROVE  /\ LastOf(s, n) \in Seq(S)
           /\ Len(LastOf(s, n)) = Shorter(n)
           /\ \A i \in 1..Shorter(n) : LastOf(s, n)[i] = s[n - Shorter(n) + i]
<1> DEFINE m == IF n > WindowSize THEN n - WindowSize + 1 ELSE 1
<1>1. Len(s) \in Nat /\ n \in Nat /\ WindowSize \in Nat \ {0}
    BY StatisticsAssumption, LenProperties
<1>2. m \in 1..n + 1 /\ n - m + 1 = Shorter(n) /\ m - 1 = n - Shorter(n)
    BY <1>1 DEF Shorter
<1>3. LastOf(s, n) = SubSeq(s, m, n)
    BY DEF LastOf
<1>4. Shorter(n) \in 0..n
    BY <1>1 DEF Shorter
<1> HIDE DEF m
<1>5. \A i \in m..n : s[i] \in S
    BY <1>1, <1>2, ElementOfSeq
<1>6. /\ SubSeq(s, m, n) \in Seq(S)
      /\ Len(SubSeq(s, m, n)) = IF m <= n THEN n - m + 1 ELSE 0
      /\ \A i \in 1..n - m + 1 : SubSeq(s, m, n)[i] = s[m + i - 1]
    BY <1>1, <1>2, <1>5, SubSeqProperties
<1>7. Len(LastOf(s, n)) = Shorter(n)
    BY <1>1, <1>2, <1>3, <1>6
<1>8. \A i \in 1..Shorter(n) : LastOf(s, n)[i] = s[n - Shorter(n) + i]
    <2> TAKE i \in 1..Shorter(n)
    <2>1. m + i - 1 = n - Shorter(n) + i
        BY <1>1, <1>2, <1>4
    <2> QED BY <1>2, <1>3, <1>6, <2>1
<1> QED BY <1>3, <1>6, <1>7, <1>8

\* What was in the window at some moment does not change later, ...
LEMMA LastOfAppend ==
    ASSUME NEW S, NEW s \in Seq(S), NEW x \in S, NEW n \in 0..Len(s)
    PROVE  LastOf(Append(s, x), n) = LastOf(s, n)
<1>1. /\ Append(s, x) \in Seq(S) /\ Len(Append(s, x)) = Len(s) + 1
      /\ \A i \in 1..Len(s) : Append(s, x)[i] = s[i]
    BY AppendProperties
<1>2. Len(s) \in Nat /\ n \in Nat /\ n \in 0..Len(Append(s, x)) /\ Shorter(n) \in 0..n
    BY <1>1, StatisticsAssumption, LenProperties DEF Shorter
<1>3. /\ LastOf(s, n) \in Seq(S) /\ LastOf(Append(s, x), n) \in Seq(S)
      /\ Len(LastOf(s, n)) = Shorter(n) /\ Len(LastOf(Append(s, x), n)) = Shorter(n)
      /\ \A i \in 1..Shorter(n) : /\ LastOf(s, n)[i] = s[n - Shorter(n) + i]
                                  /\ LastOf(Append(s, x), n)[i] = Append(s, x)[n - Shorter(n) + i]
    BY <1>1, <1>2, LastOfProperties
<1>4. \A i \in 1..Shorter(n) : n - Shorter(n) + i \in 1..Len(s)
    BY <1>2
<1>5. \A i \in 1..Shorter(n) : LastOf(Append(s, x), n)[i] = LastOf(s, n)[i]
    BY <1>1, <1>3, <1>4
<1> QED BY <1>3, <1>5, SeqEqual

\* ... and a window that slides is the window after one more.
LEMMA SlideIsLast ==
    ASSUME NEW S, NEW s \in Seq(S), NEW x \in S
    PROVE  Slide(LastOf(s, Len(s)), x) = LastOf(Append(s, x), Len(s) + 1)
<1> DEFINE n == Len(s)
           t == Append(s, x)
           w == LastOf(s, n)
           u == LastOf(t, n + 1)
           longer == Append(w, x)
<1>1. /\ t \in Seq(S) /\ Len(t) = n + 1 /\ n \in Nat
      /\ \A i \in 1..n : t[i] = s[i]
      /\ t[n + 1] = x
    BY AppendProperties, LenProperties
<1>2. n \in 0..n /\ n + 1 \in 0..Len(t)
    BY <1>1
<1>3. /\ w \in Seq(S) /\ Len(w) = Shorter(n)
      /\ \A i \in 1..Shorter(n) : w[i] = s[n - Shorter(n) + i]
    BY <1>2, LastOfProperties
<1> HIDE DEF t
<1>4. /\ u \in Seq(S) /\ Len(u) = Shorter(n + 1)
      /\ \A i \in 1..Shorter(n + 1) : u[i] = t[n + 1 - Shorter(n + 1) + i]
    BY <1>1, <1>2, LastOfProperties
<1> HIDE DEF n, w, u
<1>5. /\ longer \in Seq(S) /\ Len(longer) = Shorter(n) + 1 /\ longer # <<>>
      /\ \A i \in 1..Shorter(n) : longer[i] = w[i]
      /\ longer[Shorter(n) + 1] = x
    BY <1>3, AppendProperties
<1>6. /\ WindowSize \in Nat \ {0}
      /\ Shorter(n) = (IF n > WindowSize THEN WindowSize ELSE n)
      /\ Shorter(n + 1) = (IF n + 1 > WindowSize THEN WindowSize ELSE n + 1)
    BY StatisticsAssumption DEF Shorter
<1> HIDE DEF longer
<1>7. \A i \in 1..Shorter(n) + 1 : longer[i] = t[n - Shorter(n) + i]
    <2> TAKE i \in 1..Shorter(n) + 1
    <2>1. CASE i \in 1..Shorter(n)
        <3>1. n - Shorter(n) + i \in 1..n
            BY <1>1, <1>6, <2>1
        <3> QED BY <1>1, <1>3, <1>5, <2>1, <3>1
    <2>2. CASE i = Shorter(n) + 1
        <3>1. n - Shorter(n) + i = n + 1
            BY <1>1, <1>6, <2>2
        <3> QED BY <1>1, <1>5, <2>2, <3>1
    <2> QED BY <1>1, <1>6, <2>1, <2>2
<1>8. CASE n < WindowSize
    <2>1. Shorter(n) = n /\ Shorter(n + 1) = n + 1
        BY <1>1, <1>6, <1>8
    <2>2. Slide(w, x) = longer
        <3>1. ~(Len(longer) > WindowSize)
            BY <1>1, <1>5, <1>6, <1>8, <2>1
        <3> QED BY <3>1 DEF Slide, longer
    <2>3. \A i \in 1..n + 1 : longer[i] = u[i]
        <3>1. \A i \in 1..n + 1 : n + 1 - (n + 1) + i = i /\ n - n + i = i
            BY <1>1
        <3> QED BY <1>4, <1>7, <2>1, <3>1
    <2>4. longer = u
        BY <1>4, <1>5, <2>1, <2>3, SeqEqual
    <2> QED BY <2>2, <2>4 DEF n, w, u, t
<1>9. CASE n >= WindowSize
    <2>1. Shorter(n) = WindowSize /\ Shorter(n + 1) = WindowSize
        BY <1>1, <1>6, <1>9
    <2>2. Slide(w, x) = Tail(longer)
        <3>1. Len(longer) > WindowSize
            BY <1>1, <1>5, <1>6, <1>9, <2>1
        <3> QED BY <3>1 DEF Slide, longer
    <2>3. /\ Tail(longer) \in Seq(S) /\ Len(Tail(longer)) = WindowSize
          /\ \A i \in 1..WindowSize : Tail(longer)[i] = longer[i + 1]
        <3>1. /\ Tail(longer) \in Seq(S) /\ Len(Tail(longer)) = Len(longer) - 1
              /\ \A i \in 1..Len(Tail(longer)) : Tail(longer)[i] = longer[i + 1]
            BY <1>5, HeadTailProperties
        <3>2. Len(longer) - 1 = WindowSize
            BY <1>5, <1>6, <2>1
        <3> QED BY <3>1, <3>2
    <2>4. \A i \in 1..WindowSize : Tail(longer)[i] = u[i]
        <3> TAKE i \in 1..WindowSize
        <3>1. i + 1 \in 1..Shorter(n) + 1 /\ n - Shorter(n) + (i + 1) = n + 1 - Shorter(n + 1) + i
            <4>1. i + 1 \in 1..WindowSize + 1 /\ n - WindowSize + (i + 1) = n + 1 - WindowSize + i
                BY <1>1, <1>6
            <4> QED BY <2>1, <4>1
        <3>2. i \in 1..Shorter(n + 1)
            BY <2>1
        <3>3. longer[i + 1] = t[n - Shorter(n) + (i + 1)]
            BY <1>7, <3>1
        <3>4. u[i] = t[n + 1 - Shorter(n + 1) + i]
            BY <1>4, <3>2
        <3> QED BY <2>3, <3>1, <3>3, <3>4
    <2>5. Tail(longer) = u
        BY <1>4, <2>1, <2>3, <2>4, SeqEqual
    <2> QED BY <2>2, <2>5 DEF n, w, u, t
<1> QED BY <1>1, <1>6, <1>8, <1>9

-------------------------------------------------------------------------------
(***************************************************************************)
(* Types.                                                                  *)
(***************************************************************************)

Counters == [total : Nat, errors : Nat, rate : Nat, lastSecond : 0..MaxSeconds, inSecond : Nat]

\* Counting a request: one more in total, one more error or not, and a second that
\* ends gives the rate.
LEMMA CountedProperties ==
    ASSUME NEW c \in Counters, NEW r, NEW t \in Seconds, NEW d, d = Counted(c, r, t)
    PROVE  /\ d \in Counters
           /\ d.total = c.total + 1
           /\ r.error => d.errors = c.errors + 1
           /\ ~r.error => d.errors = c.errors
           /\ t # c.lastSecond => d.rate = c.inSecond /\ d.inSecond = 1
           /\ t = c.lastSecond => d.rate = c.rate /\ d.inSecond = c.inSecond + 1
           /\ d.lastSecond = t
<1>0. MaxSeconds \in Nat /\ t \in 0..MaxSeconds
    BY StatisticsAssumption DEF Seconds
<1> DEFINE errors == IF r.error THEN c.errors + 1 ELSE c.errors
<1>1. /\ errors \in Nat
      /\ r.error => errors = c.errors + 1
      /\ ~r.error => errors = c.errors
    BY DEF Counters
<1>2. /\ d.errors = errors
      /\ d.total = c.total + 1 /\ d.lastSecond = t
      /\ d.rate = IF t # c.lastSecond THEN c.inSecond ELSE c.rate
      /\ d.inSecond = IF t # c.lastSecond THEN 1 ELSE c.inSecond + 1
      /\ d = [total |-> d.total, errors |-> d.errors, rate |-> d.rate,
              lastSecond |-> d.lastSecond, inSecond |-> d.inSecond]
    BY Zenon DEF Counted
<1> HIDE DEF errors
<1>3. d \in Counters
    <2>1. /\ d.total \in Nat /\ d.errors \in Nat /\ d.rate \in Nat
          /\ d.lastSecond \in 0..MaxSeconds /\ d.inSecond \in Nat
        BY <1>0, <1>1, <1>2 DEF Counters
    <2> QED BY <1>2, <2>1, Zenon DEF Counters
<1>4. t # c.lastSecond => d.rate = c.inSecond /\ d.inSecond = 1
    BY <1>2
<1>5. t = c.lastSecond => d.rate = c.rate /\ d.inSecond = c.inSecond + 1
    BY <1>2
<1> QED BY <1>1, <1>2, <1>3, <1>4, <1>5, Zenon

LEMMA SlideType ==
    ASSUME NEW S, NEW w \in Seq(S), NEW x \in S, Len(w) <= WindowSize
    PROVE  Slide(w, x) \in Seq(S) /\ Len(Slide(w, x)) <= WindowSize
<1> DEFINE longer == Append(w, x)
<1>1. /\ longer \in Seq(S) /\ Len(longer) = Len(w) + 1 /\ longer # <<>>
      /\ Len(w) \in Nat /\ WindowSize \in Nat
    BY AppendProperties, LenProperties, StatisticsAssumption
<1> HIDE DEF longer
<1>2. Tail(longer) \in Seq(S) /\ Len(Tail(longer)) = Len(longer) - 1
    BY <1>1, HeadTailProperties
<1>3. Slide(w, x) = IF Len(longer) > WindowSize THEN Tail(longer) ELSE longer
    BY DEF Slide, longer
<1> QED BY <1>1, <1>2, <1>3

\* The requests of the load.
LEMMA LoadProperties ==
    /\ Len(Load) \in Nat /\ DOMAIN Load = 1..Len(Load) /\ Load \in Seq(Range(Load))
    /\ \A r \in Range(Load) : r.rtt \in Rtts /\ r.error \in BOOLEAN
    /\ Rtts \subseteq Nat
<1>1. /\ Load \in Seq([rtt : Nat, error : BOOLEAN])
      /\ Len(Load) \in Nat /\ DOMAIN Load = 1..Len(Load)
    BY StatisticsAssumption, LenProperties
<1>2. Load \in Seq(Range(Load))
    BY <1>1, SeqOfRange
<1>3. \A i \in 1..Len(Load) : Load[i] \in [rtt : Nat, error : BOOLEAN]
    BY <1>1, ElementOfSeq
<1>4. \A r \in Range(Load) : \E i \in 1..Len(Load) : r = Load[i]
    BY <1>1 DEF Range
<1>5. \A r \in Range(Load) : r.rtt \in Rtts /\ r.error \in BOOLEAN
    BY <1>1, <1>3, <1>4 DEF Rtts
<1>6. Rtts \subseteq Nat
    BY <1>1, <1>3 DEF Rtts
<1> QED BY <1>1, <1>2, <1>5, <1>6

\* A batch of the load.
LEMMA BatchProperties ==
    ASSUME NEW a \in Nat, NEW n \in Nat \ {0}, a + n <= Len(Load), NEW b,
           b = SubSeq(Load, a + 1, a + n)
    PROVE  /\ b \in Seq(Range(Load)) /\ Len(b) = n /\ b # <<>>
           /\ \A k \in 1..n : b[k] = Load[a + k]
<1>1. Len(Load) \in Nat /\ Load \in Seq(Range(Load))
    BY LoadProperties
<1>2. \A i \in a + 1..a + n : Load[i] \in Range(Load)
    BY <1>1, ElementOfSeq
<1>3. /\ b \in Seq(Range(Load))
      /\ Len(b) = IF a + 1 <= a + n THEN (a + n) - (a + 1) + 1 ELSE 0
      /\ \A k \in 1..(a + n) - (a + 1) + 1 : b[k] = Load[a + 1 + k - 1]
    BY <1>2, SubSeqProperties
<1>4. Len(b) = n
    BY <1>3
<1>5. \A k \in 1..n : b[k] = Load[a + k]
    <2> TAKE k \in 1..n
    <2>1. k \in 1..(a + n) - (a + 1) + 1 /\ a + 1 + k - 1 = a + k
        OBVIOUS
    <2> QED BY <1>3, <2>1
<1>6. b # <<>>
    BY <1>4, EmptySeq
<1> QED BY <1>3, <1>4, <1>5, <1>6

LEMMA TypeInit == Init => TypeOK
<1> SUFFICES ASSUME Init PROVE TypeOK
    OBVIOUS
<1>1. /\ <<>> \in Seq(Range(Load)) /\ <<>> \in Seq(Rtts) /\ Len(<<>>) = 0
    BY EmptySeq
<1>2. clock \in Seconds
    BY StatisticsAssumption DEF Init, Seconds
<1>3. single \in [Handlers -> BOOLEAN]
    BY Zenon DEF Init
<1> QED BY <1>1, <1>2, <1>3, StatisticsAssumption DEF Init, TypeOK, Seconds, NoLatency

\* The stages of RecordEvent.
Recording == {"record", "count", "append"}

\* Handler h takes a step that leaves the requests it holds alone.
LEMMA GotoType ==
    ASSUME TypeOK, NEW h \in Handlers, NEW s, Goto(h, s),
           s \in {"idle", "record", "count", "append", "size", "show"},
           UNCHANGED todo, (s \in Recording => stage[h] \in Recording)
    PROVE  /\ stage' \in [Handlers -> {"idle", "record", "count", "append", "size", "show"}]
           /\ \A g \in Handlers : stage'[g] \in {"record", "count", "append"} => todo'[g] # <<>>
<1>1. stage' = [stage EXCEPT ![h] = s]
    BY DEF Goto
<1> QED BY <1>1 DEF TypeOK, Recording

LEMMA TypeStep ==
    ASSUME StatInv, Next
    PROVE  TypeOK'
<1>0. TypeOK /\ accepted \in Nat /\ MaxSeconds \in Nat
    BY LoadProperties, StatisticsAssumption DEF StatInv, ShareInv
<1>1. CASE SecondPasses
    BY <1>0, <1>1 DEF SecondPasses, TypeOK, Seconds, handlerVars, hubVars, storeVars
<1>2. ASSUME NEW h \in Handlers, Ingest(h)
      PROVE  TypeOK'
    <2>1. PICK one \in BOOLEAN, n \in Nat \ {0} :
             /\ accepted + n <= Len(Load)
             /\ accepted' = accepted + n
             /\ buffer' = buffer + n
             /\ todo' = [todo EXCEPT ![h] = SubSeq(Load, accepted + 1, accepted + n)]
             /\ single' = [single EXCEPT ![h] = one]
        <3>1. PICK one \in BOOLEAN : \E n \in IF one THEN {1} ELSE BatchSizes :
                 /\ accepted + n <= Len(Load)
                 /\ accepted' = accepted + n
                 /\ buffer' = buffer + n
                 /\ todo' = [todo EXCEPT ![h] = SubSeq(Load, accepted + 1, accepted + n)]
                 /\ single' = [single EXCEPT ![h] = one]
            BY <1>2, Zenon DEF Ingest
        <3>2. \A n \in IF one THEN {1} ELSE BatchSizes : n \in Nat \ {0}
            BY StatisticsAssumption
        <3> QED BY <3>1, <3>2, Zenon
    <2> DEFINE b == SubSeq(Load, accepted + 1, accepted + n)
    <2>2. b \in Seq(Range(Load)) /\ b # <<>>
        BY <1>0, <2>1, BatchProperties, ZenonT(30)
    <2> HIDE DEF b
    <2>3. todo' \in [Handlers -> Seq(Range(Load))] /\ todo' = [todo EXCEPT ![h] = b]
        BY <1>0, <2>1, <2>2 DEF TypeOK, b
    <2>4. stage' = [stage EXCEPT ![h] = "record"]
        BY <1>2 DEF Ingest, Goto
    <2>5. \A g \in Handlers : stage'[g] \in {"record", "count", "append"} => todo'[g] # <<>>
        BY <1>0, <2>2, <2>3, <2>4 DEF TypeOK
    <2>6. single' \in [Handlers -> BOOLEAN]
        BY <1>0, <2>1, Zenon DEF TypeOK
    <2>7. stage' \in [Handlers -> {"idle", "record", "count", "append", "size", "show"}]
        BY <1>0, <2>4 DEF TypeOK
    <2>8. buffer' \in Nat
        BY <1>0, <2>1 DEF TypeOK
    <2>9. UNCHANGED <<clock, now, size, hubVars, taken, ticker, faults>>
        BY <1>2 DEF Ingest
    <2> QED BY <1>0, <2>3, <2>5, <2>6, <2>7, <2>8, <2>9 DEF TypeOK, hubVars
<1>3. ASSUME NEW h \in Handlers, ReadClock(h)
      PROVE  TypeOK'
    <2>1. now' \in [Handlers -> Seconds \cup {0}]
        BY <1>0, <1>3 DEF ReadClock, TypeOK
    <2>2. /\ stage' \in [Handlers -> {"idle", "record", "count", "append", "size", "show"}]
          /\ \A g \in Handlers : stage'[g] \in {"record", "count", "append"} => todo'[g] # <<>>
        BY <1>0, <1>3, GotoType DEF ReadClock, Recording
    <2> QED BY <1>0, <1>3, <2>1, <2>2 DEF ReadClock, TypeOK, hubVars, storeVars
<1>4. ASSUME NEW h \in Handlers, Count(h)
      PROVE  TypeOK'
    <2>1. now' \in [Handlers -> Seconds \cup {0}]
        BY <1>0, <1>4 DEF Count, TypeOK
    <2>2. /\ stage' \in [Handlers -> {"idle", "record", "count", "append", "size", "show"}]
          /\ \A g \in Handlers : stage'[g] \in {"record", "count", "append"} => todo'[g] # <<>>
        BY <1>0, <1>4, GotoType DEF Count, Recording
    <2>3. now[h] \in Seconds
        BY <1>4 DEF Count, StatInv, RateInv
    <2>4. counts \in Counters
        BY <1>0 DEF TypeOK, Counters
    <2>5. counts' = Counted(counts, Head(todo[h]), now[h])
        BY <1>4 DEF Count
    <2>6. counts' \in Counters
        BY <2>3, <2>4, <2>5, CountedProperties
    <2>7. counts' \in [total : Nat, errors : Nat, rate : Nat,
                       lastSecond : 0..MaxSeconds, inSecond : Nat]
        BY <2>6 DEF Counters
    <2>8. UNCHANGED <<clock, single, todo, size, shown, rttBuffer, latency, stats, values, storeVars>>
        BY <1>4 DEF Count
    <2> QED BY <1>0, <2>1, <2>2, <2>7, <2>8 DEF TypeOK, storeVars
<1>5. ASSUME NEW h \in Handlers, AppendRtt(h)
      PROVE  TypeOK'
    <2>1. /\ todo[h] \in Seq(Range(Load)) /\ todo[h] # <<>>
          /\ Head(todo[h]) \in Range(Load)
          /\ Tail(todo[h]) \in Seq(Range(Load)) /\ Len(Tail(todo[h])) = Len(todo[h]) - 1
          /\ Len(todo[h]) \in Nat
        BY <1>0, <1>5, HeadTailProperties, LenProperties DEF AppendRtt, TypeOK
    <2>2. rttBuffer' \in Seq(Rtts) /\ Len(rttBuffer') <= WindowSize
        <3>1. Head(todo[h]).rtt \in Rtts
            BY <2>1, LoadProperties
        <3> QED BY <1>0, <1>5, <3>1, SlideType DEF AppendRtt, TypeOK
    <2>3. todo' = [todo EXCEPT ![h] = Tail(todo[h])] /\ todo' \in [Handlers -> Seq(Range(Load))]
        BY <1>0, <1>5, <2>1 DEF AppendRtt, TypeOK
    <2>4. single' \in [Handlers -> BOOLEAN]
        BY <1>0, <1>5, Zenon DEF AppendRtt, TypeOK
    <2>5. PICK s \in {"record", "idle", "size"} :
             /\ stage' = [stage EXCEPT ![h] = s]
             /\ s = "record" => Len(todo[h]) > 1
        <3> DEFINE s == IF Len(todo[h]) > 1 THEN "record" ELSE IF single[h] THEN "idle" ELSE "size"
        <3>1. s \in {"record", "idle", "size"} /\ (s = "record" => Len(todo[h]) > 1)
            OBVIOUS
        <3>2. stage' = [stage EXCEPT ![h] = s]
            BY <1>5 DEF AppendRtt, Goto
        <3> HIDE DEF s
        <3> QED BY <3>1, <3>2
    <2>6. s = "record" => Tail(todo[h]) # <<>>
        <3>1. Len(<<>>) = 0
            OBVIOUS
        <3>2. Len(todo[h]) > 1 => Len(Tail(todo[h])) # 0
            <4> DEFINE n == Len(todo[h])
                       m == Len(Tail(todo[h]))
            <4>1. n \in Nat /\ m = n - 1
                BY <2>1
            <4> HIDE DEF n, m
            <4>2. n > 1 => m # 0
                BY <4>1
            <4> QED BY <4>2 DEF n, m
        <3>3. s = "record" => Len(todo[h]) > 1
            BY <2>5
        <3>4. Tail(todo[h]) = <<>> => Len(Tail(todo[h])) = 0
            BY <3>1, Zenon
        <3> QED BY <3>2, <3>3, <3>4
    <2>7. \A g \in Handlers : stage'[g] \in {"record", "count", "append"} => todo'[g] # <<>>
        BY <1>0, <2>3, <2>5, <2>6 DEF TypeOK
    <2>8. stage' \in [Handlers -> {"idle", "record", "count", "append", "size", "show"}]
        BY <1>0, <2>5 DEF TypeOK
    <2>9. UNCHANGED <<clock, now, size, counts, shown, latency, stats, values, storeVars>>
        BY <1>5 DEF AppendRtt
    <2> QED BY <1>0, <2>2, <2>3, <2>4, <2>7, <2>8, <2>9 DEF TypeOK, storeVars
<1>6. ASSUME NEW h \in Handlers, ReadSize(h)
      PROVE  TypeOK'
    <2>1. size' \in [Handlers \cup {Ticker} -> Nat]
        BY <1>0, <1>6 DEF ReadSize, TypeOK
    <2>2. /\ stage' \in [Handlers -> {"idle", "record", "count", "append", "size", "show"}]
          /\ \A g \in Handlers : stage'[g] \in {"record", "count", "append"} => todo'[g] # <<>>
        BY <1>0, <1>6, GotoType DEF ReadSize, Recording
    <2> QED BY <1>0, <1>6, <2>1, <2>2 DEF ReadSize, TypeOK, hubVars, storeVars
<1>7. ASSUME NEW h \in Handlers, ShowSize(h)
      PROVE  TypeOK'
    <2>1. size' \in [Handlers \cup {Ticker} -> Nat] /\ shown' \in Nat
        BY <1>0, <1>7 DEF ShowSize, TypeOK
    <2>2. /\ stage' \in [Handlers -> {"idle", "record", "count", "append", "size", "show"}]
          /\ \A g \in Handlers : stage'[g] \in {"record", "count", "append"} => todo'[g] # <<>>
        BY <1>0, <1>7, GotoType DEF ShowSize, Recording
    <2> QED BY <1>0, <1>7, <2>1, <2>2 DEF ShowSize, TypeOK, storeVars
<1>8. ASSUME NEW f \in Flushers, Take(f)
      PROVE  TypeOK'
    <2>1. buffer' \in Nat /\ taken' \in [Flushers -> Nat] /\ ticker' \in {"flush", "size", "show"}
        BY <1>0, <1>8 DEF Take, TypeOK
    <2> QED BY <1>0, <1>8, <2>1 DEF Take, TypeOK, handlerVars, hubVars
<1>9. ASSUME NEW f \in Flushers, Flushed(f)
      PROVE  TypeOK'
    <2>1. taken' \in [Flushers -> Nat] /\ ticker' \in {"flush", "size", "show"}
        BY <1>0, <1>9 DEF Flushed, TypeOK
    <2>2. taken[f] \in Nat /\ buffer \in Nat /\ faults \in 0..MaxFaults /\ MaxFaults \in Nat
        BY <1>0, StatisticsAssumption DEF TypeOK
    <2>3. buffer' \in Nat /\ faults' \in 0..MaxFaults
        BY <1>9, <2>2 DEF Flushed
    <2> QED BY <1>0, <1>9, <2>1, <2>3 DEF Flushed, TypeOK, handlerVars, hubVars
<1>10. CASE TickerReadsSize
    <2>1. size' \in [Handlers \cup {Ticker} -> Nat]
        BY <1>0, <1>10 DEF TickerReadsSize, TypeOK
    <2> QED BY <1>0, <1>10, <2>1 DEF TickerReadsSize, TypeOK, handlerVars, hubVars
<1>11. CASE TickerShowsSize
    <2>1. size' \in [Handlers \cup {Ticker} -> Nat] /\ shown' \in Nat
        BY <1>0, <1>11 DEF TickerShowsSize, TypeOK
    <2> QED BY <1>0, <1>11, <2>1 DEF TickerShowsSize, TypeOK, handlerVars
<1>12. CASE CopyWindow
    BY <1>0, <1>12 DEF CopyWindow, TypeOK, handlerVars, storeVars
<1>13. CASE WriteLatency
    <2>1. recorded \in Seq(Rtts) /\ since \in 0..Len(recorded) /\ values = WindowAfter(since)
        BY <1>13 DEF WriteLatency, StatInv, WindowInv, MessageInv
    <2>2. WindowAfter(since) = LastOf(recorded, since)
        BY DEF WindowAfter, LastOf
    <2>3. Len(values) = Shorter(since) /\ Len(recorded) \in Nat
        BY <2>1, <2>2, LastOfProperties, LenProperties
    <2>4. Len(values) \in 0..WindowSize
        BY <2>1, <2>3, StatisticsAssumption DEF Shorter
    <2>5. latency'.number = Len(values)
        BY <1>13, Zenon DEF WriteLatency, Latency
    <2>6. <<>> \in Seq(Rtts)
        BY EmptySeq
    <2>7. UNCHANGED <<clock, handlerVars, size, counts, shown, rttBuffer, storeVars>>
          /\ stats' = "done" /\ values' = <<>>
        BY <1>13 DEF WriteLatency
    <2> QED BY <1>0, <2>4, <2>5, <2>6, <2>7 DEF TypeOK, handlerVars, storeVars
<1>14. CASE Publish
    BY <1>0, <1>14 DEF Publish, TypeOK, handlerVars, storeVars
<1> QED BY <1>1, <1>2, <1>3, <1>4, <1>5, <1>6, <1>7, <1>8, <1>9, <1>10, <1>11, <1>12, <1>13, <1>14
        DEF Next, HandlerStep, SendStats

-------------------------------------------------------------------------------
(***************************************************************************)
(* The requests that the handlers hold.                                    *)
(***************************************************************************)

\* One more element, not in the set.
LEMMA OneMore ==
    ASSUME NEW n \in Nat, NEW S \in SUBSET (1..n), NEW x \in (1..n) \ S
    PROVE  Cardinality(S \cup {x}) = Cardinality(S) + 1
<1>1. IsFiniteSet(1..n)
    BY FS_Interval
<1>2. IsFiniteSet(S)
    BY <1>1, FS_Subset
<1> QED BY <1>2, FS_AddElement

\* A step of handler h after which it holds what it held.
LEMMA HolderMoves ==
    ASSUME TypeOK, ShareInv, NEW h \in Handlers, NEW s,
           stage' = [stage EXCEPT ![h] = s], stage[h] # "append", s # "append",
           s \notin Recording => stage[h] \notin Recording,
           UNCHANGED <<todo, counts, recorded, accepted>>
    PROVE  ShareInv'
<1>1. PICK first \in [Handlers -> 1..accepted + 1] : Shares(first)
    BY DEF ShareInv
<1>2. \A g \in Handlers : /\ (stage'[g] = "append") <=> (stage[g] = "append")
                          /\ stage'[g] \notin Recording => todo'[g] = <<>>
    BY DEF TypeOK, ShareInv, Recording
<1>3. \A g \in Handlers : Held(first, g)' = Held(first, g) /\ Uncounted(first, g)' = Uncounted(first, g)
    BY <1>2 DEF Held, Uncounted
<1>4. CountedBy(first)' = CountedBy(first) /\ RecordedBy(first)' = RecordedBy(first)
    BY <1>3 DEF CountedBy, RecordedBy
<1>5. Shares(first)'
    BY <1>1, <1>3, <1>4 DEF Shares, Errors
<1> QED BY <1>2, <1>5 DEF ShareInv, Recording

LEMMA IngestShares ==
    ASSUME TypeOK, ShareInv, NEW h \in Handlers, Ingest(h)
    PROVE  ShareInv'
<1>0. accepted \in Nat /\ accepted <= Len(Load) /\ Len(Load) \in Nat
    BY LoadProperties DEF ShareInv
<1>1. PICK n \in Nat \ {0} :
         /\ accepted + n <= Len(Load)
         /\ accepted' = accepted + n
         /\ todo' = [todo EXCEPT ![h] = SubSeq(Load, accepted + 1, accepted + n)]
    <2>1. PICK one \in BOOLEAN : \E n \in IF one THEN {1} ELSE BatchSizes :
             /\ accepted + n <= Len(Load)
             /\ accepted' = accepted + n
             /\ buffer' = buffer + n
             /\ todo' = [todo EXCEPT ![h] = SubSeq(Load, accepted + 1, accepted + n)]
             /\ single' = [single EXCEPT ![h] = one]
        BY Zenon DEF Ingest
    <2>2. \A n \in IF one THEN {1} ELSE BatchSizes : n \in Nat \ {0}
        BY StatisticsAssumption
    <2> QED BY <2>1, <2>2, Zenon
<1> DEFINE b == SubSeq(Load, accepted + 1, accepted + n)
<1>2. Len(b) = n /\ b # <<>> /\ \A k \in 1..n : b[k] = Load[accepted + k]
    <2>1. accepted \in Nat /\ accepted + n <= Len(Load)
        BY <1>0, <1>1
    <2> QED BY <2>1, BatchProperties, ZenonT(30)
<1> HIDE DEF b
<1>3. /\ stage[h] = "idle" /\ stage' = [stage EXCEPT ![h] = "record"]
      /\ todo' = [todo EXCEPT ![h] = b]
      /\ UNCHANGED <<counts, recorded>>
    BY <1>1 DEF Ingest, Goto, hubVars, b
<1>4. todo[h] = <<>> /\ Len(<<>>) = 0
    BY <1>3 DEF ShareInv
<1>5. PICK first \in [Handlers -> 1..accepted + 1] : Shares(first)
    BY DEF ShareInv
<1>6. PICK next \in [Handlers -> 1..accepted' + 1] :
         /\ next[h] = accepted + 1
         /\ \A g \in Handlers : g # h => next[g] = first[g]
    <2> DEFINE e == [first EXCEPT ![h] = accepted + 1]
    <2>1. /\ e \in [Handlers -> 1..accepted' + 1] /\ e[h] = accepted + 1
          /\ \A g \in Handlers : g # h => e[g] = first[g]
        BY <1>0, <1>1, <1>5
    <2> HIDE DEF e
    <2> QED BY <2>1
<1>7. Held(first, h) = {} /\ Uncounted(first, h) = {}
    <2>1. Held(first, h) = {}
        BY <1>4, <1>5 DEF Held
    <2> QED BY <1>3, <2>1 DEF Uncounted
<1>8. Held(next, h)' = accepted + 1..accepted + n /\ Uncounted(next, h)' = accepted + 1..accepted + n
    <2>1. Held(next, h)' = accepted + 1..accepted + n
        <3>1. todo'[h] = b
            BY <1>3 DEF TypeOK
        <3>2. accepted + 1 + n - 1 = accepted + n
            BY <1>0
        <3> QED BY <1>2, <1>6, <3>1, <3>2 DEF Held
    <2>2. stage'[h] # "append"
        BY <1>3 DEF TypeOK
    <2> QED BY <2>1, <2>2 DEF Uncounted
<1>9. \A g \in Handlers : g # h => /\ Held(next, g)' = Held(first, g)
                                   /\ Uncounted(next, g)' = Uncounted(first, g)
                                   /\ todo'[g] = todo[g]
    BY <1>3, <1>6 DEF TypeOK, Held, Uncounted
<1>10. \A g \in Handlers : Held(first, g) \subseteq 1..accepted
    BY <1>5 DEF Shares
<1>11. Shares(next)'
    <2>1. ASSUME NEW g \in Handlers
          PROVE  /\ Held(next, g)' \subseteq 1..accepted'
                 /\ \A k \in 1..Len(todo'[g]) : todo'[g][k] = Load[next[g] + k - 1]
        <3>1. CASE g = h
            <4>1. todo'[h] = b /\ next[h] = accepted + 1
                BY <1>3, <1>6 DEF TypeOK
            <4>2. \A k \in 1..n : accepted + 1 + k - 1 = accepted + k
                BY <1>0
            <4>3. \A k \in 1..Len(todo'[h]) : todo'[h][k] = Load[next[h] + k - 1]
                BY <1>2, <4>1, <4>2
            <4>4. Held(next, h)' \subseteq 1..accepted'
                BY <1>0, <1>1, <1>8
            <4> QED BY <3>1, <4>3, <4>4
        <3>2. CASE g # h
            <4>1. Held(next, g)' \subseteq 1..accepted'
                BY <1>0, <1>1, <1>9, <1>10, <3>2
            <4>2. \A k \in 1..Len(todo'[g]) : todo'[g][k] = Load[next[g] + k - 1]
                BY <1>5, <1>6, <1>9, <3>2 DEF Shares
            <4> QED BY <4>1, <4>2
        <3> QED BY <3>1, <3>2
    <2>2. ASSUME NEW f \in Handlers, NEW g \in Handlers, f # g
          PROVE  Held(next, f)' \cap Held(next, g)' = {}
        <3>1. CASE f # h /\ g # h
            BY <1>5, <1>9, <2>2, <3>1 DEF Shares
        <3>2. CASE f = h
            <4>1. Held(next, g)' \subseteq 1..accepted
                BY <1>9, <1>10, <2>2, <3>2
            <4> QED BY <1>0, <1>8, <3>2, <4>1
        <3>3. CASE g = h
            <4>1. Held(next, f)' \subseteq 1..accepted
                BY <1>9, <1>10, <2>2, <3>3
            <4> QED BY <1>0, <1>8, <3>3, <4>1
        <3> QED BY <3>1, <3>2, <3>3
    <2>3. \A i \in 1..accepted' : i \in 1..accepted \/ i \in accepted + 1..accepted + n
        BY <1>0, <1>1
    <2>4. \A i \in 1..accepted : i \in 1..accepted' /\ i \notin accepted + 1..accepted + n
        BY <1>0, <1>1
    <2>5. RecordedBy(next)' = RecordedBy(first)
        BY <1>7, <1>8, <1>9, <2>3, <2>4 DEF RecordedBy
    <2>6. CountedBy(next)' = CountedBy(first)
        BY <1>7, <1>8, <1>9, <2>3, <2>4 DEF CountedBy
    <2> QED BY <1>3, <1>5, <2>1, <2>2, <2>5, <2>6 DEF Shares, Errors
<1>12. \A g \in Handlers : stage'[g] \notin {"record", "count", "append"} => todo'[g] = <<>>
    BY <1>3, <1>9 DEF ShareInv, TypeOK
<1>13. accepted' \in 0..Len(Load)
    BY <1>0, <1>1
<1> QED BY <1>6, <1>11, <1>12, <1>13 DEF ShareInv

\* What a handler that records holds, and the request it records.
LEMMA RecorderHolds ==
    ASSUME TypeOK, NEW h \in Handlers, stage[h] \in {"count", "append"},
           accepted \in 0..Len(Load),
           NEW first \in [Handlers -> 1..accepted + 1], Shares(first)
    PROVE  /\ Len(todo[h]) \in Nat \ {0}
           /\ first[h] \in Held(first, h) /\ first[h] \in 1..accepted
           /\ Head(todo[h]) = Load[first[h]]
           /\ Held(first, h) \ {first[h]} = first[h] + 1..first[h] + Len(todo[h]) - 1
           /\ \A g \in Handlers : g # h => first[h] \notin Held(first, g)
<1>1. todo[h] \in Seq(Range(Load)) /\ todo[h] # <<>>
    BY DEF TypeOK
<1>2. Len(todo[h]) \in Nat \ {0} /\ Head(todo[h]) = todo[h][1]
    BY <1>1, EmptySeq
<1>3. accepted \in Nat /\ first[h] \in 1..accepted + 1
    BY LoadProperties
<1>4. first[h] \in Held(first, h)
    BY <1>2, <1>3 DEF Held
<1>5. first[h] \in 1..accepted /\ \A g \in Handlers : g # h => first[h] \notin Held(first, g)
    BY <1>4 DEF Shares
<1>6. Head(todo[h]) = Load[first[h]]
    <2>1. todo[h][1] = Load[first[h] + 1 - 1] /\ first[h] + 1 - 1 = first[h]
        BY <1>2, <1>3 DEF Shares
    <2> QED BY <1>2, <2>1
<1>7. Held(first, h) \ {first[h]} = first[h] + 1..first[h] + Len(todo[h]) - 1
    BY <1>2, <1>3 DEF Held
<1> QED BY <1>2, <1>4, <1>5, <1>6, <1>7

LEMMA CountShares ==
    ASSUME TypeOK, ShareInv, NEW h \in Handlers, Count(h), now[h] \in Seconds
    PROVE  ShareInv'
<1>0. accepted \in 0..Len(Load) /\ Len(Load) \in Nat
    BY LoadProperties DEF ShareInv
<1>1. /\ stage[h] = "count" /\ stage' = [stage EXCEPT ![h] = "append"]
      /\ counts' = Counted(counts, Head(todo[h]), now[h])
      /\ UNCHANGED <<todo, accepted, recorded>>
    BY DEF Count, Goto, storeVars
<1>2. PICK first \in [Handlers -> 1..accepted + 1] : Shares(first)
    BY DEF ShareInv
<1> DEFINE x == first[h]
           r == Head(todo[h])
<1>3. /\ x \in Held(first, h) /\ x \in 1..accepted /\ r = Load[x]
      /\ \A g \in Handlers : g # h => x \notin Held(first, g)
    BY <1>0, <1>1, <1>2, RecorderHolds
<1> HIDE DEF x
<1>4. counts \in Counters
    BY DEF TypeOK, Counters
<1>5. /\ counts'.total = counts.total + 1
      /\ r.error => counts'.errors = counts.errors + 1
      /\ ~r.error => counts'.errors = counts.errors
    BY <1>1, <1>4, CountedProperties
<1> HIDE DEF r
<1>6. \A g \in Handlers : Held(first, g)' = Held(first, g)
    BY <1>1 DEF Held
<1>7. /\ Uncounted(first, h) = Held(first, h) /\ Uncounted(first, h)' = Held(first, h) \ {x}
      /\ \A g \in Handlers : g # h => Uncounted(first, g)' = Uncounted(first, g)
      /\ \A g \in Handlers : g # h => x \notin Uncounted(first, g)
    BY <1>1, <1>3, <1>6 DEF Uncounted, TypeOK, x
<1>8. CountedBy(first)' = CountedBy(first) \cup {x} /\ x \notin CountedBy(first)
    <2>1. CountedBy(first)' = {i \in 1..accepted : \A g \in Handlers : i \notin Uncounted(first, g)'}
        BY <1>1 DEF CountedBy
    <2>2. ASSUME NEW i \in 1..accepted, i # x
          PROVE  \A g \in Handlers : i \in Uncounted(first, g)' <=> i \in Uncounted(first, g)
        BY <1>7, <2>2
    <2>3. \A g \in Handlers : x \notin Uncounted(first, g)'
        BY <1>7
    <2>4. x \in Uncounted(first, h)
        BY <1>3, <1>7
    <2> QED BY <1>3, <2>1, <2>2, <2>3, <2>4 DEF CountedBy
<1>9. accepted \in Nat /\ CountedBy(first) \in SUBSET (1..accepted)
    BY <1>0 DEF CountedBy
<1>10. Cardinality(CountedBy(first)') = Cardinality(CountedBy(first)) + 1
    BY <1>3, <1>8, <1>9, OneMore
<1>11. counts'.errors = Cardinality(Errors(CountedBy(first)'))
    <2>1. Errors(CountedBy(first)) \in SUBSET (1..accepted) /\ x \notin Errors(CountedBy(first))
        BY <1>8, <1>9 DEF Errors
    <2>2. counts.errors = Cardinality(Errors(CountedBy(first)))
        BY <1>2 DEF Shares
    <2>3. CASE r.error
        <3>1. Errors(CountedBy(first)') = Errors(CountedBy(first)) \cup {x}
            BY <1>3, <1>8, <2>3, Zenon DEF Errors
        <3> QED BY <1>3, <1>5, <1>9, <2>1, <2>2, <2>3, <3>1, OneMore
    <2>4. CASE ~r.error
        <3>1. Errors(CountedBy(first)') = Errors(CountedBy(first))
            BY <1>3, <1>8, <2>4, Zenon DEF Errors
        <3> QED BY <1>5, <2>2, <2>4, <3>1
    <2> QED BY <2>3, <2>4
<1>12. RecordedBy(first)' = RecordedBy(first)
    BY <1>1, <1>6 DEF RecordedBy
<1>13. Shares(first)'
    <2>1. counts'.total = Cardinality(CountedBy(first)')
        BY <1>2, <1>5, <1>10 DEF Shares
    <2>2. Len(recorded') = Cardinality(RecordedBy(first)')
        BY <1>1, <1>2, <1>12 DEF Shares
    <2>3. counts'.errors = Cardinality(Errors(CountedBy(first))')
        BY <1>11 DEF Errors
    <2>4. \A g \in Handlers : /\ Held(first, g)' \subseteq 1..accepted'
                              /\ \A k \in 1..Len(todo'[g]) : todo'[g][k] = Load[first[g] + k - 1]
        BY <1>1, <1>2, <1>6 DEF Shares
    <2>5. \A f, g \in Handlers : f # g => Held(first, f)' \cap Held(first, g)' = {}
        BY <1>2, <1>6 DEF Shares
    <2> QED BY <2>1, <2>2, <2>3, <2>4, <2>5 DEF Shares
<1>14. \A g \in Handlers : stage'[g] \notin {"record", "count", "append"} => todo'[g] = <<>>
    BY <1>1 DEF ShareInv, TypeOK
<1> QED BY <1>0, <1>1, <1>2, <1>13, <1>14 DEF ShareInv

LEMMA AppendShares ==
    ASSUME TypeOK, ShareInv, NEW h \in Handlers, AppendRtt(h), recorded \in Seq(Rtts)
    PROVE  ShareInv'
<1>0. accepted \in 0..Len(Load) /\ Len(Load) \in Nat /\ accepted \in Nat
    BY LoadProperties DEF ShareInv
<1>1. /\ stage[h] = "append"
      /\ stage' = [stage EXCEPT ![h] = IF Len(todo[h]) > 1 THEN "record"
                                       ELSE IF single[h] THEN "idle" ELSE "size"]
      /\ todo' = [todo EXCEPT ![h] = Tail(todo[h])]
      /\ recorded' = Append(recorded, Head(todo[h]).rtt)
      /\ UNCHANGED <<counts, accepted>>
    BY DEF AppendRtt, Goto, storeVars
<1>2. PICK first \in [Handlers -> 1..accepted + 1] : Shares(first)
    BY DEF ShareInv
<1>3. PICK x : x = first[h]
    OBVIOUS
<1> DEFINE n == Len(todo[h])
           t == Tail(todo[h])
<1>4. /\ n \in Nat \ {0} /\ x \in Held(first, h) /\ x \in 1..accepted
      /\ Held(first, h) \ {x} = x + 1..x + n - 1
      /\ \A g \in Handlers : g # h => x \notin Held(first, g)
    BY <1>0, <1>1, <1>2, <1>3, RecorderHolds
<1>5. /\ todo[h] \in Seq(Range(Load)) /\ todo[h] # <<>>
      /\ Head(todo[h]) \in Range(Load)
      /\ Len(t) = n - 1 /\ \A k \in 1..Len(t) : t[k] = todo[h][k + 1]
    <2>1. todo[h] \in Seq(Range(Load)) /\ todo[h] # <<>>
        BY <1>1 DEF TypeOK
    <2> QED BY <2>1, HeadTailProperties
<1>6. todo'[h] = t /\ \A g \in Handlers : g # h => todo'[g] = todo[g]
    BY <1>1 DEF TypeOK
<1> HIDE DEF n, t
<1>7. PICK next \in [Handlers -> 1..accepted' + 1] :
         /\ next[h] = x + 1
         /\ \A g \in Handlers : g # h => next[g] = first[g]
    <2> DEFINE e == [first EXCEPT ![h] = x + 1]
    <2>1. /\ e \in [Handlers -> 1..accepted' + 1] /\ e[h] = x + 1
          /\ \A g \in Handlers : g # h => e[g] = first[g]
        BY <1>0, <1>1, <1>2, <1>4
    <2> HIDE DEF e
    <2> QED BY <2>1
<1>8. Held(next, h)' = Held(first, h) \ {x}
    <2>1. Held(next, h)' = (x + 1)..(x + 1 + (n - 1) - 1)
        BY <1>5, <1>6, <1>7 DEF Held
    <2>2. x + 1 + (n - 1) - 1 = x + n - 1
        BY <1>0, <1>4
    <2> QED BY <1>4, <2>1, <2>2
<1>9. \A g \in Handlers : g # h => Held(next, g)' = Held(first, g)
    BY <1>6, <1>7 DEF Held
<1>10. \A g \in Handlers : Uncounted(next, g)' = Uncounted(first, g)
    <2>1. stage'[h] # "append" /\ \A g \in Handlers : g # h => stage'[g] = stage[g]
        BY <1>1 DEF TypeOK
    <2>2. Uncounted(next, h)' = Uncounted(first, h)
        BY <1>1, <1>3, <1>8, <2>1 DEF Uncounted
    <2>3. \A g \in Handlers : g # h => Uncounted(next, g)' = Uncounted(first, g)
        BY <1>7, <1>9, <2>1 DEF Uncounted
    <2> QED BY <2>2, <2>3
<1>11. CountedBy(next)' = CountedBy(first)
    BY <1>1, <1>10 DEF CountedBy
<1>12. RecordedBy(next)' = RecordedBy(first) \cup {x} /\ x \notin RecordedBy(first)
    <2>1. RecordedBy(next)' = {i \in 1..accepted : \A g \in Handlers : i \notin Held(next, g)'}
        BY <1>1 DEF RecordedBy
    <2>2. ASSUME NEW i \in 1..accepted, i # x
          PROVE  \A g \in Handlers : i \in Held(next, g)' <=> i \in Held(first, g)
        BY <1>8, <1>9, <2>2
    <2>3. \A g \in Handlers : x \notin Held(next, g)'
        BY <1>4, <1>8, <1>9
    <2> QED BY <1>4, <2>1, <2>2, <2>3 DEF RecordedBy
<1>13. Len(recorded') = Len(recorded) + 1
    <2>1. Head(todo[h]).rtt \in Rtts
        BY <1>5, LoadProperties
    <2> QED BY <1>1, <2>1, AppendProperties
<1>14. Cardinality(RecordedBy(next)') = Cardinality(RecordedBy(first)) + 1
    <2>1. RecordedBy(first) \in SUBSET (1..accepted)
        BY DEF RecordedBy
    <2> QED BY <1>0, <1>4, <1>12, <2>1, OneMore
<1>15. Shares(next)'
    <2>1. \A g \in Handlers : Held(next, g)' \subseteq Held(first, g)
        BY <1>8, <1>9
    <2>2. \A g \in Handlers : Held(next, g)' \subseteq 1..accepted'
        BY <1>1, <1>2, <2>1 DEF Shares
    <2>3. \A f, g \in Handlers : f # g => Held(next, f)' \cap Held(next, g)' = {}
        BY <1>2, <2>1 DEF Shares
    <2>4. ASSUME NEW g \in Handlers, NEW k \in 1..Len(todo'[g])
          PROVE  todo'[g][k] = Load[next[g] + k - 1]
        <3>1. CASE g # h
            BY <1>2, <1>6, <1>7, <2>4, <3>1, ZenonT(30) DEF Shares
        <3>2. CASE g = h
            <4>1. k \in 1..n - 1 /\ todo'[h][k] = todo[h][k + 1]
                BY <1>5, <1>6, <2>4, <3>2
            <4>2. k + 1 \in 1..n /\ x + (k + 1) - 1 = x + 1 + k - 1
                BY <1>4, <4>1
            <4>3. todo[h][k + 1] = Load[x + (k + 1) - 1]
                BY <1>2, <1>3, <4>2 DEF Shares, n
            <4> QED BY <1>7, <3>2, <4>1, <4>2, <4>3
        <3> QED BY <3>1, <3>2
    <2>5. counts'.total = Cardinality(CountedBy(next)')
        BY <1>1, <1>2, <1>11 DEF Shares
    <2>6. counts'.errors = Cardinality(Errors(CountedBy(next))')
        BY <1>1, <1>2, <1>11 DEF Shares, Errors
    <2>7. Len(recorded') = Cardinality(RecordedBy(next)')
        BY <1>2, <1>13, <1>14 DEF Shares
    <2> QED BY <2>2, <2>3, <2>4, <2>5, <2>6, <2>7 DEF Shares
<1>16. \A g \in Handlers : stage'[g] \notin {"record", "count", "append"} => todo'[g] = <<>>
    <2>1. \A g \in Handlers : g # h => stage'[g] = stage[g]
        BY <1>1
    <2>2. Len(todo[h]) > 1 => stage'[h] = "record"
        BY <1>1 DEF TypeOK
    <2>3. ~(n > 1) => t = <<>>
        <3>1. t \in Seq(Range(Load))
            BY <1>5, HeadTailProperties DEF t
        <3>2. ~(n > 1) => Len(t) = 0
            BY <1>4, <1>5
        <3> QED BY <3>1, <3>2, EmptySeq
    <2> QED BY <1>6, <2>1, <2>2, <2>3 DEF ShareInv, n
<1> QED BY <1>0, <1>1, <1>7, <1>15, <1>16 DEF ShareInv

LEMMA ShareFrame ==
    ASSUME ShareInv, UNCHANGED <<stage, todo, counts, recorded, accepted>>
    PROVE  ShareInv'
<1>1. PICK first \in [Handlers -> 1..accepted + 1] : Shares(first)
    BY DEF ShareInv
<1>2. \A g \in Handlers : Held(first, g)' = Held(first, g) /\ Uncounted(first, g)' = Uncounted(first, g)
    BY DEF Held, Uncounted
<1>3. CountedBy(first)' = CountedBy(first) /\ RecordedBy(first)' = RecordedBy(first)
    BY <1>2 DEF CountedBy, RecordedBy
<1>4. Shares(first)'
    BY <1>1, <1>2, <1>3 DEF Shares, Errors
<1> QED BY <1>4 DEF ShareInv

LEMMA ShareStep ==
    ASSUME StatInv, Next
    PROVE  ShareInv'
<1>0. TypeOK /\ ShareInv /\ recorded \in Seq(Rtts)
    BY DEF StatInv, WindowInv
<1>1. UNCHANGED <<stage, todo, counts, recorded, accepted>> => ShareInv'
    BY <1>0, ShareFrame
<1>2. ASSUME NEW h \in Handlers, Count(h)
      PROVE  ShareInv'
    <2>1. now[h] \in Seconds
        BY <1>2 DEF Count, StatInv, RateInv
    <2> QED BY <1>0, <1>2, <2>1, CountShares
<1>3. ASSUME NEW h \in Handlers, ReadClock(h)
      PROVE  ShareInv'
    <2>1. /\ stage[h] = "record" /\ stage' = [stage EXCEPT ![h] = "count"]
          /\ UNCHANGED <<todo, counts, recorded, accepted>>
        BY <1>3 DEF ReadClock, Goto, hubVars, storeVars
    <2> QED BY <1>0, <2>1, HolderMoves DEF Recording
<1>4. ASSUME NEW h \in Handlers, ReadSize(h)
      PROVE  ShareInv'
    <2>1. /\ stage[h] = "size" /\ stage' = [stage EXCEPT ![h] = "show"]
          /\ UNCHANGED <<todo, counts, recorded, accepted>>
        BY <1>4 DEF ReadSize, Goto, hubVars, storeVars
    <2> QED BY <1>0, <2>1, HolderMoves DEF Recording
<1>5. ASSUME NEW h \in Handlers, ShowSize(h)
      PROVE  ShareInv'
    <2>1. /\ stage[h] = "show" /\ stage' = [stage EXCEPT ![h] = "idle"]
          /\ UNCHANGED <<todo, counts, recorded, accepted>>
        BY <1>5 DEF ShowSize, Goto, storeVars
    <2> QED BY <1>0, <2>1, HolderMoves DEF Recording
<1>6. \/ UNCHANGED <<stage, todo, counts, recorded, accepted>>
      \/ \E h \in Handlers : Ingest(h) \/ HandlerStep(h)
    BY DEF Next, SecondPasses, Take, Flushed, TickerReadsSize, TickerShowsSize, SendStats,
           CopyWindow, WriteLatency, Publish, handlerVars, hubVars, storeVars
<1> QED BY <1>0, <1>1, <1>2, <1>3, <1>4, <1>5, <1>6, IngestShares, AppendShares DEF HandlerStep

-------------------------------------------------------------------------------
(***************************************************************************)
(* The window, the message and the rate.                                   *)
(***************************************************************************)

\* What recording one more does to the windows.
LEMMA WindowsAfterAppend ==
    ASSUME TypeOK, WindowInv, NEW h \in Handlers, AppendRtt(h)
    PROVE  /\ Head(todo[h]).rtt \in Rtts
           /\ recorded' \in Seq(Rtts) /\ Len(recorded') = Len(recorded) + 1
           /\ rttBuffer' = WindowAfter(Len(recorded))'
           /\ \A n \in 0..Len(recorded) : WindowAfter(n)' = WindowAfter(n)
<1> DEFINE x == Head(todo[h]).rtt
<1>1. /\ todo[h] \in Seq(Range(Load)) /\ todo[h] # <<>>
      /\ rttBuffer' = Slide(rttBuffer, x) /\ recorded' = Append(recorded, x)
    BY DEF AppendRtt, TypeOK
<1>2. x \in Rtts
    <2>1. Head(todo[h]) \in Range(Load)
        BY <1>1, HeadTailProperties
    <2> QED BY <2>1, LoadProperties
<1> HIDE DEF x
<1>3. recorded \in Seq(Rtts) /\ rttBuffer = LastOf(recorded, Len(recorded))
    BY DEF WindowInv, WindowAfter, LastOf
<1>4. recorded' \in Seq(Rtts) /\ Len(recorded') = Len(recorded) + 1
    BY <1>1, <1>2, <1>3, AppendProperties
<1>5. Slide(LastOf(recorded, Len(recorded)), x) = LastOf(Append(recorded, x), Len(recorded) + 1)
    BY <1>2, <1>3, SlideIsLast
<1>6. rttBuffer' = LastOf(recorded', Len(recorded'))
    BY <1>1, <1>3, <1>4, <1>5
<1>7. \A n \in 0..Len(recorded) : LastOf(Append(recorded, x), n) = LastOf(recorded, n)
    BY <1>2, <1>3, LastOfAppend
<1>8. \A n \in 0..Len(recorded) : WindowAfter(n)' = WindowAfter(n)
    BY <1>1, <1>7 DEF WindowAfter, LastOf
<1>9. rttBuffer' = WindowAfter(Len(recorded))'
    BY <1>6 DEF WindowAfter, LastOf
<1> QED BY <1>2, <1>4, <1>8, <1>9 DEF x

LEMMA WindowStep ==
    ASSUME StatInv, Next
    PROVE  WindowInv'
<1>0. TypeOK /\ WindowInv
    BY DEF StatInv
<1>1. ASSUME UNCHANGED <<recorded, rttBuffer>>
      PROVE  WindowInv'
    BY <1>0, <1>1 DEF WindowInv, WindowAfter
<1>2. ASSUME NEW h \in Handlers, AppendRtt(h)
      PROVE  WindowInv'
    BY <1>0, <1>2, WindowsAfterAppend DEF WindowInv
<1>3. UNCHANGED <<recorded, rttBuffer>> \/ \E h \in Handlers : AppendRtt(h)
    BY DEF Next, SecondPasses, Ingest, HandlerStep, ReadClock, Count, ReadSize, ShowSize, Take, Flushed,
           TickerReadsSize, TickerShowsSize, SendStats, CopyWindow, WriteLatency, Publish, hubVars
<1> QED BY <1>1, <1>2, <1>3

\* The window is empty as long as nothing has been recorded.
LEMMA EmptyWindow ==
    ASSUME WindowInv
    PROVE  rttBuffer = <<>> <=> Len(recorded) = 0
<1>1. /\ recorded \in Seq(Rtts) /\ rttBuffer = LastOf(recorded, Len(recorded))
      /\ Len(recorded) \in Nat
    BY LenProperties DEF WindowInv, WindowAfter, LastOf
<1>2. rttBuffer \in Seq(Rtts) /\ Len(rttBuffer) = Shorter(Len(recorded))
    BY <1>1, LastOfProperties
<1>3. Len(rttBuffer) = 0 <=> Len(recorded) = 0
    BY <1>1, <1>2, StatisticsAssumption DEF Shorter
<1>4. rttBuffer = <<>> <=> Len(rttBuffer) = 0
    BY <1>2, EmptySeq
<1> QED BY <1>3, <1>4

LEMMA MessageStep ==
    ASSUME StatInv, Next
    PROVE  MessageInv'
<1>0. TypeOK /\ WindowInv /\ MessageInv /\ recorded \in Seq(Rtts) /\ Len(recorded) \in Nat
    BY LenProperties DEF StatInv, WindowInv
<1>1. ASSUME UNCHANGED <<recorded, since, stats, values, latency>>
      PROVE  MessageInv'
    BY <1>0, <1>1 DEF MessageInv, WindowAfter, Moments
<1>2. ASSUME NEW h \in Handlers, AppendRtt(h)
      PROVE  MessageInv'
    <2>1. UNCHANGED <<since, stats, values, latency>>
        BY <1>2 DEF AppendRtt
    <2>2. /\ recorded' \in Seq(Rtts) /\ Len(recorded') = Len(recorded) + 1
          /\ \A n \in 0..Len(recorded) : WindowAfter(n)' = WindowAfter(n)
        BY <1>0, <1>2, WindowsAfterAppend
    <2>3. since' \in 0..Len(recorded') /\ since \in 0..Len(recorded)
        BY <1>0, <2>1, <2>2 DEF MessageInv
    <2>4. stats' = "copied" => since' > 0 /\ values' = WindowAfter(since)'
        <3>1. LastOf(recorded', since) = LastOf(recorded, since)
            BY <2>2, <2>3 DEF WindowAfter, LastOf
        <3>2. WindowAfter(since)' = WindowAfter(since)
            BY <2>1, <3>1 DEF WindowAfter, LastOf
        <3> QED BY <1>0, <2>1, <3>2 DEF MessageInv
    <2>5. recorded' # <<>>
        BY <1>0, <2>2, EmptySeq
    <2>6. ASSUME stats' = "done", latency'.number > 0
          PROVE  \E n \in Moments' : latency' = Latency(WindowAfter(n)')
        <3>1. PICK n \in Moments : latency = Latency(WindowAfter(n))
            BY <1>0, <2>1, <2>6 DEF MessageInv
        <3>2. n \in Moments' /\ n \in 0..Len(recorded)
            BY <1>0, <2>1, <2>2 DEF Moments
        <3>3. WindowAfter(n)' = WindowAfter(n)
            BY <2>2, <3>2
        <3> QED BY <2>1, <3>1, <3>2, <3>3
    <2> QED BY <2>3, <2>4, <2>5, <2>6 DEF MessageInv
<1>3. CASE CopyWindow
    <2>1. /\ values' = rttBuffer /\ since' = Len(recorded)
          /\ stats' = IF rttBuffer = <<>> THEN "done" ELSE "copied"
          /\ UNCHANGED <<recorded, latency>>
        BY <1>3 DEF CopyWindow
    <2>2. rttBuffer = WindowAfter(Len(recorded)) /\ (rttBuffer = <<>> <=> Len(recorded) = 0)
        BY <1>0, EmptyWindow DEF WindowInv
    <2>3. latency.number > 0 => Len(recorded) # 0
        BY <1>0, EmptySeq DEF MessageInv
    <2>4. since' \in 0..Len(recorded')
        BY <1>0, <2>1
    <2>5. stats' = "copied" => since' > 0 /\ values' = WindowAfter(since)'
        BY <1>0, <2>1, <2>2 DEF WindowAfter
    <2>6. ~(stats' = "done" /\ latency'.number > 0)
        BY <2>1, <2>2, <2>3
    <2>7. latency'.number > 0 => recorded' # <<>>
        BY <1>0, <2>1 DEF MessageInv
    <2> QED BY <2>4, <2>5, <2>6, <2>7 DEF MessageInv
<1>4. CASE WriteLatency
    <2>1. /\ latency' = Latency(values) /\ stats' = "done"
          /\ UNCHANGED <<recorded, since>>
          /\ since \in 0..Len(recorded) /\ since > 0 /\ values = WindowAfter(since)
        BY <1>0, <1>4 DEF WriteLatency, MessageInv
    <2>2. since \in Moments' /\ latency' = Latency(WindowAfter(since))
        BY <1>0, <2>1 DEF Moments
    <2>3. \E n \in Moments' : latency' = Latency(WindowAfter(n)')
        <3>1. PICK n : n = since
            OBVIOUS
        <3>2. WindowAfter(n)' = WindowAfter(n)
            BY <2>1 DEF WindowAfter
        <3> QED BY <2>2, <3>1, <3>2
    <2>4. recorded' # <<>>
        <3>1. Len(<<>>) = 0
            OBVIOUS
        <3>2. Len(recorded) # 0
            BY <1>0, <2>1
        <3> QED BY <2>1, <3>1, <3>2
    <2>5. since' \in 0..Len(recorded') /\ stats' # "copied"
        BY <2>1
    <2> QED BY <2>3, <2>4, <2>5 DEF MessageInv
<1>5. CASE Publish
    <2>1. stats' = "idle" /\ since' = 0 /\ UNCHANGED <<recorded, latency>>
        BY <1>5 DEF Publish
    <2> QED BY <1>0, <2>1 DEF MessageInv
<1>6. \/ UNCHANGED <<recorded, since, stats, values, latency>>
      \/ \E h \in Handlers : AppendRtt(h)
      \/ SendStats
    BY DEF Next, SecondPasses, Ingest, HandlerStep, ReadClock, Count, ReadSize, ShowSize, Take, Flushed,
           TickerReadsSize, TickerShowsSize, hubVars
<1> QED BY <1>1, <1>2, <1>3, <1>4, <1>5, <1>6 DEF SendStats

LEMMA RateStep ==
    ASSUME StatInv, Next
    PROVE  RateInv'
<1>0. TypeOK /\ RateInv /\ counts \in Counters
    BY DEF StatInv, TypeOK, Counters
<1>1. ASSUME NEW h \in Handlers, Count(h)
      PROVE  RateInv'
    <2> DEFINE t == now[h]
    <2>1. /\ t \in Seconds /\ stage[h] = "count"
          /\ counts' = Counted(counts, Head(todo[h]), t)
          /\ stamped' = [stamped EXCEPT ![t] = @ + 1]
          /\ stage' = [stage EXCEPT ![h] = "append"]
          /\ now' = [now EXCEPT ![h] = 0]
        BY <1>0, <1>1 DEF Count, Goto, RateInv
    <2>2. /\ counts' \in Counters /\ counts'.lastSecond = t
          /\ t # counts.lastSecond => counts'.rate = counts.inSecond /\ counts'.inSecond = 1
          /\ t = counts.lastSecond => counts'.rate = counts.rate /\ counts'.inSecond = counts.inSecond + 1
        BY <1>0, <2>1, CountedProperties
    <2>3. counts.inSecond \in Nat /\ counts.rate \in Nat
        BY <1>0 DEF Counters
    <2> HIDE DEF t
    <2>4. /\ stamped' \in [Seconds -> Nat]
          /\ stamped'[t] = stamped[t] + 1 /\ stamped[t] \in Nat
          /\ \A s \in Seconds : stamped[s] \in Nat /\ stamped'[s] \in Nat /\ stamped[s] <= stamped'[s]
        BY <1>0, <2>1 DEF RateInv
    <2>5. \A g \in Handlers : stage'[g] = "count" => now'[g] \in Seconds
        BY <1>0, <2>1 DEF RateInv, TypeOK
    <2>6. counts'.inSecond <= stamped'[t]
        <3>1. CASE t # counts.lastSecond
            BY <2>2, <2>4, <3>1
        <3>2. CASE t = counts.lastSecond
            BY <1>0, <2>2, <2>3, <2>4, <3>2 DEF RateInv
        <3> QED BY <3>1, <3>2
    <2>7. counts'.rate > 0 => \E s \in Seconds : counts'.rate <= stamped'[s]
        <3>1. CASE t # counts.lastSecond
            <4>1. counts'.rate > 0 => /\ counts.lastSecond \in Seconds
                                      /\ counts.inSecond <= stamped[counts.lastSecond]
                BY <1>0, <2>2, <3>1 DEF RateInv
            <4> QED BY <2>2, <2>3, <2>4, <3>1, <4>1
        <3>2. CASE t = counts.lastSecond
            <4>1. counts.rate > 0 => \E s \in Seconds : counts.rate <= stamped[s]
                BY <1>0 DEF RateInv, RateIsNeverOverstated
            <4> QED BY <2>2, <2>3, <2>4, <3>2, <4>1
        <3> QED BY <3>1, <3>2
    <2> QED BY <2>1, <2>2, <2>4, <2>5, <2>6, <2>7 DEF RateInv, RateIsNeverOverstated
<1>2. ASSUME UNCHANGED <<counts, stamped>>,
             \A g \in Handlers : stage'[g] = "count" => now'[g] \in Seconds
      PROVE  RateInv'
    BY <1>0, <1>2 DEF RateInv, RateIsNeverOverstated
<1>3. ASSUME NEW h \in Handlers, ReadClock(h)
      PROVE  RateInv'
    <2>1. \A g \in Handlers : stage'[g] = "count" => now'[g] \in Seconds
        BY <1>0, <1>3 DEF ReadClock, Goto, RateInv, TypeOK
    <2> QED BY <1>2, <1>3, <2>1 DEF ReadClock, hubVars
<1>4. ASSUME NEW h \in Handlers, Ingest(h) \/ AppendRtt(h) \/ ReadSize(h) \/ ShowSize(h)
      PROVE  RateInv'
    <2>1. /\ UNCHANGED <<counts, stamped, now>>
          /\ \E s : s # "count" /\ stage' = [stage EXCEPT ![h] = s]
        BY <1>4 DEF Ingest, AppendRtt, ReadSize, ShowSize, Goto, hubVars
    <2>2. \A g \in Handlers : stage'[g] = "count" => now'[g] \in Seconds
        BY <1>0, <2>1 DEF RateInv, TypeOK
    <2> QED BY <1>2, <2>1, <2>2
<1>5. ASSUME UNCHANGED <<counts, stamped, stage, now>>
      PROVE  RateInv'
    BY <1>0, <1>5 DEF RateInv, RateIsNeverOverstated
<1>6. \/ UNCHANGED <<counts, stamped, stage, now>>
      \/ \E h \in Handlers : Ingest(h) \/ HandlerStep(h)
    BY DEF Next, SecondPasses, Take, Flushed, TickerReadsSize, TickerShowsSize, SendStats,
           CopyWindow, WriteLatency, Publish, handlerVars, hubVars
<1> QED BY <1>1, <1>3, <1>4, <1>5, <1>6 DEF HandlerStep

-------------------------------------------------------------------------------
(***************************************************************************)
(* The invariant, and what follows from it.                                *)
(***************************************************************************)

LEMMA StatInvInit == Init => StatInv
<1> SUFFICES ASSUME Init PROVE StatInv
    OBVIOUS
<1>1. /\ stage = [h \in Handlers |-> "idle"] /\ todo = [h \in Handlers |-> <<>>]
      /\ counts = [total |-> 0, errors |-> 0, rate |-> 0, lastSecond |-> 0, inSecond |-> 0]
      /\ rttBuffer = <<>> /\ stats = "idle" /\ accepted = 0 /\ recorded = <<>>
      /\ latency.number = 0 /\ since = 0
      /\ stamped = [s \in Seconds |-> 0]
    BY DEF Init, NoLatency
<1>2. Len(<<>>) = 0 /\ <<>> \in Seq(Rtts)
    BY EmptySeq
<1>3. ShareInv
    <2>1. PICK first \in [Handlers -> 1..accepted + 1] : \A h \in Handlers : first[h] = 1
        <3>1. [h \in Handlers |-> 1] \in [Handlers -> 1..accepted + 1]
            BY <1>1
        <3> QED BY <3>1
    <2>2. \A h \in Handlers : Held(first, h) = {} /\ Len(todo[h]) = 0
        BY <1>1, <1>2, <2>1 DEF Held
    <2>3. CountedBy(first) = {} /\ RecordedBy(first) = {} /\ Errors(CountedBy(first)) = {}
        BY <1>1 DEF CountedBy, RecordedBy, Errors
    <2>4. Shares(first)
        <3>1. Cardinality({}) = 0
            BY FS_EmptySet
        <3>2. counts.total = 0 /\ counts.errors = 0 /\ Len(recorded) = 0
            BY <1>1, <1>2
        <3>3. \A h \in Handlers : \A k \in 1..Len(todo[h]) : FALSE
            BY <2>2
        <3>4. \A g, h \in Handlers : Held(first, g) \cap Held(first, h) = {}
            BY <2>2
        <3> QED BY <2>2, <2>3, <3>1, <3>2, <3>3, <3>4, Zenon DEF Shares
    <2>5. accepted \in 0..Len(Load)
        BY <1>1, LoadProperties
    <2> QED BY <1>1, <2>4, <2>5 DEF ShareInv
<1>4. WindowInv
    <2>1. WindowAfter(0) = <<>>
        <3>1. LastOf(<<>>, 0) \in Seq(Rtts) /\ Len(LastOf(<<>>, 0)) = Shorter(0)
            <4>1. 0 \in 0..Len(<<>>)
                BY <1>2
            <4> QED BY <1>2, <4>1, LastOfProperties, Zenon
        <3>2. Shorter(0) = 0
            BY StatisticsAssumption DEF Shorter
        <3>3. LastOf(<<>>, 0) = <<>>
            BY <3>1, <3>2, EmptySeq
        <3> QED BY <1>1, <3>3 DEF WindowAfter, LastOf
    <2> QED BY <1>1, <1>2, <2>1 DEF WindowInv
<1>5. MessageInv
    BY <1>1, <1>2 DEF MessageInv
<1>6. RateInv
    BY <1>1 DEF RateInv, RateIsNeverOverstated
<1> QED BY TypeInit, <1>3, <1>4, <1>5, <1>6 DEF StatInv

LEMMA StatInvStep == StatInv /\ [Next]_vars => StatInv'
<1> SUFFICES ASSUME StatInv, [Next]_vars PROVE StatInv'
    OBVIOUS
<1>1. CASE Next
    BY <1>1, TypeStep, ShareStep, WindowStep, MessageStep, RateStep DEF StatInv
<1>2. CASE UNCHANGED vars
    <2>1. UNCHANGED <<clock, stage, single, todo, now, size, counts, shown, rttBuffer, latency, stats,
                      values, buffer, taken, ticker, faults, accepted, recorded, stamped, since>>
        BY <1>2 DEF vars, handlerVars, hubVars, storeVars
    <2>2. TypeOK'
        BY <2>1 DEF StatInv, TypeOK
    <2>3. ShareInv'
        BY <2>1, ShareFrame DEF StatInv
    <2>4. WindowInv' /\ MessageInv' /\ RateInv'
        BY <2>1 DEF StatInv, WindowInv, MessageInv, RateInv, RateIsNeverOverstated, WindowAfter, Moments
    <2> QED BY <2>2, <2>3, <2>4 DEF StatInv
<1> QED BY <1>1, <1>2

\* The inductive invariant of HubStatistics: who holds which accepted requests, and
\* of which moments the window, its copy and the message are.
THEOREM StatisticsInvariant == Spec => []StatInv
BY StatInvInit, StatInvStep, PTL DEF Spec

\* requests_per_sec is at most the number of requests of one second, in whatever
\* order the seconds are counted (hub.go 131-148).
THEOREM RateIsOfOneSecond == Spec => []RateIsNeverOverstated
<1>1. StatInv => RateIsNeverOverstated
    BY DEF StatInv, RateInv
<1> QED BY <1>1, StatisticsInvariant, PTL

\* Whatever is counted is stored, with nobody at work everything is counted, and the
\* average and the percentiles of a message are those of one moment's window, whose
\* requests are among its total_requests (hub.go 130-158, 168-173, 194-215).
THEOREM LiveNumbersAgree == Spec => []ShownIsStored
<1>1. ASSUME StatInv
      PROVE  ShownIsStored
    <2>0. TypeOK /\ ShareInv /\ WindowInv /\ MessageInv
        BY <1>1 DEF StatInv
    <2>1. accepted \in Nat
        BY <2>0, LoadProperties DEF ShareInv
    <2>2. PICK first \in [Handlers -> 1..accepted + 1] : Shares(first)
        BY <2>0 DEF ShareInv
    <2>3. IsFiniteSet(1..accepted) /\ Cardinality(1..accepted) = accepted
        BY <2>1, FS_Interval
    <2>4. CountedBy(first) \in SUBSET (1..accepted)
        BY DEF CountedBy
    <2>5. IsFiniteSet(CountedBy(first)) /\ Cardinality(CountedBy(first)) <= accepted
        BY <2>3, <2>4, FS_Subset
    <2>6. counts.total <= accepted
        BY <2>2, <2>5 DEF Shares
    <2>7. Len(recorded) <= counts.total
        <3>1. RecordedBy(first) \in SUBSET CountedBy(first)
            BY DEF RecordedBy, CountedBy, Uncounted
        <3>2. Cardinality(RecordedBy(first)) <= Cardinality(CountedBy(first))
            BY <2>5, <3>1, FS_Subset
        <3> QED BY <2>2, <3>2 DEF Shares
    <2>8. ASSUME \A h \in Handlers : todo[h] = <<>>
          PROVE  /\ counts.total = accepted
                 /\ counts.errors = Cardinality({i \in 1..accepted : Load[i].error})
                 /\ rttBuffer = WindowAfter(accepted)
        <3>1. Len(<<>>) = 0
            OBVIOUS
        <3>2. \A h \in Handlers : Held(first, h) = {}
            BY <2>1, <2>2, <2>8, <3>1 DEF Held
        <3>3. \A h \in Handlers : Uncounted(first, h) = {}
            BY <3>2 DEF Uncounted
        <3>4. CountedBy(first) = 1..accepted /\ RecordedBy(first) = 1..accepted
            BY <3>2, <3>3 DEF CountedBy, RecordedBy
        <3>5. counts.errors = Cardinality({i \in 1..accepted : Load[i].error})
            BY <2>2, <3>4 DEF Shares, Errors
        <3>6. counts.total = accepted /\ Len(recorded) = accepted
            BY <2>2, <2>3, <3>4 DEF Shares
        <3> QED BY <2>0, <3>5, <3>6 DEF WindowInv
    <2>9. ASSUME stats = "done", latency.number > 0
          PROVE  \E n \in Moments : n <= counts.total /\ latency = Latency(WindowAfter(n))
        <3>1. PICK n \in Moments : latency = Latency(WindowAfter(n))
            BY <2>0, <2>9 DEF MessageInv
        <3>2. counts.total \in Nat /\ Len(recorded) \in Nat
            BY <2>0, LenProperties DEF TypeOK, WindowInv
        <3>3. n <= counts.total
            BY <2>7, <3>2 DEF Moments
        <3> QED BY <3>1, <3>3
    <2> QED BY <2>0, <2>6, <2>8, <2>9 DEF ShownIsStored
<1>2. StatInv => ShownIsStored
    BY <1>1
<1> QED BY <1>2, StatisticsInvariant, PTL

=============================================================================
