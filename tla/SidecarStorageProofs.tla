------------------------- MODULE SidecarStorageProofs -------------------------
(***************************************************************************)
(* Theorems about SidecarStorage, for every set of requests and flushers   *)
(* and every bound.                                                        *)
(***************************************************************************)
EXTENDS SidecarStorage, SequenceTheorems, TLAPS

-------------------------------------------------------------------------------
(***************************************************************************)
(* Sequences and file contents.                                            *)
(***************************************************************************)

\* Joining two sequences that share no element and repeat none repeats none.
LEMMA ConcatInjective ==
    ASSUME NEW S, NEW s \in Seq(S), NEW t \in Seq(S),
           IsInjective(s), IsInjective(t), Range(s) \cap Range(t) = {}
    PROVE  IsInjective(s \o t)
<1> SUFFICES ASSUME NEW a \in DOMAIN (s \o t), NEW b \in DOMAIN (s \o t),
                    (s \o t)[a] = (s \o t)[b]
             PROVE  a = b
    BY DEF IsInjective
<1>1. /\ Len(s) \in Nat /\ Len(t) \in Nat
      /\ DOMAIN s = 1..Len(s) /\ DOMAIN t = 1..Len(t)
      /\ DOMAIN (s \o t) = 1..Len(s) + Len(t)
      /\ \A i \in 1..Len(s) : (s \o t)[i] = s[i] /\ s[i] \in Range(s)
      /\ \A i \in 1..Len(s) + Len(t) : i > Len(s) =>
            /\ (s \o t)[i] = t[i - Len(s)]
            /\ i - Len(s) \in 1..Len(t)
            /\ t[i - Len(s)] \in Range(t)
    BY ConcatProperties, LenProperties DEF Range
<1>2. CASE a <= Len(s) /\ b <= Len(s)
    BY <1>1, <1>2 DEF IsInjective
<1>3. CASE a > Len(s) /\ b > Len(s)
    <2>1. t[a - Len(s)] = t[b - Len(s)]
        BY <1>1, <1>3
    <2>2. a - Len(s) = b - Len(s)
        BY <1>1, <1>3, <2>1 DEF IsInjective
    <2> QED BY <1>1, <2>2
<1>4. CASE (a <= Len(s)) # (b <= Len(s))
    BY <1>1, <1>4
<1> QED BY <1>1, <1>2, <1>3, <1>4

\* Writing line k gives a file whose other lines are old ones or Holes.
LEMMA PutAtProperties ==
    ASSUME NEW c \in Seq(Lines), NEW k \in Nat \ {0}, NEW x \in Lines
    PROVE  /\ PutAt(c, k, x) \in Seq(Lines)
           /\ Range(PutAt(c, k, x)) \subseteq Range(c) \cup {x, Hole}
<1> DEFINE n == IF Len(c) < k THEN k ELSE Len(c)
           p(i) == IF i = k THEN x ELSE IF i <= Len(c) THEN c[i] ELSE Hole
<1>1. n \in Nat /\ Len(c) \in Nat /\ DOMAIN c = 1..Len(c)
    BY LenProperties
<1>2. \A i \in 1..n : p(i) \in Lines /\ p(i) \in Range(c) \cup {x, Hole}
    BY <1>1, ElementOfSeq DEF Lines, Range
<1>3. PutAt(c, k, x) = [i \in 1..n |-> p(i)]
    BY DEF PutAt
<1>4. PutAt(c, k, x) \in Seq(Lines) /\ Len(PutAt(c, k, x)) = n
    BY <1>1, <1>2, <1>3
<1>5. Range(PutAt(c, k, x)) \subseteq Range(c) \cup {x, Hole}
    BY <1>2, <1>3 DEF Range
<1> QED BY <1>4, <1>5

\* Writing the line after the last one appends it.
LEMMA PutAtAppends ==
    ASSUME NEW c \in Seq(Lines), NEW x \in Lines
    PROVE  PutAt(c, Len(c) + 1, x) = Append(c, x)
<1> DEFINE n == Len(c) + 1
           p == PutAt(c, n, x)
<1>1. n \in Nat \ {0} /\ Len(c) \in Nat /\ Len(c) < n
    BY LenProperties
<1>2. p = [i \in 1..n |-> IF i = n THEN x ELSE IF i <= Len(c) THEN c[i] ELSE Hole]
    BY <1>1 DEF PutAt
<1>3. p \in Seq(Lines)
    BY <1>1, PutAtProperties
<1>4. Len(p) = n /\ \A i \in 1..n : p[i] = Append(c, x)[i]
    BY <1>1, <1>2, <1>3, AppendProperties
<1> QED BY <1>1, <1>3, <1>4, AppendProperties, SeqEqual

\* COPY reads requests that are in the file, and all of a well-formed file.
LEMMA ImportableProperties ==
    ASSUME NEW c \in Seq(Lines), NEW r \in Importable(c)
    PROVE  /\ r \in Seq(Events)
           /\ Range(r) \subseteq Range(c) \cap Events
           /\ WellFormed(c) => Len(r) = Len(c) - 1
<1>1. PICK i \in 1..Len(c) + 1, j \in 0..Len(c) : r = SubSeq(c, i, j)
    BY DEF Importable
<1>2. \A k \in 1..Len(r) : r[k] \in Events
    BY DEF Importable
<1>3. Len(c) \in Nat /\ DOMAIN c = 1..Len(c)
    BY LenProperties
<1>4. r \in Seq(Lines) /\ \A k \in 1..Len(r) : r[k] \in Range(c)
    <2>1. \A k \in i..j : c[k] \in Lines
        BY <1>3, ElementOfSeq
    <2>2. /\ r \in Seq(Lines)
          /\ Len(r) = IF i <= j THEN j - i + 1 ELSE 0
          /\ \A k \in 1..j - i + 1 : r[k] = c[i + k - 1]
        BY <1>1, <1>3, <2>1, SubSeqProperties
    <2>3. \A k \in 1..Len(r) : r[k] = c[i + k - 1] /\ i + k - 1 \in 1..Len(c)
        BY <1>3, <2>2
    <2> QED BY <1>3, <2>2, <2>3 DEF Range
<1>5. r \in Seq(Events)
    BY <1>2, <1>4, LenProperties, SeqEqual
<1>6. Range(r) \subseteq Range(c) \cap Events
    BY <1>2, <1>4, LenProperties DEF Range
<1>7. WellFormed(c) => Len(r) = Len(c) - 1
    BY DEF Importable
<1> QED BY <1>5, <1>6, <1>7

-------------------------------------------------------------------------------
(***************************************************************************)
(* The inductive invariant.                                                *)
(***************************************************************************)

\* A goroutine outside Flush holds no batch.
IdleHoldsNothing ==
    \A f \in Flushers : pc[f] = "idle" => batch[f] = <<>>

\* File and table hold accepted requests only, and while a writeBatch is under
\* way nothing in the file dates from before a crash.
FileOrigin ==
    /\ Range(csv) \subseteq accepted \cup {Header, Hole}
    /\ Range(table) \subseteq accepted
    /\ (\E f \in Flushers : pc[f] \in InWriteBatch) => Range(csv) \cap dropped = {}

\* Without overlap one goroutine at most is in writeBatch, ...
OneWriter ==
    ~raced => \A f, g \in Flushers :
        pc[f] \in InWriteBatch /\ pc[g] \in InWriteBatch => f = g

\* ... the file holds the lines that goroutine has written so far, ...
FileIsOwn ==
    ~raced => \A f \in Flushers : pc[f] \in {"write", "copy"} =>
        /\ f \in linked
        /\ Len(csv) = written[f]
        /\ \A k \in 1..Len(csv) : csv[k] = Line(batch[f], k)
        /\ pc[f] = "copy" => written[f] = Len(batch[f]) + 1

\* ... and what it has committed is in the table.
CommittedIsStored ==
    ~raced => \A f \in Flushers :
        pc[f] = "removeOk" => Range(batch[f]) \subseteq Range(table)

AccountInv == TypeOK /\ IdleHoldsNothing /\ AcceptedAccounted

StorageInv ==
    /\ AccountInv
    /\ FileOrigin
    /\ OneWriter
    /\ FileIsOwn
    /\ CommittedIsStored
    /\ ExactlyOnceUnlessRaced

-------------------------------------------------------------------------------
(***************************************************************************)
(* Type correctness.                                                       *)
(***************************************************************************)

\* The initial state is well-typed.
LEMMA TypeInit == Init => TypeOK
<1> SUFFICES ASSUME Init PROVE TypeOK
    OBVIOUS
<1>1. /\ <<>> \in Seq(Events) /\ <<>> \in Seq(Lines)
      /\ 0 \in 0..MaxFaults
    BY StorageAssumption, EmptySeq DEF StorageAssumption
<1>2. \A f \in Flushers : pc[f] = "idle" /\ batch[f] = <<>> /\ written[f] = 0
    BY DEF Init
<1>3. /\ pc \in [Flushers -> PCs]
      /\ batch \in [Flushers -> Seq(Events)]
      /\ written \in [Flushers -> Nat]
    BY <1>1 DEF Init, PCs
<1> QED BY <1>1, <1>2, <1>3 DEF Init, TypeOK

\* The line a writer is about to write is a header or a request.
LEMMA LineType ==
    ASSUME TypeOK, NEW f \in Flushers, pc[f] = "write"
    PROVE  /\ written[f] \in Nat
           /\ written[f] + 1 \in Nat \ {0}
           /\ Line(batch[f], written[f] + 1) \in Range(batch[f]) \cup {Header}
           /\ Line(batch[f], written[f] + 1) \in Lines
<1>1. batch[f] \in Seq(Events) /\ written[f] \in 0..Len(batch[f])
    BY DEF TypeOK
<1>2. Len(batch[f]) \in Nat /\ DOMAIN batch[f] = 1..Len(batch[f])
    BY <1>1, LenProperties
<1>3. CASE written[f] = 0
    BY <1>1, <1>2, <1>3 DEF Line, Lines
<1>4. CASE written[f] # 0
    <2>1. written[f] \in 1..Len(batch[f]) /\ written[f] + 1 # 1
        BY <1>1, <1>2, <1>4
    <2>2. Line(batch[f], written[f] + 1) = batch[f][written[f]]
        BY <1>1, <1>2, <2>1 DEF Line
    <2>3. batch[f][written[f]] \in Events /\ batch[f][written[f]] \in Range(batch[f])
        BY <1>1, <1>2, <2>1, ElementOfSeq DEF Range
    <2> QED BY <1>1, <1>2, <2>2, <2>3 DEF Lines
<1> QED BY <1>1, <1>3, <1>4

\* Every step keeps the types.
LEMMA TypeStep == TypeOK /\ [Next]_vars => TypeOK'
<1> SUFFICES ASSUME TypeOK, [Next]_vars PROVE TypeOK'
    OBVIOUS
<1> USE StorageAssumption DEF TypeOK, PCs, InWriteBatch
<1>1. ASSUME NEW n \in 1..MaxIngest, NEW es \in [1..n -> Events], AddEvents(es)
      PROVE  TypeOK'
    <2>1. es \in Seq(Events)
        BY DEF AddEvents
    <2>2. buffer' \in Seq(Events) /\ accepted' \subseteq Events
        BY <1>1, <2>1, ConcatProperties, RangeOfSeq DEF AddEvents
    <2> QED BY <1>1, <2>2 DEF AddEvents, file
<1>2. ASSUME NEW f \in Flushers, Take(f) PROVE TypeOK'
    BY <1>2, EmptySeq DEF Take, SwapBuffer, file, ghosts
<1>3. ASSUME NEW f \in Flushers, Create(f) PROVE TypeOK'
    <2>1. \A g \in Flushers : Len(batch[g]) \in Nat
        BY LenProperties
    <2> QED BY <1>3, <2>1, EmptySeq DEF Create, OpenCsv, StartCsv
<1>4. ASSUME NEW f \in Flushers, CreateFails(f) PROVE TypeOK'
    BY <1>4 DEF CreateFails, file, ghosts
<1>5. ASSUME NEW f \in Flushers, WriteLine(f) PROVE TypeOK'
    <2>1. csv' \in Seq(Lines)
        BY <1>5, LineType, PutAtProperties DEF WriteLine
    <2>2. written[f] + 1 \in Nat /\ Len(batch[f]) \in Nat
        BY <1>5, LineType, LenProperties DEF WriteLine
    <2>3. \A g \in Flushers : pc'[g] = "write" => written'[g] \in 0..Len(batch'[g])
        BY <1>5, <2>2 DEF WriteLine
    <2> QED BY <1>5, <2>1, <2>2, <2>3 DEF WriteLine, ghosts
<1>6. ASSUME NEW f \in Flushers, WriteFails(f) PROVE TypeOK'
    BY <1>6 DEF WriteFails, file, ghosts
<1>7. ASSUME NEW f \in Flushers, Copy(f) PROVE TypeOK'
    <2>1. table' \in Seq(Events)
        BY <1>7, ImportableProperties, ConcatProperties DEF Copy
    <2> QED BY <1>7, <2>1 DEF Copy, CopyDone, file, ghosts
<1>8. ASSUME NEW f \in Flushers, CopyRejects(f) PROVE TypeOK'
    BY <1>8 DEF CopyRejects, file, ghosts
<1>9. ASSUME NEW f \in Flushers, CopyFails(f) PROVE TypeOK'
    BY <1>9 DEF CopyFails, file, ghosts
<1>10. ASSUME NEW f \in Flushers, ReturnStored(f) PROVE TypeOK'
    BY <1>10, RangeOfSeq, EmptySeq DEF ReturnStored, RemoveCsv
<1>11. ASSUME NEW f \in Flushers, RemoveAfterError(f) PROVE TypeOK'
    BY <1>11, EmptySeq DEF RemoveAfterError, RemoveCsv, ghosts
<1>12. ASSUME NEW f \in Flushers, Requeue(f) PROVE TypeOK'
    BY <1>12, ConcatProperties, EmptySeq DEF Requeue, PutBack, file, ghosts
<1>13. ASSUME Crash PROVE TypeOK'
    <2>1. InMemory \subseteq Events
        BY RangeOfSeq DEF InMemory
    <2> QED BY <1>13, <2>1, EmptySeq DEF Crash
<1>14. CASE UNCHANGED vars
    BY <1>14 DEF vars, memory, file, ghosts
<1> QED BY <1>1, <1>2, <1>3, <1>4, <1>5, <1>6, <1>7, <1>8, <1>9, <1>10, <1>11,
           <1>12, <1>13, <1>14 DEF Next, FlushStep

\* The variables of DuckDBStorage and of its flushers keep their types.
THEOREM TypeCorrect == Spec => []TypeOK
<1>1. Init => TypeOK
    BY TypeInit
<1>2. TypeOK /\ [Next]_vars => TypeOK'
    BY TypeStep
<1> QED BY <1>1, <1>2, PTL DEF Spec

-------------------------------------------------------------------------------
(***************************************************************************)
(* Accounting: no interleaving of flushers loses or doubles a request in   *)
(* memory.                                                                 *)
(***************************************************************************)

\* The empty sequence repeats nothing and holds nothing.
LEMMA EmptyRange == Range(<<>>) = {} /\ IsInjective(<<>>)
<1>1. DOMAIN <<>> = {}
    OBVIOUS
<1> QED BY <1>1 DEF Range, IsInjective

\* A step that leaves buffer, batches and ghosts alone leaves the accounts alone.
LEMMA AccountFrame ==
    ASSUME AcceptedAccounted, UNCHANGED <<buffer, batch, accepted, reported, dropped>>
    PROVE  AcceptedAccounted'
BY DEF AcceptedAccounted, InMemory

\* The steps of a flusher between taking a batch and giving it up.
HoldingStep(f) ==
    \/ Create(f) \/ CreateFails(f) \/ WriteLine(f) \/ WriteFails(f)
    \/ Copy(f) \/ CopyRejects(f) \/ CopyFails(f) \/ RemoveAfterError(f)

\* Those steps move no request.
LEMMA HoldingStepMovesNothing ==
    ASSUME TypeOK, NEW f \in Flushers, HoldingStep(f)
    PROVE  /\ UNCHANGED <<buffer, batch, accepted, reported, dropped>>
           /\ \A g \in Flushers \ {f} : pc'[g] = pc[g]
           /\ pc[f] # "idle" /\ pc'[f] # "idle"
BY DEF TypeOK, HoldingStep, Create, CreateFails, WriteLine, WriteFails, Copy, CopyDone,
       CopyRejects, CopyFails, RemoveAfterError, file, ghosts

\* Every step keeps the accounts.
LEMMA AccountStep == AccountInv /\ [Next]_vars => AccountInv'
<1> SUFFICES ASSUME AccountInv, [Next]_vars
             PROVE  IdleHoldsNothing' /\ AcceptedAccounted'
    BY TypeStep DEF AccountInv
<1>0. TypeOK /\ IdleHoldsNothing /\ AcceptedAccounted
    BY DEF AccountInv
<1>t. /\ buffer \in Seq(Events)
      /\ \A f \in Flushers : batch[f] \in Seq(Events)
    BY <1>0 DEF TypeOK
<1>1. ASSUME NEW n \in 1..MaxIngest, NEW es \in [1..n -> Events], AddEvents(es)
      PROVE  IdleHoldsNothing' /\ AcceptedAccounted'
    <2>1. es \in Seq(Events)
        OBVIOUS
    <2>2. Range(buffer) \cap Range(es) = {}
        BY <1>0, <1>1 DEF AddEvents, AcceptedAccounted, InMemory
    <2>3. IsInjective(buffer') /\ Range(buffer') = Range(buffer) \cup Range(es)
        BY <1>0, <1>1, <1>t, <2>1, <2>2, ConcatInjective, RangeConcatenation
           DEF AddEvents, AcceptedAccounted
    <2>4. InMemory' = InMemory \cup Range(es)
        BY <1>1, <2>3 DEF AddEvents, InMemory
    <2>5. \A f \in Flushers : Range(batch[f]) \cap Range(es) = {}
        BY <1>0, <1>1 DEF AddEvents, AcceptedAccounted, InMemory
    <2>6. AcceptedAccounted'
        BY <1>0, <1>1, <2>3, <2>4, <2>5 DEF AddEvents, AcceptedAccounted
    <2> QED BY <1>0, <1>1, <2>6 DEF AddEvents, IdleHoldsNothing
<1>2. ASSUME NEW f \in Flushers, Take(f)
      PROVE  IdleHoldsNothing' /\ AcceptedAccounted'
    <2>1. /\ Range(batch[f]) = {}
          /\ batch'[f] = buffer /\ buffer' = <<>>
          /\ \A g \in Flushers \ {f} : batch'[g] = batch[g] /\ pc'[g] = pc[g]
          /\ pc'[f] = "create"
        BY <1>0, <1>2, EmptyRange DEF Take, SwapBuffer, IdleHoldsNothing, TypeOK
    <2>2. InMemory' = InMemory
        BY <2>1, EmptyRange DEF InMemory
    <2>3. UNCHANGED <<accepted, reported, dropped>>
        BY <1>2 DEF Take, ghosts
    <2>4. AcceptedAccounted'
        BY <1>0, <2>1, <2>2, <2>3, EmptyRange DEF AcceptedAccounted
    <2> QED BY <1>0, <2>1, <2>4 DEF IdleHoldsNothing
<1>3. ASSUME NEW f \in Flushers, HoldingStep(f)
      PROVE  IdleHoldsNothing' /\ AcceptedAccounted'
    BY <1>0, <1>3, HoldingStepMovesNothing, AccountFrame DEF IdleHoldsNothing
<1>4. ASSUME NEW f \in Flushers, ReturnStored(f)
      PROVE  IdleHoldsNothing' /\ AcceptedAccounted'
    <2>1. /\ batch'[f] = <<>> /\ buffer' = buffer
          /\ \A g \in Flushers \ {f} : batch'[g] = batch[g] /\ pc'[g] = pc[g]
          /\ reported' = reported \cup Range(batch[f])
          /\ UNCHANGED <<accepted, dropped>>
        BY <1>0, <1>4 DEF ReturnStored, TypeOK
    <2>2. InMemory' = InMemory \ Range(batch[f])
        BY <1>0, <2>1, EmptyRange DEF InMemory, AcceptedAccounted
    <2>3. Range(batch[f]) \subseteq InMemory
        BY DEF InMemory
    <2>4. AcceptedAccounted'
        BY <1>0, <2>1, <2>2, <2>3, EmptyRange DEF AcceptedAccounted
    <2> QED BY <1>0, <2>1, <2>4 DEF IdleHoldsNothing
<1>5. ASSUME NEW f \in Flushers, Requeue(f)
      PROVE  IdleHoldsNothing' /\ AcceptedAccounted'
    <2>1. /\ batch'[f] = <<>> /\ buffer' = batch[f] \o buffer
          /\ \A g \in Flushers \ {f} : batch'[g] = batch[g] /\ pc'[g] = pc[g]
          /\ UNCHANGED <<accepted, reported, dropped>>
        BY <1>0, <1>5 DEF Requeue, PutBack, TypeOK, ghosts
    <2>2. IsInjective(buffer') /\ Range(buffer') = Range(batch[f]) \cup Range(buffer)
        BY <1>0, <1>t, <2>1, ConcatInjective, RangeConcatenation DEF AcceptedAccounted
    <2>3. InMemory' = InMemory
        BY <2>1, <2>2, EmptyRange DEF InMemory
    <2>4. AcceptedAccounted'
        BY <1>0, <2>1, <2>2, <2>3, EmptyRange DEF AcceptedAccounted
    <2> QED BY <1>0, <2>1, <2>4 DEF IdleHoldsNothing
<1>6. ASSUME Crash PROVE IdleHoldsNothing' /\ AcceptedAccounted'
    <2>1. InMemory' = {}
        BY <1>6, EmptyRange DEF Crash, InMemory
    <2> QED BY <1>0, <1>6, <2>1, EmptyRange DEF Crash, AcceptedAccounted, IdleHoldsNothing
<1>7. CASE UNCHANGED vars
    BY <1>0, <1>7, AccountFrame DEF vars, memory, ghosts, IdleHoldsNothing
<1> QED BY <1>1, <1>2, <1>3, <1>4, <1>5, <1>6, <1>7 DEF Next, FlushStep, HoldingStep

\* The accounts balance at the start.
LEMMA AccountInit == Init => AccountInv
BY TypeInit, EmptyRange
   DEF Init, AccountInv, IdleHoldsNothing, AcceptedAccounted, InMemory

\* No matter how many goroutines flush at once, and however their steps
\* interleave with ingest calls, errors and crashes, an accepted request is in
\* exactly one place.
THEOREM NothingSlipsFromMemory == Spec => []AcceptedAccounted
<1>1. Init => AccountInv
    BY AccountInit
<1>2. AccountInv /\ [Next]_vars => AccountInv'
    BY AccountStep
<1>3. AccountInv => AcceptedAccounted
    BY DEF AccountInv
<1> QED BY <1>1, <1>2, <1>3, PTL DEF Spec

-------------------------------------------------------------------------------
(***************************************************************************)
(* The file and the table.                                                 *)
(***************************************************************************)

\* The batch of a flusher is made of accepted requests, none of them dropped.
LEMMA BatchIsAccepted ==
    ASSUME AccountInv, NEW f \in Flushers
    PROVE  /\ Range(batch[f]) \subseteq accepted
           /\ Range(batch[f]) \cap dropped = {}
           /\ Range(buffer) \subseteq accepted
BY DEF AccountInv, AcceptedAccounted, InMemory

\* What COPY adds to the table: requests that were in the file; without
\* overlap, exactly the batch of the flusher that calls it.
LEMMA CopyAdds ==
    ASSUME StorageInv, NEW f \in Flushers, Copy(f)
    PROVE  \E rows \in Seq(Events) :
              /\ table' = table \o rows
              /\ Range(table') = Range(table) \cup Range(rows)
              /\ Range(rows) \subseteq Range(csv) \cap Events
              /\ ~raced => Range(rows) = Range(batch[f]) /\ IsInjective(rows) /\ rows = batch[f]
<1>1. /\ csv \in Seq(Lines) /\ table \in Seq(Events) /\ batch[f] \in Seq(Events)
      /\ pc[f] = "copy"
    BY DEF StorageInv, AccountInv, TypeOK, Copy
<1>2. PICK rows \in Importable(csv) : table' = table \o rows
    BY DEF Copy
<1>3. /\ rows \in Seq(Events) /\ Range(rows) \subseteq Range(csv) \cap Events
      /\ WellFormed(csv) => Len(rows) = Len(csv) - 1
    BY <1>1, <1>2, ImportableProperties
<1>4. Range(table') = Range(table) \cup Range(rows)
    BY <1>1, <1>2, <1>3, RangeConcatenation
<1>5. ASSUME ~raced
      PROVE  Range(rows) = Range(batch[f]) /\ IsInjective(rows) /\ rows = batch[f]
    <2> DEFINE b == batch[f]
    <2>1. /\ Len(csv) = Len(b) + 1
          /\ \A k \in 1..Len(csv) : csv[k] = Line(b, k)
        BY <1>1, <1>5 DEF StorageInv, FileIsOwn
    <2>2. Len(b) \in Nat /\ DOMAIN b = 1..Len(b) /\ \A k \in 1..Len(b) : b[k] \in Events
        BY <1>1, LenProperties, ElementOfSeq
    <2>3. csv[1] = Header /\ \A k \in 2..Len(csv) : csv[k] = b[k - 1] /\ k - 1 \in 1..Len(b)
        BY <2>1, <2>2 DEF Line
    <2>4. WellFormed(csv)
        BY <2>1, <2>2, <2>3 DEF WellFormed
    <2>5. PICK i \in 1..Len(csv) + 1, j \in 0..Len(csv) : rows = SubSeq(csv, i, j)
        BY <1>2 DEF Importable
    <2>6. Len(rows) = Len(b) /\ \A k \in 1..Len(rows) : rows[k] \in Events
        BY <1>2, <1>3, <2>1, <2>2, <2>4 DEF Importable
    <2>7. /\ Len(rows) = IF i <= j THEN j - i + 1 ELSE 0
          /\ \A k \in 1..j - i + 1 : rows[k] = csv[i + k - 1]
        <3>1. \A k \in i..j : csv[k] \in Lines
            BY <1>1, <2>1, <2>2, ElementOfSeq
        <3> QED BY <2>1, <2>2, <2>5, <3>1, SubSeqProperties
    <2>8. rows = b
        <3>1. CASE Len(b) = 0
            BY <1>1, <1>3, <2>6, <3>1, SeqEqual
        <3>2. CASE Len(b) # 0
            <4>1. j - i + 1 = Len(b)
                BY <2>1, <2>2, <2>6, <2>7, <3>2
            <4>2. i # 1
                <5> SUFFICES ASSUME i = 1 PROVE FALSE
                    OBVIOUS
                <5>1. 1 \in 1..j - i + 1 /\ rows[1] = csv[1] /\ rows[1] \in Events
                    BY <2>2, <2>6, <2>7, <3>2, <4>1
                <5> QED BY <2>3, <5>1, StorageAssumption DEF StorageAssumption
            <4>3. i = 2
                BY <2>1, <2>2, <4>1, <4>2
            <4>4. \A k \in 1..Len(b) : rows[k] = csv[k + 1] /\ csv[k + 1] = b[k]
                BY <2>1, <2>2, <2>3, <2>7, <4>1, <4>3
            <4> QED BY <1>1, <1>3, <2>6, <4>4, SeqEqual
        <3> QED BY <3>1, <3>2
    <2>9. IsInjective(b)
        BY DEF StorageInv, AccountInv, AcceptedAccounted
    <2> QED BY <2>8, <2>9
<1> QED BY <1>2, <1>3, <1>4, <1>5

\* The part of the invariant that speaks of the file and the table.
FileInv ==
    FileOrigin /\ OneWriter /\ FileIsOwn /\ CommittedIsStored /\ ExactlyOnceUnlessRaced

\* A failed create and a failed or rejected COPY touch neither file nor table,
\* and take their flusher to a place about which the invariant says less.
LEMMA FailureKeepsFileInv ==
    ASSUME StorageInv, NEW f \in Flushers,
           CreateFails(f) \/ WriteFails(f) \/ CopyRejects(f) \/ CopyFails(f)
    PROVE  FileInv'
<1>1. /\ pc'[f] \in {"requeue", "removeErr"}
      /\ pc'[f] = "requeue" => pc[f] = "create"
      /\ pc'[f] = "removeErr" => pc[f] \in {"write", "copy"}
      /\ \A g \in Flushers \ {f} : pc'[g] = pc[g]
      /\ UNCHANGED <<buffer, batch, written, csvExists, csv, linked, table, accepted,
                     reported, dropped, raced>>
    BY DEF StorageInv, AccountInv, TypeOK, CreateFails, WriteFails, CopyRejects, CopyFails,
           file, ghosts
<1>2. FileOrigin /\ OneWriter /\ FileIsOwn /\ CommittedIsStored /\ ExactlyOnceUnlessRaced
    BY DEF StorageInv
<1>3. \A g \in Flushers : pc'[g] \in InWriteBatch => pc[g] \in InWriteBatch
    BY <1>1 DEF InWriteBatch
<1>4. FileOrigin' /\ OneWriter'
    BY <1>1, <1>2, <1>3 DEF FileOrigin, OneWriter
<1>5. FileIsOwn'
    BY <1>1, <1>2 DEF FileIsOwn
<1>6. CommittedIsStored'
    BY <1>1, <1>2 DEF CommittedIsStored
<1>7. ExactlyOnceUnlessRaced'
    BY <1>1, <1>2 DEF ExactlyOnceUnlessRaced, Unstored
<1> QED BY <1>4, <1>5, <1>6, <1>7 DEF FileInv

\* os.Create leaves the path naming an empty file that is this flusher's own.
LEMMA CreateKeepsFileInv ==
    ASSUME StorageInv, NEW f \in Flushers, Create(f)
    PROVE  FileInv'
<1>1. /\ pc[f] = "create" /\ pc'[f] = "write"
      /\ \A g \in Flushers \ {f} : pc'[g] = pc[g]
      /\ csv' = <<>> /\ written'[f] = 0 /\ f \in linked'
      /\ raced' = (raced \/ \E g \in Flushers : pc[g] \in InWriteBatch)
      /\ UNCHANGED <<buffer, batch, table, accepted, reported, dropped>>
    BY DEF StorageInv, AccountInv, TypeOK, Create, OpenCsv, StartCsv
<1>2. FileOrigin /\ OneWriter /\ FileIsOwn /\ CommittedIsStored /\ ExactlyOnceUnlessRaced
    BY DEF StorageInv
<1>3. FileOrigin'
    BY <1>1, <1>2, EmptyRange DEF FileOrigin
<1>4. OneWriter'
    BY <1>1 DEF OneWriter
<1>5. FileIsOwn'
    <2> SUFFICES ASSUME ~raced', NEW g \in Flushers, pc'[g] \in {"write", "copy"}
                 PROVE  g = f
        BY <1>1 DEF FileIsOwn
    <2> QED BY <1>1 DEF InWriteBatch
<1>6. CommittedIsStored'
    BY <1>1, <1>2 DEF CommittedIsStored
<1>7. ExactlyOnceUnlessRaced'
    BY <1>1, <1>2 DEF ExactlyOnceUnlessRaced, Unstored
<1> QED BY <1>3, <1>4, <1>5, <1>6, <1>7 DEF FileInv

\* A write adds the next line of the flusher's own batch, or goes to a file
\* nobody can open any more.
LEMMA WriteKeepsFileInv ==
    ASSUME StorageInv, NEW f \in Flushers, WriteLine(f)
    PROVE  FileInv'
<1> DEFINE k == written[f] + 1
           x == Line(batch[f], k)
<1>0. /\ FileOrigin /\ OneWriter /\ FileIsOwn /\ CommittedIsStored /\ ExactlyOnceUnlessRaced
      /\ AccountInv /\ TypeOK
    BY DEF StorageInv, AccountInv
<1>1. /\ pc[f] = "write" /\ pc'[f] \in {"write", "copy"}
      /\ pc'[f] = "copy" => k = Len(batch[f]) + 1
      /\ \A g \in Flushers \ {f} : pc'[g] = pc[g]
      /\ csv' = IF f \in linked THEN PutAt(csv, k, x) ELSE csv
      /\ written'[f] = k
      /\ UNCHANGED <<buffer, batch, linked, table, accepted, reported, dropped, raced>>
    BY <1>0 DEF TypeOK, WriteLine, ghosts
<1>2. /\ k \in Nat \ {0} /\ x \in Lines /\ written[f] \in Nat
      /\ x \in Range(batch[f]) \cup {Header}
      /\ csv \in Seq(Lines)
    BY <1>0, <1>1, LineType DEF TypeOK
<1>3. \A g \in Flushers : pc'[g] \in InWriteBatch <=> pc[g] \in InWriteBatch
    BY <1>1 DEF InWriteBatch
<1>4. FileOrigin'
    <2>1. Range(csv') \subseteq Range(csv) \cup {x, Hole}
        BY <1>1, <1>2, PutAtProperties
    <2>2. Range(batch[f]) \subseteq accepted /\ Range(batch[f]) \cap dropped = {}
        BY <1>0, BatchIsAccepted
    <2>3. dropped \cap {Header, Hole} = {}
        BY <1>0, StorageAssumption DEF TypeOK, StorageAssumption
    <2>4. Range(csv) \cap dropped = {}
        BY <1>0, <1>1 DEF FileOrigin, InWriteBatch
    <2> QED BY <1>0, <1>1, <1>2, <2>1, <2>2, <2>3, <2>4 DEF FileOrigin
<1>5. OneWriter'
    BY <1>0, <1>1, <1>3 DEF OneWriter
<1>6. FileIsOwn'
    <2> SUFFICES ASSUME ~raced, NEW g \in Flushers, pc'[g] \in {"write", "copy"}
                 PROVE  /\ g \in linked'
                        /\ Len(csv') = written'[g]
                        /\ \A i \in 1..Len(csv') : csv'[i] = Line(batch'[g], i)
                        /\ pc'[g] = "copy" => written'[g] = Len(batch'[g]) + 1
        BY <1>1 DEF FileIsOwn
    <2>1. g = f
        BY <1>0, <1>1, <1>3 DEF OneWriter, InWriteBatch
    <2>2. /\ f \in linked /\ Len(csv) = written[f]
          /\ \A i \in 1..Len(csv) : csv[i] = Line(batch[f], i)
        BY <1>0, <1>1 DEF FileIsOwn
    <2>3. /\ Len(csv') = k /\ csv'[k] = x
          /\ \A i \in 1..Len(csv) : csv'[i] = csv[i]
        <3>1. k = Len(csv) + 1 /\ csv' = PutAt(csv, Len(csv) + 1, x)
            BY <1>1, <2>2
        <3>2. csv' = Append(csv, x)
            BY <1>2, <3>1, PutAtAppends
        <3> QED BY <1>2, <3>1, <3>2, AppendProperties
    <2>4. \A i \in 1..Len(csv') : csv'[i] = Line(batch[f], i)
        <3>1. \A i \in 1..Len(csv') : i = k \/ i \in 1..Len(csv)
            BY <1>2, <2>2, <2>3
        <3> QED BY <2>2, <2>3, <3>1
    <2> QED BY <1>1, <2>1, <2>2, <2>3, <2>4
<1>7. CommittedIsStored'
    BY <1>0, <1>1 DEF CommittedIsStored
<1>8. ExactlyOnceUnlessRaced'
    BY <1>0, <1>1 DEF ExactlyOnceUnlessRaced, Unstored
<1> QED BY <1>4, <1>5, <1>6, <1>7, <1>8 DEF FileInv

\* COPY adds the flusher's own batch, unless flushers have overlapped.
LEMMA CopyKeepsFileInv ==
    ASSUME StorageInv, NEW f \in Flushers, Copy(f)
    PROVE  FileInv' /\ Range(table') \cap dropped \subseteq Range(table)
<1>0. /\ FileOrigin /\ OneWriter /\ FileIsOwn /\ CommittedIsStored /\ ExactlyOnceUnlessRaced
      /\ AccountInv /\ TypeOK /\ AcceptedAccounted
    BY DEF StorageInv, AccountInv
<1>1. /\ pc[f] = "copy" /\ pc'[f] = "removeOk"
      /\ \A g \in Flushers \ {f} : pc'[g] = pc[g]
      /\ UNCHANGED <<buffer, batch, written, csvExists, csv, linked, accepted, reported,
                     dropped, raced>>
    BY <1>0 DEF TypeOK, Copy, CopyDone, file, ghosts
<1>2. PICK rows \in Seq(Events) :
          /\ table' = table \o rows
          /\ Range(table') = Range(table) \cup Range(rows)
          /\ Range(rows) \subseteq Range(csv) \cap Events
          /\ ~raced => Range(rows) = Range(batch[f]) /\ IsInjective(rows)
    BY CopyAdds
<1>3. Range(csv) \cap dropped = {}
    BY <1>0, <1>1 DEF FileOrigin, InWriteBatch
<1>4. \A g \in Flushers : pc'[g] \in InWriteBatch <=> pc[g] \in InWriteBatch
    BY <1>1 DEF InWriteBatch
<1>5. FileOrigin'
    <2>1. Range(rows) \subseteq accepted
        BY <1>0, <1>2, StorageAssumption DEF FileOrigin, StorageAssumption
    <2> QED BY <1>0, <1>1, <1>2, <1>3, <2>1 DEF FileOrigin
<1>6. OneWriter'
    BY <1>0, <1>1, <1>4 DEF OneWriter
<1>7. FileIsOwn'
    BY <1>0, <1>1 DEF FileIsOwn
<1>8. CommittedIsStored'
    BY <1>0, <1>1, <1>2 DEF CommittedIsStored
<1>9. ExactlyOnceUnlessRaced'
    <2> SUFFICES ASSUME ~raced
                 PROVE  /\ IsInjective(table')
                        /\ reported \subseteq Range(table')
                        /\ Range(buffer) \cap Range(table') = {}
                        /\ \A g \in Flushers :
                              pc'[g] \in Unstored => Range(batch[g]) \cap Range(table') = {}
        BY <1>1 DEF ExactlyOnceUnlessRaced
    <2>1. Range(batch[f]) \cap Range(table) = {}
        BY <1>0, <1>1 DEF ExactlyOnceUnlessRaced, Unstored
    <2>2. IsInjective(table')
        <3>1. table \in Seq(Events) /\ IsInjective(table) /\ IsInjective(rows)
            BY <1>0, <1>2 DEF TypeOK, ExactlyOnceUnlessRaced
        <3>2. Range(table) \cap Range(rows) = {}
            BY <1>2, <2>1
        <3> QED BY <1>2, <3>1, <3>2, ConcatInjective
    <2>3. reported \subseteq Range(table')
        BY <1>0, <1>2 DEF ExactlyOnceUnlessRaced
    <2>4. Range(buffer) \cap Range(table') = {}
        BY <1>0, <1>2 DEF ExactlyOnceUnlessRaced, AcceptedAccounted
    <2>5. ASSUME NEW g \in Flushers, pc'[g] \in Unstored
          PROVE  Range(batch[g]) \cap Range(table') = {}
        <3>1. g # f /\ pc[g] \in Unstored
            BY <1>1, <2>5 DEF Unstored
        <3> QED BY <1>0, <1>2, <3>1 DEF ExactlyOnceUnlessRaced, AcceptedAccounted
    <2> QED BY <2>2, <2>3, <2>4, <2>5
<1>10. Range(table') \cap dropped \subseteq Range(table)
    BY <1>2, <1>3
<1> QED BY <1>5, <1>6, <1>7, <1>8, <1>9, <1>10 DEF FileInv

\* Removing the file on the way out harms nobody but a flusher that overlaps.
LEMMA RemoveKeepsFileInv ==
    ASSUME StorageInv, NEW f \in Flushers, ReturnStored(f) \/ RemoveAfterError(f)
    PROVE  FileInv'
<1>0. /\ FileOrigin /\ OneWriter /\ FileIsOwn /\ CommittedIsStored /\ ExactlyOnceUnlessRaced
      /\ TypeOK
    BY DEF StorageInv, AccountInv
<1>1. /\ pc[f] \in {"removeOk", "removeErr"} /\ pc'[f] \in {"idle", "requeue"}
      /\ pc'[f] = "requeue" => pc[f] = "removeErr" /\ batch'[f] = batch[f]
      /\ \A g \in Flushers \ {f} : pc'[g] = pc[g] /\ batch'[g] = batch[g]
      /\ csv' = <<>>
      /\ \/ reported' = reported
         \/ pc[f] = "removeOk" /\ reported' = reported \cup Range(batch[f])
      /\ UNCHANGED <<buffer, written, table, accepted, dropped, raced>>
    BY <1>0 DEF TypeOK, ReturnStored, RemoveAfterError, RemoveCsv, ghosts
<1>2. \A g \in Flushers : pc'[g] \in InWriteBatch => g # f /\ pc[g] \in InWriteBatch
    BY <1>1 DEF InWriteBatch
<1>3. FileOrigin'
    BY <1>0, <1>1, EmptyRange DEF FileOrigin
<1>4. OneWriter'
    BY <1>0, <1>1, <1>2 DEF OneWriter
<1>5. FileIsOwn'
    <2>1. ~raced => \A g \in Flushers : pc'[g] \notin InWriteBatch
        BY <1>0, <1>1, <1>2 DEF OneWriter, InWriteBatch
    <2> QED BY <1>1, <2>1 DEF FileIsOwn, InWriteBatch
<1>6. CommittedIsStored'
    BY <1>0, <1>1 DEF CommittedIsStored
<1>7. ExactlyOnceUnlessRaced'
    BY <1>0, <1>1 DEF ExactlyOnceUnlessRaced, CommittedIsStored, Unstored
<1> QED BY <1>3, <1>4, <1>5, <1>6, <1>7 DEF FileInv

\* Steps that leave file and table alone: ingest, taking a batch, putting it
\* back, a crash.
LEMMA MemoryStepKeepsFileInv ==
    ASSUME StorageInv,
           \/ \E n \in 1..MaxIngest : \E es \in [1..n -> Events] : AddEvents(es)
           \/ \E f \in Flushers : Take(f) \/ Requeue(f)
           \/ Crash
           \/ UNCHANGED vars
    PROVE  FileInv'
<1>0. /\ FileOrigin /\ OneWriter /\ FileIsOwn /\ CommittedIsStored /\ ExactlyOnceUnlessRaced
      /\ TypeOK /\ AccountInv /\ IdleHoldsNothing /\ AcceptedAccounted
    BY DEF StorageInv, AccountInv
<1>t. /\ buffer \in Seq(Events)
      /\ \A f \in Flushers : batch[f] \in Seq(Events)
    BY <1>0 DEF TypeOK
<1>1. ASSUME NEW n \in 1..MaxIngest, NEW es \in [1..n -> Events], AddEvents(es)
      PROVE  FileInv'
    <2>1. /\ Range(buffer') = Range(buffer) \cup Range(es)
          /\ Range(es) \cap accepted = {}
        <3>1. es \in Seq(Events)
            OBVIOUS
        <3> QED BY <1>1, <1>t, <3>1, RangeConcatenation DEF AddEvents
    <2>2. /\ accepted' = accepted \cup Range(es)
          /\ UNCHANGED <<pc, batch, written, csv, linked, table, reported, dropped, raced>>
        BY <1>1 DEF AddEvents, file
    <2>3. FileOrigin' /\ OneWriter' /\ FileIsOwn' /\ CommittedIsStored'
        BY <1>0, <2>2 DEF FileOrigin, OneWriter, FileIsOwn, CommittedIsStored
    <2>4. ExactlyOnceUnlessRaced'
        BY <1>0, <2>1, <2>2 DEF ExactlyOnceUnlessRaced, FileOrigin
    <2> QED BY <2>3, <2>4 DEF FileInv
<1>2. ASSUME NEW f \in Flushers, Take(f) \/ Requeue(f) PROVE FileInv'
    <2>1. /\ pc[f] \in {"idle", "requeue"} /\ pc'[f] \in {"create", "idle"}
          /\ \A g \in Flushers \ {f} : pc'[g] = pc[g] /\ batch'[g] = batch[g]
          /\ UNCHANGED <<written, csv, linked, table, accepted, reported, dropped, raced>>
        BY <1>0, <1>2 DEF TypeOK, Take, Requeue, file, ghosts
    <2>2. \A g \in Flushers : pc'[g] \in InWriteBatch => g # f /\ pc[g] \in InWriteBatch
        BY <2>1 DEF InWriteBatch
    <2>3. FileOrigin' /\ OneWriter'
        BY <1>0, <2>1, <2>2 DEF FileOrigin, OneWriter
    <2>4. FileIsOwn' /\ CommittedIsStored'
        BY <1>0, <2>1 DEF FileIsOwn, CommittedIsStored
    <2>5. \/ /\ pc[f] = "idle" /\ Range(buffer') = {} /\ Range(batch'[f]) = Range(buffer)
          \/ /\ pc[f] = "requeue" /\ pc'[f] = "idle"
             /\ Range(buffer') = Range(batch[f]) \cup Range(buffer)
        <3>1. CASE Take(f)
            BY <1>0, <3>1, EmptyRange DEF Take, SwapBuffer, TypeOK
        <3>2. CASE Requeue(f)
            BY <1>0, <1>t, <3>2, RangeConcatenation DEF Requeue, PutBack, TypeOK
        <3> QED BY <1>2, <3>1, <3>2
    <2>6. ExactlyOnceUnlessRaced'
        BY <1>0, <2>1, <2>5 DEF ExactlyOnceUnlessRaced, Unstored
    <2> QED BY <2>3, <2>4, <2>6 DEF FileInv
<1>3. ASSUME Crash PROVE FileInv'
    <2>1. /\ \A f \in Flushers : pc'[f] = "idle"
          /\ buffer' = <<>>
          /\ UNCHANGED <<csv, table, accepted, reported, raced>>
        BY <1>3 DEF Crash
    <2>2. FileOrigin' /\ OneWriter' /\ FileIsOwn' /\ CommittedIsStored'
        BY <1>0, <2>1 DEF FileOrigin, OneWriter, FileIsOwn, CommittedIsStored, InWriteBatch
    <2>3. ExactlyOnceUnlessRaced'
        BY <1>0, <2>1, EmptyRange DEF ExactlyOnceUnlessRaced, Unstored
    <2> QED BY <2>2, <2>3 DEF FileInv
<1>4. CASE UNCHANGED vars
    BY <1>0, <1>4 DEF vars, memory, file, ghosts, FileInv, FileOrigin, OneWriter, FileIsOwn,
                      CommittedIsStored, ExactlyOnceUnlessRaced
<1> QED BY <1>1, <1>2, <1>3, <1>4

\* The invariant holds at the start.
LEMMA StorageInit == Init => StorageInv
<1> SUFFICES ASSUME Init PROVE StorageInv
    OBVIOUS
<1>1. AccountInv
    BY AccountInit
<1>2. \A f \in Flushers : pc[f] = "idle"
    BY DEF Init
<1>3. csv = <<>> /\ table = <<>> /\ buffer = <<>> /\ reported = {}
    BY DEF Init
<1> QED BY <1>1, <1>2, <1>3, EmptyRange
           DEF StorageInv, FileOrigin, OneWriter, FileIsOwn, CommittedIsStored,
               ExactlyOnceUnlessRaced, InWriteBatch, Unstored

\* Every step keeps it, and no step gives a row to a dropped request.
LEMMA StorageStep ==
    StorageInv /\ [Next]_vars =>
        StorageInv' /\ Range(table') \cap dropped \subseteq Range(table)
<1> SUFFICES ASSUME StorageInv, [Next]_vars
             PROVE  FileInv' /\ Range(table') \cap dropped \subseteq Range(table)
    BY AccountStep DEF StorageInv, FileInv
<1>1. CASE \E f \in Flushers : Copy(f)
    BY <1>1, CopyKeepsFileInv
<1>2. CASE \E f \in Flushers : Create(f)
    BY <1>2, CreateKeepsFileInv DEF Create
<1>3. CASE \E f \in Flushers : WriteLine(f)
    BY <1>3, WriteKeepsFileInv DEF WriteLine
<1>4. CASE \E f \in Flushers :
            CreateFails(f) \/ WriteFails(f) \/ CopyRejects(f) \/ CopyFails(f)
    BY <1>4, FailureKeepsFileInv DEF CreateFails, WriteFails, CopyRejects, CopyFails
<1>5. CASE \E f \in Flushers : ReturnStored(f) \/ RemoveAfterError(f)
    BY <1>5, RemoveKeepsFileInv DEF ReturnStored, RemoveAfterError
<1>6. CASE \/ \E n \in 1..MaxIngest : \E es \in [1..n -> Events] : AddEvents(es)
           \/ \E f \in Flushers : Take(f) \/ Requeue(f)
           \/ Crash
           \/ UNCHANGED vars
    <2>1. table' = table
        BY <1>6 DEF AddEvents, Take, Requeue, Crash, vars
    <2> QED BY <1>6, <2>1, MemoryStepKeepsFileInv
<1> QED BY <1>1, <1>2, <1>3, <1>4, <1>5, <1>6 DEF Next, FlushStep

\* Overlap of writeBatch calls is the only way in which a request reported as
\* flushed can be without its row or with two, for any number of flushers,
\* errors, rejected values and restarts.
THEOREM ExactlyOnceWithoutOverlap == Spec => []ExactlyOnceUnlessRaced
<1>1. Init => StorageInv
    BY StorageInit
<1>2. StorageInv /\ [Next]_vars => StorageInv'
    BY StorageStep
<1>3. StorageInv => ExactlyOnceUnlessRaced
    BY DEF StorageInv
<1> QED BY <1>1, <1>2, <1>3, PTL DEF Spec

\* The CSV file a crash leaves behind is never read, whoever overlaps.
THEOREM NoRowFromBeforeTheCrash == Spec => NoResurrection
<1>1. Init => StorageInv
    BY StorageInit
<1>2. StorageInv /\ [Next]_vars => StorageInv'
    BY StorageStep
<1>3. StorageInv /\ [Next]_vars => [Range(table') \cap dropped \subseteq Range(table)]_vars
    BY StorageStep
<1> QED BY <1>1, <1>2, <1>3, PTL DEF Spec, NoResurrection

-------------------------------------------------------------------------------
(***************************************************************************)
(* Refinement: with the ticker as the only flusher the storage is an       *)
(* EventStore.                                                             *)
(***************************************************************************)

\* A concatenation can be cut into its parts again.
LEMMA CutConcat ==
    ASSUME NEW s \in Seq(Events), NEW t \in Seq(Events)
    PROVE  /\ SubSeq(s \o t, 1, Len(s)) = s
           /\ SubSeq(s \o t, Len(s) + 1, Len(s \o t)) = t
<1> DEFINE u == s \o t
           a == SubSeq(u, 1, Len(s))
           b == SubSeq(u, Len(s) + 1, Len(u))
<1>1. /\ u \in Seq(Events) /\ Len(u) = Len(s) + Len(t)
      /\ Len(s) \in Nat /\ Len(t) \in Nat
      /\ \A i \in 1..Len(s) + Len(t) : u[i] = IF i <= Len(s) THEN s[i] ELSE t[i - Len(s)]
    BY ConcatProperties, LenProperties
<1>2. \A i \in 1..Len(u) : u[i] \in Events
    BY <1>1, ElementOfSeq
<1>3. a = s
    <2>1. /\ a \in Seq(Events)
          /\ Len(a) = IF 1 <= Len(s) THEN Len(s) - 1 + 1 ELSE 0
          /\ \A i \in 1..Len(s) - 1 + 1 : a[i] = u[1 + i - 1]
        BY <1>1, <1>2, SubSeqProperties
    <2>2. Len(a) = Len(s) /\ \A i \in 1..Len(s) : a[i] = s[i]
        BY <1>1, <2>1
    <2> QED BY <2>1, <2>2, SeqEqual
<1>4. b = t
    <2>1. /\ b \in Seq(Events)
          /\ Len(b) = IF Len(s) + 1 <= Len(u) THEN Len(u) - (Len(s) + 1) + 1 ELSE 0
          /\ \A i \in 1..Len(u) - (Len(s) + 1) + 1 : b[i] = u[Len(s) + 1 + i - 1]
        BY <1>1, <1>2, SubSeqProperties
    <2>2. Len(b) = Len(t) /\ \A i \in 1..Len(t) : b[i] = t[i]
        BY <1>1, <2>1
    <2> QED BY <2>1, <2>2, SeqEqual
<1> QED BY <1>3, <1>4

\* The only flusher never overlaps with another, and takes no empty batch.
AloneInv ==
    /\ StorageInv
    /\ ~raced
    /\ pc[Ticker] # "idle" => batch[Ticker] # <<>>

\* What that flusher has in hand.
Held == IF pc[Ticker] \in Unstored THEN batch[Ticker] ELSE <<>>

LEMMA HeldIsInHand ==
    ASSUME Flushers = {Ticker}
    PROVE  InHand = Held
<1>1. CASE pc[Ticker] \in Unstored
    <2>1. (CHOOSE f \in Flushers : pc[f] \in Unstored) = Ticker
        BY <1>1
    <2> QED BY <1>1, <2>1 DEF InHand, Held
<1>2. CASE pc[Ticker] \notin Unstored
    BY <1>2 DEF InHand, Held
<1> QED BY <1>1, <1>2

\* A step of the storage with one flusher, seen from its pending requests and rows.
LEMMA AloneStep ==
    ASSUME Flushers = {Ticker}, AloneInv, [Next]_vars
    PROVE  /\ AloneInv'
           /\ \/ \E es \in Seq(Events) : /\ es # <<>> /\ table' = table
                                         /\ Held' = Held /\ buffer' = buffer \o es
              \/ /\ Held # <<>> /\ table' = table \o Held
                 /\ Held' = <<>> /\ buffer' = buffer
              \/ table' = table /\ Held' = <<>> /\ buffer' = <<>>
              \/ table' = table /\ Held' \o buffer' = Held \o buffer
<1>0. StorageInv' /\ TypeOK /\ StorageInv /\ Ticker \in Flushers
    BY StorageStep DEF AloneInv, StorageInv, AccountInv
<1>t. /\ buffer \in Seq(Events) /\ batch[Ticker] \in Seq(Events) /\ Held \in Seq(Events)
      /\ pc \in [Flushers -> PCs] /\ batch \in [Flushers -> Seq(Events)] /\ <<>> \in Seq(Events)
    BY <1>0 DEF TypeOK, Held
<1>e. /\ \A s \in Seq(Events) : <<>> \o s = s /\ s \o <<>> = s
      /\ ~raced /\ (pc[Ticker] # "idle" => batch[Ticker] # <<>>)
    BY ConcatEmptySeq DEF AloneInv
<1> USE <1>0, <1>t, <1>e DEF Held, Unstored
<1>1. ASSUME NEW n \in 1..MaxIngest, NEW es \in [1..n -> Events], AddEvents(es)
      PROVE  /\ AloneInv'
             /\ \E x \in Seq(Events) : /\ x # <<>> /\ table' = table
                                       /\ Held' = Held /\ buffer' = buffer \o x
    <2>1. es \in Seq(Events) /\ Len(es) = n /\ n >= 1
        OBVIOUS
    <2>2. es # <<>>
        BY <2>1
    <2>3. UNCHANGED <<pc, batch, table, raced>> /\ buffer' = buffer \o es
        BY <1>1 DEF AddEvents
    <2> QED BY <2>1, <2>2, <2>3 DEF AloneInv
<1>2. ASSUME Take(Ticker)
      PROVE  AloneInv' /\ table' = table /\ Held' \o buffer' = Held \o buffer
    <2>1. /\ pc[Ticker] = "idle" /\ pc'[Ticker] = "create" /\ buffer # <<>>
          /\ batch'[Ticker] = buffer /\ buffer' = <<>> /\ table' = table /\ raced' = raced
        BY <1>2 DEF Take, SwapBuffer, ghosts
    <2> QED BY <2>1 DEF AloneInv
<1>3. ASSUME \/ Create(Ticker) \/ CreateFails(Ticker) \/ WriteLine(Ticker) \/ WriteFails(Ticker)
             \/ CopyRejects(Ticker) \/ CopyFails(Ticker) \/ RemoveAfterError(Ticker)
      PROVE  AloneInv' /\ table' = table /\ Held' \o buffer' = Held \o buffer
    <2>1. /\ pc[Ticker] \in Unstored /\ pc'[Ticker] \in Unstored /\ pc[Ticker] # "idle"
          /\ UNCHANGED <<batch, buffer, table>>
        BY <1>3 DEF Create, CreateFails, WriteLine, WriteFails, CopyRejects, CopyFails, RemoveAfterError
    <2>2. ~raced'
        <3>1. CASE Create(Ticker)
            BY <3>1 DEF Create, InWriteBatch
        <3>2. CASE ~Create(Ticker)
            BY <1>3, <3>2 DEF CreateFails, WriteLine, WriteFails, CopyRejects, CopyFails,
                              RemoveAfterError, ghosts
        <3> QED BY <3>1, <3>2
    <2> QED BY <2>1, <2>2 DEF AloneInv
<1>4. ASSUME Copy(Ticker)
      PROVE  /\ AloneInv'
             /\ Held # <<>> /\ table' = table \o Held /\ Held' = <<>> /\ buffer' = buffer
    <2>1. /\ pc[Ticker] = "copy" /\ pc'[Ticker] = "removeOk"
          /\ UNCHANGED <<batch, buffer, raced>>
        BY <1>4 DEF Copy, CopyDone, ghosts
    <2>2. table' = table \o batch[Ticker]
        BY <1>4, CopyAdds
    <2> QED BY <2>1, <2>2 DEF AloneInv
<1>5. ASSUME ReturnStored(Ticker)
      PROVE  AloneInv' /\ table' = table /\ Held' \o buffer' = Held \o buffer
    <2>1. /\ pc[Ticker] = "removeOk" /\ pc'[Ticker] = "idle"
          /\ UNCHANGED <<buffer, table, raced>>
        BY <1>5 DEF ReturnStored
    <2> QED BY <2>1 DEF AloneInv
<1>6. ASSUME Requeue(Ticker)
      PROVE  AloneInv' /\ table' = table /\ Held' \o buffer' = Held \o buffer
    <2>1. /\ pc[Ticker] = "requeue" /\ pc'[Ticker] = "idle"
          /\ buffer' = batch[Ticker] \o buffer
          /\ UNCHANGED <<table, raced>>
        BY <1>6 DEF Requeue, PutBack, ghosts
    <2>2. buffer' \in Seq(Events)
        BY <2>1, ConcatProperties
    <2> QED BY <2>1, <2>2 DEF AloneInv
<1>7. ASSUME Crash
      PROVE  AloneInv' /\ table' = table /\ Held' = <<>> /\ buffer' = <<>>
    <2>1. pc'[Ticker] = "idle" /\ buffer' = <<>> /\ UNCHANGED <<table, raced>>
        BY <1>7 DEF Crash
    <2> QED BY <2>1 DEF AloneInv
<1>8. ASSUME UNCHANGED vars
      PROVE  AloneInv' /\ table' = table /\ Held' \o buffer' = Held \o buffer
    BY <1>8 DEF vars, memory, ghosts, AloneInv
<1> QED BY <1>1, <1>2, <1>3, <1>4, <1>5, <1>6, <1>7, <1>8 DEF Next, FlushStep

\* Seen from there, every step is one of EventStore's.
LEMMA StoreStep ==
    ASSUME Flushers = {Ticker}, AloneInv, InHand = Held, InHand' = Held', [Next]_vars
    PROVE  [Store!Next]_Store!vars
<1> DEFINE p == Held \o buffer
           q == Held' \o buffer'
<1>t. /\ buffer \in Seq(Events) /\ Held \in Seq(Events) /\ p \in Seq(Events) /\ table \in Seq(Events)
      /\ Len(p) = Len(Held) + Len(buffer) /\ Len(Held) \in Nat /\ Len(buffer) \in Nat
    BY ConcatProperties, LenProperties DEF AloneInv, StorageInv, AccountInv, TypeOK, Held
<1>e. <<>> \in Seq(Events) /\ \A s \in Seq(Events) : <<>> \o s = s
    BY ConcatEmptySeq
<1>1. ASSUME NEW es \in Seq(Events), es # <<>>, table' = table, Held' = Held, buffer' = buffer \o es
      PROVE  Store!Accept
    <2>0. q = Held \o (buffer \o es)
        BY <1>1
    <2>1. q = p \o es
        <3>1. (Held \o buffer) \o es = Held \o (buffer \o es)
            BY <1>1, <1>t, ConcatAssociative
        <3> QED BY <2>0, <3>1, Zenon
    <2>2. q \in Seq(Events) /\ Len(q) = Len(p) + Len(es) /\ Len(es) \in Nat /\ Len(es) # 0
        BY <1>1, <1>t, <2>1, ConcatProperties, LenProperties, EmptySeq
    <2>3. SubSeq(q, 1, Len(p)) = p
        <3>1. \A s, t \in Seq(Events) : SubSeq(s \o t, 1, Len(s)) = s
            BY CutConcat
        <3> HIDE DEF p, q
        <3> QED BY <1>1, <1>t, <2>1, <3>1
    <2> QED BY <1>1, <1>t, <2>2, <2>3 DEF Store!Accept
<1>2. ASSUME Held # <<>>, table' = table \o Held, Held' = <<>>, buffer' = buffer
      PROVE  \E n \in 1..Len(p) : Store!Store(n)
    <2>1. Len(Held) \in 1..Len(p)
        BY <1>2, <1>t, EmptySeq
    <2>2. SubSeq(p, 1, Len(Held)) = Held /\ SubSeq(p, Len(Held) + 1, Len(p)) = buffer
        BY <1>t, CutConcat
    <2>3. q = buffer
        BY <1>2, <1>t, <1>e
    <2>4. Store!Store(Len(Held))
        BY <1>2, <2>2, <2>3 DEF Store!Store
    <2> QED BY <2>1, <2>4
<1>3. ASSUME table' = table, Held' = <<>>, buffer' = <<>>
      PROVE  Store!Forget
    <2>1. q = <<>>
        BY <1>3, <1>e
    <2> QED BY <1>3, <2>1 DEF Store!Forget
<1>4. ASSUME table' = table, q = p
      PROVE  UNCHANGED Store!vars
    BY <1>4 DEF Store!vars
<1> QED BY <1>1, <1>2, <1>3, <1>4, AloneStep DEF Store!Next

\* With the ticker as the only flusher every accepted request becomes one row,
\* in the order of arrival, however often a flush fails and the batch goes
\* back in front of the buffer (duckdb.go 130): the storage implements
\* EventStore.
THEOREM OneFlusherStoresInOrder ==
    ASSUME Flushers = {Ticker}
    PROVE  Spec => StoresInOrder
<1>1. Init => AloneInv
    BY StorageInit DEF Init, AloneInv
<1>2. AloneInv /\ [Next]_vars => AloneInv'
    BY AloneStep
<1>3. InHand = Held
    BY HeldIsInHand
<1>4. [](InHand = Held)
    BY <1>3, PTL
<1>5. InHand = Held /\ Init => Store!Init
    BY ConcatEmptySeq DEF Init, Store!Init, Held, Unstored
<1>6. AloneInv /\ InHand = Held /\ (InHand = Held)' /\ [Next]_vars => [Store!Next]_Store!vars
    BY StoreStep
<1> QED BY <1>1, <1>2, <1>4, <1>5, <1>6, PTL DEF Spec, StoresInOrder, Store!Spec

=============================================================================
