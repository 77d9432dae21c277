------------------------- MODULE LoadGeneratorProofs -------------------------
(***************************************************************************)
(* Theorems about LoadGenerator, for every set of virtual users, every     *)
(* batch size, every number of requests, and whichever of them fail.       *)
(*                                                                         *)
(* LoadInv says more than the properties do: the five places outside the   *)
(* buffers split what has left the buffers; the batches under way are      *)
(* runs of one virtual user and share no request; a virtual user that      *)
(* never stopped waiting has at most one of them, and its rows are older.  *)
(***************************************************************************)
EXTENDS LoadGenerator, SequenceTheorems, FiniteSetTheorems, TLAPS

-------------------------------------------------------------------------------
(***************************************************************************)
(* The inductive invariant.                                                *)
(***************************************************************************)

\* The rows, once all that is pending is stored.
Rows == stored \o pending

\* The requests that have left their buffers.
Sent == {r \in Requests : r[2] <= made[r[1]] - Len(eventBuffer[r[1]])}

\* S is split by five sets.
SplitBy(S, a, b, c, d, e) ==
    /\ S = a \cup b \cup c \cup d \cup e
    /\ a \cap (b \cup c \cup d \cup e) = {}
    /\ b \cap (c \cup d \cup e) = {}
    /\ c \cap (d \cup e) = {}
    /\ d \cap e = {}

\* A batch is a run of the requests of one virtual user.
IsBatch(b) ==
    /\ b # <<>>
    /\ \A i, j \in DOMAIN b : i < j => b[i][1] = b[j][1] /\ b[i][2] < b[j][2]

\* The rows of whoever is not in L are in the order of its requests.
OrderedBut(L, rows) ==
    \A i, j \in DOMAIN rows :
        i < j /\ rows[i][1] = rows[j][1] /\ rows[i][1] \notin L
        => rows[i][2] < rows[j][2]

\* A buffer holds the last requests made, in their order.
BufferInv ==
    \A v \in VUs :
        /\ Len(eventBuffer[v]) <= made[v]
        /\ \A k \in 1..Len(eventBuffer[v]) :
              eventBuffer[v][k] = <<v, made[v] - Len(eventBuffer[v]) + k>>

\* What is in a buffer, or was at the end, is what full batches leave over.
LeftInv ==
    /\ ~over => /\ left = {}
                /\ \A v \in VUs : \E q \in Nat : made[v] = BatchSize * q + Len(eventBuffer[v])
    /\ over => /\ ended = VUs
               /\ \A v \in VUs :
                     /\ eventBuffer[v] = <<>>
                     /\ \E q \in Nat, n \in 0..BatchSize - 1 :
                           /\ made[v] = BatchSize * q + n
                           /\ \A i \in Nat : <<v, i>> \in left <=> i \in (made[v] - n + 1)..made[v]

BatchInv ==
    /\ \A b \in underWay : IsBatch(b)
    /\ \A b, c \in underWay : b # c => ToSet(b) \cap ToSet(c) = {}

PlaceInv == SplitBy(Sent, InFlight, ToSet(Rows), lost, Refused, left)

OrderInv ==
    /\ IsInjective(Rows)
    /\ OrderedBut(late, Rows)
    /\ \A b \in underWay : b[1][1] \notin late =>
          /\ b[1][1] \in waiting
          /\ \A c \in underWay : c[1][1] = b[1][1] => c = b
          /\ \A i \in DOMAIN Rows : Rows[i][1] = b[1][1] => Rows[i][2] < b[1][2]

LoadInv ==
    /\ TypeOK
    /\ BufferInv
    /\ LeftInv
    /\ BatchInv
    /\ PlaceInv
    /\ OrderInv

-------------------------------------------------------------------------------
(***************************************************************************)
(* Sequences and batches.                                                  *)
(***************************************************************************)

\* The elements of a sequence, of a join and of nothing.
LEMMA ToSetProperties ==
    ASSUME NEW S, NEW s \in Seq(S), NEW t \in Seq(S)
    PROVE  /\ ToSet(s) \subseteq S
           /\ ToSet(s \o t) = ToSet(s) \cup ToSet(t)
           /\ ToSet(<<>>) = {}
<1>1. /\ Len(s) \in Nat /\ Len(t) \in Nat
      /\ DOMAIN s = 1..Len(s) /\ DOMAIN t = 1..Len(t)
      /\ DOMAIN (s \o t) = 1..Len(s) + Len(t)
      /\ \A i \in 1..Len(s) : (s \o t)[i] = s[i] /\ s[i] \in S
      /\ \A i \in 1..Len(t) : (s \o t)[i + Len(s)] = t[i]
    BY ConcatProperties, LenProperties, ElementOfSeq
<1>2. \A i \in 1..Len(s) + Len(t) : i > Len(s) =>
         (s \o t)[i] = t[i - Len(s)] /\ i - Len(s) \in 1..Len(t)
    BY <1>1, ConcatProperties
<1>3. ToSet(s \o t) \subseteq ToSet(s) \cup ToSet(t)
    BY <1>1, <1>2 DEF ToSet
<1>4. ToSet(s) \subseteq ToSet(s \o t) /\ ToSet(t) \subseteq ToSet(s \o t)
    <2>1. \A i \in 1..Len(s) : i \in 1..Len(s) + Len(t)
        BY <1>1
    <2>2. \A i \in 1..Len(t) : i + Len(s) \in 1..Len(s) + Len(t)
        BY <1>1
    <2>3. \A i \in 1..Len(s) : s[i] \in ToSet(s \o t)
        BY <1>1, <2>1 DEF ToSet
    <2>4. \A i \in 1..Len(t) : t[i] \in ToSet(s \o t)
        BY <1>1, <2>2 DEF ToSet
    <2> QED BY <1>1, <2>3, <2>4 DEF ToSet
<1>5. ToSet(s) \subseteq S
    BY <1>1 DEF ToSet
<1>6. ToSet(<<>>) = {}
    BY DEF ToSet
<1> QED BY <1>3, <1>4, <1>5, <1>6

\* Joining two sequences that share no element and repeat none repeats none, and
\* so does the first of two that were joined.
LEMMA JoinInjective ==
    ASSUME NEW S, NEW s \in Seq(S), NEW t \in Seq(S)
    PROVE  /\ IsInjective(s) /\ IsInjective(t) /\ ToSet(s) \cap ToSet(t) = {}
              => IsInjective(s \o t)
           /\ IsInjective(s \o t) => IsInjective(s) /\ ToSet(s) \cap ToSet(t) = {}
<1>1. /\ Len(s) \in Nat /\ Len(t) \in Nat
      /\ DOMAIN s = 1..Len(s) /\ DOMAIN t = 1..Len(t)
      /\ DOMAIN (s \o t) = 1..Len(s) + Len(t)
      /\ \A i \in 1..Len(s) : (s \o t)[i] = s[i]
      /\ \A i \in 1..Len(t) : (s \o t)[i + Len(s)] = t[i]
      /\ \A i \in 1..Len(s) + Len(t) : i > Len(s) =>
           (s \o t)[i] = t[i - Len(s)] /\ i - Len(s) \in 1..Len(t)
    BY ConcatProperties, LenProperties
<1>2. ASSUME IsInjective(s), IsInjective(t), ToSet(s) \cap ToSet(t) = {},
             NEW a \in DOMAIN (s \o t), NEW b \in DOMAIN (s \o t),
             (s \o t)[a] = (s \o t)[b]
      PROVE  a = b
    <2>1. CASE a <= Len(s) /\ b <= Len(s)
        BY <1>1, <1>2, <2>1 DEF IsInjective
    <2>2. CASE a > Len(s) /\ b > Len(s)
        <3>1. t[a - Len(s)] = t[b - Len(s)]
            BY <1>1, <1>2, <2>2
        <3>2. a - Len(s) = b - Len(s)
            BY <1>1, <1>2, <2>2, <3>1 DEF IsInjective
        <3> QED BY <1>1, <3>2
    <2>3. CASE a <= Len(s) /\ b > Len(s)
        <3>1. a \in DOMAIN s /\ b - Len(s) \in DOMAIN t
            BY <1>1, <1>2, <2>3
        <3>2. s[a] = t[b - Len(s)]
            BY <1>1, <1>2, <2>3
        <3>3. s[a] \in ToSet(s) /\ t[b - Len(s)] \in ToSet(t)
            BY <3>1 DEF ToSet
        <3> QED BY <1>2, <3>2, <3>3
    <2>4. CASE a > Len(s) /\ b <= Len(s)
        <3>1. b \in DOMAIN s /\ a - Len(s) \in DOMAIN t
            BY <1>1, <1>2, <2>4
        <3>2. s[b] = t[a - Len(s)]
            BY <1>1, <1>2, <2>4
        <3>3. s[b] \in ToSet(s) /\ t[a - Len(s)] \in ToSet(t)
            BY <3>1 DEF ToSet
        <3> QED BY <1>2, <3>2, <3>3
    <2> QED BY <1>1, <2>1, <2>2, <2>3, <2>4
<1>3. ASSUME IsInjective(s \o t), NEW a \in DOMAIN s, NEW b \in DOMAIN s, s[a] = s[b]
      PROVE  a = b
    BY <1>1, <1>3 DEF IsInjective
<1>4. ASSUME IsInjective(s \o t), NEW a \in DOMAIN s, NEW b \in DOMAIN t, s[a] = t[b]
      PROVE  FALSE
    <2>1. a \in DOMAIN (s \o t) /\ b + Len(s) \in DOMAIN (s \o t)
        BY <1>1
    <2>2. (s \o t)[a] = (s \o t)[b + Len(s)]
        BY <1>1, <1>4
    <2>3. a = b + Len(s)
        BY <1>4, <2>1, <2>2 DEF IsInjective
    <2> QED BY <1>1, <2>3
<1>5. IsInjective(s) /\ IsInjective(t) /\ ToSet(s) \cap ToSet(t) = {} => IsInjective(s \o t)
    BY <1>2 DEF IsInjective
<1>6. IsInjective(s \o t) => IsInjective(s)
    BY <1>3 DEF IsInjective
<1>7. IsInjective(s \o t) => ToSet(s) \cap ToSet(t) = {}
    BY <1>4 DEF ToSet
<1> QED BY <1>5, <1>6, <1>7

\* The requests in a run of one virtual user's.
IsRun(v, m, b) == \A k \in 1..Len(b) : b[k] = <<v, m + k>>
HasRun(v, m, b) ==
    \A r : r \in ToSet(b) <=> r \in Requests /\ r[1] = v /\ r[2] > m /\ r[2] <= m + Len(b)

LEMMA RunContents ==
    ASSUME NEW v, NEW m \in Nat, NEW b \in Seq(Requests), IsRun(v, m, b)
    PROVE  HasRun(v, m, b)
<1> USE DEF IsRun, HasRun
<1>1. Len(b) \in Nat /\ DOMAIN b = 1..Len(b) /\ \A k \in 1..Len(b) : b[k] \in Requests
    BY LenProperties, ElementOfSeq
<1>2. ASSUME NEW r \in ToSet(b)
      PROVE  r \in Requests /\ r[1] = v /\ r[2] > m /\ r[2] <= m + Len(b)
    <2>1. PICK k \in 1..Len(b) : r = b[k]
        BY <1>1 DEF ToSet
    <2>2. r = <<v, m + k>> /\ r \in Requests
        BY <1>1, <2>1
    <2>3. m + k > m /\ m + k <= m + Len(b)
        BY <1>1
    <2> QED BY <2>2, <2>3
<1>3. ASSUME NEW r \in Requests, r[1] = v, r[2] > m, r[2] <= m + Len(b)
      PROVE  r \in ToSet(b)
    <2>1. r[2] \in Nat /\ r = <<v, r[2]>>
        BY <1>3, LoadAssumption DEF Requests
    <2>2. r[2] - m \in 1..Len(b) /\ m + (r[2] - m) = r[2]
        BY <1>1, <1>3, <2>1
    <2>3. b[r[2] - m] = r
        BY <2>1, <2>2
    <2> QED BY <1>1, <2>2, <2>3 DEF ToSet
<1> QED BY <1>2, <1>3

\* A batch begins with its least request, repeats none, and is all of one virtual user.
LEMMA BatchProperties ==
    ASSUME NEW b \in Seq(Requests), IsBatch(b)
    PROVE  /\ IsInjective(b)
           /\ Len(b) \in Nat \ {0} /\ DOMAIN b = 1..Len(b)
           /\ Head(b) = b[1] /\ b[1] \in ToSet(b)
           /\ \A i \in DOMAIN b : /\ b[i] \in Requests
                                  /\ b[i][1] = b[1][1] /\ b[1][2] <= b[i][2]
<1>1. Len(b) \in Nat \ {0} /\ DOMAIN b = 1..Len(b) /\ Head(b) = b[1]
    BY LenProperties, HeadTailProperties, EmptySeq DEF IsBatch
<1>2. \A i \in DOMAIN b : b[i] \in Requests /\ b[i][2] \in Nat
    BY <1>1, ElementOfSeq DEF Requests
<1>3. \A i \in DOMAIN b : b[i][1] = b[1][1] /\ b[1][2] <= b[i][2]
    <2> TAKE i \in DOMAIN b
    <2>1. CASE i = 1
        BY <1>1, <1>2, <2>1
    <2>2. CASE 1 < i
        BY <1>1, <1>2, <2>2 DEF IsBatch
    <2> QED BY <1>1, <2>1, <2>2
<1>4. ASSUME NEW i \in DOMAIN b, NEW j \in DOMAIN b, b[i] = b[j]
      PROVE  i = j
    BY <1>1, <1>2, <1>4 DEF IsBatch
<1>5. IsInjective(b)
    BY <1>4 DEF IsInjective
<1>6. b[1] \in ToSet(b)
    BY <1>1 DEF ToSet
<1> QED BY <1>1, <1>2, <1>3, <1>5, <1>6

-------------------------------------------------------------------------------
(***************************************************************************)
(* Types, and what an action does to the sequences.                        *)
(***************************************************************************)

\* Storing moves pending rows to the table and changes nothing in their order.
LEMMA StoreKeepsRows ==
    ASSUME TypeOK, Store
    PROVE  /\ pending' \in Seq(Requests) /\ stored' \in Seq(Requests)
           /\ Rows' = Rows
           /\ UNCHANGED <<clientVars, underWay, ghosts>>
<1>1. PICK n \in 1..Len(pending) : Sidecar!Store(n)
    BY DEF Store
<1>2. pending \in Seq(Requests) /\ stored \in Seq(Requests) /\ Len(pending) \in Nat
    BY LenProperties DEF TypeOK
<1> DEFINE p == SubSeq(pending, 1, n)
           q == SubSeq(pending, n + 1, Len(pending))
<1>3. stored' = stored \o p /\ pending' = q
    BY <1>1 DEF Sidecar!Store
<1>4. p \in Seq(Requests) /\ q \in Seq(Requests)
    BY <1>2, SubSeqProperties
<1>5. p \o q = pending
    <2>1. SubSeq(pending, 1, n) \o SubSeq(pending, n + 1, Len(pending))
          = SubSeq(pending, 1, Len(pending))
        BY <1>2, ConcatAdjacentSubSeq
    <2>2. SubSeq(pending, 1, Len(pending)) = pending
        BY <1>2, SubSeqFull
    <2> QED BY <2>1, <2>2
<1>6. (stored \o p) \o q = stored \o (p \o q)
    <2> HIDE DEF p, q
    <2>1. p \in Seq(Requests) /\ q \in Seq(Requests) /\ stored \in Seq(Requests)
        BY <1>2, <1>4
    <2> QED BY <2>1, ConcatAssociative
<1>7. stored \o p \in Seq(Requests)
    BY <1>2, <1>4, ConcatProperties
<1>8. Rows' = Rows
    BY <1>3, <1>5, <1>6 DEF Rows
<1> QED BY <1>3, <1>4, <1>7, <1>8 DEF Store

\* What one iteration puts into the buffer: the buffer, and the request after it.
LEMMA IteratePushes ==
    ASSUME TypeOK, BufferInv, NEW v \in VUs, Iterate(v), NEW b,
           b = Push(eventBuffer[v], <<v, made[v] + 1>>)
    PROVE  /\ made[v] \in Nat /\ made[v] + 1 \in 1..MaxIter
           /\ <<v, made[v] + 1>> \in Requests
           /\ b \in Seq(Requests)
           /\ Len(eventBuffer[v]) \in Nat /\ Len(b) = Len(eventBuffer[v]) + 1
           /\ made' = [made EXCEPT ![v] = made[v] + 1]
           /\ \A k \in 1..Len(b) : b[k] = <<v, made[v] - Len(eventBuffer[v]) + k>>
           /\ ToSet(b) = {r \in Requests : /\ r[1] = v
                                           /\ r[2] > made[v] - Len(eventBuffer[v])
                                           /\ r[2] <= made[v] + 1}
           /\ IsBatch(b)
<1> DEFINE r == <<v, made[v] + 1>>
<1>1. /\ made[v] \in 0..MaxIter /\ made[v] < MaxIter /\ MaxIter \in Nat
      /\ eventBuffer[v] \in Seq(Requests) /\ Len(eventBuffer[v]) \in Nat
      /\ made' = [made EXCEPT ![v] = made[v] + 1]
    BY LoadAssumption, LenProperties DEF TypeOK, Iterate
<1>2. made[v] + 1 \in 1..MaxIter /\ r \in Requests
    BY <1>1 DEF Requests
<1>3. /\ b \in Seq(Requests)
      /\ Len(b) = Len(eventBuffer[v]) + 1
      /\ \A i \in 1..Len(eventBuffer[v]) : b[i] = eventBuffer[v][i]
      /\ b[Len(eventBuffer[v]) + 1] = r
    BY <1>1, <1>2, AppendProperties DEF Push
<1>4. \A k \in 1..Len(b) : b[k] = <<v, made[v] - Len(eventBuffer[v]) + k>>
    <2> TAKE k \in 1..Len(b)
    <2>1. CASE k \in 1..Len(eventBuffer[v])
        BY <1>3, <2>1 DEF BufferInv
    <2>2. CASE k = Len(eventBuffer[v]) + 1
        <3>1. made[v] - Len(eventBuffer[v]) + k = made[v] + 1
            BY <1>1, <2>2
        <3> QED BY <1>3, <2>2, <3>1
    <2>3. k \in 1..Len(eventBuffer[v]) \/ k = Len(eventBuffer[v]) + 1
        BY <1>1, <1>3
    <2> QED BY <2>1, <2>2, <2>3
<1>5. DOMAIN b = 1..Len(b) /\ b # <<>>
    BY <1>1, <1>3, LenProperties, EmptySeq
<1>6. Len(eventBuffer[v]) <= made[v]
    BY DEF BufferInv
<1>7. IsBatch(b)
    <2>1. ASSUME NEW i \in DOMAIN b, NEW j \in DOMAIN b, i < j
          PROVE  b[i][1] = b[j][1] /\ b[i][2] < b[j][2]
        <3>1. i \in 1..Len(b) /\ j \in 1..Len(b)
            BY <1>5
        <3>2. b[i] = <<v, made[v] - Len(eventBuffer[v]) + i>> /\ b[j] = <<v, made[v] - Len(eventBuffer[v]) + j>>
            BY <1>4, <3>1
        <3>3. made[v] - Len(eventBuffer[v]) + i < made[v] - Len(eventBuffer[v]) + j
            BY <1>1, <1>3, <2>1, <3>1
        <3> QED BY <3>2, <3>3
    <2> QED BY <1>5, <2>1 DEF IsBatch
<1>8. ToSet(b) = {x \in Requests : /\ x[1] = v
                                   /\ x[2] > made[v] - Len(eventBuffer[v])
                                   /\ x[2] <= made[v] + 1}
    <2> DEFINE m == made[v] - Len(eventBuffer[v])
    <2>1. m \in Nat /\ m + Len(b) = made[v] + 1
        <3>1. \A x, y, z \in Nat : y <= x /\ z = y + 1 => x - y \in Nat /\ (x - y) + z = x + 1
            OBVIOUS
        <3>2. made[v] \in Nat /\ Len(eventBuffer[v]) \in Nat /\ Len(b) \in Nat
            BY <1>1, <1>3
        <3> QED BY <1>3, <1>6, <3>1, <3>2
    <2>2. \A k \in 1..Len(b) : b[k] = <<v, m + k>>
        BY <1>4
    <2> HIDE DEF m
    <2>3. \A x : x \in ToSet(b) <=> x \in Requests /\ x[1] = v /\ x[2] > m /\ x[2] <= m + Len(b)
        <3>1. b \in Seq(Requests)
            BY <1>3
        <3>2. m \in Nat
            BY <2>1
        <3>3. IsRun(v, m, b)
            BY <2>2 DEF IsRun
        <3>4. HasRun(v, m, b)
            BY <3>1, <3>2, <3>3, RunContents
        <3> QED BY <3>4 DEF HasRun
    <2> QED BY <2>1, <2>3 DEF m
<1>9. made[v] \in Nat
    BY <1>1
<1> QED BY <1>1, <1>2, <1>3, <1>4, <1>7, <1>8, <1>9, Zenon

LEMMA TypeInit == Init => TypeOK
<1> SUFFICES ASSUME Init PROVE TypeOK
    OBVIOUS
<1>1. <<>> \in Seq(Requests) /\ Len(<<>>) = 0
    OBVIOUS
<1>2. pending = <<>> /\ stored = <<>>
    BY DEF Init, Sidecar!Init
<1>3. over \in BOOLEAN
    BY Zenon DEF Init
<1>4. \A v \in VUs : Len(eventBuffer[v]) < BatchSize
    BY <1>1, LoadAssumption DEF Init
<1> QED BY <1>1, <1>2, <1>3, <1>4, LoadAssumption DEF Init, TypeOK

LEMMA TypeStep ==
    ASSUME TypeOK, BufferInv, Next
    PROVE  TypeOK'
<1>1. ASSUME NEW v \in VUs, Iterate(v)
      PROVE  TypeOK'
    <2> DEFINE b == Push(eventBuffer[v], <<v, made[v] + 1>>)
    <2>1. /\ made[v] + 1 \in 1..MaxIter
          /\ b \in Seq(Requests) /\ Len(b) \in Nat
          /\ made' = [made EXCEPT ![v] = made[v] + 1]
        BY <1>1, IteratePushes
    <2>2. made' \in [VUs -> 0..MaxIter]
        BY <2>1, LoadAssumption DEF TypeOK
    <2>3. <<>> \in Seq(Requests) /\ Len(<<>>) = 0
        OBVIOUS
    <2>4. CASE Full(Len(b))
        <3>1. /\ eventBuffer' = [eventBuffer EXCEPT ![v] = <<>>]
              /\ underWay' = underWay \cup {b} /\ waiting' = waiting \cup {v}
            BY <1>1, <2>4 DEF Iterate
        <3>2. eventBuffer' \in [VUs -> Seq(Requests)] /\ \A w \in VUs : Len(eventBuffer'[w]) < BatchSize
            BY <2>3, <3>1, LoadAssumption DEF TypeOK
        <3>3. underWay' \subseteq Seq(Requests)
            BY <2>1, <3>1 DEF TypeOK
        <3> QED BY <1>1, <2>2, <3>1, <3>2, <3>3 DEF TypeOK, Iterate, sidecarVars, ghosts
    <2>5. CASE ~Full(Len(b))
        <3>1. eventBuffer' = [eventBuffer EXCEPT ![v] = b] /\ UNCHANGED <<underWay, waiting>>
            BY <1>1, <2>5 DEF Iterate
        <3>2. Len(b) < BatchSize
            BY <2>1, <2>5, LoadAssumption DEF Full
        <3>3. eventBuffer' \in [VUs -> Seq(Requests)] /\ \A w \in VUs : Len(eventBuffer'[w]) < BatchSize
            BY <2>1, <3>1, <3>2 DEF TypeOK
        <3> QED BY <1>1, <2>2, <3>1, <3>3 DEF TypeOK, Iterate, sidecarVars, ghosts
    <2> QED BY <2>4, <2>5
<1>2. ASSUME NEW v \in VUs, PostReturns(v)
      PROVE  TypeOK'
    BY <1>2 DEF TypeOK, PostReturns, sidecarVars
<1>3. ASSUME NEW v \in VUs, End(v)
      PROVE  TypeOK'
    BY <1>3 DEF TypeOK, End, sidecarVars
<1>4. ASSUME Teardown
      PROVE  TypeOK'
    <2>1. <<>> \in Seq(Requests) /\ Len(<<>>) = 0
        OBVIOUS
    <2>2. left' \subseteq Requests
        <3>1. \A v \in VUs : ToSet(eventBuffer[v]) \subseteq Requests
            BY ToSetProperties DEF TypeOK
        <3> QED BY <1>4, <3>1 DEF Teardown
    <2>3. eventBuffer' \in [VUs -> Seq(Requests)] /\ \A w \in VUs : Len(eventBuffer'[w]) < BatchSize
        BY <1>4, <2>1, LoadAssumption DEF Teardown
    <2>4. over' \in BOOLEAN
        BY <1>4, Zenon DEF Teardown
    <2> QED BY <1>4, <2>2, <2>3, <2>4 DEF TypeOK, Teardown, sidecarVars
<1>5. ASSUME NEW b \in underWay, HandleIngestBatch(b)
      PROVE  TypeOK'
    <2>1. pending' \in Seq(Requests) /\ stored' \in Seq(Requests)
        BY <1>5 DEF HandleIngestBatch, Sidecar!Accept, TypeOK
    <2> QED BY <1>5, <2>1 DEF TypeOK, HandleIngestBatch, clientVars, ghosts
<1>6. ASSUME NEW b \in underWay, BadPayload(b)
      PROVE  TypeOK'
    BY <1>6 DEF TypeOK, BadPayload, clientVars, sidecarVars
<1>7. ASSUME NEW b \in underWay, Lose(b)
      PROVE  TypeOK'
    <2>1. ToSet(b) \subseteq Requests
        BY ToSetProperties DEF TypeOK
    <2> QED BY <1>7, <2>1 DEF TypeOK, Lose, clientVars, sidecarVars
<1>8. ASSUME Store
      PROVE  TypeOK'
    BY <1>8, StoreKeepsRows DEF TypeOK, clientVars, ghosts
<1>9. ASSUME Crash
      PROVE  TypeOK'
    <2>1. pending' \in Seq(Requests) /\ stored' \in Seq(Requests)
        <3>1. <<>> \in Seq(Requests)
            OBVIOUS
        <3> QED BY <1>9, <3>1 DEF TypeOK, Crash, Sidecar!Forget, sidecarVars
    <2>2. InFlight \subseteq Requests /\ ToSet(pending) \subseteq Requests
        BY ToSetProperties DEF TypeOK, InFlight
    <2> QED BY <1>9, <2>1, <2>2 DEF TypeOK, Crash, clientVars
<1> QED BY <1>1, <1>2, <1>3, <1>4, <1>5, <1>6, <1>7, <1>8, <1>9 DEF Next

-------------------------------------------------------------------------------
(***************************************************************************)
(* The buffers, and what is left in them.                                  *)
(***************************************************************************)

LEMMA BufferContents ==
    ASSUME TypeOK, BufferInv, NEW v \in VUs
    PROVE  ToSet(eventBuffer[v]) =
              {r \in Requests : /\ r[1] = v
                                /\ r[2] > made[v] - Len(eventBuffer[v])
                                /\ r[2] <= made[v]}
<1> DEFINE m == made[v] - Len(eventBuffer[v])
<1>1. /\ eventBuffer[v] \in Seq(Requests) /\ made[v] \in Nat
      /\ m \in Nat /\ m + Len(eventBuffer[v]) = made[v]
    BY LenProperties DEF TypeOK, BufferInv
<1>2. \A k \in 1..Len(eventBuffer[v]) : eventBuffer[v][k] = <<v, m + k>>
    BY DEF BufferInv
<1> HIDE DEF m
<1>3. \A r : r \in ToSet(eventBuffer[v]) <=>
               r \in Requests /\ r[1] = v /\ r[2] > m /\ r[2] <= m + Len(eventBuffer[v])
    <2>1. IsRun(v, m, eventBuffer[v])
        BY <1>2 DEF IsRun
    <2>2. HasRun(v, m, eventBuffer[v])
        BY <1>1, <2>1, RunContents
    <2> QED BY <2>2 DEF HasRun
<1> QED BY <1>1, <1>3 DEF m

LEMMA BufferStep ==
    ASSUME TypeOK, BufferInv, Next
    PROVE  BufferInv'
<1> DEFINE Good(v) ==
              /\ Len(eventBuffer[v]) <= made[v]
              /\ \A k \in 1..Len(eventBuffer[v]) :
                    eventBuffer[v][k] = <<v, made[v] - Len(eventBuffer[v]) + k>>
<1>0. \A v \in VUs : made[v] \in Nat
    BY DEF TypeOK
<1>1. ASSUME NEW v \in VUs, Iterate(v), NEW w \in VUs
      PROVE  Good(w)'
    <2> DEFINE b == Push(eventBuffer[v], <<v, made[v] + 1>>)
    <2>1. /\ Len(eventBuffer[v]) \in Nat /\ Len(b) = Len(eventBuffer[v]) + 1
          /\ made' = [made EXCEPT ![v] = made[v] + 1]
          /\ \A k \in 1..Len(b) : b[k] = <<v, made[v] - Len(eventBuffer[v]) + k>>
        BY <1>1, IteratePushes
    <2>2. CASE w # v
        <3>1. eventBuffer'[w] = eventBuffer[w] /\ made'[w] = made[w]
            BY <1>1, <2>1, <2>2 DEF Iterate, TypeOK
        <3> QED BY <3>1 DEF BufferInv
    <2>3. CASE w = v /\ eventBuffer'[w] = <<>>
        <3>1. Len(<<>>) = 0
            OBVIOUS
        <3>2. made'[v] = made[v] + 1
            BY <2>1 DEF TypeOK
        <3> QED BY <1>0, <2>3, <3>1, <3>2
    <2>4. CASE w = v /\ eventBuffer'[w] = b
        <3>1. made'[v] = made[v] + 1 /\ made[v] \in Nat /\ Len(eventBuffer[v]) <= made[v]
            BY <1>0, <2>1 DEF TypeOK, BufferInv
        <3> HIDE DEF b
        <3>2. Len(b) <= made'[v] /\ made'[v] - Len(b) = made[v] - Len(eventBuffer[v])
            <4>1. \A m, n \in Nat : n <= m => n + 1 <= m + 1 /\ (m + 1) - (n + 1) = m - n
                OBVIOUS
            <4> QED BY <2>1, <3>1, <4>1, Zenon
        <3> QED BY <2>1, <2>4, <3>2
    <2>5. w # v \/ eventBuffer'[v] = <<>> \/ eventBuffer'[v] = b
        BY <1>1 DEF Iterate, TypeOK
    <2> QED BY <2>2, <2>3, <2>4, <2>5
<1>2. ASSUME Teardown
      PROVE  BufferInv'
    <2>1. Len(<<>>) = 0
        OBVIOUS
    <2>2. made' = made /\ eventBuffer' = [v \in VUs |-> <<>>]
        BY <1>2 DEF Teardown
    <2> QED BY <1>0, <2>1, <2>2 DEF BufferInv
<1>3. ASSUME UNCHANGED <<made, eventBuffer>>
      PROVE  BufferInv'
    BY <1>3 DEF BufferInv
<1>4. \/ \E v \in VUs : Iterate(v)
      \/ Teardown
      \/ UNCHANGED <<made, eventBuffer>>
    BY StoreKeepsRows
       DEF Next, PostReturns, End, HandleIngestBatch, BadPayload, Lose, Crash, clientVars
<1>5. ASSUME NEW v \in VUs, Iterate(v)
      PROVE  BufferInv'
    BY <1>1, <1>5 DEF BufferInv
<1> QED BY <1>2, <1>3, <1>4, <1>5

LEMMA LeftStep ==
    ASSUME TypeOK, BufferInv, LeftInv, Next
    PROVE  LeftInv'
<1>1. ASSUME NEW v \in VUs, Iterate(v)
      PROVE  LeftInv'
    <2> DEFINE b == Push(eventBuffer[v], <<v, made[v] + 1>>)
    <2>1. /\ Len(eventBuffer[v]) \in Nat /\ Len(b) = Len(eventBuffer[v]) + 1
          /\ made[v] \in Nat /\ made' = [made EXCEPT ![v] = made[v] + 1]
        BY <1>1, IteratePushes
    <2>2. ~over /\ ~over' /\ left' = left
        BY <1>1 DEF LeftInv, Iterate, ghosts
    <2>3. ASSUME NEW w \in VUs
          PROVE  \E q \in Nat : made'[w] = BatchSize * q + Len(eventBuffer'[w])
        <3>1. PICK q \in Nat : made[w] = BatchSize * q + Len(eventBuffer[w])
            BY <2>2 DEF LeftInv
        <3>2. CASE w # v
            <4>1. eventBuffer'[w] = eventBuffer[w] /\ made'[w] = made[w]
                BY <1>1, <2>1, <3>2 DEF Iterate, TypeOK
            <4> QED BY <3>1, <4>1
        <3>3. CASE w = v /\ Full(Len(b))
            <4>1. eventBuffer'[v] = <<>> /\ Len(<<>>) = 0
                BY <1>1, <3>3 DEF Iterate, TypeOK
            <4>2. Len(b) = BatchSize
                BY <2>1, <3>3, LoadAssumption DEF Full, TypeOK
            <4>3. made'[v] = made[v] + 1
                BY <2>1 DEF TypeOK
            <4> HIDE DEF b
            <4>4. BatchSize * (q + 1) = BatchSize * q + BatchSize /\ BatchSize * q \in Nat
                BY LoadAssumption
            <4>5. made'[v] = BatchSize * (q + 1) + 0
                <5> DEFINE p == BatchSize * q
                <5>1. p \in Nat /\ made[v] = p + Len(eventBuffer[v]) /\ BatchSize * (q + 1) = p + BatchSize
                    BY <3>1, <3>3, <4>4
                <5> HIDE DEF p
                <5> QED BY <2>1, <4>2, <4>3, <5>1, LoadAssumption
            <4> QED BY <3>3, <4>1, <4>5
        <3>4. CASE w = v /\ ~Full(Len(b))
            <4>1. eventBuffer'[v] = b
                BY <1>1, <3>4 DEF Iterate, TypeOK
            <4>2. made'[v] = made[v] + 1
                BY <2>1 DEF TypeOK
            <4> HIDE DEF b
            <4>3. made'[v] = BatchSize * q + Len(b)
                <5> DEFINE p == BatchSize * q
                <5>1. p \in Nat
                    BY LoadAssumption
                <5>2. made[v] = p + Len(eventBuffer[v])
                    BY <3>1, <3>4
                <5> HIDE DEF p
                <5>3. made'[v] = p + Len(b)
                    BY <2>1, <4>2, <5>1, <5>2
                <5> QED BY <5>3 DEF p
            <4> QED BY <3>4, <4>1, <4>3
        <3> QED BY <3>2, <3>3, <3>4
    <2> QED BY <2>2, <2>3 DEF LeftInv
<1>2. ASSUME Teardown
      PROVE  LeftInv'
    <2>1. ~over /\ over' /\ ended' = VUs /\ made' = made
          /\ eventBuffer' = [v \in VUs |-> <<>>]
          /\ left' = UNION {ToSet(eventBuffer[v]) : v \in VUs}
        BY <1>2 DEF Teardown
    <2>2. ASSUME NEW v \in VUs
          PROVE  \E q \in Nat, n \in 0..BatchSize - 1 :
                    /\ made[v] = BatchSize * q + n
                    /\ \A i \in Nat : <<v, i>> \in left' <=> i \in (made[v] - n + 1)..made[v]
        <3> DEFINE n == Len(eventBuffer[v])
        <3>1. /\ made[v] \in 0..MaxIter /\ MaxIter \in Nat /\ n \in Nat
              /\ n < BatchSize /\ n \in 0..BatchSize - 1 /\ n <= made[v]
            BY LoadAssumption, LenProperties DEF TypeOK, BufferInv
        <3>2. PICK q \in Nat : made[v] = BatchSize * q + n
            BY <2>1 DEF LeftInv
        <3>3. \A w \in VUs : \A r \in ToSet(eventBuffer[w]) : r[1] = w
            BY BufferContents
        <3>4. ASSUME NEW i \in Nat
              PROVE  <<v, i>> \in left' <=> i \in (made[v] - n + 1)..made[v]
            <4>1. <<v, i>> \in left' <=> <<v, i>> \in ToSet(eventBuffer[v])
                BY <2>1, <3>3
            <4>2. <<v, i>> \in ToSet(eventBuffer[v]) <=>
                     <<v, i>> \in Requests /\ i > made[v] - n /\ i <= made[v]
                BY BufferContents
            <4>3. <<v, i>> \in Requests <=> i \in 1..MaxIter
                BY DEF Requests
            <4> HIDE DEF n
            <4>4. (i \in 1..MaxIter /\ i > made[v] - n /\ i <= made[v])
                  <=> i \in (made[v] - n + 1)..made[v]
                BY <3>1
            <4> QED BY <4>1, <4>2, <4>3, <4>4
        <3> QED BY <3>1, <3>2, <3>4
    <2> QED BY <2>1, <2>2 DEF LeftInv
<1>3. ASSUME UNCHANGED <<made, eventBuffer, over, left>>, ended \subseteq ended', ended' \subseteq VUs
      PROVE  LeftInv'
    BY <1>3 DEF LeftInv
<1>4. \/ \E v \in VUs : Iterate(v)
      \/ Teardown
      \/ UNCHANGED <<made, eventBuffer, over, left>> /\ ended \subseteq ended' /\ ended' \subseteq VUs
    BY StoreKeepsRows
       DEF Next, TypeOK, PostReturns, End, HandleIngestBatch, BadPayload, Lose, Crash, clientVars, ghosts
<1> QED BY <1>1, <1>2, <1>3, <1>4

-------------------------------------------------------------------------------
(***************************************************************************)
(* The batches under way, and the places of the requests.                  *)
(***************************************************************************)

LEMMA InFlightGrows ==
    ASSUME NEW b, underWay' = underWay \cup {b}
    PROVE  InFlight' = InFlight \cup ToSet(b)
BY DEF InFlight

LEMMA InFlightShrinks ==
    ASSUME BatchInv, NEW b \in underWay, underWay' = underWay \ {b}
    PROVE  ToSet(b) \subseteq InFlight /\ InFlight' = InFlight \ ToSet(b)
<1>1. ToSet(b) \subseteq InFlight
    BY DEF InFlight
<1>2. InFlight' = UNION {ToSet(c) : c \in underWay \ {b}}
    BY DEF InFlight
<1>3. InFlight' \subseteq InFlight \ ToSet(b)
    <2> SUFFICES ASSUME NEW c \in underWay \ {b}, NEW r \in ToSet(c)
                 PROVE  r \in InFlight \ ToSet(b)
        BY <1>2
    <2> QED BY DEF InFlight, BatchInv
<1>4. InFlight \ ToSet(b) \subseteq InFlight'
    BY <1>2 DEF InFlight
<1> QED BY <1>1, <1>3, <1>4

\* The requests that leave the buffers with a step.
LEMMA SentByIterate ==
    ASSUME TypeOK, BufferInv, NEW v \in VUs, Iterate(v), NEW b,
           b = Push(eventBuffer[v], <<v, made[v] + 1>>)
    PROVE  IF Full(Len(b)) THEN Sent' = Sent \cup ToSet(b) /\ Sent \cap ToSet(b) = {}
                           ELSE Sent' = Sent
<1> DEFINE out(w) == made[w] - Len(eventBuffer[w])
<1>1. /\ made[v] \in Nat /\ made' = [made EXCEPT ![v] = made[v] + 1]
      /\ Len(eventBuffer[v]) \in Nat /\ Len(b) = Len(eventBuffer[v]) + 1
      /\ ToSet(b) = {r \in Requests : r[1] = v /\ r[2] > out(v) /\ r[2] <= made[v] + 1}
    BY IteratePushes
<1>2. made'[v] = made[v] + 1 /\ \A w \in VUs : w # v => made'[w] = made[w] /\ eventBuffer'[w] = eventBuffer[w]
    BY <1>1 DEF TypeOK, Iterate
<1>3. \A r \in Requests : r[1] \in VUs /\ r[2] \in Nat
    BY LoadAssumption DEF Requests
<1>4. out(v) <= made[v] /\ out(v) \in Nat
    BY <1>1 DEF BufferInv
<1>5. Sent' = {r \in Requests : r[2] <= made'[r[1]] - Len(eventBuffer'[r[1]])}
    BY DEF Sent, Requests
<1>6. CASE Full(Len(b))
    <2>1. eventBuffer'[v] = <<>> /\ Len(<<>>) = 0
        BY <1>6 DEF TypeOK, Iterate
    <2>2. made'[v] - Len(eventBuffer'[v]) = made[v] + 1
        BY <1>1, <1>2, <2>1
    <2>3. \A r \in Requests : r[1] = v => (r \in Sent' <=> r[2] <= made[v] + 1)
        BY <1>5, <2>2
    <2>4. \A r \in Requests : r[1] # v => (r \in Sent' <=> r \in Sent)
        BY <1>2, <1>3, <1>5 DEF Sent
    <2>5. \A r \in Requests : r[1] = v => (r \in Sent <=> r[2] <= out(v))
        BY DEF Sent
    <2>6. Sent' \subseteq Requests /\ Sent \subseteq Requests
        BY <1>5 DEF Sent
    <2> HIDE DEF out
    <2>7. Sent' = Sent \cup ToSet(b)
        BY <1>1, <1>3, <1>4, <2>3, <2>4, <2>5, <2>6
    <2>8. Sent \cap ToSet(b) = {}
        BY <1>1, <1>3, <1>4, <2>5
    <2> QED BY <1>6, <2>7, <2>8
<1>7. CASE ~Full(Len(b))
    <2>1. eventBuffer'[v] = b
        BY <1>7 DEF TypeOK, Iterate
    <2>2. made'[v] - Len(eventBuffer'[v]) = out(v)
        BY <1>1, <1>2, <2>1
    <2>3. \A w \in VUs : made'[w] - Len(eventBuffer'[w]) = out(w)
        BY <1>2, <2>2
    <2>4. Sent' = Sent
        BY <1>3, <1>5, <2>3 DEF Sent
    <2> QED BY <1>7, <2>4
<1> QED BY <1>6, <1>7

LEMMA SentByTeardown ==
    ASSUME TypeOK, BufferInv, LeftInv, Teardown
    PROVE  Sent' = Sent \cup left' /\ Sent \cap left' = {} /\ left = {}
<1>1. /\ left = {} /\ made' = made
      /\ eventBuffer' = [v \in VUs |-> <<>>]
      /\ left' = UNION {ToSet(eventBuffer[v]) : v \in VUs}
    BY DEF LeftInv, Teardown
<1>2. \A r \in Requests : r[1] \in VUs /\ r[2] \in Nat
    BY LoadAssumption DEF Requests
<1>3. Sent' = {r \in Requests : r[2] <= made[r[1]] - 0}
    <2>1. Len(<<>>) = 0
        OBVIOUS
    <2>2. Sent' = {r \in Requests : r[2] <= made'[r[1]] - Len(eventBuffer'[r[1]])}
        BY DEF Sent, Requests
    <2> QED BY <1>1, <1>2, <2>1, <2>2
<1>4. \A r : r \in left' <=> /\ r \in Requests
                             /\ r[2] > made[r[1]] - Len(eventBuffer[r[1]])
                             /\ r[2] <= made[r[1]]
    BY <1>1, <1>2, BufferContents
<1>5. \A v \in VUs : /\ made[v] \in Nat /\ Len(eventBuffer[v]) \in Nat
                     /\ Len(eventBuffer[v]) <= made[v]
    BY LenProperties DEF TypeOK, BufferInv
<1>6. Sent \cap left' = {}
    BY <1>2, <1>4, <1>5 DEF Sent
<1>7. Sent' = Sent \cup left'
    BY <1>2, <1>3, <1>4, <1>5 DEF Sent
<1> QED BY <1>1, <1>6, <1>7

LEMMA BatchStep ==
    ASSUME TypeOK, BufferInv, BatchInv, PlaceInv, Next
    PROVE  BatchInv'
<1>1. ASSUME NEW v \in VUs, Iterate(v)
      PROVE  BatchInv'
    <2> DEFINE b == Push(eventBuffer[v], <<v, made[v] + 1>>)
    <2>1. IsBatch(b)
        BY <1>1, IteratePushes
    <2>2. IF Full(Len(b)) THEN Sent \cap ToSet(b) = {} ELSE TRUE
        BY <1>1, SentByIterate
    <2>3. InFlight \subseteq Sent
        BY DEF PlaceInv, SplitBy
    <2>4. CASE Full(Len(b))
        <3>1. underWay' = underWay \cup {b}
            BY <1>1, <2>4 DEF Iterate
        <3>2. \A c \in underWay : ToSet(c) \cap ToSet(b) = {}
            BY <2>2, <2>3, <2>4 DEF InFlight
        <3> HIDE DEF b
        <3> QED BY <2>1, <3>1, <3>2 DEF BatchInv
    <2>5. CASE ~Full(Len(b))
        <3>1. underWay' = underWay
            BY <1>1, <2>5 DEF Iterate
        <3> QED BY <3>1 DEF BatchInv
    <2> QED BY <2>4, <2>5
<1>2. ASSUME underWay' \subseteq underWay
      PROVE  BatchInv'
    BY <1>2 DEF BatchInv
<1>3. (\E v \in VUs : Iterate(v)) \/ underWay' \subseteq underWay
    BY StoreKeepsRows
       DEF Next, PostReturns, End, Teardown, HandleIngestBatch, BadPayload, Lose, Crash, clientVars, ghosts
<1> QED BY <1>1, <1>2, <1>3

\* The rows after an accepted batch, and after a crash.
LEMMA RowsGrow ==
    ASSUME TypeOK, NEW b \in underWay, HandleIngestBatch(b)
    PROVE  Rows' = Rows \o b
<1>1. Rows' = stored \o (pending \o b)
    BY DEF Rows, HandleIngestBatch, Sidecar!Accept
<1>2. b \in Seq(Requests) /\ pending \in Seq(Requests) /\ stored \in Seq(Requests)
    BY DEF TypeOK
<1> QED BY <1>1, <1>2, ConcatAssociative, SMTT(20) DEF Rows

LEMMA RowsAfterCrash ==
    ASSUME TypeOK, Crash
    PROVE  Rows' = stored
<1>1. pending' = <<>> /\ stored' = stored
    BY DEF Crash, Sidecar!Forget, sidecarVars
<1>2. stored \in Seq(Requests)
    BY DEF TypeOK
<1> QED BY <1>1, <1>2, ConcatEmptySeq DEF Rows

LEMMA PlaceStep ==
    ASSUME TypeOK, BufferInv, LeftInv, BatchInv, PlaceInv, IsInjective(Rows), Next
    PROVE  PlaceInv'
<1>0. /\ pending \in Seq(Requests) /\ stored \in Seq(Requests)
      /\ Rows \in Seq(Requests) /\ \A b \in underWay : b \in Seq(Requests)
    BY ConcatProperties DEF TypeOK, Rows
<1>1. ASSUME NEW v \in VUs, Iterate(v)
      PROVE  PlaceInv'
    <2> DEFINE b == Push(eventBuffer[v], <<v, made[v] + 1>>)
    <2>1. IF Full(Len(b)) THEN Sent' = Sent \cup ToSet(b) /\ Sent \cap ToSet(b) = {}
                          ELSE Sent' = Sent
        BY <1>1, SentByIterate
    <2>2. /\ ToSet(Rows)' = ToSet(Rows) /\ UNCHANGED <<lost, Refused, left>>
        BY <1>1 DEF Iterate, sidecarVars, ghosts, Rows, Refused
    <2>3. CASE Full(Len(b))
        <3>1. underWay' = underWay \cup {b}
            BY <1>1, <2>3 DEF Iterate
        <3>2. InFlight' = InFlight \cup ToSet(b)
            BY <3>1, InFlightGrows
        <3>3. Sent' = Sent \cup ToSet(b) /\ Sent \cap ToSet(b) = {}
            BY <2>1, <2>3
        <3> HIDE DEF b
        <3> QED BY <2>2, <3>2, <3>3 DEF PlaceInv, SplitBy
    <2>4. CASE ~Full(Len(b))
        <3>1. InFlight' = InFlight
            BY <1>1, <2>4 DEF Iterate, InFlight
        <3>2. Sent' = Sent
            BY <2>1, <2>4
        <3> QED BY <2>2, <3>1, <3>2 DEF PlaceInv, SplitBy
    <2> QED BY <2>3, <2>4
<1>2. ASSUME Teardown
      PROVE  PlaceInv'
    <2>1. InFlight' = InFlight /\ ToSet(Rows)' = ToSet(Rows) /\ UNCHANGED <<lost, Refused>>
        BY <1>2 DEF Teardown, sidecarVars, Rows, Refused, InFlight
    <2> QED BY <1>2, <2>1, SentByTeardown DEF PlaceInv, SplitBy
<1>3. ASSUME UNCHANGED <<made, eventBuffer, left, underWay, lost, refused>>, Rows' = Rows
      PROVE  PlaceInv'
    BY <1>3 DEF PlaceInv, SplitBy, Sent, InFlight, Refused
<1>4. ASSUME UNCHANGED <<made, eventBuffer>>
      PROVE  Sent' = Sent
    BY <1>4 DEF Sent
<1>5. ASSUME NEW b \in underWay, HandleIngestBatch(b)
      PROVE  PlaceInv'
    <2>1. Rows' = Rows \o b
        BY <1>5, RowsGrow
    <2>2. ToSet(Rows)' = ToSet(Rows) \cup ToSet(b)
        BY <1>0, <2>1, ToSetProperties
    <2>3. ToSet(b) \subseteq InFlight /\ InFlight' = InFlight \ ToSet(b)
        BY <1>5, InFlightShrinks DEF HandleIngestBatch
    <2>4. UNCHANGED <<Sent, lost, Refused, left>>
        BY <1>4, <1>5 DEF HandleIngestBatch, clientVars, ghosts, Refused
    <2> QED BY <2>2, <2>3, <2>4 DEF PlaceInv, SplitBy
<1>6. ASSUME NEW b \in underWay, BadPayload(b)
      PROVE  PlaceInv'
    <2>1. ToSet(b) \subseteq InFlight /\ InFlight' = InFlight \ ToSet(b)
        BY <1>6, InFlightShrinks DEF BadPayload
    <2>2. Refused' = Refused \cup ToSet(b)
        BY <1>6 DEF BadPayload, Refused
    <2>3. UNCHANGED <<Sent, lost, left>> /\ ToSet(Rows)' = ToSet(Rows)
        BY <1>4, <1>6 DEF BadPayload, clientVars, sidecarVars, Rows
    <2> QED BY <2>1, <2>2, <2>3 DEF PlaceInv, SplitBy
<1>7. ASSUME NEW b \in underWay, Lose(b)
      PROVE  PlaceInv'
    <2>1. ToSet(b) \subseteq InFlight /\ InFlight' = InFlight \ ToSet(b)
        BY <1>7, InFlightShrinks DEF Lose
    <2>2. lost' = lost \cup ToSet(b)
        BY <1>7 DEF Lose
    <2>3. UNCHANGED <<Sent, Refused, left>> /\ ToSet(Rows)' = ToSet(Rows)
        BY <1>4, <1>7 DEF Lose, clientVars, sidecarVars, Rows, Refused
    <2> QED BY <2>1, <2>2, <2>3 DEF PlaceInv, SplitBy
<1>8. ASSUME Crash
      PROVE  PlaceInv'
    <2>1. Rows' = stored
        BY <1>8, RowsAfterCrash
    <2>2. InFlight' = {} /\ lost' = (lost \cup InFlight) \cup ToSet(pending)
        BY <1>8 DEF Crash, InFlight
    <2>3. UNCHANGED <<Sent, Refused, left>>
        BY <1>4, <1>8 DEF Crash, clientVars, Refused
    <2>4. ToSet(Rows) = ToSet(stored) \cup ToSet(pending)
        BY <1>0, ToSetProperties DEF Rows
    <2>5. ToSet(stored) \cap ToSet(pending) = {}
        BY <1>0, JoinInjective DEF Rows
    <2> QED BY <2>1, <2>2, <2>3, <2>4, <2>5 DEF PlaceInv, SplitBy
<1>9. ASSUME NEW v \in VUs, PostReturns(v) \/ End(v)
      PROVE  PlaceInv'
    BY <1>3, <1>9 DEF PostReturns, End, sidecarVars, Rows
<1>10. ASSUME Store
       PROVE  PlaceInv'
    BY <1>3, <1>10, StoreKeepsRows DEF clientVars, ghosts
<1> QED BY <1>1, <1>2, <1>5, <1>6, <1>7, <1>8, <1>9, <1>10 DEF Next

-------------------------------------------------------------------------------
(***************************************************************************)
(* The order of the rows.                                                  *)
(***************************************************************************)

\* A batch that is newer than the rows of its virtual user continues them.
LEMMA OrderExtends ==
    ASSUME NEW rows \in Seq(Requests), NEW b \in Seq(Requests), NEW L,
           IsBatch(b), OrderedBut(L, rows),
           b[1][1] \notin L =>
              \A i \in DOMAIN rows : rows[i][1] = b[1][1] => rows[i][2] < b[1][2]
    PROVE  OrderedBut(L, rows \o b)
<1> DEFINE s == rows \o b
<1>1. /\ Len(rows) \in Nat /\ DOMAIN rows = 1..Len(rows)
      /\ DOMAIN s = 1..Len(rows) + Len(b)
      /\ \A i \in 1..Len(rows) : s[i] = rows[i] /\ rows[i] \in Requests
      /\ \A i \in 1..Len(rows) + Len(b) : i > Len(rows) => s[i] = b[i - Len(rows)]
    BY ConcatProperties, LenProperties, ElementOfSeq
<1>2. /\ Len(b) \in Nat \ {0} /\ DOMAIN b = 1..Len(b)
      /\ \A i \in DOMAIN b : b[i] \in Requests /\ b[i][1] = b[1][1] /\ b[1][2] <= b[i][2]
    BY BatchProperties
<1>3. \A r \in Requests : r[2] \in Nat
    BY LoadAssumption DEF Requests
<1> HIDE DEF s
<1>4. ASSUME NEW i \in DOMAIN s, NEW j \in DOMAIN s, i < j, s[i][1] = s[j][1], s[i][1] \notin L
      PROVE  s[i][2] < s[j][2]
    <2>1. CASE j <= Len(rows)
        BY <1>1, <1>4, <2>1 DEF OrderedBut
    <2>2. CASE i > Len(rows)
        <3>1. s[i] = b[i - Len(rows)] /\ s[j] = b[j - Len(rows)]
            BY <1>1, <1>4, <2>2
        <3>2. i - Len(rows) \in DOMAIN b /\ j - Len(rows) \in DOMAIN b /\ i - Len(rows) < j - Len(rows)
            BY <1>1, <1>2, <1>4, <2>2
        <3> QED BY <3>1, <3>2 DEF IsBatch
    <2>3. CASE i <= Len(rows) /\ j > Len(rows)
        <3>1. i \in DOMAIN rows /\ s[i] = rows[i]
            BY <1>1, <1>4, <2>3
        <3>2. j - Len(rows) \in DOMAIN b /\ s[j] = b[j - Len(rows)]
            BY <1>1, <1>2, <1>4, <2>3
        <3>3. s[j][1] = b[1][1] /\ b[1][2] <= s[j][2]
            BY <1>2, <3>2
        <3>4. rows[i][2] < b[1][2]
            BY <1>4, <3>1, <3>3
        <3>5. rows[i][2] \in Nat /\ b[1][2] \in Nat /\ s[j][2] \in Nat
            BY <1>1, <1>2, <1>3, <3>1, <3>2
        <3> QED BY <3>1, <3>3, <3>4, <3>5
    <2> QED BY <1>1, <1>2, <1>4, <2>1, <2>2, <2>3
<1>5. OrderedBut(L, s)
    BY <1>4 DEF OrderedBut
<1> QED BY <1>5 DEF s

LEMMA OrderStep ==
    ASSUME TypeOK, BufferInv, BatchInv, PlaceInv, OrderInv, Next
    PROVE  OrderInv'
<1>0. /\ pending \in Seq(Requests) /\ stored \in Seq(Requests)
      /\ Rows \in Seq(Requests) /\ \A b \in underWay : b \in Seq(Requests)
    BY ConcatProperties DEF TypeOK, Rows
<1> DEFINE Newest(b) ==
              b[1][1] \notin late =>
                /\ b[1][1] \in waiting
                /\ \A c \in underWay : c[1][1] = b[1][1] => c = b
                /\ \A i \in DOMAIN Rows : Rows[i][1] = b[1][1] => Rows[i][2] < b[1][2]
<1>1. IsInjective(Rows) /\ OrderedBut(late, Rows) /\ \A b \in underWay : Newest(b)
    BY DEF OrderInv
<1>2. ASSUME underWay' \subseteq underWay, UNCHANGED <<waiting, late>>, Rows' = Rows
      PROVE  OrderInv'
    BY <1>1, <1>2 DEF OrderInv
<1>3. ASSUME NEW v \in VUs, Iterate(v)
      PROVE  OrderInv'
    <2> DEFINE b == Push(eventBuffer[v], <<v, made[v] + 1>>)
               m == made[v] - Len(eventBuffer[v])
    <2>1. late' = late /\ Rows' = Rows /\ v \notin waiting
        BY <1>3 DEF Iterate, ghosts, sidecarVars, Rows
    <2>2. CASE Full(Len(b))
        <3>1. underWay' = underWay \cup {b} /\ waiting' = waiting \cup {v}
            BY <1>3, <2>2 DEF Iterate
        <3>2. /\ made[v] \in Nat /\ m \in Nat /\ Len(b) \in Nat \ {0}
              /\ \A k \in 1..Len(b) : b[k] = <<v, m + k>>
            <4>1. /\ made[v] \in Nat /\ Len(eventBuffer[v]) \in Nat
                  /\ Len(b) = Len(eventBuffer[v]) + 1
                  /\ \A k \in 1..Len(b) : b[k] = <<v, m + k>>
                BY <1>3, IteratePushes
            <4>2. Len(eventBuffer[v]) <= made[v]
                BY DEF BufferInv
            <4> HIDE DEF b
            <4> QED BY <4>1, <4>2
        <3>3. b[1] = <<v, m + 1>>
            <4> HIDE DEF b, m
            <4> QED BY <3>2
        <3>4. ASSUME NEW i \in DOMAIN Rows, Rows[i][1] = v
              PROVE  Rows[i][2] < m + 1
            <4>1. Rows[i] \in Sent
                BY DEF PlaceInv, SplitBy, ToSet
            <4>2. Rows[i][2] <= m /\ Rows[i][2] \in Nat
                BY <3>4, <4>1, LoadAssumption DEF Sent, Requests
            <4> HIDE DEF m
            <4> QED BY <3>2, <4>2
        <3> HIDE DEF b, m
        <3>5. \A c \in underWay : c[1][1] = v => v \in late
            BY <1>1, <2>1
        <3>6. ASSUME NEW c \in underWay', c[1][1] \notin late'
              PROVE  /\ c[1][1] \in waiting'
                     /\ \A d \in underWay' : d[1][1] = c[1][1] => d = c
                     /\ \A i \in DOMAIN Rows' : Rows'[i][1] = c[1][1] => Rows'[i][2] < c[1][2]
            <4>1. CASE c = b
                BY <2>1, <3>1, <3>3, <3>4, <3>5, <3>6, <4>1
            <4>2. CASE c \in underWay
                BY <1>1, <2>1, <3>1, <3>3, <3>6, <4>2
            <4> QED BY <3>1, <4>1, <4>2
        <3> QED BY <1>1, <2>1, <3>6 DEF OrderInv
    <2>3. CASE ~Full(Len(b))
        <3>1. UNCHANGED <<underWay, waiting>>
            BY <1>3, <2>3 DEF Iterate
        <3> QED BY <1>2, <2>1, <3>1
    <2> QED BY <2>2, <2>3
<1>4. ASSUME NEW v \in VUs, PostReturns(v) \/ End(v)
      PROVE  OrderInv'
    <2>1. /\ underWay' = underWay /\ Rows' = Rows
          /\ waiting' = waiting \ {v}
          /\ late' = IF \E b \in underWay : Head(b)[1] = v THEN late \cup {v} ELSE late
        BY <1>4 DEF PostReturns, End, sidecarVars, Rows
    <2>2. \A b \in underWay : Head(b) = b[1]
        BY <1>0, BatchProperties DEF BatchInv
    <2>3. late \subseteq late' /\ \A b \in underWay : b[1][1] = v => v \in late'
        BY <2>1, <2>2
    <2>4. OrderedBut(late', Rows)
        BY <1>1, <2>3 DEF OrderedBut
    <2>5. \A b \in underWay : Newest(b)'
        BY <1>1, <2>1, <2>3
    <2> QED BY <1>1, <2>1, <2>4, <2>5 DEF OrderInv
<1>5. ASSUME NEW b \in underWay, HandleIngestBatch(b)
      PROVE  OrderInv'
    <2>1. /\ Rows' = Rows \o b
          /\ underWay' = underWay \ {b} /\ UNCHANGED <<waiting, late>>
        BY <1>5, RowsGrow DEF HandleIngestBatch, clientVars, ghosts
    <2>2. /\ IsBatch(b) /\ b \in Seq(Requests) /\ IsInjective(b)
          /\ Len(b) \in Nat /\ DOMAIN b = 1..Len(b)
          /\ \A i \in DOMAIN b : b[i][1] = b[1][1]
        BY <1>0, BatchProperties DEF BatchInv
    <2>3. ToSet(Rows) \cap ToSet(b) = {}
        BY DEF PlaceInv, SplitBy, InFlight
    <2>4. IsInjective(Rows \o b)
        BY <1>0, <1>1, <2>2, <2>3, JoinInjective
    <2>5. OrderedBut(late, Rows \o b)
        BY <1>0, <1>1, <2>2, OrderExtends
    <2>6. ASSUME NEW c \in underWay \ {b}
          PROVE  Newest(c)'
        <3>1. c[1][1] \notin late => c[1][1] # b[1][1]
            BY <1>1
        <3>2. \A i \in DOMAIN (Rows \o b) :
                 \/ i \in DOMAIN Rows /\ (Rows \o b)[i] = Rows[i]
                 \/ (Rows \o b)[i][1] = b[1][1]
            BY <1>0, <2>2, ConcatProperties, LenProperties
        <3>3. \A i \in DOMAIN Rows' : c[1][1] \notin late /\ Rows'[i][1] = c[1][1] => Rows'[i][2] < c[1][2]
            BY <1>1, <2>1, <3>1, <3>2
        <3> QED BY <1>1, <2>1, <3>3
    <2> QED BY <2>1, <2>4, <2>5, <2>6 DEF OrderInv
<1>6. ASSUME NEW b \in underWay, BadPayload(b) \/ Lose(b)
      PROVE  OrderInv'
    BY <1>2, <1>6 DEF BadPayload, Lose, clientVars, sidecarVars, Rows
<1>7. ASSUME Crash
      PROVE  OrderInv'
    <2>1. Rows' = stored /\ underWay' = {} /\ late' = late
        BY <1>7, RowsAfterCrash DEF Crash
    <2>2. IsInjective(stored)
        BY <1>0, <1>1, JoinInjective DEF Rows
    <2>3. \A i \in DOMAIN stored : i \in DOMAIN Rows /\ Rows[i] = stored[i]
        BY <1>0, ConcatProperties, LenProperties DEF Rows
    <2>4. OrderedBut(late, stored)
        BY <1>1, <2>3 DEF OrderedBut
    <2> QED BY <2>1, <2>2, <2>4 DEF OrderInv
<1>8. ASSUME Teardown \/ Store
      PROVE  OrderInv'
    BY <1>2, <1>8, StoreKeepsRows DEF Teardown, sidecarVars, clientVars, ghosts, Rows
<1> QED BY <1>3, <1>4, <1>5, <1>6, <1>7, <1>8 DEF Next

-------------------------------------------------------------------------------
(***************************************************************************)
(* The invariant, and what follows from it.                                *)
(***************************************************************************)

LEMMA LoadInvInit == Init => LoadInv
<1> SUFFICES ASSUME Init PROVE LoadInv
    OBVIOUS
<1>1. /\ made = [v \in VUs |-> 0] /\ eventBuffer = [v \in VUs |-> <<>>]
      /\ pending = <<>> /\ stored = <<>> /\ underWay = {} /\ waiting = {}
      /\ lost = {} /\ refused = {} /\ left = {} /\ late = {}
    BY DEF Init, Sidecar!Init
<1>2. ~over
    BY Zenon DEF Init
<1>3. Len(<<>>) = 0 /\ <<>> \in Seq(Requests) /\ DOMAIN <<>> = {} /\ <<>> \o <<>> = <<>>
    BY ConcatEmptySeq
<1>4. Rows = <<>> /\ ToSet(Rows) = {}
    BY <1>1, <1>3 DEF Rows, ToSet
<1>5. BufferInv
    BY <1>1, <1>3 DEF BufferInv
<1>6. LeftInv
    <2>1. BatchSize * 0 + 0 = 0
        BY LoadAssumption
    <2> QED BY <1>1, <1>2, <1>3, <2>1 DEF LeftInv
<1>7. BatchInv
    BY <1>1 DEF BatchInv
<1>8. PlaceInv
    <2>1. InFlight = {} /\ Refused = {}
        BY <1>1 DEF InFlight, Refused
    <2>2. Sent = {}
        BY <1>1, <1>3, LoadAssumption DEF Sent, Requests
    <2> QED BY <1>1, <1>4, <2>1, <2>2 DEF PlaceInv, SplitBy
<1>9. OrderInv
    <2>1. IsInjective(<<>>) /\ OrderedBut({}, <<>>)
        BY <1>3 DEF IsInjective, OrderedBut
    <2> QED BY <1>1, <1>4, <2>1 DEF OrderInv
<1> QED BY TypeInit, <1>5, <1>6, <1>7, <1>8, <1>9 DEF LoadInv

LEMMA LoadInvStep == LoadInv /\ [Next]_vars => LoadInv'
<1> SUFFICES ASSUME LoadInv, [Next]_vars PROVE LoadInv'
    OBVIOUS
<1>1. CASE Next
    <2>1. TypeOK /\ BufferInv /\ LeftInv /\ BatchInv /\ PlaceInv /\ OrderInv
        BY DEF LoadInv
    <2>2. IsInjective(Rows)
        BY <2>1 DEF OrderInv
    <2>3. TypeOK' /\ BufferInv' /\ LeftInv' /\ BatchInv'
        BY <1>1, <2>1, TypeStep, BufferStep, LeftStep, BatchStep
    <2>4. PlaceInv' /\ OrderInv'
        BY <1>1, <2>1, <2>2, PlaceStep, OrderStep
    <2> QED BY <2>3, <2>4 DEF LoadInv
<1>2. CASE UNCHANGED vars
    BY <1>2 DEF vars, clientVars, sidecarVars, ghosts, LoadInv, TypeOK, BufferInv, LeftInv, BatchInv,
                PlaceInv, OrderInv, Rows, Sent, InFlight, Refused, SplitBy
<1> QED BY <1>1, <1>2

\* The inductive invariant of LoadGenerator: where the requests can be, what the
\* batches are made of, and how old the rows of a virtual user are.
THEOREM LoadInvariant == Spec => []LoadInv
BY LoadInvInit, LoadInvStep, PTL DEF Spec

LEMMA QuotientIsUnique ==
    ASSUME NEW m \in Nat, NEW q \in Nat, NEW n \in 0..BatchSize - 1, m = BatchSize * q + n
    PROVE  m % BatchSize = n
BY LoadAssumption

\* After the teardown, what no post ever carries is the last made % BATCH_SIZE
\* requests of each virtual user (k6-script.js 85-87, 107-110).
THEOREM TeardownLeavesTheLast == Spec => []OnlyTheLastBatchIsLeft
<1>1. LoadInv => OnlyTheLastBatchIsLeft
    <2> SUFFICES ASSUME LoadInv, over, NEW v \in VUs
                 PROVE  {i \in 1..made[v] : <<v, i>> \in left}
                        = (made[v] - (made[v] % BatchSize) + 1)..made[v]
        BY DEF OnlyTheLastBatchIsLeft
    <2>1. made[v] \in Nat
        BY DEF LoadInv, TypeOK
    <2>2. PICK q \in Nat, n \in 0..BatchSize - 1 :
             /\ made[v] = BatchSize * q + n
             /\ \A i \in Nat : <<v, i>> \in left <=> i \in (made[v] - n + 1)..made[v]
        BY DEF LoadInv, LeftInv
    <2>3. made[v] % BatchSize = n
        BY <2>1, <2>2, QuotientIsUnique
    <2>4. n \in Nat /\ n <= made[v]
        <3>1. BatchSize * q \in Nat
            BY LoadAssumption
        <3> DEFINE p == BatchSize * q
        <3>2. p \in Nat /\ made[v] = p + n
            BY <2>2, <3>1
        <3> HIDE DEF p
        <3> QED BY <3>2, LoadAssumption
    <2>5. \A i \in (made[v] - n + 1)..made[v] : i \in 1..made[v] /\ i \in Nat
        BY <2>1, <2>4
    <2>6. {i \in 1..made[v] : <<v, i>> \in left} = (made[v] - n + 1)..made[v]
        BY <2>1, <2>2, <2>5
    <2> QED BY <2>3, <2>6
<1> QED BY <1>1, LoadInvariant, PTL

\* The places of a request that has been made are one place.
LEMMA OnePlace ==
    ASSUME LoadInv, NEW v \in VUs, NEW i \in 1..made[v]
    PROVE  Cardinality(Places(<<v, i>>)) = 1
<1> DEFINE r == <<v, i>>
           inBuffer == \E k \in DOMAIN eventBuffer[v] : eventBuffer[v][k] = r
<1>1. /\ made[v] \in 0..MaxIter /\ MaxIter \in Nat
      /\ Len(eventBuffer[v]) \in Nat /\ Len(eventBuffer[v]) <= made[v]
      /\ pending \in Seq(Requests) /\ stored \in Seq(Requests)
      /\ TypeOK /\ BufferInv
    BY LoadAssumption, LenProperties DEF LoadInv, TypeOK, BufferInv
<1>2. r \in Requests /\ r[1] = v /\ r[2] = i
    BY <1>1 DEF Requests
<1>3. inBuffer <=> r \in ToSet(eventBuffer[v])
    BY DEF ToSet
<1>4. r \in ToSet(eventBuffer[v]) <=> i > made[v] - Len(eventBuffer[v])
    BY <1>1, <1>2, BufferContents
<1>5. r \in Sent <=> i <= made[v] - Len(eventBuffer[v])
    BY <1>2 DEF Sent
<1>6. inBuffer <=> r \notin Sent
    BY <1>1, <1>3, <1>4, <1>5
<1>7. /\ ToSet(Rows) = ToSet(stored) \cup ToSet(pending)
      /\ ToSet(stored) \cap ToSet(pending) = {}
    BY <1>1, ToSetProperties, JoinInjective DEF LoadInv, OrderInv, Rows
<1>8. SplitBy(Sent, InFlight, ToSet(Rows), lost, Refused, left)
    BY DEF LoadInv, PlaceInv
<1> HIDE DEF r, inBuffer
<1>9. Places(r) =
        (IF inBuffer THEN {"buffer"} ELSE {})
        \cup (IF r \in InFlight THEN {"under way"} ELSE {})
        \cup (IF r \in ToSet(pending) THEN {"pending"} ELSE {})
        \cup (IF r \in ToSet(stored) THEN {"stored"} ELSE {})
        \cup (IF r \in lost THEN {"lost"} ELSE {})
        \cup (IF r \in Refused THEN {"refused"} ELSE {})
        \cup (IF r \in left THEN {"left"} ELSE {})
    BY <1>2 DEF Places, inBuffer
<1>10. \E p : Places(r) = {p}
    <2>1. CASE inBuffer
        <3>1. /\ r \notin InFlight /\ r \notin ToSet(pending) /\ r \notin ToSet(stored)
              /\ r \notin lost /\ r \notin Refused /\ r \notin left
            BY <1>6, <1>7, <1>8, <2>1 DEF SplitBy
        <3> QED BY <1>9, <2>1, <3>1
    <2>2. CASE r \in InFlight
        <3>1. /\ ~inBuffer /\ r \notin ToSet(pending) /\ r \notin ToSet(stored)
              /\ r \notin lost /\ r \notin Refused /\ r \notin left
            BY <1>6, <1>7, <1>8, <2>2 DEF SplitBy
        <3> QED BY <1>9, <2>2, <3>1
    <2>3. CASE r \in ToSet(pending)
        <3>1. /\ ~inBuffer /\ r \notin InFlight /\ r \notin ToSet(stored)
              /\ r \notin lost /\ r \notin Refused /\ r \notin left
            BY <1>6, <1>7, <1>8, <2>3 DEF SplitBy
        <3> QED BY <1>9, <2>3, <3>1
    <2>4. CASE r \in ToSet(stored)
        <3>1. /\ ~inBuffer /\ r \notin InFlight /\ r \notin ToSet(pending)
              /\ r \notin lost /\ r \notin Refused /\ r \notin left
            BY <1>6, <1>7, <1>8, <2>4 DEF SplitBy
        <3> QED BY <1>9, <2>4, <3>1
    <2>5. CASE r \in lost
        <3>1. /\ ~inBuffer /\ r \notin InFlight /\ r \notin ToSet(pending)
              /\ r \notin ToSet(stored) /\ r \notin Refused /\ r \notin left
            BY <1>6, <1>7, <1>8, <2>5 DEF SplitBy
        <3> QED BY <1>9, <2>5, <3>1
    <2>6. CASE r \in Refused
        <3>1. /\ ~inBuffer /\ r \notin InFlight /\ r \notin ToSet(pending)
              /\ r \notin ToSet(stored) /\ r \notin lost /\ r \notin left
            BY <1>6, <1>7, <1>8, <2>6 DEF SplitBy
        <3> QED BY <1>9, <2>6, <3>1
    <2>7. CASE r \in left
        <3>1. /\ ~inBuffer /\ r \notin InFlight /\ r \notin ToSet(pending)
              /\ r \notin ToSet(stored) /\ r \notin lost /\ r \notin Refused
            BY <1>6, <1>7, <1>8, <2>7 DEF SplitBy
        <3> QED BY <1>9, <2>7, <3>1
    <2>8. \/ inBuffer \/ r \in InFlight \/ r \in ToSet(pending) \/ r \in ToSet(stored)
          \/ r \in lost \/ r \in Refused \/ r \in left
        BY <1>6, <1>7, <1>8 DEF SplitBy
    <2> QED BY <2>1, <2>2, <2>3, <2>4, <2>5, <2>6, <2>7, <2>8
<1>11. Cardinality(Places(r)) = 1
    BY <1>10, FS_Singleton
<1> QED BY <1>11 DEF r

\* A request is reported at most once, whatever times out, crashes or is refused,
\* and the rows of a virtual user that never stopped waiting for a batch under way
\* are in the order of its requests (k6-script.js 91-104).
THEOREM RequestsAreReportedOnce == Spec => []ReportedOnceInOrder
<1>1. LoadInv => ReportedOnceInOrder
    <2> SUFFICES ASSUME LoadInv PROVE ReportedOnceInOrder
        OBVIOUS
    <2>1. TypeOK /\ IsInjective(stored \o pending) /\ OrderedBut(late, stored \o pending)
        BY DEF LoadInv, OrderInv, Rows
    <2>2. \A v \in VUs : \A i \in 1..made[v] : Cardinality(Places(<<v, i>>)) = 1
        BY OnePlace
    <2> QED BY <2>1, <2>2 DEF ReportedOnceInOrder, OrderedBut
<1> QED BY <1>1, LoadInvariant, PTL

=============================================================================
