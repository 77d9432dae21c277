--------------------------- MODULE RunAnalysisProofs ---------------------------
(***************************************************************************)
(* What the answers about stored runs can rely on while rows are being     *)
(* stored, for every table, every number of batches and every order of     *)
(* queries and flushes: the handlers' invariants first, then what is known *)
(* of least elements, sums, places and fractions, which the answers are    *)
(* made of.                                                                *)
(***************************************************************************)
EXTENDS RunAnalysis, SequenceTheorems, FiniteSetTheorems, WellFoundedInduction, TLAPS

\* What the queries know of each other: a later query for a run has read at least
\* the rows of an earlier one unless it was cut short, and all of them are stored.
QueriesGrow ==
    \A j \in DOMAIN seen :
        /\ seen[j] \subseteq RowsOf(Queries[j])
        /\ \A k \in DOMAIN seen :
              j <= k /\ Queries[j] = Queries[k] /\ k \notin cut => seen[j] \subseteq seen[k]

\* affectedPods has read at least the rows that the explanation rests on.
PodsHaveRows ==
    \A e \in DOMAIN podsSeen :
        /\ e \in ToExplain
        /\ Of(CurrentRows(ExplainAt), e) \subseteq podsSeen[e]

\* How far the handler is.
QueriesMade ==
    /\ seen \in Seq(SUBSET Rows)
    /\ stage \in {"idle", "query"} => Len(seen) < 6 /\ DOMAIN podsSeen = {}
    /\ stage \in {"pods", "answered"} => Len(seen) = 6

DiagnosisInv ==
    /\ question \in Questions
    /\ stored \subseteq Rows
    /\ question.kind = "diagnose" => QueriesMade /\ QueriesGrow /\ cut = {}
    /\ question.kind = "diagnose" /\ stage \in {"pods", "answered"} => PodsHaveRows

\* The parts of a concatenation (what ConcatProperties says, without its conditional).
LEMMA LeftPart ==
    ASSUME NEW S, NEW s \in Seq(S), NEW q \in Seq(S), NEW i \in 1..Len(s)
    PROVE  (s \o q)[i] = s[i]
<1>1. Len(s) \in Nat /\ Len(q) \in Nat
    BY LenProperties
<1> QED BY <1>1, ConcatProperties

LEMMA RightPart ==
    ASSUME NEW S, NEW s \in Seq(S), NEW q \in Seq(S)
    PROVE  \A i \in 1..Len(q) : (s \o q)[Len(s) + i] = q[i]
<1>1. Len(s) \in Nat /\ Len(q) \in Nat
    BY LenProperties
<1> TAKE i \in 1..Len(q)
<1>2. Len(s) + i \in 1..Len(s) + Len(q) /\ ~(Len(s) + i <= Len(s)) /\ (Len(s) + i) - Len(s) = i
    BY <1>1
<1>3. (s \o q)[Len(s) + i] = IF Len(s) + i <= Len(s) THEN s[Len(s) + i] ELSE q[(Len(s) + i) - Len(s)]
    BY <1>1, <1>2, ConcatProperties
<1> QED BY <1>2, <1>3

\* Two more queries after any others.
LEMMA TwoMore ==
    ASSUME NEW S, NEW s \in Seq(S), NEW q \in Seq(S)
    PROVE  Len(q) = 2 =>
           /\ s \o q \in Seq(S)
           /\ Len(s \o q) = Len(s) + 2
           /\ \A i \in 1..Len(s) : (s \o q)[i] = s[i]
           /\ (s \o q)[Len(s) + 1] = q[1] /\ (s \o q)[Len(s) + 2] = q[2]
<1>1. s \o q \in Seq(S) /\ Len(s \o q) = Len(s) + Len(q)
    BY ConcatProperties
<1>2. \A i \in 1..Len(s) : (s \o q)[i] = s[i]
    BY LeftPart
<1>3. \A i \in 1..Len(q) : (s \o q)[Len(s) + i] = q[i]
    BY RightPart
<1> QED BY <1>1, <1>2, <1>3

\* The six queries of a diagnosis.
LEMMA DiagnoseQueries ==
    ASSUME question \in Questions, question.kind = "diagnose"
    PROVE  /\ Len(Queries) = 6
           /\ Queries[1] = question.runs[1] /\ Queries[2] = question.runs[2]
           /\ Queries[3] = question.runs[1] /\ Queries[4] = question.runs[2]
           /\ Queries[5] = question.runs[1] /\ Queries[6] = question.runs[2]
<1>1. PICK q : q = question.runs
    OBVIOUS
<1>2. q \in Seq(Runs) /\ Len(q) = 2
    BY <1>1, QuestionsAssumption
<1>3. PICK d : d = q \o q
    OBVIOUS
<1>4. d \in Seq(Runs) /\ Len(d) = 4
    BY <1>2, <1>3, TwoMore
<1>5. d[1] = q[1] /\ d[2] = q[2] /\ d[3] = q[1] /\ d[4] = q[2]
    BY <1>2, <1>3, TwoMore
<1>6. PICK t : t = d \o q
    OBVIOUS
<1>7. /\ Len(t) = Len(d) + 2
      /\ \A i \in 1..Len(d) : t[i] = d[i]
      /\ t[Len(d) + 1] = q[1] /\ t[Len(d) + 2] = q[2]
  <2>1. d \in Seq(Runs)
    BY <1>4
  <2> QED BY <1>2, <2>1, <1>6, TwoMore
<1>8. /\ t[1] = d[1] /\ t[2] = d[2] /\ t[3] = d[3] /\ t[4] = d[4]
      /\ t[5] = q[1] /\ t[6] = q[2] /\ Len(t) = 6
    BY <1>4, <1>7
<1>9. Queries = t
    BY <1>1, <1>3, <1>6 DEF Queries
<1> QED BY <1>1, <1>5, <1>8, <1>9

\* Rows are only added.
LEMMA RowsStay ==
    ASSUME stored \subseteq stored', UNCHANGED table, NEW r
    PROVE  RowsOf(r) \subseteq RowsOf(r)'
BY DEF RowsOf

LEMMA DiagnosisInit == Init => DiagnosisInv
BY DEF Init, DiagnosisInv, QueriesMade, QueriesGrow

\* A flush between two queries.
LEMMA StoreBatchKeeps == DiagnosisInv /\ StoreBatch => DiagnosisInv'
<1> SUFFICES ASSUME DiagnosisInv, StoreBatch
             PROVE  DiagnosisInv'
    OBVIOUS
<1>1. stored' \subseteq Rows /\ stored \subseteq stored'
    BY DEF DiagnosisInv, StoreBatch
<1>2. UNCHANGED <<table, stage, question, seen, podsSeen, cut>>
    BY DEF StoreBatch
<1>3. QueriesMade => QueriesMade'
    BY <1>2 DEF QueriesMade
<1>4. UNCHANGED Queries
    BY <1>2 DEF Queries
<1>5. QueriesGrow => QueriesGrow'
    BY <1>1, <1>2, <1>4, RowsStay DEF QueriesGrow
<1>6. UNCHANGED <<ToExplain, CurrentRows(ExplainAt)>>
    BY <1>2 DEF ToExplain, CurrentRows, BaselineRows, Explained, Compared, EndpointsIn, LatencyRose,
                Failing, Percentile, ErrorRate, Errors, Ranked, Of
<1>7. PodsHaveRows => PodsHaveRows'
    BY <1>2, <1>6 DEF PodsHaveRows, Of
<1> QED BY <1>1, <1>2, <1>3, <1>5, <1>7 DEF DiagnosisInv

\* One more query of a diagnosis.
LEMMA QueryKeeps == DiagnosisInv /\ Query => DiagnosisInv'
<1> SUFFICES ASSUME DiagnosisInv, Query
             PROVE  DiagnosisInv'
    OBVIOUS
<1>1. /\ UNCHANGED <<table, stored, question, podsSeen, cut>>
      /\ stage = "query"
    BY DEF Query
<1>2. question' \in Questions /\ stored' \subseteq Rows
    BY <1>1 DEF DiagnosisInv
<1>3. ASSUME question.kind = "diagnose"
      PROVE  QueriesMade' /\ QueriesGrow' /\ cut' = {} /\ (stage' \in {"pods", "answered"} => PodsHaveRows')
  <2> DEFINE n == Len(seen) + 1
             rows == RowsOf(Queries[n])
  <2>1. /\ QueriesMade /\ QueriesGrow /\ cut = {}
        /\ Len(Queries) = 6
    BY <1>3, DiagnoseQueries DEF DiagnosisInv
  <2>2. seen \in Seq(SUBSET Rows) /\ Len(seen) \in Nat /\ Len(seen) < 6 /\ DOMAIN podsSeen = {}
    BY <1>1, <2>1 DEF QueriesMade
  <2>3. seen' = Append(seen, rows) /\ stage' = AfterQuery(seen')
    BY <1>3 DEF Query
  <2>4. rows \subseteq Rows
    BY DEF RowsOf, DiagnosisInv
  <2>5. /\ seen' \in Seq(SUBSET Rows) /\ Len(seen') = n /\ n <= 6
        /\ DOMAIN seen' = 1..n
        /\ \A j \in DOMAIN seen : seen'[j] = seen[j]
        /\ seen'[n] = rows
    <3> HIDE DEF rows
    <3> QED BY <2>2, <2>3, <2>4
  <2>6. /\ Len(seen') < 6 => stage' = "query"
        /\ Len(seen') = 6 => stage' \in {"pods", "answered"}
    BY <1>3, <2>1, <2>3 DEF AfterQuery
  <2>7. QueriesMade'
    BY <1>1, <2>2, <2>5, <2>6 DEF QueriesMade
  <2>8. UNCHANGED Queries
    BY <1>1 DEF Queries
  <2>9. \A r : UNCHANGED RowsOf(r)
    BY <1>1 DEF RowsOf
  <2>10. DOMAIN seen' = DOMAIN seen \cup {n} /\ DOMAIN seen = 1..Len(seen)
    BY <2>2, <2>5
  <2>11. QueriesGrow'
    <3> SUFFICES ASSUME NEW j \in DOMAIN seen'
                 PROVE  /\ seen'[j] \subseteq RowsOf(Queries[j])
                        /\ \A k \in DOMAIN seen' :
                              j <= k /\ Queries[j] = Queries[k] => seen'[j] \subseteq seen'[k]
        BY <1>1, <2>8, <2>9 DEF QueriesGrow
    <3>1. seen'[j] \subseteq RowsOf(Queries[j])
        BY <2>1, <2>5, <2>10 DEF QueriesGrow
    <3>2. ASSUME NEW k \in DOMAIN seen', j <= k, Queries[j] = Queries[k]
          PROVE  seen'[j] \subseteq seen'[k]
      <4>1. CASE k = n
          BY <2>5, <3>1, <3>2, <4>1
      <4>2. CASE k # n
        <5>1. k \in DOMAIN seen /\ j \in DOMAIN seen
            BY <2>2, <2>10, <3>2, <4>2
        <5> QED BY <2>1, <2>5, <3>2, <5>1 DEF QueriesGrow
      <4> QED BY <4>1, <4>2
    <3> QED BY <3>1, <3>2
  <2>12. PodsHaveRows'
    BY <1>1, <2>2 DEF PodsHaveRows
  <2> QED BY <1>1, <2>1, <2>7, <2>11, <2>12
<1> QED BY <1>1, <1>2, <1>3 DEF DiagnosisInv

\* The question has come; or a query fails, which ends a diagnosis; or a trend,
\* which is none, is cut short.
LEMMA AskOrFailKeeps == DiagnosisInv /\ (Ask \/ QueryFails \/ TrendCutShort) => DiagnosisInv'
<1> SUFFICES ASSUME DiagnosisInv, Ask \/ QueryFails \/ TrendCutShort
             PROVE  DiagnosisInv'
    OBVIOUS
<1>1. UNCHANGED <<table, stored, question, podsSeen>>
    BY DEF Ask, QueryFails, TrendCutShort
<1>2. ASSUME question.kind = "diagnose"
      PROVE  QueriesMade' /\ QueriesGrow' /\ cut' = {} /\ stage' \notin {"pods", "answered"}
  <2>1. QueriesMade /\ QueriesGrow /\ cut = {}
    BY <1>2 DEF DiagnosisInv
  <2>2. UNCHANGED <<seen, cut>> /\ stage' \in {"query", "failed"} /\ (Ask => stage = "idle")
        /\ (~Ask => stage' = "failed")
    BY <1>2 DEF Ask, QueryFails, TrendCutShort
  <2>3. QueriesMade'
    BY <1>1, <2>1, <2>2 DEF QueriesMade
  <2>4. UNCHANGED Queries /\ \A r : UNCHANGED RowsOf(r)
    BY <1>1 DEF Queries, RowsOf
  <2>5. QueriesGrow'
    BY <2>1, <2>2, <2>4 DEF QueriesGrow
  <2> QED BY <2>1, <2>2, <2>3, <2>5
<1> QED BY <1>1, <1>2 DEF DiagnosisInv

\* affectedPods of one endpoint.
LEMMA QueryPodsKeeps == ASSUME NEW e \in Endpoints PROVE DiagnosisInv /\ QueryPods(e) => DiagnosisInv'
<1> SUFFICES ASSUME DiagnosisInv, QueryPods(e)
             PROVE  DiagnosisInv'
    OBVIOUS
<1>1. /\ UNCHANGED <<table, stored, question, seen, cut>>
      /\ stage = "pods" /\ stage' \in {"pods", "answered"}
      /\ e \in ToExplain
      /\ DOMAIN podsSeen' = DOMAIN podsSeen \cup {e}
      /\ podsSeen'[e] = Of(RowsOf(question.runs[2]), e)
      /\ \A x \in DOMAIN podsSeen \ {e} : podsSeen'[x] = podsSeen[x]
    BY DEF QueryPods
<1>2. ASSUME question.kind = "diagnose"
      PROVE  QueriesMade' /\ QueriesGrow' /\ cut' = {} /\ PodsHaveRows'
  <2>1. QueriesMade /\ QueriesGrow /\ cut = {} /\ PodsHaveRows
    BY <1>1, <1>2 DEF DiagnosisInv
  <2>2. QueriesMade'
    BY <1>1, <2>1 DEF QueriesMade
  <2>3. UNCHANGED Queries /\ \A r : UNCHANGED RowsOf(r)
    BY <1>1 DEF Queries, RowsOf
  <2>4. QueriesGrow'
    BY <1>1, <2>1, <2>3 DEF QueriesGrow
  <2>5. UNCHANGED <<ToExplain, CurrentRows(ExplainAt)>>
    BY <1>1 DEF ToExplain, CurrentRows, BaselineRows, Explained, Compared, EndpointsIn, LatencyRose,
                Failing, Percentile, ErrorRate, Errors, Ranked, Of
  <2>6. CurrentRows(ExplainAt) \subseteq RowsOf(question.runs[2])
    <3>1. 4 \in DOMAIN seen /\ Queries[4] = question.runs[2]
      BY <1>1, <1>2, <2>1, DiagnoseQueries DEF QueriesMade, DiagnosisInv
    <3> QED BY <2>1, <3>1 DEF CurrentRows, ExplainAt, QueriesGrow
  <2>7. Of(CurrentRows(ExplainAt), e) \subseteq podsSeen'[e]
    BY <1>1, <2>6 DEF Of
  <2>8. PodsHaveRows'
    BY <1>1, <2>1, <2>5, <2>7 DEF PodsHaveRows, Of
  <2> QED BY <1>1, <2>1, <2>2, <2>4, <2>8
<1> QED BY <1>1, <1>2 DEF DiagnosisInv

LEMMA DiagnosisStep == DiagnosisInv /\ [Next]_vars => DiagnosisInv'
<1> SUFFICES ASSUME DiagnosisInv, [Next]_vars
             PROVE  DiagnosisInv'
    OBVIOUS
<1>1. CASE StoreBatch
    BY <1>1, StoreBatchKeeps
<1>2. CASE Ask \/ QueryFails \/ TrendCutShort
    BY <1>2, AskOrFailKeeps
<1>3. CASE Query
    BY <1>3, QueryKeeps
<1>4. ASSUME NEW e \in Endpoints, QueryPods(e)
      PROVE  DiagnosisInv'
    BY <1>4, QueryPodsKeeps
<1>5. CASE UNCHANGED vars
  <2>1. UNCHANGED <<Queries, ToExplain, CurrentRows(ExplainAt)>> /\ \A r : UNCHANGED RowsOf(r)
    BY <1>5 DEF vars, Queries, RowsOf, ToExplain, CurrentRows, BaselineRows, Explained, Compared, EndpointsIn,
                LatencyRose, Failing, Percentile, ErrorRate, Errors, Ranked, Of
  <2> QED BY <1>5, <2>1 DEF vars, DiagnosisInv, QueriesMade, QueriesGrow, PodsHaveRows, Of
<1> QED BY <1>1, <1>2, <1>3, <1>4, <1>5 DEF Next

\* The queries for the bottlenecks find what those for the explanation found.
LEMMA EvidenceFollows == DiagnosisInv => ExplanationsHaveEvidence
<1> SUFFICES ASSUME DiagnosisInv, Answered("diagnose"), NEW e \in DOMAIN podsSeen
             PROVE  /\ e \in Compared(BaselineRows(BottleneckAt), CurrentRows(BottleneckAt))
                    /\ podsSeen[e] # {}
    BY DEF ExplanationsHaveEvidence
<1>1. /\ question \in Questions /\ question.kind = "diagnose"
      /\ QueriesMade /\ QueriesGrow /\ cut = {} /\ PodsHaveRows /\ stage = "answered"
    BY DEF Answered, DiagnosisInv
<1>2. DOMAIN seen = 1..6
    BY <1>1 DEF QueriesMade
<1>3. seen[3] \subseteq seen[5] /\ seen[4] \subseteq seen[6]
    BY <1>1, <1>2, DiagnoseQueries DEF QueriesGrow
<1>4. e \in Compared(seen[3], seen[4])
    BY <1>1 DEF PodsHaveRows, ToExplain, Explained, BaselineRows, CurrentRows, ExplainAt
<1>5. e \in Compared(seen[5], seen[6])
    BY <1>3, <1>4 DEF Compared, EndpointsIn
<1>6. Of(seen[4], e) # {} /\ Of(seen[4], e) \subseteq podsSeen[e]
    BY <1>1, <1>4 DEF PodsHaveRows, CurrentRows, ExplainAt, Compared, EndpointsIn, Of
<1> QED BY <1>5, <1>6 DEF BaselineRows, CurrentRows, BottleneckAt

\* Every explanation of a diagnosis names a phase and rests on rows of some pod,
\* however many flushes come between its queries (explain.go 38-80).
THEOREM ExplanationsRest == Spec => []ExplanationsHaveEvidence
BY DiagnosisInit, DiagnosisStep, EvidenceFollows, PTL DEF Spec

-------------------------------------------------------------------------------
(***************************************************************************)
(* Least and greatest numbers, and induction: a set stands for the         *)
(* predicate.                                                              *)
(***************************************************************************)

LEMMA HasLeast ==
    ASSUME NEW T, T \subseteq Nat, T # {}
    PROVE  \E x \in T : \A y \in T : x <= y
<1>1. PICK x \in T : \A y \in T : ~(<<y, x>> \in OpToRel(<, Nat))
    BY NatLessThanWellFounded, WFMin
<1>2. \A y \in T : ~(y < x)
    BY <1>1 DEF OpToRel
<1> QED BY <1>2

LEMMA Counting ==
    ASSUME NEW P, 0 \in P, \A n \in Nat : n \in P => n + 1 \in P
    PROVE  Nat \subseteq P
<1> SUFFICES ASSUME Nat \ P # {}
             PROVE  FALSE
    OBVIOUS
<1>1. PICK x \in Nat \ P : \A y \in Nat \ P : x <= y
    BY HasLeast
<1>2. x # 0 /\ x - 1 \in Nat /\ x - 1 \notin Nat \ P
    BY <1>1
<1>3. (x - 1) + 1 \in P
    BY <1>2
<1> QED BY <1>1, <1>3

\* What holds of the empty set, and of a set if it holds without some element of
\* it, holds of every finite set.
LEMMA Removing ==
    ASSUME NEW D, IsFiniteSet(D), NEW Q, {} \in Q,
           \A s \in SUBSET D : s # {} => \E x \in s : s \ {x} \in Q => s \in Q
    PROVE  D \in Q
<1> DEFINE P == {n \in Nat : \A s \in SUBSET D : Cardinality(s) = n => s \in Q}
<1>1. \A s \in SUBSET D : IsFiniteSet(s) /\ Cardinality(s) \in Nat
    BY FS_Subset, FS_CardinalityType
<1>2. 0 \in P
    BY <1>1, FS_EmptySet
<1>3. ASSUME NEW n \in Nat, n \in P
      PROVE  n + 1 \in P
  <2> SUFFICES ASSUME NEW s \in SUBSET D, Cardinality(s) = n + 1
               PROVE  s \in Q
    OBVIOUS
  <2>1. s # {}
    BY FS_EmptySet
  <2>2. PICK x \in s : s \ {x} \in Q => s \in Q
    BY <2>1
  <2>3. Cardinality(s \ {x}) = n
    <3>1. IsFiniteSet(s) /\ Cardinality(s) = n + 1
      BY <1>1
    <3>2. Cardinality(s \ {x}) = Cardinality(s) - 1
      BY <3>1, FS_RemoveElement
    <3> QED BY <3>1, <3>2
  <2>4. s \ {x} \in SUBSET D
    OBVIOUS
  <2> QED BY <1>3, <2>2, <2>3, <2>4
<1> HIDE DEF P
<1>4. Cardinality(D) \in P
    BY <1>1, <1>2, <1>3, Counting
<1> QED BY <1>4 DEF P

LEMMA HasGreatest ==
    ASSUME NEW T, T \subseteq Int, T # {}, IsFiniteSet(T)
    PROVE  \E x \in T : \A y \in T : y <= x
<1> DEFINE Q == {s \in SUBSET T : s # {} => \E x \in s : \A y \in s : y <= x}
<1>1. {} \in Q
    OBVIOUS
<1>2. ASSUME NEW s \in SUBSET T, NEW x \in s, s \ {x} \in Q
      PROVE  s \in Q
  <2>1. CASE s \ {x} = {}
    BY <2>1
  <2>2. CASE s \ {x} # {}
    <3>1. PICK m \in s \ {x} : \A y \in s \ {x} : y <= m
      BY <1>2, <2>2
    <3>2. \A y \in s : y <= (IF x <= m THEN m ELSE x)
      BY <3>1
    <3> QED BY <3>2
  <2> QED BY <2>1, <2>2
<1>3. \A s \in SUBSET T : s # {} => \E x \in s : s \ {x} \in Q => s \in Q
    BY <1>2
<1> HIDE DEF Q
<1>4. T \in Q
    BY <1>1, <1>3, Removing
<1> QED BY <1>4 DEF Q

-------------------------------------------------------------------------------
(***************************************************************************)
(* Sums.  SumFunction is a recursive function on the subsets of the        *)
(* domain, which exists when the domain is finite.                         *)
(***************************************************************************)

Taken(s) == CHOOSE x \in s : TRUE
SumUpTo(F, g, s) == IF s = {} THEN 0 ELSE F[Taken(s)] + g[s \ {Taken(s)}]
Sums(F, g) == /\ g \in [SUBSET DOMAIN F -> Int]
              /\ g = [s \in SUBSET DOMAIN F |-> SumUpTo(F, g, s)]

LEMMA SumsExist ==
    ASSUME NEW F, IsFiniteSet(DOMAIN F), \A x \in DOMAIN F : F[x] \in Int
    PROVE  \E g : Sums(F, g)
<1> DEFINE D == DOMAIN F
           UpTo(n) == {s \in SUBSET D : Cardinality(s) <= n}
           Ok(n) == \E g \in [UpTo(n) -> Int] : \A s \in UpTo(n) : g[s] = SumUpTo(F, g, s)
<1>1. \A s \in SUBSET D : /\ IsFiniteSet(s) /\ Cardinality(s) \in Nat
                          /\ Cardinality(s) = 0 <=> s = {}
    BY FS_Subset, FS_CardinalityType, FS_EmptySet
<1>2. \A s \in SUBSET D : s # {} => Taken(s) \in s /\ Cardinality(s \ {Taken(s)}) = Cardinality(s) - 1
    BY <1>1, FS_RemoveElement DEF Taken
<1>3. Ok(0)
  <2> DEFINE g == [s \in UpTo(0) |-> 0]
  <2>1. \A s \in UpTo(0) : s = {}
    BY <1>1
  <2>2. g \in [UpTo(0) -> Int]
    OBVIOUS
  <2>3. \A s \in UpTo(0) : SumUpTo(F, g, s) = 0
    BY <2>1 DEF SumUpTo
  <2>4. \A s \in UpTo(0) : g[s] = SumUpTo(F, g, s)
    BY <2>3
  <2> QED BY <2>2, <2>4
<1>4. ASSUME NEW n \in Nat, Ok(n)
      PROVE  Ok(n + 1)
  <2>1. PICK g \in [UpTo(n) -> Int] : \A s \in UpTo(n) : g[s] = SumUpTo(F, g, s)
    BY <1>4
  <2> DEFINE h == [s \in UpTo(n + 1) |-> IF s \in UpTo(n) THEN g[s] ELSE SumUpTo(F, g, s)]
  <2>2. \A s \in UpTo(n + 1) : s # {} => /\ s \ {Taken(s)} \in UpTo(n)
                                         /\ s \ {Taken(s)} \in UpTo(n + 1)
    BY <1>1, <1>2
  <2>3. \A s \in UpTo(n) : h[s] = g[s]
    BY <1>1
  <2>4. \A s \in UpTo(n + 1) : SumUpTo(F, h, s) = SumUpTo(F, g, s)
    BY <2>2, <2>3 DEF SumUpTo
  <2>5. \A s \in UpTo(n + 1) : h[s] = SumUpTo(F, h, s)
    BY <2>1, <2>3, <2>4
  <2>6. \A s \in UpTo(n + 1) : SumUpTo(F, g, s) \in Int
    BY <1>2, <2>2 DEF SumUpTo
  <2>7. h \in [UpTo(n + 1) -> Int]
    BY <2>6
  <2> HIDE DEF h
  <2> QED BY <2>5, <2>7
<1> DEFINE P == {n \in Nat : Ok(n)}
<1>5. Ok(Cardinality(D))
  <2> HIDE DEF Ok
  <2>1. 0 \in P /\ \A n \in Nat : n \in P => n + 1 \in P
    BY <1>3, <1>4
  <2>2. Nat \subseteq P
    <3> HIDE DEF P
    <3> QED BY <2>1, Counting
  <2> QED BY <1>1, <2>2
<1>6. UpTo(Cardinality(D)) = SUBSET D
    BY <1>1, FS_Subset
<1>7. PICK g \in [SUBSET D -> Int] : \A s \in SUBSET D : g[s] = SumUpTo(F, g, s)
    BY <1>5, <1>6
<1>8. g = [s \in SUBSET D |-> SumUpTo(F, g, s)]
    BY <1>7
<1> QED BY <1>7, <1>8 DEF Sums

-------------------------------------------------------------------------------
(***************************************************************************)
(* What every handler can rely on.                                         *)
(***************************************************************************)

\* How far a handler is, whatever it was asked.
Progress ==
    /\ seen \in Seq(SUBSET Rows)
    /\ stage \in {"idle", "query"} => Len(seen) < Len(Queries) /\ DOMAIN podsSeen = {}
    /\ stage \in {"pods", "answered"} => Len(seen) = Len(Queries)
    /\ Len(seen) <= Len(Queries)
    /\ stage = "pods" => question.kind = "diagnose"

\* What the answers are made of.
AnswerInv ==
    /\ DOMAIN podsSeen \subseteq Endpoints
    /\ question.kind \in {"compare", "run-stats"} => \A k \in DOMAIN seen : seen[k] # {}
    /\ question.kind = "diagnose" /\ stage = "answered" => DOMAIN podsSeen = ToExplain
    /\ \A e \in DOMAIN podsSeen : podsSeen[e] \subseteq Rows
    /\ question.kind = "baseline" /\ stage = "answered" => Valid(seen) # {}

AnalysisInv ==
    /\ table \in Tables /\ stored \subseteq Rows /\ batches \in 0..MaxBatches
    /\ stage \in {"idle", "query", "pods", "answered", "failed"}
    /\ question \in Questions
    /\ Progress
    /\ AnswerInv
    /\ question.kind # "baseline" => QueriesGrow
    /\ cut \subseteq 1..2 /\ (question.kind # "trend" => cut = {})

\* Every question makes some queries.
LEMMA SomeQueries ==
    ASSUME question \in Questions
    PROVE  /\ Len(Queries) \in Nat /\ Len(Queries) > 0
           /\ question.kind = "compare" => Len(Queries) = 2 /\ Queries = question.runs
           /\ question.kind = "baseline" => Queries = question.runs
           /\ question.kind \in {"endpoints", "trend"} => Len(Queries) = 2 /\ Queries[1] = Queries[2]
<1>1. question.runs \in Seq(Runs) /\ (question.kind # "trend" => question.runs # <<>>)
    BY QuestionsAssumption
<1>2. Len(question.runs) \in Nat /\ (question.kind # "trend" => Len(question.runs) > 0)
    BY <1>1, EmptySeq, LenProperties
<1>3. CASE question.kind = "endpoints"
  <2>1. PICK q : q = question.runs
    OBVIOUS
  <2>2. q \in Seq(Runs) /\ Len(q) = 1
    BY <1>3, <2>1, QuestionsAssumption
  <2>3. Len(q \o q) = 2 /\ (q \o q)[1] = q[1]
    BY <2>2, ConcatProperties
  <2>4. \A i \in 1..Len(q) : (q \o q)[Len(q) + i] = q[i]
    BY <2>2, RightPart
  <2>5. (q \o q)[2] = q[1]
    BY <2>2, <2>4
  <2>6. Queries = q \o q
    BY <1>3, <2>1 DEF Queries
  <2> QED BY <1>3, <2>3, <2>5, <2>6
<1>4. CASE question.kind = "trend"
  <2>1. Queries = <<Every, Every>>
    BY <1>4 DEF Queries
  <2> QED BY <1>4, <2>1
<1>5. CASE question.kind = "diagnose"
  <2>1. Len(Queries) = 6
    BY <1>5, DiagnoseQueries
  <2> QED BY <1>5, <2>1
<1>6. CASE question.kind \in {"compare", "run-stats", "baseline"}
  <2>1. ~(question.kind = "endpoints") /\ ~(question.kind = "trend") /\ ~(question.kind = "diagnose")
    BY <1>6
  <2>2. Queries = question.runs
    BY <2>1 DEF Queries
  <2> QED BY <1>2, <1>6, <2>2, QuestionsAssumption
<1> QED BY <1>3, <1>4, <1>5, <1>6, QuestionsAssumption

LEMMA AnalysisInit == Init => AnalysisInv
<1> SUFFICES ASSUME Init
             PROVE  AnalysisInv
    OBVIOUS
<1>1. /\ table \in Tables /\ stored = {} /\ batches = 0 /\ stage = "idle" /\ question \in Questions
      /\ seen = <<>> /\ DOMAIN podsSeen = {} /\ cut = {}
    BY DEF Init
<1>2. batches \in 0..MaxBatches
    BY <1>1, RowsAssumption
<1>3. Progress
    BY <1>1, SomeQueries DEF Progress
<1>4. AnswerInv
    BY <1>1 DEF AnswerInv
<1>5. QueriesGrow
    BY <1>1 DEF QueriesGrow
<1> QED BY <1>1, <1>2, <1>3, <1>4, <1>5 DEF AnalysisInv

\* What may have been read grows with what is stored.
LEMMA GrowthLasts ==
    ASSUME QueriesGrow, stored \subseteq stored', UNCHANGED <<table, question, seen, cut>>
    PROVE  QueriesGrow'
<1>1. UNCHANGED Queries
    BY DEF Queries
<1>2. \A r : RowsOf(r) \subseteq RowsOf(r)'
    BY RowsStay
<1>3. UNCHANGED <<seen, Queries, cut>>
    BY <1>1
<1> QED BY <1>2, <1>3 DEF QueriesGrow

\* What was read stays what it was while the table does.
LEMMA ExplainedStays == ASSUME UNCHANGED <<table, question, seen>> PROVE UNCHANGED ToExplain
BY DEF ToExplain, CurrentRows, BaselineRows, Explained, Compared, EndpointsIn, LatencyRose,
       Failing, Percentile, ErrorRate, Errors, Ranked, Of

\* A step that queries nothing.
LEMMA NoQueryKeeps ==
    ASSUME AnalysisInv, UNCHANGED <<table, question, seen, podsSeen, cut>>, stored \subseteq stored',
           stored' \subseteq Rows, batches' \in 0..MaxBatches,
           stage' = stage \/ stage' = "failed" \/ (stage = "idle" /\ stage' = "query")
    PROVE  AnalysisInv'
<1>1. UNCHANGED <<Queries, ToExplain>>
    BY ExplainedStays DEF Queries
<1>2. stage' \in {"idle", "query", "pods", "answered", "failed"}
    BY DEF AnalysisInv
<1>3. Progress'
    BY <1>1 DEF AnalysisInv, Progress
<1>4. AnswerInv'
    BY <1>1 DEF AnalysisInv, AnswerInv, Valid, NoStats
<1>5. question'.kind # "baseline" => QueriesGrow'
    BY GrowthLasts DEF AnalysisInv
<1> QED BY <1>2, <1>3, <1>4, <1>5 DEF AnalysisInv

\* One more query, or one more that failed or was cut short without stopping the
\* handler.
LEMMA AppendKeeps ==
    ASSUME AnalysisInv, UNCHANGED <<table, stored, batches, question, podsSeen>>, stage = "query",
           NEW rows, seen' = Append(seen, rows), stage' = AfterQuery(seen'),
           rows \subseteq RowsOf(Queries[Len(seen) + 1]),
           \/ rows = RowsOf(Queries[Len(seen) + 1]) /\ cut' = cut
           \/ question.kind = "baseline" /\ cut' = cut
           \/ question.kind = "trend" /\ cut' = cut \cup {Len(seen) + 1},
           question.kind \in {"compare", "run-stats"} => rows # {}
    PROVE  AnalysisInv'
<1> DEFINE n == Len(seen) + 1
<1>1. /\ seen \in Seq(SUBSET Rows) /\ Len(seen) \in Nat /\ Len(seen) < Len(Queries) /\ DOMAIN podsSeen = {}
      /\ Len(Queries) \in Nat
    BY SomeQueries DEF AnalysisInv, Progress
<1>2. rows \subseteq Rows
    BY DEF RowsOf, AnalysisInv
<1>3. /\ seen' \in Seq(SUBSET Rows) /\ Len(seen') = n /\ n <= Len(Queries)
      /\ DOMAIN seen' = 1..n /\ DOMAIN seen = 1..Len(seen)
      /\ \A j \in DOMAIN seen : seen'[j] = seen[j]
      /\ seen'[n] = rows
    BY <1>1, <1>2
<1>4. DOMAIN seen' = DOMAIN seen \cup {n} /\ n \notin DOMAIN seen
    BY <1>1, <1>3
<1>5. UNCHANGED Queries /\ \A r : UNCHANGED RowsOf(r)
    BY DEF Queries, RowsOf
<1>6. /\ Len(seen') < Len(Queries) => stage' = "query"
      /\ ~(Len(seen') < Len(Queries)) => stage' \in {"failed", "pods", "answered"}
      /\ stage' = "pods" => question.kind = "diagnose"
      /\ stage' = "answered" /\ question.kind = "baseline" => Valid(seen') # {}
      /\ stage' = "answered" /\ question.kind = "diagnose"
            => Explained(seen'[ExplainAt], seen'[ExplainAt + 1], question.thresholds) = {}
    BY DEF AfterQuery
<1>7. stage' \in {"idle", "query", "pods", "answered", "failed"}
    BY <1>6
<1>8. Progress'
  <2> HIDE DEF n
  <2>1. Len(seen') \in Nat /\ Len(seen') <= Len(Queries)
    BY <1>1, <1>3 DEF n
  <2>2. stage' \in {"idle", "query"} => Len(seen') < Len(Queries)
    BY <1>6
  <2>3. stage' \in {"pods", "answered"} => Len(seen') = Len(Queries)
    BY <1>1, <1>6, <2>1
  <2> QED BY <1>1, <1>3, <1>5, <1>6, <2>1, <2>2, <2>3 DEF Progress
<1>9. AnswerInv'
  <2>1. question'.kind \in {"compare", "run-stats"} => \A k \in DOMAIN seen' : seen'[k] # {}
    BY <1>3, <1>4 DEF AnalysisInv, AnswerInv
  <2>2. stage' = "answered" /\ question.kind = "diagnose" => ToExplain' = {}
    <3>1. ToExplain' = Explained(seen'[ExplainAt], seen'[ExplainAt + 1], question.thresholds)
      <4>1. ToExplain' = Explained(seen[ExplainAt], seen[ExplainAt + 1], question.thresholds)'
        BY DEF ToExplain, BaselineRows, CurrentRows, ExplainAt
      <4>2. \A B, C, t : Explained(B, C, t)' = Explained(B, C, t)
        BY DEF Explained, Compared, EndpointsIn, LatencyRose, Failing, Percentile, ErrorRate, Errors, Ranked, Of
      <4> QED BY <4>1, <4>2
    <3> QED BY <1>6, <3>1
  <2>3. stage' = "answered" /\ question.kind = "baseline" => Valid(seen)' # {}
    BY <1>6 DEF Valid, NoStats
  <2> QED BY <1>1, <2>1, <2>2, <2>3 DEF AnalysisInv, AnswerInv
<1>10. ASSUME question'.kind # "baseline"
       PROVE  QueriesGrow'
  <2>1. /\ QueriesGrow /\ rows \subseteq RowsOf(Queries[n])
        /\ n \notin cut' => rows = RowsOf(Queries[n])
        /\ cut \subseteq cut'
    BY <1>10 DEF AnalysisInv
  <2> SUFFICES ASSUME NEW j \in DOMAIN seen'
               PROVE  /\ seen'[j] \subseteq RowsOf(Queries[j])
                      /\ \A k \in DOMAIN seen' :
                            j <= k /\ Queries[j] = Queries[k] /\ k \notin cut' => seen'[j] \subseteq seen'[k]
      BY <1>5 DEF QueriesGrow
  <2>2. seen'[j] \subseteq RowsOf(Queries[j])
      BY <1>3, <1>4, <2>1 DEF QueriesGrow
  <2>3. ASSUME NEW k \in DOMAIN seen', j <= k, Queries[j] = Queries[k], k \notin cut'
        PROVE  seen'[j] \subseteq seen'[k]
    <3>1. CASE k = n
        BY <1>3, <2>1, <2>2, <2>3, <3>1
    <3>2. CASE k # n
      <4>1. k \in DOMAIN seen /\ j \in DOMAIN seen
          BY <1>1, <1>3, <1>4, <2>3, <3>2
      <4> QED BY <1>3, <2>1, <2>3, <4>1 DEF QueriesGrow
    <3> QED BY <3>1, <3>2
  <2> QED BY <2>2, <2>3
<1>11. cut' \subseteq 1..2 /\ (question'.kind # "trend" => cut' = {})
  <2>1. ASSUME question.kind = "trend"
        PROVE  n \in 1..2
    <3>1. Len(Queries) = 2
      BY <2>1, SomeQueries DEF AnalysisInv
    <3>2. Len(seen) \in Nat /\ Len(seen) < 2
      BY <1>1, <3>1
    <3> QED BY <3>2
  <2> HIDE DEF n
  <2>2. cut \subseteq 1..2 /\ (question.kind # "trend" => cut = {})
    BY DEF AnalysisInv
  <2> QED BY <2>1, <2>2 DEF n
<1> QED BY <1>2, <1>7, <1>8, <1>9, <1>10, <1>11 DEF AnalysisInv

\* The pods of one endpoint.
LEMMA PodsKeep ==
    ASSUME AnalysisInv, NEW e \in Endpoints, QueryPods(e)
    PROVE  AnalysisInv'
<1>1. /\ UNCHANGED <<table, stored, batches, question, seen, cut>> /\ stage = "pods"
      /\ podsSeen' = [x \in DOMAIN podsSeen \cup {e} |->
                       IF x = e THEN Of(RowsOf(question.runs[2]), e) ELSE podsSeen[x]]
      /\ stage' = IF ToExplain = DOMAIN podsSeen' THEN "answered" ELSE "pods"
    BY DEF QueryPods
<1>2. UNCHANGED <<Queries, ToExplain>>
    BY <1>1, ExplainedStays DEF Queries
<1>3. question.kind = "diagnose" /\ Len(seen) = Len(Queries) /\ Len(Queries) \in Nat
    BY <1>1, SomeQueries DEF AnalysisInv, Progress
<1>4. stage' \in {"idle", "query", "pods", "answered", "failed"}
    BY <1>1
<1>5. Progress'
    BY <1>1, <1>2, <1>3 DEF AnalysisInv, Progress
<1>6. AnswerInv'
  <2>1. DOMAIN podsSeen' \subseteq Endpoints
    BY <1>1 DEF AnalysisInv, AnswerInv
  <2>2. \A x \in DOMAIN podsSeen' : podsSeen'[x] \subseteq Rows
    BY <1>1 DEF AnalysisInv, AnswerInv, Of, RowsOf
  <2>3. stage' = "answered" => DOMAIN podsSeen' = ToExplain'
    BY <1>1, <1>2
  <2> QED BY <1>1, <1>3, <2>1, <2>2, <2>3 DEF AnswerInv
<1>7. QueriesGrow'
    BY <1>1, <1>3, GrowthLasts DEF AnalysisInv
<1> QED BY <1>1, <1>4, <1>5, <1>6, <1>7 DEF AnalysisInv

LEMMA AnalysisStep == AnalysisInv /\ [Next]_vars => AnalysisInv'
<1> SUFFICES ASSUME AnalysisInv, [Next]_vars
             PROVE  AnalysisInv'
    OBVIOUS
<1>1. CASE StoreBatch
  <2>1. /\ UNCHANGED <<table, question, seen, podsSeen, stage, cut>> /\ stored \subseteq stored'
        /\ stored' \subseteq Rows /\ batches' \in 0..MaxBatches
    BY <1>1, RowsAssumption DEF StoreBatch, AnalysisInv
  <2> QED BY <2>1, NoQueryKeeps
<1>2. CASE Ask
  <2>1. /\ UNCHANGED <<table, question, seen, podsSeen, stored, batches, cut>> /\ stage = "idle" /\ stage' = "query"
    BY <1>2 DEF Ask
  <2> QED BY <2>1, NoQueryKeeps DEF AnalysisInv
<1>3. CASE Query
  <2> DEFINE rows == RowsOf(Queries[Len(seen) + 1])
  <2>1. /\ UNCHANGED <<table, stored, batches, question, podsSeen, cut>> /\ stage = "query"
        /\ IF question.kind \in {"compare", "run-stats"} /\ rows = {}
           THEN stage' = "failed" /\ UNCHANGED seen
           ELSE seen' = Append(seen, rows) /\ stage' = AfterQuery(seen')
    BY <1>3 DEF Query, NoStats
  <2> HIDE DEF rows
  <2>2. CASE question.kind \in {"compare", "run-stats"} /\ rows = {}
    BY <2>1, <2>2, NoQueryKeeps DEF AnalysisInv
  <2>3. CASE ~(question.kind \in {"compare", "run-stats"} /\ rows = {})
    <3>1. rows = RowsOf(Queries[Len(seen) + 1])
      BY DEF rows
    <3>2. question.kind \in {"compare", "run-stats"} => rows # {}
      BY <2>3
    <3> QED BY <2>1, <2>3, <3>1, <3>2, AppendKeeps
  <2> QED BY <2>2, <2>3
<1>4. CASE QueryFails
  <2>1. UNCHANGED <<table, stored, batches, question, podsSeen, cut>>
    BY <1>4 DEF QueryFails
  <2>2. CASE question.kind = "baseline"
    <3>1. stage = "query" /\ seen' = Append(seen, {}) /\ stage' = AfterQuery(seen')
      BY <1>4, <2>2 DEF QueryFails, AnalysisInv, Progress
    <3> QED BY <2>1, <2>2, <3>1, AppendKeeps
  <2>3. CASE question.kind # "baseline"
    BY <1>4, <2>1, <2>3, NoQueryKeeps DEF AnalysisInv, QueryFails
  <2> QED BY <2>2, <2>3
<1>5. ASSUME NEW e \in Endpoints, QueryPods(e)
      PROVE  AnalysisInv'
    BY <1>5, PodsKeep
<1>6. CASE TrendCutShort
  <2>1. PICK rows : /\ seen' = Append(seen, rows) /\ stage' = AfterQuery(seen')
                    /\ rows \subseteq RowsOf(Queries[Len(seen) + 1])
    BY <1>6 DEF TrendCutShort
  <2>2. /\ UNCHANGED <<table, stored, batches, question, podsSeen>> /\ stage = "query"
        /\ question.kind = "trend" /\ cut' = cut \cup {Len(seen) + 1}
    BY <1>6 DEF TrendCutShort
  <2> QED BY <2>1, <2>2, AppendKeeps
<1>7. CASE UNCHANGED vars
    BY <1>7, NoQueryKeeps DEF vars, AnalysisInv
<1> QED BY <1>1, <1>2, <1>3, <1>4, <1>5, <1>6, <1>7 DEF Next

\* The handlers keep their types, read each run at least as far as before, and
\* answer only from queries that found what they need.
THEOREM AnalysisInvariant == Spec => []AnalysisInv
BY AnalysisInit, AnalysisStep, PTL DEF Spec

-------------------------------------------------------------------------------
(***************************************************************************)
(* The numbers of an endpoint.                                             *)
(***************************************************************************)

LEMMA RowsAreFinite == \A S \in SUBSET Rows : IsFiniteSet(S) /\ Cardinality(S) \in Nat
BY RowsAssumption, FS_Subset, FS_CardinalityType

LEMMA MoreRowsCountMore ==
    ASSUME NEW S \in SUBSET Rows, NEW T \in SUBSET S
    PROVE  Cardinality(T) <= Cardinality(S)
BY RowsAreFinite, FS_Subset

\* Both queries of a question that asks the same thing twice.
LEMMA AskedTwice ==
    ASSUME AnalysisInv, stage = "answered", question.kind \in {"endpoints", "trend"}, 2 \notin cut
    PROVE  /\ seen[1] \in SUBSET Rows /\ seen[2] \in SUBSET Rows
           /\ seen[1] \subseteq seen[2]
<1>1. seen \in Seq(SUBSET Rows) /\ Len(seen) = 2 /\ QueriesGrow /\ Queries[1] = Queries[2]
    BY SomeQueries DEF AnalysisInv, Progress
<1>2. DOMAIN seen = 1..2
    BY <1>1
<1> QED BY <1>1, <1>2 DEF QueriesGrow

LEMMA DistributionFollows == AnalysisInv => DistributionCoversCount
<1> SUFFICES ASSUME AnalysisInv, Answered("endpoints")
             PROVE  /\ Distributed(seen[1], seen[2]) = EndpointsIn(seen[1])
                    /\ \A e \in EndpointsIn(seen[1]) : Cardinality(Of(seen[2], e)) >= Cardinality(Of(seen[1], e))
    BY DEF DistributionCoversCount
<1>1. seen[2] \in SUBSET Rows /\ seen[1] \subseteq seen[2]
    BY AskedTwice DEF Answered, AnalysisInv
<1>2. Distributed(seen[1], seen[2]) = EndpointsIn(seen[1])
    BY <1>1 DEF Distributed, EndpointsIn
<1>3. \A e : Of(seen[2], e) \in SUBSET Rows /\ Of(seen[1], e) \in SUBSET Of(seen[2], e)
    BY <1>1 DEF Of
<1>4. \A e : /\ Cardinality(Of(seen[1], e)) \in Nat /\ Cardinality(Of(seen[2], e)) \in Nat
             /\ Cardinality(Of(seen[1], e)) <= Cardinality(Of(seen[2], e))
  <2> TAKE e
  <2> DEFINE S == Of(seen[2], e)
             T == Of(seen[1], e)
  <2>1. S \in SUBSET Rows /\ T \in SUBSET S /\ T \in SUBSET Rows
    BY <1>3
  <2> HIDE DEF S, T
  <2>2. Cardinality(T) <= Cardinality(S) /\ Cardinality(S) \in Nat /\ Cardinality(T) \in Nat
    BY <2>1, MoreRowsCountMore, RowsAreFinite
  <2> QED BY <2>2 DEF S, T
<1> QED BY <1>2, <1>4

\* Every endpoint that the first query of GetEndpointStats lists has a status
\* distribution, which accounts for at least the requests counted, however many
\* rows arrive between the two queries (endpoint.go 50-95).
THEOREM DistributionIsOfTheCounted == Spec => []DistributionCoversCount
BY AnalysisInvariant, DistributionFollows, PTL

-------------------------------------------------------------------------------
(***************************************************************************)
(* The trend.                                                              *)
(***************************************************************************)

TimesOf(S, r) == {table[i].ts : i \in {j \in S : table[j].run = r}}

\* The start of a run is the least of the timestamps of its rows.
LEMMA StartIsLeast ==
    ASSUME AnalysisInv, NEW S \in SUBSET Rows, NEW r \in RunsIn(S)
    PROVE  /\ Start(S, r) \in Nat
           /\ Start(S, r) \in TimesOf(S, r)
           /\ \A u \in TimesOf(S, r) : Start(S, r) <= u
<1>1. TimesOf(S, r) \subseteq Nat
    BY TablesAssumption DEF AnalysisInv, TimesOf, RowsOfRuns
<1>2. TimesOf(S, r) # {}
    BY DEF RunsIn, TimesOf
<1>3. \E t \in TimesOf(S, r) : \A u \in TimesOf(S, r) : t <= u
    BY <1>1, <1>2, HasLeast
<1>4. Start(S, r) = CHOOSE t \in TimesOf(S, r) : \A u \in TimesOf(S, r) : t <= u
    BY DEF Start, TimesOf
<1> QED BY <1>1, <1>3, <1>4

\* Rows that arrive can only move a start to an earlier time.
LEMMA StartsMoveBack ==
    ASSUME AnalysisInv, NEW T \in SUBSET Rows, NEW S \in SUBSET T, NEW r \in RunsIn(S)
    PROVE  Start(T, r) <= Start(S, r)
<1>1. TimesOf(S, r) \subseteq TimesOf(T, r) /\ r \in RunsIn(T)
    BY DEF TimesOf, RunsIn
<1> QED BY <1>1, StartIsLeast

LEMMA RunsAreFinite == \A S \in SUBSET Rows : IsFiniteSet(RunsIn(S))
<1> SUFFICES ASSUME NEW S \in SUBSET Rows
             PROVE  IsFiniteSet(RunsIn(S))
    OBVIOUS
<1> DEFINE f == [i \in S |-> table[i].run]
<1>1. IsFiniteSet(S)
    BY RowsAreFinite
<1>2. f \in Surjection(S, RunsIn(S))
    BY DEF Surjection, RunsIn
<1> QED BY <1>1, <1>2, FS_Surjection

\* The trend of one moment and of a later one: who falls off the list has given
\* way to a run that is new to it.
LEMMA SomeoneTookThePlace ==
    ASSUME AnalysisInv, NEW T \in SUBSET Rows, NEW S \in SUBSET T,
           NEW n \in Nat,
           NEW before \in Trends(S, n), NEW after \in Trends(T, n), NEW r \in before \ after
    PROVE  \E x \in after : x \notin before
<1>1. before \subseteq RunsIn(S) /\ after \subseteq RunsIn(T) /\ RunsIn(S) \subseteq RunsIn(T)
    BY DEF Trends, RunsIn
<1>2. /\ IsFiniteSet(before) /\ IsFiniteSet(after)
      /\ Cardinality(before) \in Nat /\ Cardinality(after) \in Nat
  <2>1. IsFiniteSet(RunsIn(S)) /\ IsFiniteSet(RunsIn(T))
    BY RunsAreFinite
  <2>2. IsFiniteSet(before) /\ IsFiniteSet(after)
    BY <1>1, <2>1, FS_Subset
  <2> QED BY <2>2, FS_CardinalityType
<1>3. Cardinality(before) <= Limit(n) /\ Limit(n) \in Nat
    BY <1>2 DEF Trends, Limit, MaxLimit
<1>4. Cardinality(after) = Limit(n)
  <2>1. r \in RunsIn(T) \ after
    BY <1>1
  <2> QED BY <2>1 DEF Trends
<1> SUFFICES ASSUME after \subseteq before
             PROVE  FALSE
    OBVIOUS
<1>5. after \in SUBSET before /\ after # before
    OBVIOUS
<1>6. Cardinality(after) < Cardinality(before)
  <2>1. Cardinality(after) <= Cardinality(before) /\ (Cardinality(after) = Cardinality(before) => after = before)
    BY <1>2, <1>5, FS_Subset
  <2> QED BY <1>2, <1>5, <2>1
<1> QED BY <1>2, <1>3, <1>4, <1>6

LEMMA TrendFollows == AnalysisInv => TrendLosesOnlyToLater
<1> SUFFICES ASSUME AnalysisInv, Answered("trend"), 2 \notin cut,
                    NEW before \in Trends(seen[1], question.limit),
                    NEW after \in Trends(seen[2], question.limit),
                    NEW r \in before \ after
             PROVE  \E x \in after \ before :
                        /\ Start(seen[2], x) >= Start(seen[2], r)
                        /\ x \in RunsIn(seen[1]) => \/ Start(seen[2], r) < Start(seen[1], r)
                                                    \/ Start(seen[1], x) = Start(seen[1], r)
    BY DEF TrendLosesOnlyToLater
<1> DEFINE S == seen[1]
           T == seen[2]
<1>1. S \in SUBSET Rows /\ T \in SUBSET Rows /\ S \in SUBSET T
    BY AskedTwice DEF Answered
<1>2. question.limit \in Nat
    BY QuestionsAssumption DEF AnalysisInv
<1> HIDE DEF S, T
<1>3. PICK x \in after : x \notin before
    BY <1>1, <1>2, SomeoneTookThePlace DEF S, T
<1>4. /\ before \subseteq RunsIn(S) /\ after \subseteq RunsIn(T) /\ RunsIn(S) \subseteq RunsIn(T)
      /\ \A q \in after, y \in RunsIn(T) \ after : Start(T, y) <= Start(T, q)
      /\ \A q \in before, y \in RunsIn(S) \ before : Start(S, y) <= Start(S, q)
  <2>1. before \in Trends(S, question.limit) /\ after \in Trends(T, question.limit)
    BY DEF S, T
  <2> QED BY <1>1, <2>1 DEF Trends, RunsIn, OrderedBy
<1>5. r \in RunsIn(S) /\ r \in RunsIn(T) /\ x \in RunsIn(T)
    BY <1>3, <1>4
<1>6. Start(T, r) \in Nat /\ Start(T, x) \in Nat /\ Start(S, r) \in Nat /\ Start(T, r) <= Start(S, r)
    BY <1>1, <1>5, StartIsLeast, StartsMoveBack
<1>7. Start(T, x) >= Start(T, r)
    BY <1>3, <1>4, <1>5, <1>6
<1>8. ASSUME x \in RunsIn(S), ~(Start(T, r) < Start(S, r))
      PROVE  Start(S, x) = Start(S, r)
  <2>1. Start(S, x) \in Nat /\ Start(T, x) <= Start(S, x)
    BY <1>1, <1>8, StartIsLeast, StartsMoveBack
  <2>2. Start(S, x) <= Start(S, r)
    BY <1>3, <1>4, <1>8
  <2> QED BY <1>6, <1>7, <1>8, <2>1, <2>2
<1> QED BY <1>3, <1>7, <1>8 DEF S, T

\* A run leaves the list of the latest runs only for one that started no earlier:
\* rows of a run that arrive late push nothing off it unless they change the
\* starts themselves (comparator.go 277-279).
THEOREM TrendIsLostToLater == Spec => []TrendLosesOnlyToLater
BY AnalysisInvariant, TrendFollows, PTL

-------------------------------------------------------------------------------
(***************************************************************************)
(* Statistics of a run are fractions.                                      *)
(***************************************************************************)

Fraction == [n : Nat, d : Nat \ {0}]
SomeRows == {S \in SUBSET Rows : S # {}}

LEMMA SomeRowsCount ==
    ASSUME NEW S \in SomeRows
    PROVE  /\ S \in SUBSET Rows /\ S # {} /\ IsFiniteSet(S)
           /\ Cardinality(S) \in Nat /\ Cardinality(S) > 0
<1>1. S \in SUBSET Rows /\ S # {}
    BY DEF SomeRows
<1>2. IsFiniteSet(S) /\ Cardinality(S) \in Nat
    BY <1>1, RowsAreFinite
<1>3. Cardinality(S) # 0
    BY <1>1, <1>2, FS_EmptySet
<1> QED BY <1>1, <1>2, <1>3

LEMMA RowTypes ==
    ASSUME AnalysisInv
    PROVE  \A i \in Rows : /\ table[i].rtt \in Nat /\ table[i].ts \in Nat
                           /\ \A k \in 1..Len(Phases) : table[i].phase[k] \in Nat
BY TablesAssumption DEF AnalysisInv, RowsOfRuns

LEMMA ImagesAreFinite ==
    ASSUME NEW S, IsFiniteSet(S), NEW F, DOMAIN F = S
    PROVE  IsFiniteSet({F[i] : i \in S})
<1> DEFINE f == [i \in S |-> F[i]]
<1>1. f \in Surjection(S, {F[i] : i \in S})
    BY DEF Surjection
<1> QED BY <1>1, FS_Surjection

\* There is a value at every place of the sorted response times.
LEMMA RankedIsAValue ==
    ASSUME AnalysisInv, NEW S \in SomeRows, NEW k \in Nat, k < Cardinality(S)
    PROVE  /\ Ranked(S, k) \in {table[i].rtt : i \in S} /\ Ranked(S, k) \in Nat
           /\ Cardinality({i \in S : table[i].rtt < Ranked(S, k)}) <= k
           /\ k < Cardinality({i \in S : table[i].rtt <= Ranked(S, k)})
<1> DEFINE RTT == [i \in Rows |-> table[i].rtt]
           Values == {RTT[i] : i \in S}
           AtMost(v) == {i \in S : RTT[i] <= v}
           Below(v) == {i \in S : RTT[i] < v}
           Enough == {v \in Values : k < Cardinality(AtMost(v))}
<1>1. S \in SUBSET Rows /\ S # {} /\ \A i \in S : RTT[i] \in Nat
  <2>1. S \in SUBSET Rows /\ S # {}
    BY SomeRowsCount
  <2>2. \A i \in Rows : table[i].rtt \in Nat
    BY RowTypes
  <2> QED BY <2>1, <2>2
<1>2. Values = {table[i].rtt : i \in S}
    BY <1>1
<1>3. \A v : /\ AtMost(v) = {i \in S : table[i].rtt <= v} /\ Below(v) = {i \in S : table[i].rtt < v}
             /\ AtMost(v) \in SUBSET Rows /\ Below(v) \in SUBSET Rows
    BY <1>1
<1> HIDE DEF RTT
<1>4. Values # {} /\ Values \subseteq Nat
    BY <1>1
<1>5. \A s \in SUBSET S : IsFiniteSet({RTT[i] : i \in s})
  <2> TAKE s \in SUBSET S
  <2> DEFINE F == [i \in s |-> RTT[i]]
  <2>1. IsFiniteSet(s)
    BY <1>1, RowsAreFinite
  <2>2. IsFiniteSet({F[i] : i \in s})
    <3> HIDE DEF F
    <3>1. DOMAIN F = s
        BY DEF F
    <3> QED BY <2>1, <3>1, ImagesAreFinite
  <2> QED BY <2>2
<1>6. Enough # {}
  <2>1. PICK m \in Values : \A y \in Values : y <= m
    <3>1. IsFiniteSet(Values) /\ Values \subseteq Int
      BY <1>4, <1>5
    <3> HIDE DEF Values
    <3> QED BY <1>4, <3>1, HasGreatest
  <2>2. AtMost(m) = S
    BY <2>1
  <2> QED BY <2>1, <2>2
<1>7. PICK v \in Enough : \A w \in Enough : v <= w
    BY <1>4, <1>6, HasLeast
<1>8. Cardinality(Below(v)) <= k
  <2>1. CASE Below(v) = {}
    BY <2>1, FS_EmptySet
  <2>2. CASE Below(v) # {}
    <3> DEFINE L == {RTT[i] : i \in Below(v)}
    <3>1. L # {} /\ L \subseteq Int /\ IsFiniteSet(L)
      <4>1. Below(v) \in SUBSET S
        OBVIOUS
      <4>2. IsFiniteSet(L)
        <5> HIDE DEF Below
        <5> QED BY <1>5, <4>1
      <4>3. L # {} /\ \A i \in Below(v) : RTT[i] \in Int
        BY <1>1, <2>2
      <4> QED BY <4>2, <4>3
    <3>2. PICK w \in L : \A y \in L : y <= w
      BY <3>1, HasGreatest
    <3>3. w \in Values /\ w < v
      OBVIOUS
    <3>4. w \notin Enough
      BY <1>4, <1>7, <3>3
    <3>5. Below(v) = AtMost(w)
      <4>1. ASSUME NEW i \in Below(v)
            PROVE  i \in AtMost(w)
        BY <3>2
      <4>2. ASSUME NEW i \in AtMost(w)
            PROVE  i \in Below(v)
        BY <1>1, <1>4, <1>7, <3>3
      <4> QED BY <4>1, <4>2
    <3>6. Cardinality(AtMost(w)) \in Nat
      BY <1>3, RowsAreFinite
    <3> QED BY <3>3, <3>4, <3>5, <3>6
  <2> QED BY <2>1, <2>2
<1>9. v \in Values /\ Cardinality(Below(v)) <= k /\ k < Cardinality(AtMost(v))
    BY <1>7, <1>8
<1> HIDE DEF Enough
<1>10. /\ Ranked(S, k) \in Values
       /\ Cardinality(Below(Ranked(S, k))) <= k /\ k < Cardinality(AtMost(Ranked(S, k)))
  <2>1. Ranked(S, k) = CHOOSE u \in Values : /\ Cardinality(Below(u)) <= k
                                             /\ k < Cardinality(AtMost(u))
    BY <1>2, <1>3 DEF Ranked
  <2> HIDE DEF Values, Below, AtMost
  <2> QED BY <1>9, <2>1
<1> QED BY <1>2, <1>3, <1>4, <1>10

LEMMA PercentileIsAFraction ==
    ASSUME AnalysisInv, NEW S \in SomeRows, NEW p \in {50, 95, 99}
    PROVE  Percentile(S, p) \in Fraction /\ Percentile(S, p).d = 100
<1> DEFINE c == Cardinality(S)
           place == p * (c - 1)
           lower == place \div 100
           part  == place % 100
<1>1. c \in Nat /\ c > 0
    BY SomeRowsCount
<1>2. /\ lower \in Nat /\ lower < c
      /\ part \in 0..99
      /\ part # 0 => lower + 1 < c
  <2> HIDE DEF c
  <2>1. CASE p = 50
    BY <1>1, <2>1
  <2>2. CASE p = 95
    BY <1>1, <2>2
  <2>3. CASE p = 99
    BY <1>1, <2>3
  <2> QED BY <2>1, <2>2, <2>3
<1>3. Percentile(S, p) = [n |-> (100 - part) * Ranked(S, lower)
                                   + (IF part = 0 THEN 0 ELSE part * Ranked(S, lower + 1)),
                          d |-> 100]
    BY DEF Percentile
<1> HIDE DEF c, lower, part
<1>4. Ranked(S, lower) \in Nat
    BY <1>2, RankedIsAValue DEF c
<1>5. part # 0 => Ranked(S, lower + 1) \in Nat
  <2>1. lower + 1 \in Nat
    BY <1>2
  <2> QED BY <1>2, <2>1, RankedIsAValue DEF c
<1>6. (100 - part) * Ranked(S, lower) \in Nat
    BY <1>2, <1>4
<1>7. (IF part = 0 THEN 0 ELSE part * Ranked(S, lower + 1)) \in Nat
    BY <1>2, <1>5
<1> QED BY <1>3, <1>6, <1>7 DEF Fraction

LEMMA ErrorRateIsAFraction ==
    ASSUME NEW S \in SomeRows
    PROVE  ErrorRate(S) \in Fraction
<1>1. Cardinality(S) \in Nat /\ Cardinality(S) > 0
    BY SomeRowsCount
<1>2. Errors(S) \in Nat
  <2>1. {i \in S : table[i].failed} \in SUBSET Rows
    BY DEF SomeRows
  <2> QED BY <2>1, RowsAreFinite DEF Errors
<1> QED BY <1>1, <1>2 DEF ErrorRate, Fraction

LEMMA RPSIsAFraction ==
    ASSUME AnalysisInv, NEW S \in SomeRows
    PROVE  RPS(S) \in Fraction
<1> DEFINE F == [x \in S \X S |-> table[x[1]].ts - table[x[2]].ts]
           Spans == {table[i].ts - table[j].ts : i, j \in S}
           span == CHOOSE d \in Spans : \A i, j \in S : table[i].ts - table[j].ts <= d
<1>1. S \in SUBSET Rows /\ S # {} /\ IsFiniteSet(S) /\ Cardinality(S) \in Nat /\ Cardinality(S) > 0
      /\ \A i \in S : table[i].ts \in Nat
    BY SomeRowsCount, RowTypes
<1>2. Spans = {F[x] : x \in S \X S}
  <2>1. ASSUME NEW v \in Spans
        PROVE  v \in {F[x] : x \in S \X S}
    <3>1. PICK i \in S, j \in S : v = table[i].ts - table[j].ts
      OBVIOUS
    <3>2. F[<<i, j>>] = v
      BY <3>1
    <3> QED BY <3>2
  <2> QED BY <2>1
<1>3. IsFiniteSet(Spans)
  <2>1. IsFiniteSet(S \X S)
    BY <1>1, FS_Product
  <2>2. DOMAIN F = S \X S
    OBVIOUS
  <2> HIDE DEF F, Spans
  <2> QED BY <1>2, <2>1, <2>2, ImagesAreFinite
<1>4. Spans \subseteq Int /\ Spans # {} /\ 0 \in Spans
  <2>1. PICK i \in S : TRUE
    BY <1>1
  <2>2. table[i].ts - table[i].ts \in Spans /\ table[i].ts - table[i].ts = 0
    BY <1>1
  <2>3. \A j, k \in S : table[j].ts - table[k].ts \in Int
    BY <1>1
  <2>4. 0 \in Spans
    BY <2>2
  <2>5. Spans \subseteq Int
    BY <2>3
  <2> HIDE DEF Spans
  <2> QED BY <2>4, <2>5
<1>5. PICK m \in Spans : \A y \in Spans : y <= m
  <2> HIDE DEF Spans
  <2> QED BY <1>3, <1>4, HasGreatest
<1>6. \A i, j \in S : table[i].ts - table[j].ts <= m
    BY <1>5
<1>7. span \in Spans /\ \A i, j \in S : table[i].ts - table[j].ts <= span
    BY <1>5, <1>6
<1>8. span \in Nat
  <2>1. PICK i \in S : TRUE
    BY <1>1
  <2> HIDE DEF span
  <2>2. table[i].ts - table[i].ts <= span
    BY <1>7
  <2> QED BY <1>1, <1>4, <1>7, <2>2
<1>9. RPS(S) = IF span = 0 THEN [n |-> 0, d |-> 1] ELSE [n |-> 1000 * Cardinality(S), d |-> span]
    BY DEF RPS
<1> HIDE DEF span
<1> QED BY <1>1, <1>8, <1>9 DEF Fraction

LEMMA StatsAreFractions ==
    ASSUME AnalysisInv, NEW S \in SomeRows
    PROVE  \A m \in Statistics \cup {"ERROR_RATE", "RPS"} : RunStats(S)[m] \in Fraction
BY PercentileIsAFraction, ErrorRateIsAFraction, RPSIsAFraction DEF RunStats, Statistics

-------------------------------------------------------------------------------
(***************************************************************************)
(* The comparison respects the order of fractions.                         *)
(***************************************************************************)

LEMMA TimesKeepsLess == \A a, b, c \in Int : c > 0 /\ a < b => a * c < b * c
OBVIOUS

LEMMA TimesKeepsAtMost == \A a, b, c \in Int : c >= 0 /\ a <= b => a * c <= b * c
OBVIOUS

LEMMA CancelLess == \A a, b, c \in Int : c > 0 /\ a * c < b * c => a < b
<1> SUFFICES ASSUME NEW a \in Int, NEW b \in Int, NEW c \in Int, c > 0, a * c < b * c, b <= a
             PROVE  FALSE
    OBVIOUS
<1>1. b * c <= a * c
    BY TimesKeepsAtMost
<1> QED BY <1>1

\* If y is at least x, then what lies below x in some proportion lies below y.
LEMMA LargerStaysAbove ==
    ASSUME NEW A \in Nat, NEW K \in Int, NEW xn \in Nat, NEW xd \in Nat \ {0}, NEW yn \in Nat, NEW yd \in Nat \ {0},
           xn * yd <= yn * xd, K * xd < xn * A
    PROVE  K * yd < yn * A
<1>1. (K * xd) * yd < (xn * A) * yd
    BY TimesKeepsLess
<1>2. (xn * yd) * A <= (yn * xd) * A
    BY TimesKeepsAtMost
<1>3. (K * xd) * yd = (K * yd) * xd /\ (xn * A) * yd = (xn * yd) * A /\ (yn * xd) * A = (yn * A) * xd
    OBVIOUS
<1>4. K * yd \in Int /\ yn * A \in Int /\ (K * yd) * xd \in Int /\ (yn * A) * xd \in Int
      /\ (xn * yd) * A \in Int
    OBVIOUS
<1>5. (K * yd) * xd < (yn * A) * xd
    BY <1>1, <1>2, <1>3, <1>4
<1> QED BY <1>4, <1>5, CancelLess

\* The other way round.
LEMMA SmallerStaysBelow ==
    ASSUME NEW A \in Nat, NEW K \in Int, NEW xn \in Nat, NEW xd \in Nat \ {0}, NEW yn \in Nat, NEW yd \in Nat \ {0},
           yn * xd <= xn * yd, xn * A < K * xd
    PROVE  yn * A < K * yd
<1>1. (xn * A) * yd < (K * xd) * yd
    BY TimesKeepsLess
<1>2. (yn * xd) * A <= (xn * yd) * A
    BY TimesKeepsAtMost
<1>3. (K * xd) * yd = (K * yd) * xd /\ (xn * A) * yd = (xn * yd) * A /\ (yn * xd) * A = (yn * A) * xd
    OBVIOUS
<1>4. K * yd \in Int /\ yn * A \in Int /\ (K * yd) * xd \in Int /\ (yn * A) * xd \in Int
      /\ (xn * yd) * A \in Int
    OBVIOUS
<1>5. (yn * A) * xd < (K * yd) * xd
    BY <1>1, <1>2, <1>3, <1>4
<1> QED BY <1>4, <1>5, CancelLess

\* checkRegression in the form of the two lemmas.
LEMMA ExceedsMeans ==
    ASSUME NEW b \in Fraction, NEW x \in Fraction, NEW p \in Int
    PROVE  Exceeds(b, x, p) <=> b.n # 0 /\ ((100 + p) * b.n) * x.d < x.n * (100 * b.d)
<1>1. b.n \in Nat /\ b.d \in Nat /\ x.n \in Nat /\ x.d \in Nat
    BY DEF Fraction
<1>2. \A bn, bd, xn, xd \in Nat :
        100 * (xn * bd - bn * xd) > p * bn * xd <=> ((100 + p) * bn) * xd < xn * (100 * bd)
    OBVIOUS
<1> QED BY <1>1, <1>2 DEF Exceeds

\* checkRPSRegression likewise.
LEMMA FallsBelowMeans ==
    ASSUME NEW b \in Fraction, NEW x \in Fraction, NEW p \in Int
    PROVE  FallsBelow(b, x, p) <=> b.n # 0 /\ x.n * (100 * b.d) < ((100 - p) * b.n) * x.d
<1>1. b.n \in Nat /\ b.d \in Nat /\ x.n \in Nat /\ x.d \in Nat
    BY DEF Fraction
<1>2. \A bn, bd, xn, xd \in Nat :
        100 * (bn * xd - xn * bd) > p * bn * xd <=> xn * (100 * bd) < ((100 - p) * bn) * xd
    OBVIOUS
<1> QED BY <1>1, <1>2 DEF FallsBelow

LEMMA WorseExceeds ==
    ASSUME NEW b \in Fraction, NEW x \in Fraction, NEW y \in Fraction, NEW p \in Int,
           ~Less(y, x), Exceeds(b, x, p)
    PROVE  Exceeds(b, y, p)
<1>1. /\ b.n \in Nat /\ b.d \in Nat /\ x.n \in Nat /\ x.d \in Nat \ {0} /\ y.n \in Nat /\ y.d \in Nat \ {0}
      /\ x.n * y.d <= y.n * x.d
    BY DEF Fraction, Less
<1>2. b.n # 0 /\ ((100 + p) * b.n) * x.d < x.n * (100 * b.d)
    BY ExceedsMeans
<1>3. 100 * b.d \in Nat /\ (100 + p) * b.n \in Int
    BY <1>1
<1>4. ((100 + p) * b.n) * y.d < y.n * (100 * b.d)
    BY <1>1, <1>2, <1>3, LargerStaysAbove
<1> QED BY <1>2, <1>4, ExceedsMeans

LEMMA WorseFallsBelow ==
    ASSUME NEW b \in Fraction, NEW x \in Fraction, NEW y \in Fraction, NEW p \in Int,
           ~Less(x, y), FallsBelow(b, x, p)
    PROVE  FallsBelow(b, y, p)
<1>1. /\ b.n \in Nat /\ b.d \in Nat /\ x.n \in Nat /\ x.d \in Nat \ {0} /\ y.n \in Nat /\ y.d \in Nat \ {0}
      /\ y.n * x.d <= x.n * y.d
    BY DEF Fraction, Less
<1>2. b.n # 0 /\ x.n * (100 * b.d) < ((100 - p) * b.n) * x.d
    BY FallsBelowMeans
<1>3. 100 * b.d \in Nat /\ (100 - p) * b.n \in Int
    BY <1>1
<1>4. y.n * (100 * b.d) < ((100 - p) * b.n) * y.d
    BY <1>1, <1>2, <1>3, SmallerStaysBelow
<1> QED BY <1>2, <1>4, FallsBelowMeans

LEMMA WorseIsOverLimit ==
    ASSUME NEW x \in Fraction, NEW y \in Fraction, NEW limits, limits["ERROR_RATE_ABSOLUTE"] \in Int,
           ~Less(y, x), OverLimit(x, limits)
    PROVE  OverLimit(y, limits)
<1> DEFINE K == limits["ERROR_RATE_ABSOLUTE"]
<1>1. /\ x.n \in Nat /\ x.d \in Nat \ {0} /\ y.n \in Nat /\ y.d \in Nat \ {0}
      /\ x.n * y.d <= y.n * x.d /\ K * x.d < x.n * 1
    BY DEF Fraction, Less, OverLimit
<1> HIDE DEF K
<1>2. K * y.d < y.n * 1
    BY <1>1, LargerStaysAbove DEF K
<1> QED BY <1>1, <1>2 DEF OverLimit, K

\* Over the limit and over twice the limit, which is less when the limit is negative.
RisesCritically(b, x, p) == Exceeds(b, x, p) /\ Exceeds(b, x, 2 * p)
FallsCritically(b, x, p) == FallsBelow(b, x, p) /\ FallsBelow(b, x, 2 * p)

\* Compared with itself nothing rises or falls by more than a threshold, unless the
\* threshold is negative.
LEMMA NothingExceedsItself ==
    ASSUME NEW b \in Fraction, NEW p \in Nat
    PROVE  ~Exceeds(b, b, p) /\ ~FallsBelow(b, b, p)
<1>1. b.n \in Nat /\ b.d \in Nat
    BY DEF Fraction
<1>2. \A n, d \in Nat : /\ 100 * (n * d - n * d) = 0 /\ p * n * d \in Nat
    OBVIOUS
<1> QED BY <1>1, <1>2 DEF Exceeds, FallsBelow

-------------------------------------------------------------------------------
(***************************************************************************)
(* Compare.                                                                *)
(***************************************************************************)

\* Whether the current run fails: some statistic crossed twice its limit, or the
\* error rate is over the absolute one.
LEMMA FailsMeans ==
    ASSUME NEW base, NEW cur, NEW limits,
           \A m \in Statistics \cup {"ERROR_RATE", "RPS"} :
              base[m] \in Fraction /\ cur[m] \in Fraction /\ limits[m] \in Int
    PROVE  ~IsPassing(CompareStats(base, cur, limits)) <=>
              \/ \E m \in Statistics \cup {"ERROR_RATE"} : RisesCritically(base[m], cur[m], limits[m])
              \/ FallsCritically(base["RPS"], cur["RPS"], limits["RPS"])
              \/ OverLimit(cur["ERROR_RATE"], limits)
<1> DEFINE rose == {m \in Statistics \cup {"ERROR_RATE"} : Exceeds(base[m], cur[m], limits[m])}
           fell == {m \in {"RPS"} : FallsBelow(base[m], cur[m], limits[m])}
           over == {m \in {"ERROR_RATE"} : OverLimit(cur[m], limits)}
           found == {[metric |-> m, critical |-> Exceeds(base[m], cur[m], 2 * limits[m])] : m \in rose}
                    \cup {[metric |-> m, critical |-> FallsBelow(base[m], cur[m], 2 * limits[m])] : m \in fell}
                    \cup {[metric |-> "ERROR_RATE_ABSOLUTE", critical |-> TRUE] : m \in over}
<1>1. CompareStats(base, cur, limits) = found
    BY DEF CompareStats
<1>2. ASSUME NEW m \in Statistics \cup {"ERROR_RATE"}, RisesCritically(base[m], cur[m], limits[m])
      PROVE  \E r \in found : r.critical
  <2>1. Exceeds(base[m], cur[m], limits[m]) /\ Exceeds(base[m], cur[m], 2 * limits[m])
    BY <1>2 DEF RisesCritically
  <2>2. [metric |-> m, critical |-> Exceeds(base[m], cur[m], 2 * limits[m])] \in found
    BY <2>1
  <2>3. [metric |-> m, critical |-> Exceeds(base[m], cur[m], 2 * limits[m])].critical
    BY <2>1, Zenon
  <2> HIDE DEF found
  <2> QED BY <2>2, <2>3, Zenon
<1>3. ASSUME FallsCritically(base["RPS"], cur["RPS"], limits["RPS"])
      PROVE  \E r \in found : r.critical
  <2>1. FallsBelow(base["RPS"], cur["RPS"], limits["RPS"]) /\ FallsBelow(base["RPS"], cur["RPS"], 2 * limits["RPS"])
    BY <1>3 DEF FallsCritically
  <2>2. [metric |-> "RPS", critical |-> FallsBelow(base["RPS"], cur["RPS"], 2 * limits["RPS"])] \in found
    BY <2>1
  <2>3. [metric |-> "RPS", critical |-> FallsBelow(base["RPS"], cur["RPS"], 2 * limits["RPS"])].critical
    BY <2>1, Zenon
  <2> HIDE DEF found
  <2> QED BY <2>2, <2>3, Zenon
<1>4. ASSUME OverLimit(cur["ERROR_RATE"], limits)
      PROVE  \E r \in found : r.critical
  <2>1. [metric |-> "ERROR_RATE_ABSOLUTE", critical |-> TRUE] \in found
    BY <1>4
  <2> HIDE DEF found
  <2> QED BY <2>1, Zenon
<1>5. ASSUME NEW r \in found, r.critical
      PROVE  \/ \E m \in Statistics \cup {"ERROR_RATE"} : RisesCritically(base[m], cur[m], limits[m])
             \/ FallsCritically(base["RPS"], cur["RPS"], limits["RPS"])
             \/ OverLimit(cur["ERROR_RATE"], limits)
  <2>1. CASE \E m \in rose : r = [metric |-> m, critical |-> Exceeds(base[m], cur[m], 2 * limits[m])]
    <3>1. PICK m \in rose : r = [metric |-> m, critical |-> Exceeds(base[m], cur[m], 2 * limits[m])]
      BY <2>1
    <3>2. r.critical = Exceeds(base[m], cur[m], 2 * limits[m])
      BY <3>1, Zenon
    <3>3. Exceeds(base[m], cur[m], 2 * limits[m])
      BY <1>5, <3>2, Zenon
    <3> QED BY <3>3 DEF RisesCritically
  <2>2. CASE \E m \in fell : r = [metric |-> m, critical |-> FallsBelow(base[m], cur[m], 2 * limits[m])]
    <3>1. r = [metric |-> "RPS", critical |-> FallsBelow(base["RPS"], cur["RPS"], 2 * limits["RPS"])]
      BY <2>2
    <3>2. r.critical = FallsBelow(base["RPS"], cur["RPS"], 2 * limits["RPS"])
      BY <3>1, Zenon
    <3>3. FallsBelow(base["RPS"], cur["RPS"], 2 * limits["RPS"])
      BY <1>5, <3>2, Zenon
    <3> QED BY <2>2, <3>3 DEF FallsCritically
  <2>3. CASE \E m \in over : r = [metric |-> "ERROR_RATE_ABSOLUTE", critical |-> TRUE]
    BY <2>3
  <2> QED BY <2>1, <2>2, <2>3
<1>6. (\E r \in found : r.critical) <=>
              \/ \E m \in Statistics \cup {"ERROR_RATE"} : RisesCritically(base[m], cur[m], limits[m])
              \/ FallsCritically(base["RPS"], cur["RPS"], limits["RPS"])
              \/ OverLimit(cur["ERROR_RATE"], limits)
  <2> HIDE DEF found
  <2> QED BY <1>2, <1>3, <1>4, <1>5, Zenon
<1> HIDE DEF found
<1> QED BY <1>1, <1>6, Zenon DEF IsPassing

\* Both runs of a comparison have rows.
LEMMA ComparedRuns ==
    ASSUME AnalysisInv, Answered("compare")
    PROVE  /\ seen[1] \in SomeRows /\ seen[2] \in SomeRows
           /\ DOMAIN seen = 1..2 /\ Queries = question.runs
<1>1. seen \in Seq(SUBSET Rows) /\ Len(seen) = 2 /\ Queries = question.runs
    BY SomeQueries DEF AnalysisInv, Progress, Answered
<1>2. DOMAIN seen = 1..2
    BY <1>1
<1>3. seen[1] # {} /\ seen[2] # {}
    BY <1>2 DEF AnalysisInv, AnswerInv, Answered
<1> QED BY <1>1, <1>2, <1>3 DEF SomeRows

LEMMA LimitsAreNumbers ==
    ASSUME AnalysisInv
    PROVE  \A m \in Limits : question.thresholds[m] \in Int
BY QuestionsAssumption DEF AnalysisInv

\* At rest a run compared with itself shows at most too many errors and what has a
\* negative threshold.
LEMMA SameRunDoesNotRegress ==
    ASSUME AnalysisInv, Answered("compare"), AtRest, question.runs[1] = question.runs[2],
           NEW r \in Compare(seen[1], seen[2], question.thresholds)
    PROVE  r.metric = "ERROR_RATE_ABSOLUTE" \/ question.thresholds[r.metric] < 0
<1> DEFINE base == RunStats(seen[1])
           limits == question.thresholds
<1>1. seen[1] = seen[2]
    BY ComparedRuns DEF AtRest
<1>2. \A m \in Statistics \cup {"ERROR_RATE", "RPS"} : base[m] \in Fraction /\ limits[m] \in Int
    BY ComparedRuns, StatsAreFractions, LimitsAreNumbers DEF Limits
<1>3. r \in CompareStats(base, base, limits)
    BY <1>1 DEF Compare
<1> HIDE DEF base, limits
<1>4. \A m \in Statistics \cup {"ERROR_RATE", "RPS"} :
          Exceeds(base[m], base[m], limits[m]) \/ FallsBelow(base[m], base[m], limits[m]) => limits[m] < 0
  <2> SUFFICES ASSUME NEW m \in Statistics \cup {"ERROR_RATE", "RPS"}, limits[m] >= 0
               PROVE  ~Exceeds(base[m], base[m], limits[m]) /\ ~FallsBelow(base[m], base[m], limits[m])
      BY <1>2
  <2> QED BY <1>2, NothingExceedsItself
<1>5. CASE \E m \in Statistics \cup {"ERROR_RATE"} :
              /\ Exceeds(base[m], base[m], limits[m])
              /\ r = [metric |-> m, critical |-> Exceeds(base[m], base[m], 2 * limits[m])]
  <2>1. PICK m \in Statistics \cup {"ERROR_RATE"} :
              /\ Exceeds(base[m], base[m], limits[m])
              /\ r = [metric |-> m, critical |-> Exceeds(base[m], base[m], 2 * limits[m])]
    BY <1>5
  <2>2. r.metric = m
    BY <2>1, Zenon
  <2> QED BY <1>4, <2>1, <2>2 DEF limits
<1>6. CASE /\ FallsBelow(base["RPS"], base["RPS"], limits["RPS"])
           /\ r = [metric |-> "RPS", critical |-> FallsBelow(base["RPS"], base["RPS"], 2 * limits["RPS"])]
  <2>1. r.metric = "RPS"
    BY <1>6, Zenon
  <2> QED BY <1>4, <1>6, <2>1 DEF limits
<1>7. CASE r = [metric |-> "ERROR_RATE_ABSOLUTE", critical |-> TRUE]
    BY <1>7
<1> QED BY <1>3, <1>5, <1>6, <1>7 DEF CompareStats

LEMMA WorseDoesNotPass ==
    ASSUME AnalysisInv, NEW B \in SomeRows, NEW S \in SomeRows, NEW T \in SomeRows,
           NEW limits, \A m \in Limits : limits[m] \in Int,
           \A m \in Statistics \cup {"ERROR_RATE"} : ~Less(RunStats(T)[m], RunStats(S)[m]),
           ~Less(RunStats(S)["RPS"], RunStats(T)["RPS"]),
           IsPassing(CompareStats(RunStats(B), RunStats(T), limits))
    PROVE  IsPassing(CompareStats(RunStats(B), RunStats(S), limits))
<1> DEFINE base == RunStats(B)
           s == RunStats(S)
           t == RunStats(T)
<1>1. \A m \in Statistics \cup {"ERROR_RATE", "RPS"} :
          base[m] \in Fraction /\ s[m] \in Fraction /\ t[m] \in Fraction /\ limits[m] \in Int /\ 2 * limits[m] \in Int
  <2>1. \A m \in Statistics \cup {"ERROR_RATE", "RPS"} : limits[m] \in Int
    BY DEF Limits
  <2>2. \A m \in Statistics \cup {"ERROR_RATE", "RPS"} : base[m] \in Fraction
    BY StatsAreFractions
  <2>3. \A m \in Statistics \cup {"ERROR_RATE", "RPS"} : s[m] \in Fraction
    BY StatsAreFractions
  <2>4. \A m \in Statistics \cup {"ERROR_RATE", "RPS"} : t[m] \in Fraction
    BY StatsAreFractions
  <2> HIDE DEF base, s, t
  <2> QED BY <2>1, <2>2, <2>3, <2>4
<1>2. /\ \A m \in Statistics \cup {"ERROR_RATE"} : ~Less(t[m], s[m])
      /\ ~Less(s["RPS"], t["RPS"])
      /\ IsPassing(CompareStats(base, t, limits))
    OBVIOUS
<1> SUFFICES IsPassing(CompareStats(base, s, limits))
    OBVIOUS
<1> HIDE DEF base, s, t
<1> SUFFICES ASSUME ~IsPassing(CompareStats(base, s, limits))
             PROVE  ~IsPassing(CompareStats(base, t, limits))
    BY <1>2
<1>3. \/ \E m \in Statistics \cup {"ERROR_RATE"} : RisesCritically(base[m], s[m], limits[m])
      \/ FallsCritically(base["RPS"], s["RPS"], limits["RPS"])
      \/ OverLimit(s["ERROR_RATE"], limits)
    BY <1>1, FailsMeans
<1>4. \A m \in Statistics \cup {"ERROR_RATE"} :
          RisesCritically(base[m], s[m], limits[m]) => RisesCritically(base[m], t[m], limits[m])
    BY <1>1, <1>2, WorseExceeds DEF RisesCritically
<1>5. FallsCritically(base["RPS"], s["RPS"], limits["RPS"]) => FallsCritically(base["RPS"], t["RPS"], limits["RPS"])
    BY <1>1, <1>2, WorseFallsBelow DEF FallsCritically
<1>6. OverLimit(s["ERROR_RATE"], limits) => OverLimit(t["ERROR_RATE"], limits)
  <2>1. limits["ERROR_RATE_ABSOLUTE"] \in Int
    BY DEF Limits
  <2> QED BY <1>1, <1>2, <2>1, WorseIsOverLimit
<1>7. \/ \E m \in Statistics \cup {"ERROR_RATE"} : RisesCritically(base[m], t[m], limits[m])
      \/ FallsCritically(base["RPS"], t["RPS"], limits["RPS"])
      \/ OverLimit(t["ERROR_RATE"], limits)
    BY <1>3, <1>4, <1>5, <1>6
<1> QED BY <1>1, <1>7, FailsMeans

LEMMA WorseFollows == AnalysisInv => WorseNeverPasses
<1> SUFFICES ASSUME AnalysisInv
             PROVE  WorseNeverPasses
    OBVIOUS
<1>1. TypeOK
    BY DEF AnalysisInv, Progress, AnswerInv, TypeOK
<1>2. ASSUME Answered("compare"), AtRest, question.runs[1] = question.runs[2]
      PROVE  \A r \in Compare(seen[1], seen[2], question.thresholds) :
                r.metric = "ERROR_RATE_ABSOLUTE" \/ question.thresholds[r.metric] < 0
    BY <1>2, SameRunDoesNotRegress
<1> DEFINE stats == [S \in (SUBSET seen[2]) \ {{}} |-> RunStats(S)]
           Passes(S) == IsPassing(CompareStats(RunStats(seen[1]), stats[S], question.thresholds))
<1>3. ASSUME Answered("compare"), NEW S \in DOMAIN stats, NEW T \in DOMAIN stats,
             \A m \in Statistics \cup {"ERROR_RATE"} : ~Less(stats[T][m], stats[S][m]),
             ~Less(stats[S]["RPS"], stats[T]["RPS"]), Passes(T)
      PROVE  Passes(S)
  <2>1. seen[1] \in SomeRows /\ seen[2] \in SomeRows
    BY <1>3, ComparedRuns
  <2>2. S \in SomeRows /\ T \in SomeRows /\ stats[S] = RunStats(S) /\ stats[T] = RunStats(T)
    <3>1. stats[S] = RunStats(S) /\ stats[T] = RunStats(T)
      OBVIOUS
    <3>2. DOMAIN stats = {s \in SUBSET seen[2] : s # {}}
      OBVIOUS
    <3> HIDE DEF stats
    <3>3. seen[2] \subseteq Rows
      BY <2>1 DEF SomeRows
    <3>4. S \in SomeRows /\ T \in SomeRows
      BY <3>2, <3>3 DEF SomeRows
    <3> QED BY <3>1, <3>4
  <2>3. \A m \in Limits : question.thresholds[m] \in Int
    BY LimitsAreNumbers
  <2> HIDE DEF stats
  <2>4. /\ \A m \in Statistics \cup {"ERROR_RATE"} : ~Less(RunStats(T)[m], RunStats(S)[m])
        /\ ~Less(RunStats(S)["RPS"], RunStats(T)["RPS"])
        /\ IsPassing(CompareStats(RunStats(seen[1]), RunStats(T), question.thresholds))
    BY <1>3, <2>2
  <2>5. IsPassing(CompareStats(RunStats(seen[1]), RunStats(S), question.thresholds))
    BY <2>1, <2>2, <2>3, <2>4, WorseDoesNotPass
  <2> QED BY <2>2, <2>5
<1> QED BY <1>1, <1>2, <1>3, Zenon DEF WorseNeverPasses

\* A run that is at least as bad as another in every statistic never passes where
\* that one fails, whatever the thresholds, and a run regresses from itself only
\* where the request made the threshold negative (comparator.go 144-202, 213, 241;
\* analysis_handlers.go 66-81).
THEOREM CompareRespectsTheOrder == Spec => []WorseNeverPasses
BY AnalysisInvariant, WorseFollows, PTL

-------------------------------------------------------------------------------
(***************************************************************************)
(* What is known of sums.                                                  *)
(***************************************************************************)

\* SumFunction is one of the functions that exist.
LEMMA SumIsASum ==
    ASSUME NEW F, IsFiniteSet(DOMAIN F), \A x \in DOMAIN F : F[x] \in Int
    PROVE  \E g : Sums(F, g) /\ SumFunction(F) = g[DOMAIN F]
<1> DEFINE D == DOMAIN F
           Equation(g) == g = [s \in SUBSET D |-> SumUpTo(F, g, s)]
           g == CHOOSE h : Equation(h)
<1>1. SumFunction(F) = g[D]
    BY DEF SumFunction, SumFunctionOnSet, FoldFunctionOnSet, MapThenFoldSet, SumUpTo, Taken
<1>2. \E h : Equation(h)
    BY SumsExist DEF Sums
<1> HIDE DEF Equation
<1>3. Equation(g)
    BY <1>2
<1> HIDE DEF g
<1>4. \A s \in SUBSET D : g[s] = SumUpTo(F, g, s)
    BY <1>3 DEF Equation
<1>5. ASSUME NEW s \in SUBSET D
      PROVE  g[s] \in Int
  <2> DEFINE Q == {t \in SUBSET D : g[t] \in Int}
  <2>1. {} \in Q
    <3>1. {} \in SUBSET D /\ SumUpTo(F, g, {}) = 0
      BY DEF SumUpTo
    <3>2. g[{}] = 0
      BY <1>4, <3>1
    <3> QED BY <3>1, <3>2
  <2>2. \A t \in SUBSET s : t # {} => \E x \in t : t \ {x} \in Q => t \in Q
    <3> SUFFICES ASSUME NEW t \in SUBSET s, t # {}
                 PROVE  \E x \in t : t \ {x} \in Q => t \in Q
        OBVIOUS
    <3>1. Taken(t) \in t
      BY DEF Taken
    <3>2. g[t] = F[Taken(t)] + g[t \ {Taken(t)}]
      BY <1>4 DEF SumUpTo
    <3>3. t \ {Taken(t)} \in Q => t \in Q
      BY <3>1, <3>2
    <3> QED BY <3>1, <3>3
  <2>3. IsFiniteSet(s)
    BY FS_Subset
  <2> HIDE DEF Q
  <2>4. s \in Q
    BY <2>1, <2>2, <2>3, Removing
  <2> QED BY <2>4 DEF Q
<1>6. g = [s \in SUBSET D |-> SumUpTo(F, g, s)]
    BY <1>3 DEF Equation
<1>7. g \in [SUBSET D -> Int]
    BY <1>5, <1>6
<1> QED BY <1>1, <1>6, <1>7 DEF Sums

LEMMA SumIsANumber ==
    ASSUME NEW F, IsFiniteSet(DOMAIN F), \A x \in DOMAIN F : F[x] \in Int
    PROVE  SumFunction(F) \in Int
<1>1. PICK g : Sums(F, g) /\ SumFunction(F) = g[DOMAIN F]
    BY SumIsASum
<1> QED BY <1>1 DEF Sums

\* What holds of the terms, in some proportion, holds of the sums.
LEMMA SumsCompare ==
    ASSUME NEW D, IsFiniteSet(D), NEW F, NEW G, DOMAIN F = D, DOMAIN G = D,
           \A x \in D : F[x] \in Int /\ G[x] \in Int,
           NEW a \in Int, NEW b \in Int, NEW c \in Int,
           \A x \in D : a * F[x] + c <= b * G[x]
    PROVE  a * SumFunction(F) + c * Cardinality(D) <= b * SumFunction(G)
<1>1. PICK f : Sums(F, f) /\ SumFunction(F) = f[D]
    BY SumIsASum
<1>2. PICK g : Sums(G, g) /\ SumFunction(G) = g[D]
    BY SumIsASum
<1>3. /\ \A s \in SUBSET D : f[s] \in Int /\ f[s] = SumUpTo(F, f, s)
      /\ \A s \in SUBSET D : g[s] \in Int /\ g[s] = SumUpTo(G, g, s)
    BY <1>1, <1>2 DEF Sums
<1> DEFINE Q == {s \in SUBSET D : a * f[s] + c * Cardinality(s) <= b * g[s]}
<1>4. {} \in Q
  <2>1. f[{}] = 0 /\ g[{}] = 0 /\ Cardinality({}) = 0
    BY <1>3, FS_EmptySet DEF SumUpTo
  <2> QED BY <2>1
<1>5. ASSUME NEW s \in SUBSET D, s # {}
      PROVE  \E x \in s : s \ {x} \in Q => s \in Q
  <2> DEFINE x == Taken(s)
             r == s \ {x}
  <2>1. x \in s /\ r \in SUBSET D
    BY <1>5 DEF Taken
  <2>2. f[s] = F[x] + f[r] /\ g[s] = G[x] + g[r]
    BY <1>3, <1>5 DEF SumUpTo
  <2>3. IsFiniteSet(s) /\ Cardinality(s) \in Nat /\ Cardinality(r) = Cardinality(s) - 1
    BY <2>1, FS_Subset, FS_CardinalityType, FS_RemoveElement
  <2>4. /\ F[x] \in Int /\ G[x] \in Int /\ f[r] \in Int /\ g[r] \in Int /\ f[s] \in Int /\ g[s] \in Int
        /\ a * F[x] + c <= b * G[x]
    BY <1>3, <2>1
  <2> HIDE DEF x, r
  <2>5. ASSUME r \in Q
        PROVE  s \in Q
    <3>1. a * f[r] + c * Cardinality(r) <= b * g[r]
      BY <2>5
    <3>2. \A F1, G1, f1, g1, n \in Int :
            a * F1 + c <= b * G1 /\ a * f1 + c * (n - 1) <= b * g1 => a * (F1 + f1) + c * n <= b * (G1 + g1)
      <4> SUFFICES ASSUME NEW F1 \in Int, NEW G1 \in Int, NEW f1 \in Int, NEW g1 \in Int, NEW n \in Int,
                          a * F1 + c <= b * G1, a * f1 + c * (n - 1) <= b * g1
                   PROVE  a * (F1 + f1) + c * n <= b * (G1 + g1)
          OBVIOUS
      <4>1. a * (F1 + f1) = a * F1 + a * f1 /\ b * (G1 + g1) = b * G1 + b * g1 /\ c * (n - 1) = c * n - c
          OBVIOUS
      <4>2. a * F1 \in Int /\ a * f1 \in Int /\ b * G1 \in Int /\ b * g1 \in Int /\ c * n \in Int
          OBVIOUS
      <4> QED BY <4>1, <4>2
    <3>3. a * f[s] + c * Cardinality(s) <= b * g[s]
      BY <2>2, <2>3, <2>4, <3>1, <3>2
    <3> QED BY <3>3
  <2> QED BY <2>1, <2>5 DEF r
<1> HIDE DEF Q
<1>6. D \in Q
    BY <1>4, <1>5, Removing
<1> QED BY <1>1, <1>2, <1>6 DEF Q

-------------------------------------------------------------------------------
(***************************************************************************)
(* The evidence of an explanation.                                         *)
(***************************************************************************)

LEMMA SumIsNatural ==
    ASSUME NEW F, IsFiniteSet(DOMAIN F), \A x \in DOMAIN F : F[x] \in Nat
    PROVE  SumFunction(F) \in Nat
<1>1. SumFunction(F) \in Int
    BY SumIsANumber
<1> DEFINE D == DOMAIN F
<1>2. IsFiniteSet(D) /\ Cardinality(D) \in Nat
    BY FS_CardinalityType
<1>3. 0 * SumFunction(F) + 0 * Cardinality(D) <= 1 * SumFunction(F)
  <2>1. DOMAIN F = D /\ 0 \in Int /\ 1 \in Int
    OBVIOUS
  <2>2. \A x \in D : F[x] \in Int /\ F[x] \in Int
    OBVIOUS
  <2>3. \A x \in D : 0 * F[x] + 0 <= 1 * F[x]
    OBVIOUS
  <2> HIDE DEF D
  <2> QED BY <1>2, <2>1, <2>2, <2>3, SumsCompare
<1> QED BY <1>1, <1>2, <1>3

\* The pods that stand out are not all there are: their p95s would add up to more
\* than they do.
LEMMA NotAllStandOut ==
    ASSUME AnalysisInv, NEW S \in SomeRows
    PROVE  AffectedPods(S) # {table[i].pod : i \in S}
<1> DEFINE pods   == {table[i].pod : i \in S}
           P95(p) == Percentile({i \in S : table[i].pod = p}, 95).n
           F      == [q \in pods |-> P95(q)]
           n      == Cardinality(pods)
           sum    == SumFunction(F)
<1>1. S \in SUBSET Rows /\ S # {} /\ IsFiniteSet(S)
    BY SomeRowsCount
<1>2. IsFiniteSet(pods) /\ pods # {}
  <2> DEFINE f == [i \in S |-> table[i].pod]
  <2>1. f \in Surjection(S, pods)
    BY DEF Surjection
  <2> QED BY <1>1, <2>1, FS_Surjection
<1>3. \A p \in pods : P95(p) \in Nat
  <2> TAKE p \in pods
  <2> DEFINE R == {i \in S : table[i].pod = p}
  <2>1. R \in SomeRows
    BY <1>1 DEF SomeRows
  <2>2. Percentile(R, 95) \in Fraction
    BY <2>1, PercentileIsAFraction
  <2>3. Percentile(R, 95).n \in Nat
    BY <2>2 DEF Fraction
  <2> QED BY <2>3
<1>4. AffectedPods(S) = {p \in pods : Outlier(P95(p), sum, n)}
    BY DEF AffectedPods
<1>5. DOMAIN F = pods /\ \A p \in pods : F[p] = P95(p)
    OBVIOUS
<1> SUFFICES ASSUME \A p \in pods : Outlier(P95(p), sum, n)
             PROVE  FALSE
    BY <1>4
<1> HIDE DEF pods, P95, F
<1>6. n \in Nat /\ n > 0
  <2>1. n \in Nat /\ n # 0
    BY <1>2, FS_CardinalityType, FS_EmptySet
  <2> QED BY <2>1
<1>7. sum \in Nat
    BY <1>2, <1>3, <1>5, SumIsNatural
<1> HIDE DEF sum
<1>8. \A p \in pods : 0 * F[p] + (13 * sum + 1) <= (10 * n) * F[p]
  <2> TAKE p \in pods
  <2>1. 10 * P95(p) * n > 13 * sum /\ P95(p) \in Nat /\ F[p] = P95(p)
    BY <1>3, <1>5 DEF Outlier
  <2> HIDE DEF n
  <2>2. 10 * P95(p) * n = (10 * n) * P95(p) /\ (10 * n) * P95(p) \in Int
    BY <1>6, <2>1
  <2> QED BY <1>7, <2>1, <2>2
<1>9. 0 * SumFunction(F) + (13 * sum + 1) * n <= (10 * n) * SumFunction(F)
  <2>1. 0 \in Int /\ 13 * sum + 1 \in Int /\ 10 * n \in Int /\ \A p \in pods : F[p] \in Int
    BY <1>3, <1>5, <1>6, <1>7
  <2> QED BY <1>2, <1>5, <1>8, <2>1, SumsCompare
<1>10. \A s, m \in Nat : m > 0 => ~((13 * s + 1) * m <= (10 * m) * s)
  <2> SUFFICES ASSUME NEW s \in Nat, NEW m \in Nat, m > 0
               PROVE  ~((13 * s + 1) * m <= (10 * m) * s)
      OBVIOUS
  <2>1. (13 * s + 1) * m = 13 * (m * s) + m /\ (10 * m) * s = 10 * (m * s) /\ m * s \in Nat
      OBVIOUS
  <2> QED BY <2>1
<1>11. SumFunction(F) = sum
    BY DEF sum
<1> HIDE DEF n
<1> QED BY <1>6, <1>7, <1>9, <1>10, <1>11

\* The changes of the phases change their sign with the direction.
LEMMA SamePhase ==
    ASSUME AnalysisInv, NEW B \in SUBSET Rows, NEW C \in SUBSET Rows, NEW e
    PROVE  LargestPhase(B, C, e) = LargestPhase(C, B, e)
<1> DEFINE Total(S, k) == SumFunction([i \in S |-> table[i].phase[k]])
           Moved(R, S, k) == Total(Of(S, e), k) * Cardinality(Of(R, e)) - Total(Of(R, e), k) * Cardinality(Of(S, e))
           Is(R, S, k) == /\ \A j \in DOMAIN Phases : ~MovedLess(Moved(R, S, k), Moved(R, S, j))
                          /\ \A j \in 1..k - 1 : MovedLess(Moved(R, S, j), Moved(R, S, k))
<1>1. \A R, S : LargestPhase(R, S, e) = CHOOSE k \in DOMAIN Phases : Is(R, S, k)
    BY DEF LargestPhase
<1>2. DOMAIN Phases = 1..Len(Phases) /\ Len(Phases) \in Nat
    BY RowsAssumption
<1>3. \A S \in SUBSET Rows : \A k \in 1..Len(Phases) :
          Total(Of(S, e), k) \in Int /\ Cardinality(Of(S, e)) \in Nat
  <2> TAKE S \in SUBSET Rows
  <2> TAKE k \in 1..Len(Phases)
  <2> DEFINE T == Of(S, e)
             F == [i \in T |-> table[i].phase[k]]
  <2>1. T \in SUBSET Rows
    BY DEF Of
  <2>2. IsFiniteSet(T) /\ Cardinality(T) \in Nat
    BY <2>1, RowsAreFinite
  <2>3. DOMAIN F = T /\ \A i \in T : F[i] \in Int
    BY <2>1, RowTypes
  <2>4. SumFunction(F) \in Int
    <3> HIDE DEF F, T
    <3> QED BY <2>2, <2>3, SumIsANumber
  <2> QED BY <2>2, <2>4
<1> HIDE DEF Total
<1>4. \A k \in 1..Len(Phases) : Abs(Moved(B, C, k)) = Abs(Moved(C, B, k))
  <2> TAKE k \in 1..Len(Phases)
  <2>1. \A b, c, x, y \in Int : Abs(c * x - b * y) = Abs(b * y - c * x)
    BY DEF Abs
  <2> QED BY <1>3, <2>1
<1>5. \A k \in DOMAIN Phases : Is(B, C, k) <=> Is(C, B, k)
  <2> TAKE k \in DOMAIN Phases
  <2>1. \A j \in 1..k - 1 : j \in 1..Len(Phases)
    BY <1>2
  <2> HIDE DEF Moved
  <2> QED BY <1>2, <1>4, <2>1 DEF MovedLess
<1> HIDE DEF Is
<1>6. (CHOOSE k \in DOMAIN Phases : Is(B, C, k)) = (CHOOSE k \in DOMAIN Phases : Is(C, B, k))
    BY <1>5
<1> QED BY <1>1, <1>6

LEMMA EvidenceRelates == AnalysisInv => EvidenceIsRelative
<1> SUFFICES ASSUME AnalysisInv, Answered("diagnose"), NEW e \in DOMAIN podsSeen
             PROVE  /\ podsSeen[e] # {} => AffectedPods(podsSeen[e]) # {table[i].pod : i \in podsSeen[e]}
                    /\ LargestPhase(BaselineRows(BottleneckAt), CurrentRows(BottleneckAt), e)
                       = LargestPhase(CurrentRows(BottleneckAt), BaselineRows(BottleneckAt), e)
    BY DEF EvidenceIsRelative
<1>1. podsSeen[e] # {} => podsSeen[e] \in SomeRows
    BY DEF AnalysisInv, AnswerInv, SomeRows
<1>2. seen \in Seq(SUBSET Rows) /\ Len(seen) = 6
    BY DiagnoseQueries DEF AnalysisInv, Progress, Answered
<1>3. BaselineRows(BottleneckAt) \in SUBSET Rows /\ CurrentRows(BottleneckAt) \in SUBSET Rows
  <2>1. \A k \in 1..6 : seen[k] \in SUBSET Rows
    BY <1>2, ElementOfSeq
  <2>2. seen[5] \in SUBSET Rows /\ seen[6] \in SUBSET Rows
    BY <2>1
  <2> QED BY <2>2 DEF BaselineRows, CurrentRows, BottleneckAt
<1> QED BY <1>1, <1>3, NotAllStandOut, SamePhase

\* Affected pods are never all pods of an endpoint, and the phase that moved most
\* is the same in whichever direction the runs are compared (explain.go 94-138,
\* bottleneck.go 87-111).
THEOREM EvidenceIsAboutDifferences == Spec => []EvidenceIsRelative
BY AnalysisInvariant, EvidenceRelates, PTL

-------------------------------------------------------------------------------
(***************************************************************************)
(* The baseline of several runs.                                           *)
(***************************************************************************)

\* A quotient of sums lies between the quotients of their terms.
LEMMA MeanIsBetween ==
    ASSUME NEW D, IsFiniteSet(D), D # {}, NEW F, NEW G, DOMAIN F = D, DOMAIN G = D,
           \A x \in D : F[x] \in Int /\ G[x] \in Int
    PROVE  /\ \E x \in D : ~(SumFunction(F) * G[x] < F[x] * SumFunction(G))
           /\ \E x \in D : ~(F[x] * SumFunction(G) < SumFunction(F) * G[x])
<1> DEFINE f == SumFunction(F)
           g == SumFunction(G)
           n == Cardinality(D)
<1>1. f \in Int /\ g \in Int /\ n \in Nat /\ n > 0
  <2>1. f \in Int /\ g \in Int
    BY SumIsANumber
  <2>2. n \in Nat /\ n # 0
    BY FS_CardinalityType, FS_EmptySet
  <2> QED BY <2>1, <2>2
<1>2. ASSUME \A x \in D : f * G[x] < F[x] * g
      PROVE  FALSE
  <2>1. \A x \in D : f * G[x] + 1 <= g * F[x]
    <3> HIDE DEF f, g
    <3>1. \A u, v \in Int : f * v < u * g => f * v + 1 <= g * u
      <4> TAKE u, v \in Int
      <4>1. f * v \in Int /\ u * g \in Int /\ g * u = u * g
        BY <1>1
      <4> QED BY <4>1
    <3> QED BY <1>2, <3>1
  <2>2. f * g + 1 * n <= g * f
    <3> HIDE DEF f, g
    <3>1. f * SumFunction(G) + 1 * Cardinality(D) <= g * SumFunction(F)
      <4>1. 1 \in Int /\ \A x \in D : G[x] \in Int /\ F[x] \in Int
        OBVIOUS
      <4> QED BY <1>1, <2>1, <4>1, SumsCompare
    <3> QED BY <3>1 DEF f, g
  <2> HIDE DEF f, g, n
  <2>3. f * g \in Int /\ g * f = f * g
    BY <1>1
  <2> QED BY <1>1, <2>2, <2>3
<1>3. ASSUME \A x \in D : F[x] * g < f * G[x]
      PROVE  FALSE
  <2>1. \A x \in D : g * F[x] + 1 <= f * G[x]
    <3> HIDE DEF f, g
    <3>1. \A u, v \in Int : u * g < f * v => g * u + 1 <= f * v
      <4> TAKE u, v \in Int
      <4>1. f * v \in Int /\ u * g \in Int /\ g * u = u * g
        BY <1>1
      <4> QED BY <4>1
    <3> QED BY <1>3, <3>1
  <2>2. g * f + 1 * n <= f * g
    <3> HIDE DEF f, g
    <3>1. g * SumFunction(F) + 1 * Cardinality(D) <= f * SumFunction(G)
      <4>1. 1 \in Int
        OBVIOUS
      <4> QED BY <1>1, <2>1, <4>1, SumsCompare
    <3> QED BY <3>1 DEF f, g
  <2> HIDE DEF f, g, n
  <2>3. f * g \in Int /\ g * f = f * g
    BY <1>1
  <2> QED BY <1>1, <2>2, <2>3
<1> QED BY <1>2, <1>3

LEMMA SumOfOnes ==
    ASSUME NEW D, IsFiniteSet(D)
    PROVE  SumFunction([x \in D |-> 1]) = Cardinality(D)
<1> DEFINE F == [x \in D |-> 1]
           G == [x \in D |-> 0]
<1>1. /\ DOMAIN F = D /\ DOMAIN G = D
      /\ \A x \in D : F[x] \in Int /\ G[x] \in Int
      /\ \A x \in D : 0 * G[x] + 1 <= 1 * F[x]
      /\ \A x \in D : 1 * F[x] + (-1) <= 0 * G[x]
    OBVIOUS
<1> HIDE DEF F, G
<1>2. SumFunction(F) \in Int /\ SumFunction(G) \in Int /\ Cardinality(D) \in Nat
    BY <1>1, SumIsANumber, FS_CardinalityType
<1>3. 0 * SumFunction(G) + 1 * Cardinality(D) <= 1 * SumFunction(F)
  <2>1. 0 \in Int /\ 1 \in Int
    OBVIOUS
  <2> QED BY <1>1, <2>1, SumsCompare
<1>4. 1 * SumFunction(F) + (-1) * Cardinality(D) <= 0 * SumFunction(G)
  <2>1. 0 \in Int /\ 1 \in Int /\ -1 \in Int
    OBVIOUS
  <2> QED BY <1>1, <2>1, SumsCompare
<1>5. SumFunction(F) = Cardinality(D)
    BY <1>2, <1>3, <1>4
<1> QED BY <1>5 DEF F

LEMMA BaselineIsBetween == AnalysisInv => BaselineIsBetweenItsRuns
<1> SUFFICES ASSUME AnalysisInv, Answered("baseline"), NEW m \in Statistics \cup {"ERROR_RATE"}
             PROVE  /\ \E k \in Valid(seen) : ~Less(Baseline(seen)[m], RunStats(seen[k])[m])
                    /\ \E k \in Valid(seen) : ~Less(RunStats(seen[k])[m], Baseline(seen)[m])
    BY DEF BaselineIsBetweenItsRuns
<1> DEFINE V == Valid(seen)
<1>1. IsFiniteSet(V) /\ V # {} /\ \A k \in V : seen[k] \in SomeRows
  <2>1. seen \in Seq(SUBSET Rows) /\ V # {}
    BY DEF AnalysisInv, Progress, AnswerInv, Answered
  <2>2. DOMAIN seen = 1..Len(seen) /\ Len(seen) \in Nat /\ \A k \in 1..Len(seen) : seen[k] \in SUBSET Rows
    BY <2>1, ElementOfSeq
  <2>3. IsFiniteSet(DOMAIN seen)
    BY <2>2, FS_Interval
  <2>4. V \subseteq DOMAIN seen /\ \A k \in V : seen[k] # {}
    BY DEF Valid, NoStats
  <2>5. IsFiniteSet(V)
    BY <2>3, <2>4, FS_Subset
  <2> QED BY <2>1, <2>2, <2>4, <2>5 DEF SomeRows
<1>2. ASSUME NEW p \in {50, 95, 99},
             Baseline(seen)[m] = Average(SumFunction([k \in V |-> Percentile(seen[k], p).n]), Cardinality(V), Len(seen)),
             \A k \in V : RunStats(seen[k])[m] = Percentile(seen[k], p)
      PROVE  /\ \E k \in V : ~Less(Baseline(seen)[m], RunStats(seen[k])[m])
             /\ \E k \in V : ~Less(RunStats(seen[k])[m], Baseline(seen)[m])
  <2> DEFINE F == [k \in V |-> Percentile(seen[k], p).n]
             G == [k \in V |-> 1]
  <2>1. \A k \in V : Percentile(seen[k], p).n \in Nat /\ Percentile(seen[k], p).d = 100
    <3> TAKE k \in V
    <3>1. seen[k] \in SomeRows
      BY <1>1
    <3>2. Percentile(seen[k], p) \in Fraction /\ Percentile(seen[k], p).d = 100
      BY <3>1, PercentileIsAFraction
    <3> QED BY <3>2 DEF Fraction
  <2>2. DOMAIN F = V /\ DOMAIN G = V /\ \A k \in V : F[k] = Percentile(seen[k], p).n /\ G[k] = 1
    OBVIOUS
  <2>3. SumFunction(G) = Cardinality(V)
    BY <1>1, SumOfOnes
  <2>4. Baseline(seen)[m] = [n |-> SumFunction(F), d |-> 100 * Cardinality(V)]
    BY <1>2 DEF Average
  <2> HIDE DEF V, F, G
  <2>5. \A k \in V : F[k] \in Int /\ G[k] \in Int
    BY <2>1, <2>2
  <2>6. SumFunction(F) \in Int /\ Cardinality(V) \in Int
    BY <1>1, <2>2, <2>5, SumIsANumber, FS_CardinalityType
  <2>7. /\ \E k \in V : ~(SumFunction(F) * G[k] < F[k] * SumFunction(G))
        /\ \E k \in V : ~(F[k] * SumFunction(G) < SumFunction(F) * G[k])
    BY <1>1, <2>2, <2>5, MeanIsBetween
  <2>8. \A s, c, u \in Int : /\ s * 100 < u * (100 * c) => s * 1 < u * c
                             /\ u * (100 * c) < s * 100 => u * c < s * 1
    <3> TAKE s, c, u \in Int
    <3>1. u * (100 * c) = 100 * (u * c) /\ u * c \in Int
      OBVIOUS
    <3> QED BY <3>1
  <2>9. ASSUME NEW k \in V
        PROVE  /\ Less(Baseline(seen)[m], RunStats(seen[k])[m]) => SumFunction(F) * G[k] < F[k] * SumFunction(G)
               /\ Less(RunStats(seen[k])[m], Baseline(seen)[m]) => F[k] * SumFunction(G) < SumFunction(F) * G[k]
    <3>1. RunStats(seen[k])[m].n = F[k] /\ RunStats(seen[k])[m].d = 100 /\ F[k] \in Int
      BY <1>2, <2>1, <2>2, <2>5
    <3>2. Baseline(seen)[m].n = SumFunction(F) /\ Baseline(seen)[m].d = 100 * Cardinality(V)
      BY <2>4
    <3> QED BY <2>2, <2>3, <2>6, <2>8, <3>1, <3>2 DEF Less
  <2> QED BY <2>7, <2>9
<1>3. CASE m = "ERROR_RATE"
  <2> DEFINE F == [k \in V |-> Errors(seen[k])]
             G == [k \in V |-> Cardinality(seen[k])]
  <2>1. \A k \in V : Errors(seen[k]) \in Int /\ Cardinality(seen[k]) \in Int
    <3> TAKE k \in V
    <3>1. seen[k] \in SUBSET Rows /\ {i \in seen[k] : table[i].failed} \in SUBSET Rows
      BY <1>1 DEF SomeRows
    <3> QED BY <3>1, RowsAreFinite DEF Errors
  <2>2. DOMAIN F = V /\ DOMAIN G = V
        /\ \A k \in V : F[k] = Errors(seen[k]) /\ G[k] = Cardinality(seen[k])
    OBVIOUS
  <2>3. Baseline(seen)[m] = [n |-> 100 * SumFunction(F), d |-> SumFunction(G)]
    BY <1>3 DEF Baseline
  <2> HIDE DEF V, F, G
  <2>4. \A k \in V : F[k] \in Int /\ G[k] \in Int
    BY <2>1, <2>2
  <2>5. SumFunction(F) \in Int /\ SumFunction(G) \in Int
    BY <1>1, <2>2, <2>4, SumIsANumber
  <2>6. /\ \E k \in V : ~(SumFunction(F) * G[k] < F[k] * SumFunction(G))
        /\ \E k \in V : ~(F[k] * SumFunction(G) < SumFunction(F) * G[k])
    BY <1>1, <2>2, <2>4, MeanIsBetween
  <2>7. \A f, g, u, v \in Int : /\ (100 * f) * v < (100 * u) * g => f * v < u * g
                                /\ (100 * u) * g < (100 * f) * v => u * g < f * v
    <3> TAKE f, g, u, v \in Int
    <3>1. (100 * f) * v = 100 * (f * v) /\ (100 * u) * g = 100 * (u * g) /\ f * v \in Int /\ u * g \in Int
      OBVIOUS
    <3> QED BY <3>1
  <2>8. ASSUME NEW k \in V
        PROVE  /\ Less(Baseline(seen)[m], RunStats(seen[k])[m]) => SumFunction(F) * G[k] < F[k] * SumFunction(G)
               /\ Less(RunStats(seen[k])[m], Baseline(seen)[m]) => F[k] * SumFunction(G) < SumFunction(F) * G[k]
    <3>1. RunStats(seen[k])[m].n = 100 * F[k] /\ RunStats(seen[k])[m].d = G[k]
      BY <1>3, <2>2 DEF RunStats, ErrorRate
    <3>2. Baseline(seen)[m].n = 100 * SumFunction(F) /\ Baseline(seen)[m].d = SumFunction(G)
      BY <2>3
    <3>3. F[k] \in Int /\ G[k] \in Int
      BY <2>4
    <3>4. /\ Less(Baseline(seen)[m], RunStats(seen[k])[m])
             <=> (100 * SumFunction(F)) * G[k] < (100 * F[k]) * SumFunction(G)
          /\ Less(RunStats(seen[k])[m], Baseline(seen)[m])
             <=> (100 * F[k]) * SumFunction(G) < (100 * SumFunction(F)) * G[k]
      BY <3>1, <3>2, Zenon DEF Less
    <3> QED BY <2>5, <2>7, <3>3, <3>4
  <2> QED BY <2>6, <2>8, Zenon DEF V
<1>4. CASE m = "P50_RTT"
  <2>1. /\ Baseline(seen)[m] = Average(SumFunction([k \in V |-> Percentile(seen[k], 50).n]), Cardinality(V), Len(seen))
        /\ \A k \in V : RunStats(seen[k])[m] = Percentile(seen[k], 50)
    BY <1>4 DEF Baseline, RunStats
  <2> QED BY <1>2, <2>1
<1>5. CASE m = "P95_RTT"
  <2>1. /\ Baseline(seen)[m] = Average(SumFunction([k \in V |-> Percentile(seen[k], 95).n]), Cardinality(V), Len(seen))
        /\ \A k \in V : RunStats(seen[k])[m] = Percentile(seen[k], 95)
    BY <1>5 DEF Baseline, RunStats
  <2> QED BY <1>2, <2>1
<1>6. CASE m = "P99_RTT"
  <2>1. /\ Baseline(seen)[m] = Average(SumFunction([k \in V |-> Percentile(seen[k], 99).n]), Cardinality(V), Len(seen))
        /\ \A k \in V : RunStats(seen[k])[m] = Percentile(seen[k], 99)
    BY <1>6 DEF Baseline, RunStats
  <2> QED BY <1>2, <2>1
<1> QED BY <1>3, <1>4, <1>5, <1>6 DEF Statistics

\* The baseline lies between the runs that it is made of, in every percentile and
\* in the error rate, whichever runs CalculateBaseline had to leave out
\* (comparator.go 331-360).
THEOREM BaselineIsAMean == Spec => []BaselineIsBetweenItsRuns
BY AnalysisInvariant, BaselineIsBetween, PTL

-------------------------------------------------------------------------------
(***************************************************************************)
(* Findings and explanations.                                              *)
(***************************************************************************)

LEMMA DisjointCount ==
    ASSUME NEW S \in SUBSET Rows, NEW T \in SUBSET Rows, S \cap T = {}
    PROVE  Cardinality(S \cup T) = Cardinality(S) + Cardinality(T)
<1>1. IsFiniteSet(S) /\ IsFiniteSet(T) /\ Cardinality(S) \in Nat /\ Cardinality(T) \in Nat
    BY RowsAreFinite
<1>2. Cardinality(S \cup T) = Cardinality(S) + Cardinality(T) - Cardinality(S \cap T)
    BY <1>1, FS_Union
<1>3. Cardinality(S \cap T) = 0
    BY FS_EmptySet
<1> QED BY <1>1, <1>2, <1>3

\* If no endpoint of a run is over the limit, the run is not.
LEMMA LimitOfTheWhole ==
    ASSUME NEW C \in SUBSET Rows, NEW limits, limits["ERROR_RATE_ABSOLUTE"] \in Int,
           \A e \in EndpointsIn(C) : ~OverLimit(ErrorRate(Of(C, e)), limits)
    PROVE  ~OverLimit(ErrorRate(C), limits)
<1> DEFINE K == limits["ERROR_RATE_ABSOLUTE"]
           E == EndpointsIn(C)
           Part(s) == {i \in C : table[i].endpoint \in s}
           Failed(S) == {i \in S : table[i].failed}
           Q == {s \in SUBSET E : 100 * Cardinality(Failed(Part(s))) <= K * Cardinality(Part(s))}
<1>1. IsFiniteSet(E)
  <2> DEFINE f == [i \in C |-> table[i].endpoint]
  <2>1. IsFiniteSet(C)
    BY RowsAreFinite
  <2>2. f \in Surjection(C, E)
    BY DEF Surjection, EndpointsIn
  <2> QED BY <2>1, <2>2, FS_Surjection
<1>2. \A S : OverLimit(ErrorRate(S), limits) <=> 100 * Cardinality(Failed(S)) > K * Cardinality(S)
    BY DEF OverLimit, ErrorRate, Errors
<1>3. \A S \in SUBSET Rows : Cardinality(S) \in Nat /\ Cardinality(Failed(S)) \in Nat
  <2> TAKE S \in SUBSET Rows
  <2>1. Failed(S) \in SUBSET Rows
    OBVIOUS
  <2> HIDE DEF Failed
  <2> QED BY <2>1, RowsAreFinite
<1>4. K \in Int
    OBVIOUS
<1>5. {} \in Q
  <2>1. Part({}) = {} /\ Failed(Part({})) = {}
    OBVIOUS
  <2>2. Cardinality({}) = 0
    BY FS_EmptySet
  <2> HIDE DEF Part, Failed, K
  <2> QED BY <1>4, <2>1, <2>2
<1>6. ASSUME NEW s \in SUBSET E, NEW e \in s, s \ {e} \in Q
      PROVE  s \in Q
  <2> DEFINE R == Part(s \ {e})
             T == Of(C, e)
  <2>1. /\ Part(s) = R \cup T /\ R \cap T = {} /\ R \in SUBSET Rows /\ T \in SUBSET Rows
        /\ Failed(Part(s)) = Failed(R) \cup Failed(T) /\ Failed(R) \cap Failed(T) = {}
        /\ Failed(R) \in SUBSET Rows /\ Failed(T) \in SUBSET Rows
    <3>1. Part(s) = R \cup T /\ R \cap T = {} /\ R \in SUBSET Rows /\ T \in SUBSET Rows
      BY DEF Of
    <3> HIDE DEF Part, R, T
    <3> QED BY <3>1
  <2> HIDE DEF Part, Failed, R, T, K
  <2>2. /\ Cardinality(Part(s)) = Cardinality(R) + Cardinality(T)
        /\ Cardinality(Failed(Part(s))) = Cardinality(Failed(R)) + Cardinality(Failed(T))
    BY <2>1, DisjointCount
  <2>3. 100 * Cardinality(Failed(R)) <= K * Cardinality(R)
    BY <1>6 DEF R
  <2>4. 100 * Cardinality(Failed(T)) <= K * Cardinality(T)
    <3>1. ~(100 * Cardinality(Failed(T)) > K * Cardinality(T))
      BY <1>2 DEF T
    <3> QED BY <1>3, <1>4, <2>1, <3>1
  <2>5. \A a, b, c, d \in Nat : 100 * a <= K * c /\ 100 * b <= K * d => 100 * (a + b) <= K * (c + d)
    <3> TAKE a, b, c, d \in Nat
    <3>1. K * (c + d) = K * c + K * d /\ K * c \in Int /\ K * d \in Int
      BY <1>4
    <3> QED BY <3>1
  <2>6. 100 * Cardinality(Failed(Part(s))) <= K * Cardinality(Part(s))
    BY <1>3, <2>1, <2>2, <2>3, <2>4, <2>5
  <2> QED BY <2>6
<1>7. E \in Q
  <2>1. \A s \in SUBSET E : s # {} => \E e \in s : s \ {e} \in Q => s \in Q
    BY <1>6
  <2> HIDE DEF Q, E
  <2> QED BY <1>1, <1>5, <2>1, Removing
<1>8. Part(E) = C
    BY DEF EndpointsIn
<1>9. 100 * Cardinality(Failed(C)) <= K * Cardinality(C)
  <2> HIDE DEF Part, Failed, K, E
  <2> QED BY <1>7, <1>8
<1> HIDE DEF Failed, K
<1> QED BY <1>2, <1>3, <1>4, <1>9

\* The findings that are there, and whether one of them is critical.
FindingsAre(B, C, limits, findings) ==
    /\ {f.scope : f \in findings} = Explained(B, C, limits)
    /\ (\E e \in Compared(B, C) : Failing(B, C, e, limits)) => \E f \in findings : f.metric = "error_rate"
    /\ \A e \in Explained(B, C, limits) :
          ExplainedAsCritical(B, C, e, limits) <=> \E f \in findings : f.scope = e /\ f.critical

LEMMA FindingsMean ==
    ASSUME AnalysisInv, NEW B \in SUBSET Rows, NEW C \in SUBSET Rows, NEW limits,
           \A m \in Limits : limits[m] \in Int
    PROVE  FindingsAre(B, C, limits, DetectEndpointRegressions(B, C, limits))
<1> DEFINE rose == {x \in Compared(B, C) : LatencyRose(B, C, x, limits["P95_RTT"])}
           over == {x \in Compared(B, C) : Failing(B, C, x, limits)}
           Latency(e) == [metric |-> "p95_rtt", scope |-> e, critical |-> LatencyRose(B, C, e, 2 * limits["P95_RTT"])]
           Rate(e) == [metric |-> "error_rate", scope |-> e, critical |-> TRUE]
           findings == DetectEndpointRegressions(B, C, limits)
<1>1. findings = {Latency(e) : e \in rose} \cup {Rate(e) : e \in over}
    BY Zenon DEF DetectEndpointRegressions
<1>2. Explained(B, C, limits) = rose \cup over
    BY DEF Explained
<1>3. \A e : Latency(e).scope = e /\ Rate(e).scope = e /\ Rate(e).metric = "error_rate"
             /\ (Latency(e).critical <=> LatencyRose(B, C, e, 2 * limits["P95_RTT"])) /\ Rate(e).critical
  <2>1. \A e : Latency(e).scope = e /\ Rate(e).scope = e /\ Rate(e).metric = "error_rate" /\ Rate(e).critical
    OBVIOUS
  <2>2. \A e : Latency(e).critical = LatencyRose(B, C, e, 2 * limits["P95_RTT"])
    BY Zenon
  <2> HIDE DEF Latency, Rate
  <2> QED BY <2>1, <2>2, Zenon
<1> HIDE DEF findings, Latency, Rate
<1>5. {f.scope : f \in findings} = rose \cup over
    BY <1>1, <1>3
<1>6. \A e \in over : \E f \in findings : f.metric = "error_rate" /\ f.scope = e /\ f.critical
    BY <1>1, <1>3, Zenon
<1>7. ASSUME NEW e \in Explained(B, C, limits)
      PROVE  ExplainedAsCritical(B, C, e, limits) <=> \E f \in findings : f.scope = e /\ f.critical
  <2>1. e \in Compared(B, C)
    BY DEF Explained
  <2>2. ExplainedAsCritical(B, C, e, limits)
        <=> Failing(B, C, e, limits) \/ LatencyRose(B, C, e, 2 * limits["P95_RTT"])
    BY Zenon DEF ExplainedAsCritical, Severe
  <2>3. Failing(B, C, e, limits) => \E f \in findings : f.scope = e /\ f.critical
    <3>1. Failing(B, C, e, limits) => e \in over
      BY <2>1
    <3> QED BY <1>6, <3>1, Zenon
  <2>4. LatencyRose(B, C, e, 2 * limits["P95_RTT"]) => \E f \in findings : f.scope = e /\ f.critical
    <3>1. e \in rose => Latency(e) \in findings
      BY <1>1
    <3> QED BY <1>2, <1>3, <1>6, <3>1, Zenon
  <2>5. ASSUME NEW f \in findings, f.scope = e, f.critical
        PROVE  Failing(B, C, e, limits) \/ LatencyRose(B, C, e, 2 * limits["P95_RTT"])
    <3>1. CASE \E x \in rose : f = Latency(x)
      <4>1. PICK x \in rose : f = Latency(x)
        BY <3>1
      <4>2. x = e
        BY <1>3, <2>5, <4>1
      <4> QED BY <1>3, <2>5, <4>1, <4>2, Zenon
    <3>2. CASE \E x \in over : f = Rate(x)
      <4>1. PICK x \in over : f = Rate(x)
        BY <3>2
      <4>2. x = e
        BY <1>3, <2>5, <4>1
      <4>3. Failing(B, C, x, limits)
        BY <4>1
      <4> QED BY <4>2, <4>3
    <3> QED BY <1>1, <3>1, <3>2
  <2> QED BY <2>2, <2>3, <2>4, <2>5, Zenon
<1>8. (\E e \in Compared(B, C) : Failing(B, C, e, limits)) => \E f \in findings : f.metric = "error_rate"
    BY <1>6
<1>9. {f.scope : f \in findings} = Explained(B, C, limits)
    BY <1>2, <1>5
<1> QED BY <1>7, <1>8, <1>9, Zenon DEF findings, FindingsAre

LEMMA FindingsFollow == AnalysisInv => FindingsAreExplained
<1> SUFFICES ASSUME AnalysisInv, Answered("diagnose"), AtRest
             PROVE  FindingsAreExplained
    BY DEF FindingsAreExplained
<1> DEFINE limits   == question.thresholds
           B        == BaselineRows(1)
           C        == CurrentRows(1)
           findings == DetectEndpointRegressions(B, C, limits)
<1>1. /\ question \in Questions /\ question.kind = "diagnose" /\ stage = "answered"
      /\ seen \in Seq(SUBSET Rows) /\ Len(seen) = 6 /\ DOMAIN podsSeen = ToExplain
    BY DiagnoseQueries DEF AnalysisInv, Progress, AnswerInv, Answered
<1>2. B = seen[1] /\ C = seen[2] /\ BaselineRows(ExplainAt) = seen[3] /\ CurrentRows(ExplainAt) = seen[4]
    BY DEF BaselineRows, CurrentRows, ExplainAt
<1>3. DOMAIN seen = 1..6 /\ \A k \in 1..6 : seen[k] \in SUBSET Rows
  <2>1. seen \in Seq(SUBSET Rows) /\ Len(seen) = 6
    BY <1>1
  <2>2. \A k \in 1..6 : seen[k] \in SUBSET Rows
    BY <2>1, ElementOfSeq
  <2> QED BY <2>1, <2>2
<1>4. seen[3] = seen[1] /\ seen[4] = seen[2]
  <2>1. Queries[1] = Queries[3] /\ Queries[2] = Queries[4]
    BY <1>1, DiagnoseQueries
  <2> QED BY <1>3, <2>1 DEF AtRest
<1>5. B \in SUBSET Rows /\ C \in SUBSET Rows /\ BaselineRows(ExplainAt) = B /\ CurrentRows(ExplainAt) = C
  <2>1. seen[1] \in SUBSET Rows /\ seen[2] \in SUBSET Rows
    BY <1>3
  <2> QED BY <1>2, <1>4, <2>1
<1>6. DOMAIN podsSeen = Explained(B, C, limits)
    BY <1>1, <1>5 DEF ToExplain
<1>7. \A m \in Limits : limits[m] \in Int
    BY LimitsAreNumbers
<1> HIDE DEF B, C, limits
<1>8. /\ {f.scope : f \in findings} = DOMAIN podsSeen
      /\ (\E e \in Compared(B, C) : Failing(B, C, e, limits)) => \E f \in findings : f.metric = "error_rate"
      /\ \A e \in DOMAIN podsSeen :
            ExplainedAsCritical(B, C, e, limits) <=> \E f \in findings : f.scope = e /\ f.critical
  <2> HIDE DEF findings
  <2>1. FindingsAre(B, C, limits, findings)
    BY <1>5, <1>7, FindingsMean DEF findings
  <2> QED BY <1>6, <2>1, Zenon DEF FindingsAre
<1>9. ASSUME C # {}, EndpointsIn(C) \subseteq EndpointsIn(B), OverLimit(ErrorRate(C), limits)
      PROVE  \E f \in findings : f.metric = "error_rate"
  <2>1. limits["ERROR_RATE_ABSOLUTE"] \in Int
    BY <1>7 DEF Limits
  <2>2. PICK e \in EndpointsIn(C) : OverLimit(ErrorRate(Of(C, e)), limits)
    BY <1>5, <1>9, <2>1, LimitOfTheWhole
  <2>3. e \in Compared(B, C) /\ Failing(B, C, e, limits)
    BY <1>9, <2>2 DEF Compared, Failing, ErrorsOverLimit
  <2> QED BY <1>8, <2>3
<1>10. \A e \in DOMAIN podsSeen :
            ExplainedAsCritical(BaselineRows(ExplainAt), CurrentRows(ExplainAt), e, limits)
            <=> \E f \in findings : f.scope = e /\ f.critical
    BY <1>5, <1>8, Zenon
<1> QED BY <1>8, <1>9, <1>10, Zenon DEF FindingsAreExplained, B, C, limits

\* While nothing is stored, a diagnosis explains the endpoints it has findings for,
\* as severely; and it has one when the run as a whole fails too often, unless the
\* baseline lacks an endpoint (analysis_handlers.go 268, comparator.go 182,
\* regression.go 102).
THEOREM FindingsHaveExplanations == Spec => []FindingsAreExplained
BY AnalysisInvariant, FindingsFollow, PTL

=============================================================================
