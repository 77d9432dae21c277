---------------------------- MODULE ControllerProofs ----------------------------
(***************************************************************************)
(* Proofs about Controller, for every set of pods and callers and every    *)
(* bound.  ControllerInv is inductive.  Beside the properties of           *)
(* Controller it says what the goroutines of a call know: what the budget  *)
(* of GetStats is, that a pod which a running call has copied is either    *)
(* registered or was lost to UnregisterPod, and that WaitForCompletion has *)
(* written what a pod answered wherever nobody else wrote.                 *)
(***************************************************************************)
EXTENDS Controller, FiniteSetTheorems, TLAPS

Waiting(f) == op[f] = "wait" /\ phase[f] # "idle"

\* The stages of a goroutine's work belong to what was called, and WaitForCompletion
\* starts a round in time only and is the one call that sleeps (controller.go 325-359).
StageInv(f) ==
    /\ \A t \in tasks[f] :
          /\ t.stage = "mark" => op[f] = "flush"
          /\ t.stage = "size" => op[f] \in {"health", "wait"}
          /\ t.stage = "status" => op[f] # "stats"
    /\ phase[f] # "idle" => op[f] # "none"
    /\ phase[f] = "sleep" => op[f] = "wait"
    /\ op[f] = "wait" /\ phase[f] \in {"running", "sleep"} => rounds[f] > 0

\* GetStats has added at most MaxLoad for each goroutine that has answered.
TotalInv(f) ==
    /\ op[f] # "stats" \/ phase[f] = "go" => total[f] = 0
    /\ total[f] + MaxLoad * Cardinality(tasks[f]) <= MaxLoad * Cardinality(Names)

\* A pod that a running call has copied is registered, unless the call is bereft.
CopiedInv(f) ==
    phase[f] = "running" /\ f \notin bereft => snap[f] \subseteq Registered

\* What goroutine t of WaitForCompletion has heard and will still write.
HeardInv(f, t) ==
    LET v == told[f][t.name] IN
    /\ t.stage = "ask" => v = "nothing"
    /\ t.stage # "ask" => v # "nothing"
    /\ t.stage # "ask" /\ v = "loaded" => t.ok
    /\ t.stage = "size" /\ v = "loaded" => t.size > 0
    /\ t.stage = "status" /\ v = "loaded" /\ t.name \notin touched[f] =>
          pods[t.name].size > 0

\* What WaitForCompletion has written for a pod that nobody else wrote.
WrittenInv(f, n) ==
    /\ pods[n].gen # 0
    /\ (\A t \in tasks[f] : t.name # n) =>
          /\ told[f][n] # "nothing"
          /\ told[f][n] = "loaded" => pods[n].status = "healthy" /\ pods[n].size > 0

RoundInv(f) ==
    op[f] = "wait" /\ phase[f] = "running" =>
        /\ \A t \in tasks[f] : HeardInv(f, t)
        /\ \A n \in snap[f] \ touched[f] : WrittenInv(f, n)

\* What DrainedOrUnseen says of one caller.
DrainedInv(f) ==
    outcome[f] = "empty" =>
        /\ phase[f] = "idle"
        /\ \A n \in snap[f] \ touched[f] : told[f][n] \in {"empty", "failed", "garbled"}

CallInv(f) ==
    /\ StageInv(f) /\ TotalInv(f) /\ CopiedInv(f) /\ RoundInv(f) /\ DrainedInv(f)

ControllerInv ==
    /\ FlushingHasFlusher
    /\ PanicNeedsUnregister
    /\ \A f \in Callers : DrainedInv(f)
    /\ ~panicked => \A f \in Callers : CallInv(f)

-------------------------------------------------------------------------------
(***************************************************************************)
(* Goroutines.                                                             *)
(***************************************************************************)

\* Goroutines with different names are at most as many as there are names.
LEMMA OnePerName ==
    ASSUME NEW T \in SUBSET Tasks, \A t, u \in T : t.name = u.name => t = u
    PROVE  /\ IsFiniteSet(T)
           /\ Cardinality(T) \in Nat
           /\ Cardinality(Names) \in Nat
           /\ Cardinality(T) <= Cardinality(Names)
<1> DEFINE name == [t \in T |-> t.name]
<1>1. IsFiniteSet(Names)
    BY ControllerAssumption
<1>2. \A t \in T : t.name \in Names
    BY DEF Tasks
<1>3. name \in Injection(T, Names)
    BY <1>2 DEF Injection, IsInjective
<1> QED BY <1>1, <1>3, FS_Injection, FS_CardinalityType

LEMMA TasksFinite ==
    ASSUME TypeOK, NEW f \in Callers
    PROVE  /\ IsFiniteSet(tasks[f])
           /\ Cardinality(tasks[f]) \in Nat
           /\ Cardinality(Names) \in Nat
           /\ Cardinality(tasks[f]) <= Cardinality(Names)
BY OnePerName DEF TypeOK

\* What TypeOK says of the goroutines of one call.
OnePerPod(f) ==
    /\ tasks[f] \subseteq Tasks
    /\ \A t, u \in tasks[f] : t.name = u.name => t = u
    /\ \A t \in tasks[f] : t.name \in snap[f]
    /\ tasks[f] # {} => phase[f] = "running"

\* The rest of it.
TypedState ==
    /\ pods \in [Names -> [gen : 0..MaxRegs, status : Statuses, size : 0..MaxLoad]]
    /\ runs \in [RunIds -> [status : {"none", "running", "completed"}, pods : SUBSET Names]]
    /\ regs \in 0..MaxRegs
    /\ calls \in 0..MaxCalls
    /\ panicked \in BOOLEAN
    /\ op \in [Callers -> Ops \cup {"none"}]
    /\ phase \in [Callers -> {"idle", "go", "running", "sleep"}]
    /\ DOMAIN tasks = Callers /\ tasks = [f \in Callers |-> tasks[f]]
    /\ rounds \in [Callers -> 0..MaxRounds]
    /\ outcome \in [Callers -> {"none", "empty", "error"}]
    /\ total \in [Callers -> 0..MaxLoad * Cardinality(Names)]
    /\ snap \in [Callers -> SUBSET Names]
    /\ told \in [Callers -> [Names -> {"nothing", "empty", "loaded", "garbled", "failed"}]]
    /\ touched \in [Callers -> SUBSET Names]
    /\ bereft \subseteq Callers

LEMMA TypeParts == TypeOK <=> TypedState /\ \A f \in Callers : OnePerPod(f)
<1>1. ASSUME TypeOK
      PROVE  TypedState /\ \A f \in Callers : OnePerPod(f)
    <2>1. DOMAIN tasks = Callers /\ tasks = [f \in Callers |-> tasks[f]]
        BY <1>1 DEF TypeOK
    <2>2. TypedState
        BY <1>1, <2>1 DEF TypeOK, TypedState
    <2>3. \A f \in Callers : OnePerPod(f)
        BY <1>1 DEF TypeOK, OnePerPod
    <2> QED BY <2>2, <2>3
<1>2. ASSUME TypedState, \A f \in Callers : OnePerPod(f)
      PROVE  TypeOK
    <2>1. tasks \in [Callers -> SUBSET Tasks]
        BY <1>2 DEF TypedState, OnePerPod
    <2>2. \A f \in Callers :
              /\ \A t, u \in tasks[f] : t.name = u.name => t = u
              /\ \A t \in tasks[f] : t.name \in snap[f]
              /\ tasks[f] # {} => phase[f] = "running"
        BY <1>2 DEF OnePerPod
    <2> QED BY <1>2, <2>1, <2>2 DEF TypedState, TypeOK
<1> QED BY <1>1, <1>2

LEMMA TypePartsNext == (TypedState /\ \A f \in Callers : OnePerPod(f))' => TypeOK'
BY TypeParts, PTL

\* A goroutine that goes on or ends leaves one goroutine for each name.
LEMMA GoOnOrEnd ==
    ASSUME TypeOK, NEW f \in Callers, NEW t \in tasks[f],
           phase' = phase, snap' = snap,
           End(f, t) \/ \E u \in Tasks : u.name = t.name /\ Become(f, t, u)
    PROVE  /\ \A g \in Callers : OnePerPod(g)'
           /\ DOMAIN tasks' = Callers /\ tasks' = [g \in Callers |-> tasks'[g]]
           /\ \A g \in Callers : g # f => tasks'[g] = tasks[g]
<1>1. \A g \in Callers : OnePerPod(g)
    BY TypeParts
<1>2. tasks \in [Callers -> SUBSET Tasks]
    BY DEF TypeOK
<1>3. CASE End(f, t)
    <2>1. tasks'[f] = tasks[f] \ {t} /\ \A g \in Callers : g # f => tasks'[g] = tasks[g]
        BY <1>2, <1>3 DEF End
    <2>2. DOMAIN tasks' = Callers /\ tasks' = [g \in Callers |-> tasks'[g]]
        BY <1>2, <1>3 DEF End
    <2> QED BY <1>1, <2>1, <2>2 DEF OnePerPod
<1>4. CASE \E u \in Tasks : u.name = t.name /\ Become(f, t, u)
    <2>1. PICK u \in Tasks : u.name = t.name /\ Become(f, t, u)
        BY <1>4
    <2>2. /\ tasks'[f] = (tasks[f] \ {t}) \cup {u}
          /\ \A g \in Callers : g # f => tasks'[g] = tasks[g]
        BY <1>2, <2>1 DEF Become
    <2>3. DOMAIN tasks' = Callers /\ tasks' = [g \in Callers |-> tasks'[g]]
        BY <1>2, <2>1 DEF Become
    <2> QED BY <1>1, <2>1, <2>2, <2>3 DEF OnePerPod
<1> QED BY <1>3, <1>4

-------------------------------------------------------------------------------
(***************************************************************************)
(* Entries.                                                                *)
(***************************************************************************)

Entries == [gen : 0..MaxRegs, status : Statuses, size : 0..MaxLoad]

LEMMA TouchProperties ==
    ASSUME TypeOK, NEW f, NEW n \in Names, Touch(f, n)
    PROVE  /\ touched' \in [Callers -> SUBSET Names]
           /\ \A g \in Callers :
                 touched'[g] = IF g # f /\ Waiting(g) THEN touched[g] \cup {n} ELSE touched[g]
<1>1. touched \in [Callers -> SUBSET Names]
    BY DEF TypeOK
<1>2. \A g \in Callers :
          touched'[g] = IF g # f /\ Waiting(g) THEN touched[g] \cup {n} ELSE touched[g]
    BY DEF Touch, Waiting
<1>3. DOMAIN touched' = Callers /\ touched' = [g \in Callers |-> touched'[g]]
    BY DEF Touch
<1>4. \A g \in Callers : touched'[g] \in SUBSET Names
    BY <1>1, <1>2
<1> QED BY <1>2, <1>3, <1>4

LEMMA WriteEntryProperties ==
    ASSUME TypeOK, ~panicked, NEW f \in Callers, NEW n \in Names, NEW e \in Entries,
           WriteEntry(f, n, e)
    PROVE  /\ pods' \in [Names -> Entries]
           /\ \A m \in Names : m # n => pods'[m] = pods[m]
           /\ n \in Registered => pods'[n] = e
           /\ n \notin Registered => pods' = pods
           /\ touched' \in [Callers -> SUBSET Names]
           /\ touched'[f] = touched[f]
           /\ \A g \in Callers : g # f =>
                 touched[g] \subseteq touched'[g] /\ (Waiting(g) => n \in touched'[g])
<1>1. Touch(f, n) /\ pods \in [Names -> Entries]
    BY DEF WriteEntry, TypeOK, Entries
<1>2. /\ pods' \in [Names -> Entries]
      /\ \A m \in Names : m # n => pods'[m] = pods[m]
      /\ n \in Registered => pods'[n] = e
      /\ n \notin Registered => pods' = pods
    <2>1. CASE n \in Registered
        <3>1. pods' = [pods EXCEPT ![n] = e]
            BY <2>1 DEF WriteEntry
        <3> QED BY <1>1, <2>1, <3>1
    <2>2. CASE n \notin Registered
        <3>1. pods' = pods
            BY <2>2 DEF WriteEntry
        <3> QED BY <1>1, <2>2, <3>1
    <2> QED BY <2>1, <2>2
<1>3. /\ touched' \in [Callers -> SUBSET Names]
      /\ touched'[f] = touched[f]
      /\ \A g \in Callers : g # f =>
            touched[g] \subseteq touched'[g] /\ (Waiting(g) => n \in touched'[g])
    <2>1. /\ touched' \in [Callers -> SUBSET Names]
          /\ \A g \in Callers :
                touched'[g] = IF g # f /\ Waiting(g) THEN touched[g] \cup {n} ELSE touched[g]
        BY <1>1, TouchProperties
    <2> QED BY <2>1
<1> QED BY <1>2, <1>3

\* A write panics if the name is not registered.
LEMMA WriteEntryPanics ==
    ASSUME NEW f, NEW n, NEW e, WriteEntry(f, n, e)
    PROVE  panicked' \in BOOLEAN /\ (panicked' <=> n \notin Registered)
BY Zenon DEF WriteEntry

-------------------------------------------------------------------------------
(***************************************************************************)
(* Types.                                                                  *)
(***************************************************************************)

\* A request that GetStats may still count fits under the bound on its sum.
LEMMA TotalHasRoom ==
    ASSUME TypeOK, NEW f \in Callers, TotalInv(f), NEW t \in tasks[f], NEW n \in 0..MaxLoad,
           NEW k \in Nat, k = Cardinality(tasks[f] \ {t})
    PROVE  /\ total[f] + n \in 0..MaxLoad * Cardinality(Names)
           /\ total[f] + n + MaxLoad * k <= MaxLoad * Cardinality(Names)
<1>1. /\ Cardinality(tasks[f]) \in Nat /\ Cardinality(Names) \in Nat
      /\ k = Cardinality(tasks[f]) - 1
    BY TasksFinite, FS_RemoveElement
<1>2. MaxLoad \in Nat /\ total[f] \in Nat
    <2>1. total[f] \in 0..MaxLoad * Cardinality(Names)
        BY DEF TypeOK
    <2> QED BY <2>1, ControllerAssumption
<1>3. /\ MaxLoad * Cardinality(tasks[f]) = MaxLoad * k + MaxLoad
      /\ MaxLoad * k \in Nat
      /\ MaxLoad * Cardinality(Names) \in Nat
    BY <1>1, <1>2
<1>4. total[f] + MaxLoad * Cardinality(tasks[f]) <= MaxLoad * Cardinality(Names)
    BY DEF TotalInv
<1> QED BY <1>1, <1>2, <1>3, <1>4

\* The steps of the goroutines that call nobody back but write an entry.
LEMMA WriterTypes ==
    ASSUME TypeOK, ~panicked, NEW f \in Callers, NEW t \in tasks[f],
           Mark(f, t) \/ WriteSize(f, t) \/ WriteStatus(f, t)
    PROVE  TypeOK'
<1>1. t \in Tasks /\ t.name \in Names /\ pods[t.name] \in Entries
    BY DEF TypeOK, Tasks, Entries
<1>2. \E e \in Entries : WriteEntry(f, t.name, e)
    <2>1. CASE Mark(f, t)
        BY <1>1, <2>1 DEF Mark, Entries, Statuses
    <2>2. CASE WriteSize(f, t)
        BY <1>1, <2>2 DEF WriteSize, Entries, Tasks
    <2>3. CASE WriteStatus(f, t)
        BY <1>1, <2>3 DEF WriteStatus, AfterFlush, Entries, Statuses
    <2> QED BY <2>1, <2>2, <2>3
<1>3. /\ pods' \in [Names -> Entries] /\ panicked' \in BOOLEAN
      /\ touched' \in [Callers -> SUBSET Names]
    <2>1. pods' \in [Names -> Entries] /\ touched' \in [Callers -> SUBSET Names]
        BY <1>1, <1>2, WriteEntryProperties
    <2>2. panicked' \in BOOLEAN
        BY <1>2, WriteEntryPanics, Zenon
    <2> QED BY <2>1, <2>2, Zenon
<1>4. UNCHANGED <<runs, regs, calls, op, phase, rounds, outcome, total, snap, told, bereft>>
    BY DEF Mark, WriteSize, WriteStatus
<1>5. End(f, t) \/ \E u \in Tasks : u.name = t.name /\ Become(f, t, u)
    BY <1>1 DEF Mark, WriteSize, WriteStatus, Tasks
<1>6. /\ \A g \in Callers : OnePerPod(g)'
      /\ DOMAIN tasks' = Callers /\ tasks' = [g \in Callers |-> tasks'[g]]
    BY <1>4, <1>5, GoOnOrEnd
<1>7. TypedState'
    <2>1. TypedState
        BY TypeParts
    <2> QED BY <1>3, <1>4, <1>6, <2>1 DEF TypedState, Entries
<1>8. (TypedState /\ \A g \in Callers : OnePerPod(g))'
    BY <1>6, <1>7
<1> QED BY <1>8, TypePartsNext

LEMMA AskerTypes ==
    ASSUME TypeOK, NEW f \in Callers, NEW t \in tasks[f], TotalInv(f),
           \/ HealthAnswered(f, t) \/ HealthGarbled(f, t) \/ HealthFails(f, t)
           \/ FlushAnswered(f, t) \/ FlushFails(f, t)
           \/ StatsAnswered(f, t) \/ StatsFail(f, t)
    PROVE  TypeOK'
<1>1. t \in Tasks /\ t.name \in Names
    BY DEF TypeOK, Tasks
<1>2. UNCHANGED <<pods, runs, regs, calls, panicked, op, phase, rounds, outcome, snap, touched,
                  bereft>>
    BY DEF HealthAnswered, HealthGarbled, HealthFails, FlushAnswered, FlushFails, StatsAnswered,
        StatsFail
<1>3. End(f, t) \/ \E u \in Tasks : u.name = t.name /\ Become(f, t, u)
    <2>1. CASE HealthAnswered(f, t)
        BY <1>1, <2>1 DEF HealthAnswered, Tasks
    <2>2. CASE HealthGarbled(f, t) \/ HealthFails(f, t) \/ FlushAnswered(f, t) \/ FlushFails(f, t)
        BY <1>1, <2>2 DEF HealthGarbled, HealthFails, FlushAnswered, FlushFails, Tasks
    <2>3. CASE StatsAnswered(f, t) \/ StatsFail(f, t)
        BY <2>3 DEF StatsAnswered, StatsFail
    <2> QED BY <2>1, <2>2, <2>3
<1>4. /\ \A g \in Callers : OnePerPod(g)'
      /\ DOMAIN tasks' = Callers /\ tasks' = [g \in Callers |-> tasks'[g]]
    BY <1>2, <1>3, GoOnOrEnd
<1>5. total' \in [Callers -> 0..MaxLoad * Cardinality(Names)]
    <2>1. total \in [Callers -> 0..MaxLoad * Cardinality(Names)]
        BY DEF TypeOK
    <2>2. CASE StatsAnswered(f, t)
        <3>1. PICK n \in 0..MaxLoad : total' = [total EXCEPT ![f] = @ + n]
            BY <2>2 DEF StatsAnswered
        <3>2. Cardinality(tasks[f] \ {t}) \in Nat
            BY TasksFinite, FS_RemoveElement, FS_CardinalityType
        <3>3. total[f] + n \in 0..MaxLoad * Cardinality(Names)
            BY <3>2, TotalHasRoom
        <3> QED BY <2>1, <3>1, <3>3
    <2>3. CASE ~StatsAnswered(f, t)
        <3>1. total' = total
            BY <2>3 DEF HealthAnswered, HealthGarbled, HealthFails, FlushAnswered, FlushFails,
                StatsFail
        <3> QED BY <2>1, <3>1
    <2> QED BY <2>2, <2>3
<1>6. told' \in [Callers -> [Names -> {"nothing", "empty", "loaded", "garbled", "failed"}]]
    <2>1. told' = told \/ \E a \in {"empty", "loaded", "garbled", "failed"} :
              told' = [told EXCEPT ![f][t.name] = a]
        BY DEF HealthAnswered, HealthGarbled, HealthFails, FlushAnswered, FlushFails,
            StatsAnswered, StatsFail, Told
    <2>2. told \in [Callers -> [Names -> {"nothing", "empty", "loaded", "garbled", "failed"}]]
        BY DEF TypeOK
    <2> QED BY <1>1, <2>1, <2>2
<1>7. TypedState'
    <2>1. TypedState
        BY TypeParts
    <2> QED BY <1>2, <1>4, <1>5, <1>6, <2>1 DEF TypedState
<1>8. (TypedState /\ \A g \in Callers : OnePerPod(g))'
    BY <1>4, <1>7
<1> QED BY <1>8, TypePartsNext

\* The copy of the pods has one goroutine for each.
LEMMA CopyPodsTypes ==
    ASSUME TypeOK, NEW f \in Callers, CopyPods(f)
    PROVE  TypeOK'
<1> DEFINE task(n) == [name |-> n, size |-> 0, ok |-> FALSE,
                       stage |-> IF op[f] = "flush" THEN "mark" ELSE "ask"]
<1>1. Registered \subseteq Names
    BY DEF Registered
<1>2. \A n \in Names : task(n) \in Tasks
    BY ControllerAssumption DEF Tasks
<1>3. tasks \in [Callers -> SUBSET Tasks]
    BY DEF TypeOK
<1>4. tasks' = [tasks EXCEPT ![f] = {task(n) : n \in Registered}]
    BY DEF CopyPods
<1>5. /\ tasks'[f] = {task(n) : n \in Registered}
      /\ \A g \in Callers : g # f => tasks'[g] = tasks[g]
      /\ DOMAIN tasks' = Callers /\ tasks' = [g \in Callers |-> tasks'[g]]
    BY <1>3, <1>4
<1>6. /\ snap'[f] = Registered /\ phase'[f] = "running"
      /\ \A g \in Callers : g # f => snap'[g] = snap[g] /\ phase'[g] = phase[g]
    BY DEF CopyPods, TypeOK
<1>7. ASSUME NEW g \in Callers
      PROVE  OnePerPod(g)'
    <2>1. CASE g # f
        BY <1>5, <1>6, <2>1, TypeParts DEF OnePerPod
    <2>2. CASE g = f
        <3>1. tasks'[f] \subseteq Tasks
            BY <1>1, <1>2, <1>5
        <3>2. \A t \in tasks'[f] : t.name \in snap'[f] /\ t = task(t.name)
            BY <1>5, <1>6
        <3>3. \A t, u \in tasks'[f] : t.name = u.name => t = u
            BY <3>2
        <3> QED BY <1>6, <2>2, <3>1, <3>2, <3>3 DEF OnePerPod
    <2> QED BY <2>1, <2>2
<1>8. TypedState'
    <2>1. TypedState
        BY TypeParts
    <2>2. /\ phase' \in [Callers -> {"idle", "go", "running", "sleep"}]
          /\ snap' \in [Callers -> SUBSET Names]
          /\ told' \in [Callers -> [Names -> {"nothing", "empty", "loaded", "garbled", "failed"}]]
          /\ touched' \in [Callers -> SUBSET Names]
          /\ bereft' \subseteq Callers
        BY <1>1, <2>1 DEF CopyPods, TypedState
    <2>3. UNCHANGED <<pods, runs, regs, calls, panicked, op, rounds, outcome, total>>
        BY DEF CopyPods
    <2> QED BY <1>5, <2>1, <2>2, <2>3 DEF TypedState
<1>9. (TypedState /\ \A g \in Callers : OnePerPod(g))'
    BY <1>7, <1>8
<1> QED BY <1>9, TypePartsNext

\* Registration touches entries only.
LEMMA RegistrationTypes ==
    ASSUME TypeOK, NEW n \in Names, RegisterPod(n) \/ UnregisterPod(n)
    PROVE  TypeOK'
<1>1. Touch("none", n)
    BY DEF RegisterPod, UnregisterPod
<1>2. touched' \in [Callers -> SUBSET Names]
    BY <1>1, TouchProperties
<1>3. TypedState
    BY TypeParts
<1>4. UNCHANGED <<runs, calls, panicked, op, phase, tasks, rounds, outcome, total, snap, told>>
    BY DEF RegisterPod, UnregisterPod
<1>5. TypedState'
    <2>1. CASE RegisterPod(n)
        <3>1. /\ pods' \in [Names -> [gen : 0..MaxRegs, status : Statuses, size : 0..MaxLoad]]
              /\ regs' \in 0..MaxRegs
            BY <1>3, <2>1, ControllerAssumption DEF RegisterPod, TypedState, Statuses
        <3>2. bereft' = bereft
            BY <2>1 DEF RegisterPod
        <3> QED BY <1>2, <1>3, <1>4, <3>1, <3>2 DEF TypedState
    <2>2. CASE UnregisterPod(n)
        <3>1. pods' \in [Names -> [gen : 0..MaxRegs, status : Statuses, size : 0..MaxLoad]]
            BY <1>3, <2>2, ControllerAssumption DEF UnregisterPod, TypedState, Statuses, Absent
        <3>2. bereft' \subseteq Callers /\ regs' = regs
            BY <1>3, <2>2 DEF UnregisterPod, TypedState
        <3> QED BY <1>2, <1>3, <1>4, <3>1, <3>2 DEF TypedState
    <2> QED BY <2>1, <2>2
<1>6. \A g \in Callers : OnePerPod(g)'
    BY <1>4, TypeParts DEF OnePerPod
<1>7. (TypedState /\ \A g \in Callers : OnePerPod(g))'
    BY <1>5, <1>6
<1> QED BY <1>7, TypePartsNext

LEMMA TypeStep ==
    ASSUME TypeOK, \A f \in Callers : TotalInv(f), Next
    PROVE  TypeOK'
<1>1. ~panicked
    BY DEF Next
<1>2. ASSUME NEW n \in Names, RegisterPod(n) \/ UnregisterPod(n)
      PROVE  TypeOK'
    BY <1>2, RegistrationTypes
<1>3. ASSUME NEW i \in RunIds, StartRun(i) \/ EndRun(i)
      PROVE  TypeOK'
    <2>1. runs' \in [RunIds -> [status : {"none", "running", "completed"}, pods : SUBSET Names]]
        <3>1. runs \in [RunIds -> [status : {"none", "running", "completed"}, pods : SUBSET Names]]
            BY DEF TypeOK
        <3>2. CASE StartRun(i)
            <4>1. {n \in Registered : pods[n].status = "healthy"} \in SUBSET Names
                BY DEF Registered
            <4> QED BY <3>1, <3>2, <4>1 DEF StartRun
        <3>3. CASE EndRun(i)
            BY <3>1, <3>3 DEF EndRun
        <3> QED BY <1>3, <3>2, <3>3
    <2>2. UNCHANGED <<pods, regs, calls, panicked, call>>
        BY <1>3 DEF StartRun, EndRun
    <2> QED BY <2>1, <2>2 DEF TypeOK, call
<1>4. ASSUME NEW f \in Callers, CallerStep(f)
      PROVE  TypeOK'
    <2>1. CASE CopyPods(f)
        BY <2>1, CopyPodsTypes
    <2>2. ASSUME NEW t \in tasks[f], TaskStep(f, t)
          PROVE  TypeOK'
        BY <1>1, <2>2, WriterTypes, AskerTypes DEF TaskStep
    <2>3. CASE Return(f)
        BY <2>3, ControllerAssumption, TasksFinite DEF Return, TypeOK, AllDone
    <2>4. CASE LookAtSizes(f)
        BY <2>4 DEF LookAtSizes, TypeOK, AllDone
    <2>5. CASE Wake(f)
        <3>1. rounds' \in [Callers -> 0..MaxRounds]
            BY <2>5, ControllerAssumption DEF Wake, TypeOK
        <3> QED BY <2>5, <3>1 DEF Wake, TypeOK
    <2>6. CASE GiveUp(f)
        <3>1. tasks[f] = {}
            BY <2>6 DEF GiveUp, TypeOK
        <3>2. told' \in [Callers -> [Names -> {"nothing", "empty", "loaded", "garbled", "failed"}]]
            BY <2>6 DEF GiveUp, TypeOK
        <3> QED BY <2>6, <3>1, <3>2 DEF GiveUp, TypeOK
    <2> QED BY <1>4, <2>1, <2>2, <2>3, <2>4, <2>5, <2>6 DEF CallerStep
<1>5. ASSUME NEW f \in Callers, NEW o \in Ops, Call(f, o)
      PROVE  TypeOK'
    <2>1. tasks[f] = {} /\ MaxLoad * Cardinality(Names) \in Nat
        <3>1. tasks[f] = {} /\ Cardinality(Names) \in Nat
            BY <1>5, TasksFinite DEF Call, TypeOK
        <3> QED BY <3>1, ControllerAssumption
    <2>2. /\ rounds' \in [Callers -> 0..MaxRounds]
          /\ calls' \in 0..MaxCalls
          /\ total' \in [Callers -> 0..MaxLoad * Cardinality(Names)]
        BY <1>5, <2>1, ControllerAssumption DEF Call, TypeOK
    <2>3. told' \in [Callers -> [Names -> {"nothing", "empty", "loaded", "garbled", "failed"}]]
        BY <1>5 DEF Call, TypeOK
    <2> QED BY <1>5, <2>1, <2>2, <2>3 DEF Call, TypeOK
<1> QED BY <1>2, <1>3, <1>4, <1>5 DEF Next

-------------------------------------------------------------------------------
(***************************************************************************)
(* What a call knows, and the steps of others.                             *)
(***************************************************************************)

\* A step that leaves the call of g alone: an entry is written only if g, should it
\* wait for completion, is told so, and a pod is lost only if g is bereft.
Apart(g) ==
    /\ op'[g] = op[g] /\ phase'[g] = phase[g] /\ tasks'[g] = tasks[g]
    /\ rounds'[g] = rounds[g] /\ outcome'[g] = outcome[g] /\ total'[g] = total[g]
    /\ snap'[g] = snap[g] /\ told'[g] = told[g]
    /\ touched[g] \subseteq touched'[g]
    /\ \A n \in Names : pods'[n] = pods[n] \/ (Waiting(g) => n \in touched'[g])
    /\ phase[g] = "running" /\ g \notin bereft' =>
          g \notin bereft /\ (snap[g] \subseteq Registered => snap[g] \subseteq Registered')

LEMMA ApartKeepsCall ==
    ASSUME TypeOK, NEW g \in Callers, CallInv(g), Apart(g)
    PROVE  CallInv(g)'
<1>1. /\ \A t \in tasks[g] : t.name \in Names
      /\ snap[g] \subseteq Names
    BY DEF TypeOK, Tasks
<1>2. StageInv(g)'
    BY DEF Apart, CallInv, StageInv
<1>3. TotalInv(g)'
    BY DEF Apart, CallInv, TotalInv
<1>4. CopiedInv(g)'
    BY DEF Apart, CallInv, CopiedInv
<1>5. RoundInv(g)'
    <2> SUFFICES ASSUME Waiting(g), phase[g] = "running"
                 PROVE  /\ \A t \in tasks[g] : HeardInv(g, t)'
                        /\ \A n \in snap[g] \ touched'[g] : WrittenInv(g, n)'
        BY DEF Apart, RoundInv, Waiting
    <2>1. /\ \A t \in tasks[g] : HeardInv(g, t)
          /\ \A n \in snap[g] \ touched[g] : WrittenInv(g, n)
        BY DEF CallInv, RoundInv, Waiting
    <2>2. \A n \in Names \ touched'[g] : pods'[n] = pods[n] /\ n \notin touched[g]
        BY DEF Apart
    <2>3. \A t \in tasks[g] : HeardInv(g, t)'
        BY <1>1, <2>1, <2>2 DEF Apart, HeardInv
    <2>4. \A n \in snap[g] \ touched'[g] : WrittenInv(g, n)'
        BY <1>1, <2>1, <2>2 DEF Apart, WrittenInv
    <2> QED BY <2>3, <2>4
<1>6. DrainedInv(g)'
    BY DEF Apart, CallInv, DrainedInv
<1> QED BY <1>2, <1>3, <1>4, <1>5, <1>6 DEF CallInv

\* Registration is apart from every call.
LEMMA RegistrationApart ==
    ASSUME TypeOK, NEW n \in Names, RegisterPod(n) \/ UnregisterPod(n), NEW g \in Callers
    PROVE  Apart(g)
<1>1. g # "none" /\ Touch("none", n)
    BY ControllerAssumption DEF RegisterPod, UnregisterPod
<1>2. touched'[g] = IF Waiting(g) THEN touched[g] \cup {n} ELSE touched[g]
    BY <1>1, TouchProperties
<1>3. \A m \in Names \ {n} : pods'[m] = pods[m]
    BY DEF RegisterPod, UnregisterPod, TypeOK
<1>4. UNCHANGED <<op, phase, tasks, rounds, outcome, total, snap, told>>
    BY DEF RegisterPod, UnregisterPod
<1>5. ASSUME phase[g] = "running", g \notin bereft'
      PROVE  g \notin bereft /\ (snap[g] \subseteq Registered => snap[g] \subseteq Registered')
    <2>1. CASE RegisterPod(n)
        <3>1. Registered \subseteq Registered' /\ bereft' = bereft
            BY <2>1, ControllerAssumption DEF RegisterPod, Registered, TypeOK
        <3> QED BY <1>5, <3>1
    <2>2. CASE UnregisterPod(n)
        <3>1. n \notin snap[g] /\ g \notin bereft
            BY <1>5, <2>2 DEF UnregisterPod
        <3>2. Registered \ {n} \subseteq Registered'
            BY <1>3 DEF Registered
        <3> QED BY <3>1, <3>2
    <2> QED BY <2>1, <2>2
<1> QED BY <1>2, <1>3, <1>4, <1>5 DEF Apart

\* What a step of a goroutine of f leaves alone.
LEMMA TaskFrame ==
    ASSUME TypeOK, ~panicked, NEW f \in Callers, NEW t \in tasks[f], TaskStep(f, t)
    PROVE  /\ UNCHANGED <<runs, regs, calls, op, phase, rounds, outcome, snap, bereft>>
           /\ t \in Tasks /\ t.name \in Names /\ t.name \in snap[f] /\ phase[f] = "running"
           /\ \A m \in Names : m # t.name => pods'[m] = pods[m]
           /\ Registered' = Registered
           /\ touched'[f] = touched[f]
           /\ \A g \in Callers : g # f =>
                 /\ touched[g] \subseteq touched'[g]
                 /\ pods'[t.name] = pods[t.name] \/ (Waiting(g) => t.name \in touched'[g])
                 /\ tasks'[g] = tasks[g] /\ total'[g] = total[g] /\ told'[g] = told[g]
<1>1. /\ UNCHANGED <<runs, regs, calls, op, phase, rounds, outcome, snap, bereft>>
    BY DEF TaskStep, Mark, HealthAnswered, HealthGarbled, HealthFails, WriteSize, FlushAnswered,
        FlushFails, WriteStatus, StatsAnswered, StatsFail
<1>2. /\ t \in Tasks /\ t.name \in Names /\ t.name \in snap[f] /\ phase[f] = "running"
      /\ pods[t.name] \in Entries
    BY DEF TypeOK, Tasks, Entries
<1>3. \A g \in Callers : g # f =>
          tasks'[g] = tasks[g] /\ total'[g] = total[g] /\ told'[g] = told[g]
    <2>1. \A g \in Callers : g # f => tasks'[g] = tasks[g]
        BY DEF TypeOK, TaskStep, Mark, HealthAnswered, HealthGarbled, HealthFails, WriteSize,
            FlushAnswered, FlushFails, WriteStatus, StatsAnswered, StatsFail, Become, End
    <2>2. \A g \in Callers : g # f => total'[g] = total[g]
        BY DEF TypeOK, TaskStep, Mark, HealthAnswered, HealthGarbled, HealthFails, WriteSize,
            FlushAnswered, FlushFails, WriteStatus, StatsAnswered, StatsFail
    <2>3. \A g \in Callers : g # f => told'[g] = told[g]
        BY DEF TypeOK, TaskStep, Mark, HealthAnswered, HealthGarbled, HealthFails, WriteSize,
            FlushAnswered, FlushFails, WriteStatus, StatsAnswered, StatsFail, Told
    <2> QED BY <2>1, <2>2, <2>3
<1>4. CASE Mark(f, t) \/ WriteSize(f, t) \/ WriteStatus(f, t)
    <2>1. PICK e : e \in Entries /\ WriteEntry(f, t.name, e) /\ e.gen = pods[t.name].gen
        <3>1. CASE Mark(f, t)
            BY <1>2, <3>1 DEF Mark, Entries, Statuses
        <3>2. CASE WriteSize(f, t)
            BY <1>2, <3>2 DEF WriteSize, Entries, Tasks
        <3>3. CASE WriteStatus(f, t)
            BY <1>2, <3>3 DEF WriteStatus, AfterFlush, Entries, Statuses
        <3> QED BY <1>4, <3>1, <3>2, <3>3
    <2>2. /\ \A m \in Names : m # t.name => pods'[m] = pods[m]
          /\ t.name \in Registered => pods'[t.name] = e
          /\ t.name \notin Registered => pods' = pods
          /\ touched'[f] = touched[f]
          /\ \A g \in Callers : g # f =>
                touched[g] \subseteq touched'[g] /\ (Waiting(g) => t.name \in touched'[g])
        BY <1>2, <2>1, WriteEntryProperties
    <2>3. \A m \in Names : pods'[m].gen = pods[m].gen
        BY <2>1, <2>2
    <2>4. Registered' = Registered
        BY <2>3 DEF Registered
    <2> QED BY <1>1, <1>2, <1>3, <2>2, <2>4
<1>5. CASE ~(Mark(f, t) \/ WriteSize(f, t) \/ WriteStatus(f, t))
    <2>1. pods' = pods /\ touched' = touched
        BY <1>5 DEF TaskStep, HealthAnswered, HealthGarbled, HealthFails, FlushAnswered,
            FlushFails, StatsAnswered, StatsFail
    <2> QED BY <1>1, <1>2, <1>3, <2>1 DEF Registered
<1> QED BY <1>4, <1>5

\* A step of one caller is apart from the calls of the others.
LEMMA OthersApart ==
    ASSUME TypeOK, ~panicked, NEW f \in Callers, NEW g \in Callers, g # f,
           CallerStep(f) \/ \E o \in Ops : Call(f, o)
    PROVE  Apart(g)
<1>1. ASSUME NEW t \in tasks[f], TaskStep(f, t)
      PROVE  Apart(g)
    BY <1>1, TaskFrame DEF Apart
<1>2. CASE CopyPods(f) \/ Return(f) \/ LookAtSizes(f) \/ Wake(f) \/ GiveUp(f)
           \/ \E o \in Ops : Call(f, o)
    <2>1. /\ op'[g] = op[g] /\ phase'[g] = phase[g] /\ tasks'[g] = tasks[g]
          /\ rounds'[g] = rounds[g]
        BY <1>2 DEF TypeOK, CopyPods, Return, LookAtSizes, Wake, GiveUp, Call
    <2>2. outcome'[g] = outcome[g] /\ total'[g] = total[g] /\ snap'[g] = snap[g]
        BY <1>2 DEF TypeOK, CopyPods, Return, LookAtSizes, Wake, GiveUp, Call
    <2>3. told'[g] = told[g] /\ touched'[g] = touched[g]
        BY <1>2 DEF TypeOK, CopyPods, Return, LookAtSizes, Wake, GiveUp, Call
    <2>4. pods' = pods /\ (g \in bereft' <=> g \in bereft)
        BY <1>2 DEF CopyPods, Return, LookAtSizes, Wake, GiveUp, Call
    <2> QED BY <2>1, <2>2, <2>3, <2>4 DEF Apart, Registered
<1> QED BY <1>1, <1>2 DEF CallerStep

-------------------------------------------------------------------------------
(***************************************************************************)
(* The steps of a call's own goroutines.                                   *)
(***************************************************************************)

LEMMA BecomeOrEnd ==
    ASSUME TypeOK, NEW f \in Callers, NEW t \in tasks[f]
    PROVE  /\ End(f, t) => tasks'[f] = tasks[f] \ {t}
           /\ \A u : Become(f, t, u) => tasks'[f] = (tasks[f] \ {t}) \cup {u}
BY DEF TypeOK, Become, End

LEMMA BecomeStage ==
    ASSUME TypeOK, NEW f \in Callers, NEW t \in tasks[f], NEW u, NEW s, Become(f, t, u), u.stage = s
    PROVE  \A v \in tasks'[f] : v \in tasks[f] \/ v.stage = s
BY BecomeOrEnd

\* The work goes through its stages in order.
LEMMA TaskKeepsStages ==
    ASSUME TypeOK, ~panicked, NEW f \in Callers, CallInv(f), NEW t \in tasks[f], TaskStep(f, t)
    PROVE  StageInv(f)'
<1>1. /\ op' = op /\ phase' = phase /\ rounds' = rounds
      /\ t \in Tasks /\ op[f] \in Ops \cup {"none"} /\ op[f] # "none"
    BY TaskFrame DEF TypeOK, CallInv, StageInv
<1>2. \A u \in tasks'[f] : u \in tasks[f] \/
          /\ u.stage = "mark" => op[f] = "flush"
          /\ u.stage = "size" => op[f] \in {"health", "wait"}
          /\ u.stage = "status" => op[f] # "stats"
    <2>1. CASE Mark(f, t)
        BY <1>1, <2>1, BecomeOrEnd DEF Mark, Tasks
    <2>2. CASE HealthAnswered(f, t)
        <3>1. PICK n \in 0..MaxLoad :
                  Become(f, t, [t EXCEPT !.stage = "size", !.size = n, !.ok = TRUE])
            BY <2>2 DEF HealthAnswered
        <3> DEFINE u == [t EXCEPT !.stage = "size", !.size = n, !.ok = TRUE]
        <3>2. u.stage = "size" /\ Become(f, t, u)
            BY <1>1, <3>1 DEF Tasks
        <3> HIDE DEF u
        <3>3. op[f] \in {"health", "wait"}
            BY <2>2 DEF HealthAnswered
        <3>4. \A v \in tasks'[f] : v \in tasks[f] \/ v.stage = "size"
            BY <3>2, BecomeStage
        <3> QED BY <3>3, <3>4
    <2>3. CASE HealthGarbled(f, t) \/ HealthFails(f, t)
        <3>1. PICK b \in BOOLEAN : Become(f, t, [t EXCEPT !.stage = "status", !.ok = b])
            BY <2>3, Zenon DEF HealthGarbled, HealthFails
        <3> DEFINE u == [t EXCEPT !.stage = "status", !.ok = b]
        <3>2. u.stage = "status" /\ Become(f, t, u)
            BY <1>1, <3>1 DEF Tasks
        <3> HIDE DEF u
        <3>3. op[f] \in {"health", "wait"}
            BY <2>3 DEF HealthGarbled, HealthFails
        <3>4. \A v \in tasks'[f] : v \in tasks[f] \/ v.stage = "status"
            BY <3>2, BecomeStage
        <3> QED BY <3>3, <3>4
    <2>4. CASE WriteSize(f, t)
        <3>1. op[f] \in {"health", "wait"}
            BY <2>4 DEF WriteSize, CallInv, StageInv
        <3> QED BY <1>1, <2>4, <3>1, BecomeOrEnd DEF WriteSize, Tasks
    <2>5. CASE FlushAnswered(f, t) \/ FlushFails(f, t)
        <3>1. PICK b \in BOOLEAN : Become(f, t, [t EXCEPT !.stage = "status", !.ok = b])
            BY <2>5, Zenon DEF FlushAnswered, FlushFails
        <3> DEFINE u == [t EXCEPT !.stage = "status", !.ok = b]
        <3>2. u.stage = "status" /\ Become(f, t, u)
            BY <1>1, <3>1 DEF Tasks
        <3> HIDE DEF u
        <3>3. op[f] = "flush"
            BY <2>5 DEF FlushAnswered, FlushFails
        <3>4. \A v \in tasks'[f] : v \in tasks[f] \/ v.stage = "status"
            BY <3>2, BecomeStage
        <3> QED BY <3>3, <3>4
    <2>6. CASE WriteStatus(f, t) \/ StatsAnswered(f, t) \/ StatsFail(f, t)
        BY <2>6, BecomeOrEnd DEF WriteStatus, StatsAnswered, StatsFail
    <2> QED BY <2>1, <2>2, <2>3, <2>4, <2>5, <2>6 DEF TaskStep
<1> QED BY <1>1, <1>2 DEF CallInv, StageInv

\* A call that has added nothing to a sum is within the bound.
LEMMA NothingAdded ==
    ASSUME TypeOK', NEW f \in Callers, total'[f] = 0
    PROVE  TotalInv(f)'
<1>1. /\ Cardinality(tasks'[f]) \in Nat /\ Cardinality(Names) \in Nat
      /\ Cardinality(tasks'[f]) <= Cardinality(Names)
    BY OnePerName DEF TypeOK
<1>2. MaxLoad \in Nat
    BY ControllerAssumption
<1>3. MaxLoad * Cardinality(tasks'[f]) <= MaxLoad * Cardinality(Names)
    BY <1>1, <1>2
<1>4. MaxLoad * Cardinality(tasks'[f]) \in Nat
    BY <1>1, <1>2
<1> QED BY <1>3, <1>4 DEF TotalInv

LEMMA TaskKeepsTotal ==
    ASSUME TypeOK, ~panicked, TypeOK', NEW f \in Callers, CallInv(f), NEW t \in tasks[f],
           TaskStep(f, t)
    PROVE  TotalInv(f)'
<1>1. op' = op /\ phase' = phase /\ phase[f] = "running"
    BY TaskFrame
<1>2. CASE op[f] # "stats"
    <2>1. total[f] = 0
        BY <1>2 DEF CallInv, TotalInv
    <2>2. total' = total
        BY <1>2 DEF TaskStep, Mark, HealthAnswered, HealthGarbled, HealthFails, WriteSize,
            FlushAnswered, FlushFails, WriteStatus, StatsAnswered, StatsFail, CallInv, StageInv
    <2> QED BY <2>1, <2>2, NothingAdded
<1>3. CASE op[f] = "stats"
    <2>1. StatsAnswered(f, t) \/ StatsFail(f, t)
        BY <1>3 DEF TaskStep, Mark, HealthAnswered, HealthGarbled, HealthFails, WriteSize,
            FlushAnswered, FlushFails, WriteStatus, CallInv, StageInv
    <2>2. \E n \in 0..MaxLoad : total'[f] = total[f] + n
        <3>1. CASE StatsAnswered(f, t)
            BY <3>1 DEF StatsAnswered, TypeOK
        <3>2. CASE StatsFail(f, t)
            <4>1. total[f] \in 0..MaxLoad * Cardinality(Names) /\ MaxLoad \in Nat
                BY ControllerAssumption DEF TypeOK
            <4>2. total'[f] = total[f] + 0 /\ 0 \in 0..MaxLoad
                BY <3>2, <4>1 DEF StatsFail
            <4> QED BY <4>2
        <3> QED BY <2>1, <3>1, <3>2
    <2>3. tasks'[f] = tasks[f] \ {t}
        BY <2>1, BecomeOrEnd DEF StatsAnswered, StatsFail
    <2>4. Cardinality(tasks[f] \ {t}) \in Nat
        BY TasksFinite, FS_RemoveElement, FS_CardinalityType
    <2>5. PICK n \in 0..MaxLoad : total'[f] = total[f] + n
        BY <2>2
    <2>6. total[f] + n + MaxLoad * Cardinality(tasks[f] \ {t}) <= MaxLoad * Cardinality(Names)
        BY <2>4, TotalHasRoom DEF CallInv
    <2> QED BY <1>1, <1>3, <2>3, <2>5, <2>6 DEF TotalInv
<1> QED BY <1>2, <1>3

\* Only the goroutine of its own that it is about knows otherwise after its step.
LEMMA TaskKeepsRound ==
    ASSUME TypeOK, ~panicked, ~panicked', NEW f \in Callers, CallInv(f), NEW t \in tasks[f],
           TaskStep(f, t)
    PROVE  RoundInv(f)'
<1>1. /\ UNCHANGED <<op, phase, snap>> /\ touched'[f] = touched[f]
      /\ t \in Tasks /\ t.name \in Names /\ t.name \in snap[f] /\ phase[f] = "running"
      /\ \A m \in Names : m # t.name => pods'[m] = pods[m]
    BY TaskFrame
<1>2. SUFFICES ASSUME op[f] = "wait"
               PROVE  /\ \A u \in tasks'[f] : HeardInv(f, u)'
                      /\ \A n \in snap[f] \ touched[f] : WrittenInv(f, n)'
    BY <1>1 DEF RoundInv
<1>3. /\ \A u \in tasks[f] : HeardInv(f, u)
      /\ \A n \in snap[f] \ touched[f] : WrittenInv(f, n)
      /\ \A u \in tasks[f] : u.name = t.name => u = t
      /\ \A u \in tasks[f] : u \in Tasks
      /\ snap[f] \subseteq Names
    BY <1>1, <1>2 DEF CallInv, RoundInv, TypeOK
<1>4. ASSUME \A m \in Names : m # t.name => told'[f][m] = told[f][m]
      PROVE  /\ \A u \in tasks[f] \ {t} : HeardInv(f, u)'
             /\ \A n \in snap[f] \ touched[f] : n # t.name /\
                   (\A u \in tasks[f] \ {t} : u \in tasks'[f]) => WrittenInv(f, n)'
    <2>1. ASSUME NEW u \in tasks[f] \ {t}
          PROVE  HeardInv(f, u)'
        <3>1. u.name \in Names /\ u.name # t.name
            BY <1>3 DEF Tasks
        <3>2. told'[f][u.name] = told[f][u.name] /\ pods'[u.name] = pods[u.name]
            BY <1>1, <1>4, <3>1
        <3> QED BY <1>1, <1>3, <3>2 DEF HeardInv
    <2>2. ASSUME NEW n \in snap[f] \ touched[f], n # t.name,
                 \A u \in tasks[f] \ {t} : u \in tasks'[f]
          PROVE  WrittenInv(f, n)'
        <3>1. told'[f][n] = told[f][n] /\ pods'[n] = pods[n]
            BY <1>1, <1>3, <1>4, <2>2
        <3>2. (\A u \in tasks'[f] : u.name # n) => (\A u \in tasks[f] : u.name # n)
            BY <2>2
        <3> QED BY <1>3, <3>1, <3>2 DEF WrittenInv
    <2> QED BY <2>1, <2>2
<1>5. ASSUME NEW a, told' = [told EXCEPT ![f][t.name] = a]
      PROVE  told'[f][t.name] = a /\ \A m \in Names : m # t.name => told'[f][m] = told[f][m]
    <2>1. told \in [Callers -> [Names -> {"nothing", "empty", "loaded", "garbled", "failed"}]]
        BY DEF TypeOK
    <2> QED BY <1>1, <1>5, <2>1
<1>6. CASE HealthAnswered(f, t) \/ HealthGarbled(f, t) \/ HealthFails(f, t)
    <2>1. PICK u, a : /\ Become(f, t, u) /\ u.name = t.name
                      /\ told' = [told EXCEPT ![f][t.name] = a]
                      /\ \/ u.stage = "status" /\ a \in {"garbled", "failed"}
                         \/ /\ u.stage = "size" /\ u.ok
                            /\ a \in {"empty", "loaded"} /\ (a = "loaded" => u.size > 0)
        <3>1. CASE HealthAnswered(f, t)
            <4>1. PICK n \in 0..MaxLoad :
                      /\ Become(f, t, [t EXCEPT !.stage = "size", !.size = n, !.ok = TRUE])
                      /\ Told(f, t, IF n = 0 THEN "empty" ELSE "loaded")
                BY <3>1 DEF HealthAnswered
            <4> DEFINE u == [t EXCEPT !.stage = "size", !.size = n, !.ok = TRUE]
                       a == IF n = 0 THEN "empty" ELSE "loaded"
            <4>2. u.name = t.name /\ u.stage = "size" /\ u.ok /\ u.size = n
                BY <1>1 DEF Tasks
            <4>3. /\ a \in {"empty", "loaded"} /\ (a = "loaded" => n > 0)
                BY ControllerAssumption
            <4>4. told' = [told EXCEPT ![f][t.name] = a]
                BY <1>2, <4>1 DEF Told
            <4> HIDE DEF u, a
            <4> QED BY <4>1, <4>2, <4>3, <4>4 DEF u
        <3>2. CASE HealthGarbled(f, t)
            <4> DEFINE u == [t EXCEPT !.stage = "status", !.ok = TRUE]
            <4>1. u.name = t.name /\ u.stage = "status" /\ Become(f, t, u)
                BY <1>1, <3>2 DEF Tasks, HealthGarbled
            <4>2. told' = [told EXCEPT ![f][t.name] = "garbled"]
                BY <1>2, <3>2 DEF Told, HealthGarbled
            <4> HIDE DEF u
            <4> QED BY <4>1, <4>2
        <3>3. CASE HealthFails(f, t)
            <4> DEFINE u == [t EXCEPT !.stage = "status", !.ok = FALSE]
            <4>1. u.name = t.name /\ u.stage = "status" /\ Become(f, t, u)
                BY <1>1, <3>3 DEF Tasks, HealthFails
            <4>2. told' = [told EXCEPT ![f][t.name] = "failed"]
                BY <1>2, <3>3 DEF Told, HealthFails
            <4> HIDE DEF u
            <4> QED BY <4>1, <4>2
        <3> QED BY <1>6, <3>1, <3>2, <3>3
    <2>2. tasks'[f] = (tasks[f] \ {t}) \cup {u} /\ pods' = pods
        BY <1>6, <2>1, BecomeOrEnd DEF HealthAnswered, HealthGarbled, HealthFails
    <2>3. told'[f][t.name] = a /\ \A m \in Names : m # t.name => told'[f][m] = told[f][m]
        BY <1>5, <2>1
    <2>4. HeardInv(f, u)'
        BY <2>1, <2>3 DEF HeardInv
    <2>5. t.name \notin touched[f] => WrittenInv(f, t.name)'
        BY <1>1, <1>3, <2>1, <2>2 DEF WrittenInv
    <2> QED BY <1>4, <2>2, <2>3, <2>4, <2>5
<1>7. CASE WriteSize(f, t)
    <2> DEFINE u == [t EXCEPT !.stage = "status"]
    <2>1. /\ Become(f, t, u) /\ told' = told
          /\ WriteEntry(f, t.name, [pods[t.name] EXCEPT !.size = t.size])
        BY <1>7 DEF WriteSize
    <2>2. u.stage = "status" /\ u.name = t.name /\ u.ok = t.ok
        BY <1>1 DEF Tasks
    <2>3. tasks'[f] = (tasks[f] \ {t}) \cup {u}
        BY <2>1, BecomeOrEnd
    <2>4. t.name \in Registered
        BY <2>1, WriteEntryPanics, Zenon
    <2>5. pods'[t.name].size = t.size /\ pods'[t.name].gen # 0
        BY <1>1, <2>1, <2>4 DEF WriteEntry, TypeOK, Registered
    <2>6. HeardInv(f, t) /\ t.stage = "size"
        BY <1>3, <1>7 DEF WriteSize
    <2> HIDE DEF u
    <2>7. HeardInv(f, u)'
        BY <2>1, <2>2, <2>5, <2>6 DEF HeardInv
    <2>8. WrittenInv(f, t.name)'
        BY <2>2, <2>3, <2>5 DEF WrittenInv
    <2> QED BY <1>4, <2>1, <2>3, <2>7, <2>8
<1>8. CASE WriteStatus(f, t)
    <2> DEFINE s == IF t.ok THEN "healthy" ELSE "unhealthy"
    <2>1. /\ End(f, t) /\ told' = told /\ t.stage = "status"
          /\ WriteEntry(f, t.name, [pods[t.name] EXCEPT !.status = s])
        BY <1>2, <1>8 DEF WriteStatus
    <2>2. tasks'[f] = tasks[f] \ {t}
        BY <2>1, BecomeOrEnd
    <2>3. t.name \in Registered
        BY <2>1, WriteEntryPanics, Zenon
    <2>4. /\ pods'[t.name].status = s /\ pods'[t.name].size = pods[t.name].size
          /\ pods'[t.name].gen # 0
        BY <1>1, <2>1, <2>3 DEF WriteEntry, TypeOK, Registered
    <2>5. HeardInv(f, t)
        BY <1>3
    <2>6. t.name \notin touched[f] => WrittenInv(f, t.name)'
        BY <2>1, <2>2, <2>4, <2>5 DEF WrittenInv, HeardInv
    <2> QED BY <1>4, <2>1, <2>2, <2>6
<1>9. ~Mark(f, t) /\ ~FlushAnswered(f, t) /\ ~FlushFails(f, t) /\ ~StatsAnswered(f, t)
      /\ ~StatsFail(f, t)
    BY <1>2 DEF Mark, FlushAnswered, FlushFails, StatsAnswered, StatsFail, CallInv, StageInv
<1> QED BY <1>6, <1>7, <1>8, <1>9 DEF TaskStep

LEMMA TaskKeepsCall ==
    ASSUME TypeOK, ~panicked, TypeOK', ~panicked', NEW f \in Callers, CallInv(f),
           NEW t \in tasks[f], TaskStep(f, t)
    PROVE  CallInv(f)'
<1>1. /\ UNCHANGED <<phase, outcome, snap, bereft>> /\ phase[f] = "running"
      /\ Registered' = Registered
    BY TaskFrame
<1>2. CopiedInv(f)' /\ DrainedInv(f)'
    BY <1>1 DEF CallInv, CopiedInv, DrainedInv
<1> QED BY <1>2, TaskKeepsStages, TaskKeepsTotal, TaskKeepsRound DEF CallInv

-------------------------------------------------------------------------------
(***************************************************************************)
(* The other steps of a call.                                              *)
(***************************************************************************)

\* The copy is taken of what is registered, and nobody has answered yet.
LEMMA CopyPodsKeepsCall ==
    ASSUME TypeOK, TypeOK', NEW f \in Callers, CallInv(f), CopyPods(f)
    PROVE  CallInv(f)'
<1>1. /\ op' = op /\ rounds' = rounds /\ outcome' = outcome /\ total' = total /\ pods' = pods
      /\ phase[f] = "go" /\ phase'[f] = "running"
      /\ snap'[f] = Registered /\ Registered' = Registered /\ f \notin bereft'
      /\ op[f] = "wait" => InTime(f)
    BY DEF CopyPods, TypeOK, Registered
<1>2. /\ tasks'[f] = {[name |-> n, size |-> 0, ok |-> FALSE,
                       stage |-> IF op[f] = "flush" THEN "mark" ELSE "ask"] : n \in Registered}
      /\ told'[f] = [n \in Names |-> "nothing"]
    BY DEF CopyPods, TypeOK
<1>3. \A t \in tasks'[f] : t.stage = (IF op[f] = "flush" THEN "mark" ELSE "ask") /\ t.name \in Names
    BY <1>2 DEF Registered
<1>4. ASSUME NEW n \in Registered
      PROVE  \E t \in tasks'[f] : t.name = n
    <2> DEFINE t == [name |-> n, size |-> 0, ok |-> FALSE,
                     stage |-> IF op[f] = "flush" THEN "mark" ELSE "ask"]
    <2>1. t \in tasks'[f] /\ t.name = n
        BY <1>2
    <2> HIDE DEF t
    <2> QED BY <2>1
<1>5. StageInv(f)'
    BY <1>1, <1>3 DEF StageInv, CallInv, InTime
<1>6. TotalInv(f)'
    BY <1>1, NothingAdded DEF CallInv, TotalInv
<1>7. CopiedInv(f)'
    BY <1>1 DEF CopiedInv
<1>8. RoundInv(f)'
    <2> SUFFICES ASSUME op[f] = "wait"
                 PROVE  /\ \A t \in tasks'[f] : HeardInv(f, t)'
                        /\ \A n \in Registered : WrittenInv(f, n)'
        BY <1>1 DEF RoundInv
    <2>1. \A t \in tasks'[f] : HeardInv(f, t)'
        BY <1>2, <1>3 DEF HeardInv
    <2>2. \A n \in Registered : WrittenInv(f, n)'
        BY <1>1, <1>4 DEF WrittenInv, Registered
    <2> QED BY <2>1, <2>2
<1>9. DrainedInv(f)'
    BY <1>1 DEF CallInv, DrainedInv
<1> QED BY <1>5, <1>6, <1>7, <1>8, <1>9 DEF CallInv

\* When every goroutine is done and no healthy pod has a size above 0, nobody has
\* reported one.
LEMMA LookAtSizesKeepsCall ==
    ASSUME TypeOK, NEW f \in Callers, CallInv(f), LookAtSizes(f)
    PROVE  CallInv(f)'
<1>1. /\ UNCHANGED <<pods, op, tasks, rounds, total, snap, told, touched, bereft>>
      /\ phase[f] = "running" /\ tasks[f] = {} /\ op[f] = "wait"
      /\ phase'[f] = (IF AllEmpty THEN "idle" ELSE "sleep")
      /\ outcome'[f] = (IF AllEmpty THEN "empty" ELSE "none")
    BY DEF LookAtSizes, AllDone, TypeOK
<1>2. StageInv(f)'
    BY <1>1 DEF CallInv, StageInv
<1>3. TotalInv(f)'
    BY <1>1 DEF CallInv, TotalInv
<1>4. CopiedInv(f)' /\ RoundInv(f)'
    BY <1>1 DEF CopiedInv, RoundInv
<1>5. DrainedInv(f)'
    <2> SUFFICES ASSUME AllEmpty, NEW n \in snap[f] \ touched[f]
                 PROVE  told[f][n] \in {"empty", "failed", "garbled"}
        BY <1>1 DEF DrainedInv
    <2>1. /\ pods[n].gen # 0 /\ told[f][n] # "nothing"
          /\ told[f][n] = "loaded" => pods[n].status = "healthy" /\ pods[n].size > 0
        BY <1>1 DEF CallInv, RoundInv, WrittenInv
    <2>2. n \in Names /\ told[f][n] \in {"nothing", "empty", "loaded", "garbled", "failed"}
        BY DEF TypeOK
    <2> QED BY <2>1, <2>2 DEF AllEmpty, Registered
<1> QED BY <1>2, <1>3, <1>4, <1>5 DEF CallInv

\* Beginning, pausing and ending a call.
LEMMA BoundariesKeepCall ==
    ASSUME TypeOK, TypeOK', NEW f \in Callers, CallInv(f),
           Return(f) \/ Wake(f) \/ GiveUp(f) \/ \E o \in Ops : Call(f, o)
    PROVE  CallInv(f)'
<1>1. tasks[f] = {} /\ tasks' = tasks /\ phase'[f] # "running"
    BY DEF Return, AllDone, Wake, GiveUp, Call, TypeOK
<1>2. CASE Return(f)
    <2>1. phase'[f] = "idle" /\ snap'[f] = {} /\ total'[f] = 0 /\ op' = op /\ outcome' = outcome
        BY <1>2 DEF Return, TypeOK
    <2>2. TotalInv(f)'
        BY <2>1, NothingAdded
    <2> QED BY <1>1, <2>1, <2>2 DEF CallInv, StageInv, CopiedInv, RoundInv, DrainedInv
<1>3. CASE Wake(f)
    <2>1. /\ phase[f] = "sleep" /\ phase'[f] = "go" /\ op' = op /\ outcome' = outcome
          /\ total' = total
        BY <1>3 DEF Wake, TypeOK
    <2>2. op[f] = "wait" /\ outcome[f] # "empty" /\ total[f] = 0
        BY <2>1 DEF CallInv, StageInv, DrainedInv, TotalInv
    <2>3. TotalInv(f)'
        BY <2>1, <2>2, NothingAdded
    <2> QED BY <1>1, <2>1, <2>2, <2>3 DEF CallInv, StageInv, CopiedInv, RoundInv, DrainedInv
<1>4. CASE GiveUp(f)
    <2>1. /\ op[f] = "wait" /\ phase'[f] = "idle" /\ op' = op /\ outcome'[f] = "error"
          /\ total' = total
        BY <1>4 DEF GiveUp, TypeOK
    <2>2. TotalInv(f)'
        BY <2>1, NothingAdded DEF CallInv, TotalInv
    <2> QED BY <1>1, <2>1, <2>2 DEF CallInv, StageInv, CopiedInv, RoundInv, DrainedInv
<1>5. ASSUME NEW o \in Ops, Call(f, o)
      PROVE  CallInv(f)'
    <2>1. phase'[f] = "go" /\ op'[f] = o /\ outcome'[f] = "none" /\ total'[f] = 0
        BY <1>5 DEF Call, TypeOK
    <2>2. TotalInv(f)'
        BY <2>1, NothingAdded
    <2>3. o # "none"
        BY DEF Ops
    <2> QED BY <1>1, <2>1, <2>2, <2>3 DEF CallInv, StageInv, CopiedInv, RoundInv, DrainedInv
<1> QED BY <1>2, <1>3, <1>4, <1>5

LEMMA CallStep ==
    ASSUME TypeOK, TypeOK', Next, ~panicked', \A f \in Callers : CallInv(f), NEW g \in Callers
    PROVE  CallInv(g)'
<1>1. ~panicked /\ CallInv(g)
    BY DEF Next
<1>2. ASSUME NEW n \in Names, RegisterPod(n) \/ UnregisterPod(n)
      PROVE  CallInv(g)'
    BY <1>1, <1>2, RegistrationApart, ApartKeepsCall
<1>3. ASSUME NEW i \in RunIds, StartRun(i) \/ EndRun(i)
      PROVE  CallInv(g)'
    <2>1. Apart(g)
        BY <1>3 DEF StartRun, EndRun, Apart, call, Registered
    <2> QED BY <1>1, <2>1, ApartKeepsCall
<1>4. ASSUME NEW f \in Callers, CallerStep(f) \/ \E o \in Ops : Call(f, o)
      PROVE  CallInv(g)'
    <2>1. CASE g # f
        BY <1>1, <1>4, <2>1, OthersApart, ApartKeepsCall
    <2>2. CASE g = f
        BY <1>1, <1>4, <2>2, TaskKeepsCall, CopyPodsKeepsCall, LookAtSizesKeepsCall,
           BoundariesKeepCall DEF CallerStep
    <2> QED BY <2>1, <2>2
<1> QED BY <1>2, <1>3, <1>4 DEF Next

-------------------------------------------------------------------------------
(***************************************************************************)
(* Flushing pods, and panics.                                              *)
(***************************************************************************)

\* A goroutine of a flush that has marked pod n and will write its final status.
Flusher(f, t, n) ==
    op[f] = "flush" /\ t \in tasks[f] /\ t.name = n /\ t.stage \in {"ask", "status"}

FlushInv == \A n \in Names : pods[n].status = "flushing" => \E f \in Callers : \E t : Flusher(f, t, n)

LEMMA FlushingParts == FlushingHasFlusher <=> TypeOK /\ (~panicked => FlushInv)
BY Zenon DEF FlushingHasFlusher, FlushInv, Flusher

\* Who marks a pod goes on to write its status; who overwrites the mark ends it.
LEMMA TaskKeepsFlusher ==
    ASSUME TypeOK, ~panicked, ~panicked', FlushInv, NEW f \in Callers, CallInv(f),
           NEW t \in tasks[f], TaskStep(f, t)
    PROVE  FlushInv'
<1>1. /\ op' = op /\ t \in Tasks /\ t.name \in Names
      /\ \A m \in Names : m # t.name => pods'[m] = pods[m]
      /\ \A g \in Callers : g # f => tasks'[g] = tasks[g]
    BY TaskFrame
<1>2. \A u \in tasks[f] : u # t => u \in tasks'[f]
    <2>1. End(f, t) \/ \E u : Become(f, t, u)
        BY DEF TaskStep, Mark, HealthAnswered, HealthGarbled, HealthFails, WriteSize,
            FlushAnswered, FlushFails, WriteStatus, StatsAnswered, StatsFail
    <2> QED BY <2>1, BecomeOrEnd
<1>3. ASSUME NEW n \in Names, NEW g \in Callers, NEW u, Flusher(g, u, n), g # f \/ u # t
      PROVE  Flusher(g, u, n)'
    BY <1>1, <1>2, <1>3 DEF Flusher
<1>4. ASSUME NEW n \in Names, n # t.name, pods'[n].status = "flushing"
      PROVE  \E g \in Callers : \E u : Flusher(g, u, n)'
    <2>1. PICK g, u : g \in Callers /\ Flusher(g, u, n)
        BY <1>1, <1>4 DEF FlushInv
    <2>2. u # t
        BY <1>4, <2>1 DEF Flusher
    <2> QED BY <1>3, <2>1, <2>2
<1>5. CASE op[f] # "flush" /\ (pods'[t.name].status = "flushing" => pods[t.name].status = "flushing")
    <2>1. ASSUME pods'[t.name].status = "flushing"
          PROVE  \E g \in Callers : \E u : Flusher(g, u, t.name)'
        <3>1. PICK g, u : g \in Callers /\ Flusher(g, u, t.name)
            BY <1>1, <1>5, <2>1 DEF FlushInv
        <3>2. g # f
            BY <1>5, <3>1 DEF Flusher
        <3> QED BY <1>1, <1>3, <3>1, <3>2
    <2> QED BY <1>4, <2>1 DEF FlushInv
<1>6. CASE op[f] = "flush" /\ \E u \in Tasks : /\ Become(f, t, u) /\ u.name = t.name
                                               /\ u.stage \in {"ask", "status"}
    <2>1. PICK u \in Tasks : Become(f, t, u) /\ u.name = t.name /\ u.stage \in {"ask", "status"}
        BY <1>6
    <2>2. Flusher(f, u, t.name)'
        BY <1>1, <1>6, <2>1, BecomeOrEnd DEF Flusher
    <2> QED BY <1>4, <2>2 DEF FlushInv
<1>7. CASE pods'[t.name].status # "flushing"
    BY <1>4, <1>7 DEF FlushInv
<1>8. CASE Mark(f, t)
    <2> DEFINE u == [t EXCEPT !.stage = "ask"]
    <2>1. u \in Tasks /\ u.name = t.name /\ u.stage = "ask"
        BY <1>1 DEF Tasks
    <2>2. Become(f, t, u) /\ op[f] = "flush"
        BY <1>8 DEF Mark, CallInv, StageInv
    <2> HIDE DEF u
    <2> QED BY <1>6, <2>1, <2>2
<1>9. CASE HealthAnswered(f, t) \/ HealthGarbled(f, t) \/ HealthFails(f, t)
           \/ StatsAnswered(f, t) \/ StatsFail(f, t)
    <2>1. op[f] # "flush" /\ pods' = pods
        BY <1>9 DEF HealthAnswered, HealthGarbled, HealthFails, StatsAnswered, StatsFail
    <2> QED BY <1>5, <2>1
<1>10. CASE WriteSize(f, t)
    <2>1. op[f] # "flush"
        BY <1>10 DEF WriteSize, CallInv, StageInv
    <2>2. pods'[t.name].status = pods[t.name].status
        BY <1>1, <1>10 DEF WriteSize, WriteEntry, TypeOK
    <2> QED BY <1>5, <2>1, <2>2
<1>11. CASE FlushAnswered(f, t) \/ FlushFails(f, t)
    <2>1. PICK b \in BOOLEAN : Become(f, t, [t EXCEPT !.stage = "status", !.ok = b])
        BY <1>11, Zenon DEF FlushAnswered, FlushFails
    <2> DEFINE u == [t EXCEPT !.stage = "status", !.ok = b]
    <2>2. u \in Tasks /\ u.name = t.name /\ u.stage = "status"
        BY <1>1 DEF Tasks
    <2>3. Become(f, t, u) /\ op[f] = "flush"
        BY <1>11, <2>1 DEF FlushAnswered, FlushFails
    <2> HIDE DEF u
    <2> QED BY <1>6, <2>2, <2>3
<1>12. CASE WriteStatus(f, t)
    <2>1. PICK s \in {"healthy", "unhealthy"} :
              WriteEntry(f, t.name, [pods[t.name] EXCEPT !.status = s])
        BY <1>12 DEF WriteStatus, AfterFlush
    <2>2. t.name \in Registered
        BY <2>1, WriteEntryPanics, Zenon
    <2>3. pods'[t.name].status = s
        BY <1>1, <2>1, <2>2 DEF WriteEntry, TypeOK
    <2> QED BY <1>7, <2>1, <2>3
<1> QED BY <1>8, <1>9, <1>10, <1>11, <1>12 DEF TaskStep

LEMMA FlushStep ==
    ASSUME TypeOK, Next, ~panicked', FlushInv, \A f \in Callers : CallInv(f)
    PROVE  FlushInv'
<1>1. ~panicked
    BY DEF Next
<1>2. ASSUME NEW f \in Callers, NEW t \in tasks[f], TaskStep(f, t)
      PROVE  FlushInv'
    BY <1>1, <1>2, TaskKeepsFlusher
<1>3. ASSUME op' = op, tasks' = tasks,
             \A n \in Names : pods'[n].status = "flushing" => pods[n].status = "flushing"
      PROVE  FlushInv'
    BY <1>3 DEF FlushInv, Flusher
<1>4. ASSUME NEW n \in Names, RegisterPod(n) \/ UnregisterPod(n)
      PROVE  FlushInv'
    <2>1. \A m \in Names : pods'[m].status = "flushing" => pods[m].status = "flushing"
        <3>1. CASE RegisterPod(n)
            BY <3>1 DEF RegisterPod, TypeOK
        <3>2. CASE UnregisterPod(n)
            BY <3>2 DEF UnregisterPod, Absent, TypeOK
        <3> QED BY <1>4, <3>1, <3>2
    <2> QED BY <1>3, <1>4, <2>1 DEF RegisterPod, UnregisterPod
<1>5. ASSUME \/ \E i \in RunIds : StartRun(i) \/ EndRun(i)
             \/ \E f \in Callers : Return(f) \/ LookAtSizes(f) \/ Wake(f) \/ GiveUp(f)
      PROVE  FlushInv'
    BY <1>3, <1>5 DEF StartRun, EndRun, Return, LookAtSizes, Wake, GiveUp, call
<1>6. ASSUME NEW f \in Callers, CopyPods(f) \/ \E o \in Ops : Call(f, o)
      PROVE  FlushInv'
    <2>1. tasks[f] = {} /\ pods' = pods
        BY <1>6 DEF CopyPods, Call, TypeOK
    <2>2. \A g \in Callers : g # f => op'[g] = op[g] /\ tasks'[g] = tasks[g]
        BY <1>6 DEF CopyPods, Call, TypeOK
    <2>3. \A g \in Callers : \A u, n : Flusher(g, u, n) => Flusher(g, u, n)'
        BY <2>1, <2>2 DEF Flusher
    <2> QED BY <2>1, <2>3 DEF FlushInv
<1> QED BY <1>2, <1>4, <1>5, <1>6 DEF Next, CallerStep

\* Only a goroutine that writes an entry panics.
LEMMA PanicIsWrite ==
    ASSUME Next, panicked'
    PROVE  \E f \in Callers : \E t \in tasks[f] :
               Mark(f, t) \/ WriteSize(f, t) \/ WriteStatus(f, t)
<1>1. ~panicked
    BY DEF Next
<1>2. ASSUME \A f \in Callers : \A t \in tasks[f] :
                 ~(Mark(f, t) \/ WriteSize(f, t) \/ WriteStatus(f, t))
      PROVE  panicked' = panicked
    <2>1. ASSUME NEW f \in Callers, NEW t \in tasks[f], TaskStep(f, t)
          PROVE  panicked' = panicked
        BY <1>2, <2>1 DEF TaskStep, HealthAnswered, HealthGarbled, HealthFails, FlushAnswered,
            FlushFails, StatsAnswered, StatsFail
    <2>2. ASSUME NEW f \in Callers, CallerStep(f)
          PROVE  panicked' = panicked
        BY <2>1, <2>2 DEF CallerStep, CopyPods, Return, LookAtSizes, Wake, GiveUp
    <2>3. ASSUME NEW f \in Callers, NEW o \in Ops, Call(f, o)
          PROVE  panicked' = panicked
        BY <2>3 DEF Call
    <2> QED BY <2>2, <2>3 DEF Next, RegisterPod, UnregisterPod, StartRun, EndRun
<1> QED BY <1>1, <1>2

\* The pod whose name is not found was copied by the call, which is bereft.
LEMMA PanicStep ==
    ASSUME TypeOK, Next, panicked', \A f \in Callers : CallInv(f)
    PROVE  PanicNeedsUnregister'
<1>1. ~panicked
    BY DEF Next
<1>2. PICK f, t :
          f \in Callers /\ t \in tasks[f] /\ (Mark(f, t) \/ WriteSize(f, t) \/ WriteStatus(f, t))
    BY PanicIsWrite
<1>3. UNCHANGED <<op, bereft>> /\ t.name \in snap[f] /\ phase[f] = "running"
    BY <1>1, <1>2, TaskFrame DEF TaskStep
<1>4. \E e : WriteEntry(f, t.name, e)
    BY <1>2 DEF Mark, WriteSize, WriteStatus
<1>5. t.name \notin Registered
    BY <1>4, WriteEntryPanics, Zenon
<1>6. f \in bereft
    BY <1>2, <1>3, <1>5 DEF CallInv, CopiedInv
<1>7. op[f] # "stats"
    BY <1>2 DEF Mark, WriteSize, WriteStatus, CallInv, StageInv
<1> QED BY <1>3, <1>6, <1>7 DEF PanicNeedsUnregister

\* What WaitForCompletion has returned stays true of what it saw, panic or not.
LEMMA DrainedStep ==
    ASSUME TypeOK, TypeOK', Next, \A f \in Callers : CallInv(f), NEW g \in Callers
    PROVE  DrainedInv(g)'
<1>1. CASE ~panicked'
    BY <1>1, CallStep DEF CallInv
<1>2. CASE panicked'
    <2>1. ~panicked
        BY DEF Next
    <2>2. PICK f, t :
              f \in Callers /\ t \in tasks[f] /\ (Mark(f, t) \/ WriteSize(f, t) \/ WriteStatus(f, t))
        BY <1>2, PanicIsWrite
    <2>3. TaskStep(f, t)
        BY <2>2 DEF TaskStep
    <2>4. CASE g = f
        <3>1. UNCHANGED <<phase, outcome>> /\ phase[f] = "running"
            BY <2>1, <2>2, <2>3, TaskFrame
        <3> QED BY <2>4, <3>1 DEF CallInv, DrainedInv
    <2>5. CASE g # f
        <3>1. Apart(g)
            BY <2>1, <2>2, <2>3, <2>5, OthersApart DEF CallerStep
        <3> QED BY <3>1, ApartKeepsCall DEF CallInv
    <2> QED BY <2>4, <2>5
<1> QED BY <1>1, <1>2

-------------------------------------------------------------------------------
(***************************************************************************)
(* Progress.                                                               *)
(***************************************************************************)

\* A set with one more element has one more at most.
LEMMA AddOne ==
    ASSUME NEW S, IsFiniteSet(S), NEW x, NEW R, R = S \cup {x}
    PROVE  IsFiniteSet(R) /\ Cardinality(R) \in Nat /\ Cardinality(R) <= Cardinality(S) + 1
<1>1. /\ IsFiniteSet(S \cup {x}) /\ Cardinality(S) \in Nat
      /\ Cardinality(S \cup {x}) = IF x \in S THEN Cardinality(S) ELSE Cardinality(S) + 1
    BY FS_AddElement, FS_CardinalityType
<1>2. Cardinality(S \cup {x}) \in Nat /\ Cardinality(S \cup {x}) <= Cardinality(S) + 1
    BY <1>1
<1> QED BY <1>1, <1>2, Zenon

\* Replacing one goroutine by one that is not at an earlier stage.
LEMMA StageCount ==
    ASSUME NEW T, IsFiniteSet(T), NEW t \in T, NEW u, NEW S,
           u.stage \in S => t.stage \in S
    PROVE  LET A == {x \in T : x.stage \in S}
               B == {x \in (T \ {t}) \cup {u} : x.stage \in S}
           IN  /\ Cardinality(A) \in Nat /\ Cardinality(B) \in Nat
               /\ Cardinality(B) <= Cardinality(A)
               /\ t.stage \in S /\ u.stage \notin S => Cardinality(B) < Cardinality(A)
<1> DEFINE A == {x \in T : x.stage \in S}
           B == {x \in (T \ {t}) \cup {u} : x.stage \in S}
           C == A \ {t}
<1>1. IsFiniteSet(A) /\ Cardinality(A) \in Nat
    BY FS_Subset, FS_CardinalityType
<1>2. /\ IsFiniteSet(C) /\ Cardinality(C) \in Nat
      /\ Cardinality(C) = IF t \in A THEN Cardinality(A) - 1 ELSE Cardinality(A)
    BY <1>1, FS_RemoveElement, FS_CardinalityType
<1>3. CASE u.stage \in S
    <2>1. B = C \cup {u} /\ t \in A
        BY <1>3
    <2> HIDE DEF A, B, C
    <2>2. Cardinality(B) \in Nat /\ Cardinality(B) <= Cardinality(C) + 1
        BY <1>2, <2>1, AddOne
    <2>3. Cardinality(B) <= Cardinality(A)
        BY <1>1, <1>2, <2>1, <2>2
    <2> QED BY <1>1, <1>3, <2>2, <2>3 DEF A, B
<1>4. CASE u.stage \notin S
    <2>1. B = C /\ (t.stage \in S => t \in A)
        BY <1>4
    <2> HIDE DEF A, B, C
    <2>2. /\ Cardinality(B) \in Nat /\ Cardinality(B) <= Cardinality(A)
          /\ t.stage \in S => Cardinality(B) < Cardinality(A)
        BY <1>1, <1>2, <2>1
    <2> QED BY <1>1, <2>2 DEF A, B
<1> QED BY <1>3, <1>4

\* A goroutine that ends leaves fewer steps.
LEMMA EndCount ==
    ASSUME TypeOK, NEW f \in Callers, NEW t \in tasks[f], End(f, t)
    PROVE  TaskSteps(f) \in Nat /\ TaskSteps(f)' \in Nat /\ TaskSteps(f)' < TaskSteps(f)
<1> DEFINE A(S) == At(f, S)
           B(S) == A(S) \ {t}
<1>1. IsFiniteSet(tasks[f]) /\ Cardinality(tasks[f]) \in Nat
    BY TasksFinite
<1>2. tasks'[f] = tasks[f] \ {t}
    BY BecomeOrEnd
<1>3. Cardinality(tasks'[f]) = Cardinality(tasks[f]) - 1 /\ Cardinality(tasks'[f]) \in Nat
    BY <1>1, <1>2, FS_RemoveElement, FS_CardinalityType
<1>4. ASSUME NEW S
      PROVE  /\ Cardinality(At(f, S)) \in Nat /\ Cardinality(At(f, S)') \in Nat
             /\ Cardinality(At(f, S)') <= Cardinality(At(f, S))
    <2>1. IsFiniteSet(At(f, S)) /\ At(f, S)' = At(f, S) \ {t}
        BY <1>1, <1>2, FS_Subset DEF At
    <2> QED BY <2>1, FS_RemoveElement, FS_CardinalityType
<1> QED BY <1>1, <1>3, <1>4 DEF TaskSteps

\* A goroutine that leaves a stage for a later one has fewer steps left.
LEMMA BecomeCount ==
    ASSUME TypeOK, NEW f \in Callers, NEW t \in tasks[f], NEW u \in Tasks, Become(f, t, u),
           u.name = t.name,
           \/ t.stage = "mark" /\ u.stage = "ask"
           \/ t.stage = "ask" /\ u.stage \in {"size", "status"}
           \/ t.stage = "size" /\ u.stage = "status"
    PROVE  TaskSteps(f) \in Nat /\ TaskSteps(f)' \in Nat /\ TaskSteps(f)' < TaskSteps(f)
<1>1. IsFiniteSet(tasks[f]) /\ Cardinality(tasks[f]) \in Nat
    BY TasksFinite
<1>2. tasks'[f] = (tasks[f] \ {t}) \cup {u}
    BY BecomeOrEnd
<1>3. Cardinality(tasks'[f]) <= Cardinality(tasks[f]) /\ Cardinality(tasks'[f]) \in Nat
    <2>1. /\ IsFiniteSet(tasks[f] \ {t})
          /\ Cardinality(tasks[f] \ {t}) = Cardinality(tasks[f]) - 1
        BY <1>1, FS_RemoveElement
    <2>2. /\ IsFiniteSet(tasks'[f])
          /\ Cardinality(tasks'[f]) <= Cardinality(tasks[f] \ {t}) + 1
        BY <1>2, <2>1, AddOne
    <2> QED BY <1>1, <2>1, <2>2, FS_CardinalityType
<1>4. ASSUME NEW S, u.stage \in S => t.stage \in S
      PROVE  /\ Cardinality(At(f, S)) \in Nat /\ Cardinality(At(f, S)') \in Nat
             /\ Cardinality(At(f, S)') <= Cardinality(At(f, S))
             /\ t.stage \in S /\ u.stage \notin S => Cardinality(At(f, S)') < Cardinality(At(f, S))
    <2> DEFINE A == {x \in tasks[f] : x.stage \in S}
               B == {x \in (tasks[f] \ {t}) \cup {u} : x.stage \in S}
    <2>1. At(f, S) = A /\ At(f, S)' = B
        BY <1>2 DEF At
    <2>2. /\ Cardinality(A) \in Nat /\ Cardinality(B) \in Nat
          /\ Cardinality(B) <= Cardinality(A)
          /\ t.stage \in S /\ u.stage \notin S => Cardinality(B) < Cardinality(A)
        BY <1>1, <1>4, StageCount
    <2> HIDE DEF A, B
    <2> QED BY <2>1, <2>2
<1> DEFINE n1 == Cardinality(At(f, {"mark"}))
           n2 == Cardinality(At(f, {"mark", "ask"}))
           n3 == Cardinality(At(f, {"mark", "ask", "size"}))
<1>5. /\ n1 \in Nat /\ n1' \in Nat /\ n1' <= n1
      /\ n2 \in Nat /\ n2' \in Nat /\ n2' <= n2
      /\ n3 \in Nat /\ n3' \in Nat /\ n3' <= n3
    BY <1>4
<1>6. n1' < n1 \/ n2' < n2 \/ n3' < n3
    BY <1>4
<1>7. TaskSteps(f) = n1 + n2 + n3 + Cardinality(tasks[f])
    BY DEF TaskSteps
<1>8. TaskSteps(f)' = n1' + n2' + n3' + Cardinality(tasks'[f])
    BY DEF TaskSteps
<1> HIDE DEF n1, n2, n3
<1> QED BY <1>1, <1>3, <1>5, <1>6, <1>7, <1>8

\* Every step of a goroutine leaves fewer.
LEMMA TaskProgress ==
    ASSUME TypeOK, NEW f \in Callers, CallInv(f), NEW t \in tasks[f], TaskStep(f, t)
    PROVE  TaskSteps(f) \in Nat /\ TaskSteps(f)' \in Nat /\ TaskSteps(f)' < TaskSteps(f)
<1>1. t \in Tasks
    BY DEF TypeOK
<1>2. CASE End(f, t)
    BY <1>2, EndCount
<1>3. CASE \E u \in Tasks : /\ Become(f, t, u) /\ u.name = t.name
                            /\ \/ t.stage = "mark" /\ u.stage = "ask"
                               \/ t.stage = "ask" /\ u.stage \in {"size", "status"}
                               \/ t.stage = "size" /\ u.stage = "status"
    BY <1>3, BecomeCount
<1>4. CASE Mark(f, t)
    <2> DEFINE u == [t EXCEPT !.stage = "ask"]
    <2>1. u \in Tasks /\ u.name = t.name /\ u.stage = "ask"
        BY <1>1 DEF Tasks
    <2>2. Become(f, t, u) /\ t.stage = "mark"
        BY <1>4 DEF Mark
    <2> HIDE DEF u
    <2> QED BY <1>3, <2>1, <2>2
<1>5. CASE HealthAnswered(f, t)
    <2>1. PICK n \in 0..MaxLoad :
              Become(f, t, [t EXCEPT !.stage = "size", !.size = n, !.ok = TRUE])
        BY <1>5 DEF HealthAnswered
    <2> DEFINE u == [t EXCEPT !.stage = "size", !.size = n, !.ok = TRUE]
    <2>2. u \in Tasks /\ u.name = t.name /\ u.stage = "size"
        BY <1>1 DEF Tasks
    <2>3. Become(f, t, u) /\ t.stage = "ask"
        BY <1>5, <2>1 DEF HealthAnswered
    <2> HIDE DEF u
    <2> QED BY <1>3, <2>2, <2>3
<1>6. CASE HealthGarbled(f, t) \/ HealthFails(f, t) \/ FlushAnswered(f, t) \/ FlushFails(f, t)
    <2>1. PICK b \in BOOLEAN : Become(f, t, [t EXCEPT !.stage = "status", !.ok = b])
        BY <1>6, Zenon DEF HealthGarbled, HealthFails, FlushAnswered, FlushFails
    <2> DEFINE u == [t EXCEPT !.stage = "status", !.ok = b]
    <2>2. u \in Tasks /\ u.name = t.name /\ u.stage = "status"
        BY <1>1 DEF Tasks
    <2>3. Become(f, t, u) /\ t.stage = "ask"
        BY <1>6, <2>1 DEF HealthGarbled, HealthFails, FlushAnswered, FlushFails
    <2> HIDE DEF u
    <2> QED BY <1>3, <2>2, <2>3
<1>7. CASE WriteSize(f, t)
    <2> DEFINE u == [t EXCEPT !.stage = "status"]
    <2>1. u \in Tasks /\ u.name = t.name /\ u.stage = "status"
        BY <1>1 DEF Tasks
    <2>2. Become(f, t, u) /\ t.stage = "size"
        BY <1>7 DEF WriteSize
    <2> HIDE DEF u
    <2> QED BY <1>3, <2>1, <2>2
<1>8. CASE WriteStatus(f, t) \/ StatsAnswered(f, t) \/ StatsFail(f, t)
    BY <1>2, <1>8 DEF WriteStatus, StatsAnswered, StatsFail
<1> QED BY <1>4, <1>5, <1>6, <1>7, <1>8 DEF TaskStep

\* A round begins with at most four steps for each pod.
LEMMA RoundFits ==
    ASSUME TypeOK', NEW f \in Callers
    PROVE  /\ TaskSteps(f)' \in Nat
           /\ TaskSteps(f)' <= 4 * Cardinality(Names) /\ Cardinality(Names) \in Nat
<1>1. /\ IsFiniteSet(tasks'[f])
      /\ Cardinality(tasks'[f]) \in Nat /\ Cardinality(Names) \in Nat
      /\ Cardinality(tasks'[f]) <= Cardinality(Names)
    BY OnePerName DEF TypeOK
<1>2. ASSUME NEW S
      PROVE  Cardinality(At(f, S)') \in Nat /\ Cardinality(At(f, S)') <= Cardinality(tasks'[f])
    <2>1. At(f, S)' \in SUBSET tasks'[f]
        BY DEF At
    <2> QED BY <1>1, <2>1, FS_Subset, FS_CardinalityType
<1> QED BY <1>1, <1>2 DEF TaskSteps

\* The rounds left weigh more than all steps of the rounds begun.
LEMMA ProgressStep ==
    ASSUME TypeOK, TypeOK', Next, \A g \in Callers : CallInv(g), NEW f \in Callers,
           phase[f] # "idle"
    PROVE  UNCHANGED <<phase[f], tasks[f], rounds[f]>> \/ StepsLeft(f)' < StepsLeft(f)
<1> DEFINE P == PerRound
           R == rounds[f] * P
<1>1. /\ ~panicked /\ CallInv(f)
      /\ Cardinality(Names) \in Nat /\ P = 4 * Cardinality(Names) + 4 /\ P \in Nat
      /\ PerRound' = P
    BY TasksFinite DEF Next, PerRound
<1>2. rounds[f] \in Nat /\ R \in Nat
    <2>1. rounds[f] \in Nat
        BY ControllerAssumption DEF TypeOK
    <2> HIDE DEF P
    <2> QED BY <1>1, <2>1
<1>3. CASE \/ \E n \in Names : RegisterPod(n) \/ UnregisterPod(n)
           \/ \E i \in RunIds : StartRun(i) \/ EndRun(i)
    BY <1>3 DEF RegisterPod, UnregisterPod, StartRun, EndRun, call
<1>4. ASSUME NEW g \in Callers, CallerStep(g) \/ \E o \in Ops : Call(g, o), g # f
      PROVE  UNCHANGED <<phase[f], tasks[f], rounds[f]>>
    BY <1>1, <1>4, OthersApart DEF Apart
<1>5. ASSUME NEW t \in tasks[f], TaskStep(f, t)
      PROVE  StepsLeft(f)' < StepsLeft(f)
    <2>1. phase' = phase /\ rounds' = rounds /\ phase[f] = "running"
        BY <1>1, <1>5, TaskFrame
    <2>2. TaskSteps(f) \in Nat /\ TaskSteps(f)' \in Nat /\ TaskSteps(f)' < TaskSteps(f)
        BY <1>1, <1>5, TaskProgress
    <2>3. StepsLeft(f) = R + (2 + TaskSteps(f)) /\ StepsLeft(f)' = R + (2 + TaskSteps(f)')
        BY <1>1, <2>1 DEF StepsLeft
    <2> HIDE DEF P, R
    <2> QED BY <1>2, <2>2, <2>3
<1>6. CASE CopyPods(f)
    <2>1. phase[f] = "go" /\ phase'[f] = "running" /\ rounds' = rounds
        BY <1>6 DEF CopyPods, TypeOK
    <2>2. TaskSteps(f)' \in Nat /\ TaskSteps(f)' <= 4 * Cardinality(Names)
        BY RoundFits
    <2>3. StepsLeft(f) = R + (P - 1) /\ StepsLeft(f)' = R + (2 + TaskSteps(f)')
        BY <1>1, <2>1 DEF StepsLeft
    <2> HIDE DEF P, R
    <2> QED BY <1>1, <1>2, <2>2, <2>3
<1>7. CASE Return(f) \/ LookAtSizes(f)
    <2>1. /\ phase[f] = "running" /\ tasks[f] = {} /\ phase'[f] \in {"idle", "sleep"}
          /\ rounds' = rounds
        BY <1>7 DEF Return, LookAtSizes, AllDone, TypeOK
    <2>2. TaskSteps(f) = 0
        <3>1. \A S : At(f, S) = {}
            BY <2>1 DEF At
        <3> QED BY <2>1, <3>1, FS_EmptySet DEF TaskSteps
    <2>3. /\ StepsLeft(f) = R + 2
          /\ StepsLeft(f)' = R + (IF phase'[f] = "idle" THEN 0 ELSE 1)
        BY <1>1, <2>1, <2>2 DEF StepsLeft
    <2> HIDE DEF P, R
    <2> QED BY <1>2, <2>3
<1>8. CASE Wake(f)
    <2>1. phase[f] = "sleep" /\ phase'[f] = "go" /\ rounds[f] > 0
        BY <1>1, <1>8 DEF Wake, TypeOK, CallInv, StageInv
    <2>2. rounds'[f] = rounds[f] - 1
        BY <1>8, <2>1 DEF Wake, TypeOK
    <2>3. StepsLeft(f) = R + 1 /\ StepsLeft(f)' = (rounds[f] - 1) * P + (P - 1)
        BY <1>1, <2>1, <2>2 DEF StepsLeft
    <2> HIDE DEF P
    <2>4. (rounds[f] - 1) * P = R - P
        BY <1>1, <1>2
    <2> HIDE DEF R
    <2> QED BY <1>1, <1>2, <2>3, <2>4
<1>9. CASE GiveUp(f)
    <2>1. phase[f] \in {"go", "sleep"} /\ phase'[f] = "idle" /\ rounds' = rounds
        BY <1>9 DEF GiveUp, TypeOK
    <2>2. /\ StepsLeft(f) = R + (IF phase[f] = "go" THEN P - 1 ELSE 1)
          /\ StepsLeft(f)' = R + 0
        BY <1>1, <2>1 DEF StepsLeft
    <2> HIDE DEF P, R
    <2> QED BY <1>1, <1>2, <2>2
<1>10. \A o \in Ops : ~Call(f, o)
    BY DEF Call
<1> QED BY <1>3, <1>4, <1>5, <1>6, <1>7, <1>8, <1>9, <1>10 DEF Next, CallerStep

-------------------------------------------------------------------------------
(***************************************************************************)
(* Theorems.                                                               *)
(***************************************************************************)

LEMMA ControllerInvInit == Init => ControllerInv
<1> SUFFICES ASSUME Init PROVE ControllerInv
    OBVIOUS
<1>1. TypeOK
    <2>1. MaxLoad * Cardinality(Names) \in Nat
        BY ControllerAssumption, FS_CardinalityType
    <2>2. panicked \in BOOLEAN
        BY Zenon DEF Init
    <2>3. total \in [Callers -> 0..MaxLoad * Cardinality(Names)]
        BY <2>1 DEF Init
    <2>4. /\ pods \in [Names -> [gen : 0..MaxRegs, status : Statuses, size : 0..MaxLoad]]
          /\ runs \in [RunIds -> [status : {"none", "running", "completed"}, pods : SUBSET Names]]
        BY ControllerAssumption DEF Init, Absent, NoRun, Statuses
    <2>5. told \in [Callers -> [Names -> {"nothing", "empty", "loaded", "garbled", "failed"}]]
        BY DEF Init
    <2> QED BY <2>2, <2>3, <2>4, <2>5, ControllerAssumption DEF Init, TypeOK
<1>2. ~panicked /\ FlushInv
    BY DEF Init, FlushInv, Absent
<1>3. ASSUME NEW f \in Callers
      PROVE  CallInv(f)
    <2>1. /\ tasks[f] = {} /\ phase[f] = "idle" /\ op[f] = "none" /\ total[f] = 0
          /\ outcome[f] = "none"
        BY DEF Init
    <2>2. TotalInv(f)
        <3>1. MaxLoad * Cardinality(tasks[f]) = 0 /\ MaxLoad * Cardinality(Names) \in Nat
            BY <2>1, ControllerAssumption, FS_EmptySet, FS_CardinalityType
        <3> QED BY <2>1, <3>1 DEF TotalInv
    <2> QED BY <2>1, <2>2 DEF CallInv, StageInv, CopiedInv, RoundInv, DrainedInv
<1>4. FlushingHasFlusher
    BY <1>1, <1>2, FlushingParts
<1>5. PanicNeedsUnregister
    BY <1>2 DEF PanicNeedsUnregister
<1> QED BY <1>3, <1>4, <1>5 DEF ControllerInv, CallInv

LEMMA FlushingPartsNext == (TypeOK /\ (~panicked => FlushInv))' => FlushingHasFlusher'
BY FlushingParts, PTL

LEMMA ControllerInvStep == ControllerInv /\ [Next]_vars => ControllerInv'
<1> SUFFICES ASSUME ControllerInv, [Next]_vars PROVE ControllerInv'
    OBVIOUS
<1>1. CASE Next
    <2>1. ~panicked /\ TypeOK /\ FlushInv /\ \A f \in Callers : CallInv(f)
        BY <1>1, FlushingParts DEF Next, ControllerInv
    <2>2. TypeOK'
        BY <1>1, <2>1, TypeStep DEF CallInv
    <2>3. ~panicked' => FlushInv'
        BY <1>1, <2>1, FlushStep
    <2>4. ~panicked' => \A f \in Callers : CallInv(f)'
        BY <1>1, <2>1, <2>2, CallStep
    <2>5. PanicNeedsUnregister'
        <3>1. CASE panicked'
            BY <1>1, <2>1, <3>1, PanicStep
        <3>2. CASE ~panicked'
            BY <3>2 DEF PanicNeedsUnregister
        <3> QED BY <3>1, <3>2
    <2>6. FlushingHasFlusher'
        BY <2>2, <2>3, FlushingPartsNext
    <2>7. \A f \in Callers : DrainedInv(f)'
        BY <1>1, <2>1, <2>2, DrainedStep
    <2> QED BY <2>4, <2>5, <2>6, <2>7 DEF ControllerInv
<1>2. CASE UNCHANGED vars
    BY <1>2 DEF vars, call, ControllerInv, FlushingHasFlusher, TypeOK, PanicNeedsUnregister,
        CallInv, StageInv, TotalInv, CopiedInv, RoundInv, HeardInv, WrittenInv, DrainedInv,
        Registered
<1> QED BY <1>1, <1>2

\* In every reachable state ControllerInv holds.
THEOREM ControllerInvariant == Spec => []ControllerInv
BY ControllerInvInit, ControllerInvStep, PTL DEF Spec

\* A pod is shown as flushing only while a goroutine of FlushAll is at work on
\* its name and will still write the final status (controller.go 190-206).
THEOREM FlushingIsTemporary == Spec => []FlushingHasFlusher
<1>1. ControllerInv => FlushingHasFlusher
    BY DEF ControllerInv
<1> QED BY <1>1, ControllerInvariant, PTL

\* A panic of the controller needs a pod that was unregistered under a call that
\* had copied it, and that call is not GetStats (controller.go 116-124, 154-158,
\* 189-205).
THEOREM OnlyUnregisterPanics == Spec => []PanicNeedsUnregister
<1>1. ControllerInv => PanicNeedsUnregister
    BY DEF ControllerInv
<1> QED BY <1>1, ControllerInvariant, PTL

\* When WaitForCompletion returns nil, each pod of its last round that nobody else
\* wrote has reported an empty buffer in that round, has not answered, or gave no
\* readable size (controller.go 332-349).
THEOREM NilMeansDrained == Spec => []DrainedOrUnseen
<1>1. ControllerInv => DrainedOrUnseen
    BY DEF ControllerInv, DrainedInv, DrainedOrUnseen
<1> QED BY <1>1, ControllerInvariant, PTL

\* Each step of a call leaves it fewer steps, so that every call ends if its
\* goroutines go on (controller.go 325-359).
THEOREM EveryCallEnds == Spec => CallsEnd
<1> DEFINE Progress == \A f \in Callers : phase[f] # "idle" =>
                           \/ UNCHANGED <<phase[f], tasks[f], rounds[f]>>
                           \/ StepsLeft(f)' < StepsLeft(f)
<1>1. ControllerInv /\ ControllerInv' /\ [Next]_vars => [Progress]_vars
    <2> SUFFICES ASSUME ControllerInv, ControllerInv', Next
                 PROVE  Progress
        OBVIOUS
    <2>1. TypeOK /\ TypeOK' /\ \A f \in Callers : CallInv(f)
        BY DEF ControllerInv, FlushingHasFlusher, Next
    <2> QED BY <2>1, ProgressStep
<1> QED BY <1>1, ControllerInvariant, PTL DEF Spec, CallsEnd

=============================================================================
