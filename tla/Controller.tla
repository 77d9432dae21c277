------------------------------ MODULE Controller ------------------------------
(***************************************************************************)
(* The orchestrator: Controller (sidecar-go/orchestrator/controller.go), a *)
(* library whose callers register pods and ask all of them for their       *)
(* health, for statistics or to flush.  Each such call copies the list of  *)
(* pods under podsMu, starts one goroutine per pod and waits for all.  The *)
(* goroutines send a request with a 10 s timeout and no lock held.  Those  *)
(* of GetStats add what they learnt up; the others look their pod up       *)
(* again, by name, to write it there.                                      *)
(*                                                                         *)
(* Pods are numbered by registration: a name that is registered again has  *)
(* a new Pod object with a new address.  The sidecars behind the addresses *)
(* are external: any answer, and none at all, may come.  Each section      *)
(* under podsMu is one step.                                               *)
(***************************************************************************)
EXTENDS Naturals, FiniteSets

CONSTANTS
    Names,     \* names of pods
    Callers,   \* goroutines that call the controller
    RunIds,    \* identifiers of test runs
    MaxRegs,   \* bound: registrations
    MaxCalls,  \* bound: calls that ask the pods
    MaxLoad,   \* bound: size of a sidecar's buffer
    MaxRounds  \* rounds of WaitForCompletion that fit into maxWait

ASSUME ControllerAssumption ==
    /\ "none" \notin Callers
    /\ IsFiniteSet(Names)
    /\ MaxRegs \in Nat /\ MaxCalls \in Nat /\ MaxLoad \in Nat /\ MaxRounds \in Nat

VARIABLES
    pods,      \* Controller.pods; gen = 0: no entry
    runs,      \* Controller.runs
    regs,      \* registrations so far
    calls,     \* calls so far
    panicked,  \* a nil *Pod was dereferenced: the process is gone
    op,        \* what a caller called, or called last
    phase,     \* where the call is
    tasks,     \* its goroutines that are not done
    rounds,    \* rounds left to WaitForCompletion
    outcome,   \* what WaitForCompletion returned
    total,     \* what GetStats has added up (one of its three numbers)
    snap,      \* names in the call's (last) copy of the pods
    told,      \* ghost: what each pod answered to the (last) health check of the call
    touched,   \* ghost: names whose entry others wrote since the copy
    bereft     \* ghost: callers whose call lost one of its pods to UnregisterPod

call == <<op, phase, tasks, rounds, outcome, total, snap, told, touched, bereft>>
vars  == <<pods, runs, regs, calls, panicked, call>>

Statuses == {"unknown", "healthy", "unhealthy", "flushing"}
Ops      == {"health", "flush", "wait", "stats"}

Absent == [gen |-> 0, status |-> "unknown", size |-> 0]
NoRun  == [status |-> "none", pods |-> {}]

Tasks == [name : Names, stage : {"mark", "ask", "size", "status"},
          size : 0..MaxLoad, ok : BOOLEAN]

TypeOK ==
    /\ pods \in [Names -> [gen : 0..MaxRegs, status : Statuses, size : 0..MaxLoad]]
    /\ runs \in [RunIds -> [status : {"none", "running", "completed"}, pods : SUBSET Names]]
    /\ regs \in 0..MaxRegs
    /\ calls \in 0..MaxCalls
    /\ panicked \in BOOLEAN
    /\ op \in [Callers -> Ops \cup {"none"}]
    /\ phase \in [Callers -> {"idle", "go", "running", "sleep"}]
    /\ tasks \in [Callers -> SUBSET Tasks]
    /\ rounds \in [Callers -> 0..MaxRounds]
    /\ outcome \in [Callers -> {"none", "empty", "error"}]
    /\ total \in [Callers -> 0..MaxLoad * Cardinality(Names)]
    /\ snap \in [Callers -> SUBSET Names]
    /\ told \in [Callers -> [Names -> {"nothing", "empty", "loaded", "garbled", "failed"}]]
    /\ touched \in [Callers -> SUBSET Names]
    /\ bereft \subseteq Callers
    \* one goroutine per pod of the copy, and only while the call waits for them
    /\ \A f \in Callers :
          /\ \A t, u \in tasks[f] : t.name = u.name => t = u
          /\ \A t \in tasks[f] : t.name \in snap[f]
          /\ tasks[f] # {} => phase[f] = "running"

Registered == {n \in Names : pods[n].gen # 0}

-------------------------------------------------------------------------------
(***************************************************************************)
(* Faulty variants, by which the properties are tested.                    *)
(***************************************************************************)
AfterFlushIfOk(ok) == IF ok THEN "healthy" ELSE "flushing"  \* else branch of 201-205 lost
FirstIsEmpty ==                            \* only one pod is looked at
    \E n \in Registered : pods[n].status = "healthy" /\ pods[n].size = 0
NoWait(f) == TRUE                          \* wg.Wait forgotten
NoDeadline(f) == TRUE                      \* WaitForCompletion without maxWait

-------------------------------------------------------------------------------
Init ==
    /\ pods = [n \in Names |-> Absent]
    /\ runs = [i \in RunIds |-> NoRun]
    /\ regs = 0 /\ calls = 0
    /\ panicked = FALSE
    /\ op = [f \in Callers |-> "none"]
    /\ phase = [f \in Callers |-> "idle"]
    /\ tasks = [f \in Callers |-> {}]
    /\ rounds = [f \in Callers |-> 0]
    /\ outcome = [f \in Callers |-> "none"]
    /\ total = [f \in Callers |-> 0]
    /\ snap = [f \in Callers |-> {}]
    /\ told = [f \in Callers |-> [n \in Names |-> "nothing"]]
    /\ touched = [f \in Callers |-> {}]
    /\ bereft = {}

\* The entry of n was written by caller f, or by none of the calls (f \notin Callers).
Touch(f, n) ==
    touched' = [g \in Callers |-> IF g # f /\ op[g] = "wait" /\ phase[g] # "idle"
                                  THEN touched[g] \cup {n} ELSE touched[g]]

\* What the pod of t answered to f.
Told(f, t, a) == told' = IF op[f] = "wait" THEN [told EXCEPT ![f][t.name] = a] ELSE told

-------------------------------------------------------------------------------
(* Registration and runs. *)

\* RegisterPod replaces an entry of that name, whatever calls are doing with it.
RegisterPod(n) ==
    /\ regs < MaxRegs
    /\ regs' = regs + 1
    /\ pods' = [pods EXCEPT ![n] = [gen |-> regs + 1, status |-> "unknown", size |-> 0]]
    /\ Touch("none", n)
    /\ UNCHANGED <<runs, calls, panicked, op, phase, tasks, rounds, outcome,
                   total, snap, told, bereft>>

UnregisterPod(n) ==
    /\ n \in Registered
    /\ pods' = [pods EXCEPT ![n] = Absent]
    /\ Touch("none", n)
    /\ bereft' = bereft \cup {f \in Callers : phase[f] = "running" /\ n \in snap[f]}
    /\ UNCHANGED <<runs, regs, calls, panicked, op, phase, tasks, rounds,
                   outcome, total, snap, told>>

StartRun(i) ==
    /\ runs[i] = NoRun
    /\ runs' = [runs EXCEPT ![i] =
                   [status |-> "running",
                    pods |-> {n \in Registered : pods[n].status = "healthy"}]]
    /\ UNCHANGED <<pods, regs, calls, panicked, call>>

EndRun(i) ==
    /\ runs[i] # NoRun
    /\ runs' = [runs EXCEPT ![i].status = "completed"]
    /\ UNCHANGED <<pods, regs, calls, panicked, call>>

-------------------------------------------------------------------------------
(* Calls. *)

Call(f, o) ==
    /\ phase[f] = "idle"
    /\ calls < MaxCalls
    /\ calls' = calls + 1
    /\ op' = [op EXCEPT ![f] = o]
    /\ phase' = [phase EXCEPT ![f] = "go"]
    /\ rounds' = [rounds EXCEPT ![f] = IF o = "wait" THEN MaxRounds ELSE 0]
    /\ outcome' = [outcome EXCEPT ![f] = "none"]
    /\ snap' = [snap EXCEPT ![f] = {}]
    /\ told' = [told EXCEPT ![f] = [n \in Names |-> "nothing"]]
    /\ touched' = [touched EXCEPT ![f] = {}]
    /\ total' = [total EXCEPT ![f] = 0]
    /\ UNCHANGED <<pods, runs, regs, panicked, tasks, bereft>>

\* WaitForCompletion starts another round only before the deadline.
InTime(f) == rounds[f] > 0

\* The list of pods is copied and one goroutine per pod started.
CopyPods(f) ==
    /\ phase[f] = "go"
    /\ op[f] = "wait" => InTime(f)
    /\ phase' = [phase EXCEPT ![f] = "running"]
    /\ snap' = [snap EXCEPT ![f] = Registered]
    /\ tasks' = [tasks EXCEPT ![f] =
                    {[name |-> n, size |-> 0, ok |-> FALSE,
                      stage |-> IF op[f] = "flush" THEN "mark" ELSE "ask"] : n \in Registered}]
    /\ told' = [told EXCEPT ![f] = [n \in Names |-> "nothing"]]
    /\ touched' = [touched EXCEPT ![f] = {}]
    /\ bereft' = bereft \ {f}
    /\ UNCHANGED <<pods, runs, regs, calls, panicked, op, rounds, outcome, total>>

\* A goroutine of f goes from t to u, or ends.
Become(f, t, u) == tasks' = [tasks EXCEPT ![f] = (@ \ {t}) \cup {u}]
End(f, t)       == tasks' = [tasks EXCEPT ![f] = @ \ {t}]

\* c.pods[name].field = ...: a panic if the name is no longer registered.
WriteEntry(f, n, e) ==
    /\ panicked' = (n \notin Registered)
    /\ pods' = IF n \in Registered THEN [pods EXCEPT ![n] = e] ELSE pods
    /\ Touch(f, n)

\* FlushAll marks the pod before it sends the request.
Mark(f, t) ==
    /\ t.stage = "mark"
    /\ WriteEntry(f, t.name, [pods[t.name] EXCEPT !.status = "flushing"])
    /\ Become(f, t, [t EXCEPT !.stage = "ask"])
    /\ UNCHANGED <<runs, regs, calls, op, phase, rounds, outcome, total, snap,
                   told, bereft>>

\* healthCheck: 200, and buffer_size could be read from the answer ...
HealthAnswered(f, t) ==
    /\ t.stage = "ask" /\ op[f] \in {"health", "wait"}
    /\ \E n \in 0..MaxLoad :
          /\ Become(f, t, [t EXCEPT !.stage = "size", !.size = n, !.ok = TRUE])
          /\ Told(f, t, IF n = 0 THEN "empty" ELSE "loaded")
    /\ UNCHANGED <<pods, runs, regs, calls, panicked, op, phase, rounds,
                   outcome, total, snap, touched, bereft>>

\* ... or could not, which is no error, ...
HealthGarbled(f, t) ==
    /\ t.stage = "ask" /\ op[f] \in {"health", "wait"}
    /\ Become(f, t, [t EXCEPT !.stage = "status", !.ok = TRUE])
    /\ Told(f, t, "garbled")
    /\ UNCHANGED <<pods, runs, regs, calls, panicked, op, phase, rounds,
                   outcome, total, snap, touched, bereft>>

\* ... or no answer within 10 s, another status, a cancelled context.
HealthFails(f, t) ==
    /\ t.stage = "ask" /\ op[f] \in {"health", "wait"}
    /\ Become(f, t, [t EXCEPT !.stage = "status", !.ok = FALSE])
    /\ Told(f, t, "failed")
    /\ UNCHANGED <<pods, runs, regs, calls, panicked, op, phase, rounds,
                   outcome, total, snap, touched, bereft>>

\* healthCheck writes the size, in a section of its own.
WriteSize(f, t) ==
    /\ t.stage = "size"
    /\ WriteEntry(f, t.name, [pods[t.name] EXCEPT !.size = t.size])
    /\ Become(f, t, [t EXCEPT !.stage = "status"])
    /\ UNCHANGED <<runs, regs, calls, op, phase, rounds, outcome, total, snap,
                   told, bereft>>

\* flushPod: 200 and a body that can be decoded.
FlushAnswered(f, t) ==
    /\ t.stage = "ask" /\ op[f] = "flush"
    /\ Become(f, t, [t EXCEPT !.stage = "status", !.ok = TRUE])
    /\ UNCHANGED <<pods, runs, regs, calls, panicked, op, phase, rounds,
                   outcome, total, snap, told, touched, bereft>>

FlushFails(f, t) ==
    /\ t.stage = "ask" /\ op[f] = "flush"
    /\ Become(f, t, [t EXCEPT !.stage = "status", !.ok = FALSE])
    /\ UNCHANGED <<pods, runs, regs, calls, panicked, op, phase, rounds,
                   outcome, total, snap, told, touched, bereft>>

\* The status FlushAll writes in the end.
AfterFlush(ok) == IF ok THEN "healthy" ELSE "unhealthy"

\* HealthCheckAll and FlushAll write the status; the goroutine is done.
WriteStatus(f, t) ==
    LET s == IF op[f] = "flush" THEN AfterFlush(t.ok)
             ELSE IF t.ok THEN "healthy" ELSE "unhealthy" IN
    /\ t.stage = "status"
    /\ WriteEntry(f, t.name, [pods[t.name] EXCEPT !.status = s])
    /\ End(f, t)
    /\ UNCHANGED <<runs, regs, calls, op, phase, rounds, outcome, total, snap,
                   told, bereft>>

\* GetStats: the sum grows by what the body says, whatever the status is, ...
StatsAnswered(f, t) ==
    /\ t.stage = "ask" /\ op[f] = "stats"
    /\ \E n \in 0..MaxLoad : total' = [total EXCEPT ![f] = @ + n]
    /\ End(f, t)
    /\ UNCHANGED <<pods, runs, regs, calls, panicked, op, phase, rounds, outcome,
                   snap, told, touched, bereft>>

\* ... and by nothing if there is none that can be decoded.
StatsFail(f, t) ==
    /\ t.stage = "ask" /\ op[f] = "stats"
    /\ End(f, t)
    /\ UNCHANGED <<pods, runs, regs, calls, panicked, op, phase, rounds, outcome,
                   total, snap, told, touched, bereft>>

TaskStep(f, t) ==
    \/ Mark(f, t)
    \/ HealthAnswered(f, t) \/ HealthGarbled(f, t) \/ HealthFails(f, t)
    \/ WriteSize(f, t)
    \/ FlushAnswered(f, t) \/ FlushFails(f, t)
    \/ WriteStatus(f, t)
    \/ StatsAnswered(f, t) \/ StatsFail(f, t)

\* wg.Wait returns when every goroutine is done, ...
AllDone(f) == tasks[f] = {}

\* ... and with it every call but WaitForCompletion.  What a call has copied is gone
\* when it returns.
Return(f) ==
    /\ phase[f] = "running" /\ AllDone(f) /\ op[f] # "wait"
    /\ phase' = [phase EXCEPT ![f] = "idle"]
    /\ snap' = [snap EXCEPT ![f] = {}] /\ total' = [total EXCEPT ![f] = 0]
    /\ UNCHANGED <<pods, runs, regs, calls, panicked, op, tasks, rounds,
                   outcome, told, touched, bereft>>

\* allEmpty: no pod that is healthy has a size above 0.
AllEmpty == \A n \in Registered : ~(pods[n].status = "healthy" /\ pods[n].size > 0)

\* WaitForCompletion looks at the sizes: it returns nil, or waits ...
LookAtSizes(f) ==
    /\ phase[f] = "running" /\ AllDone(f) /\ op[f] = "wait"
    /\ phase' = [phase EXCEPT ![f] = IF AllEmpty THEN "idle" ELSE "sleep"]
    /\ outcome' = [outcome EXCEPT ![f] = IF AllEmpty THEN "empty" ELSE "none"]
    /\ UNCHANGED <<pods, runs, regs, calls, panicked, op, tasks, rounds, total,
                   snap, told, touched, bereft>>

\* ... for checkInterval ...
Wake(f) ==
    /\ phase[f] = "sleep"
    /\ phase' = [phase EXCEPT ![f] = "go"]
    /\ rounds' = [rounds EXCEPT ![f] = IF @ > 0 THEN @ - 1 ELSE 0]
    /\ UNCHANGED <<pods, runs, regs, calls, panicked, op, tasks, outcome, total,
                   snap, told, touched, bereft>>

\* ... and returns an error when the context is done, or maxWait is over.
GiveUp(f) ==
    /\ op[f] = "wait" /\ phase[f] \in {"go", "sleep"}
    /\ phase' = [phase EXCEPT ![f] = "idle"]
    /\ outcome' = [outcome EXCEPT ![f] = "error"]
    /\ snap' = [snap EXCEPT ![f] = {}]
    /\ told' = [told EXCEPT ![f] = [n \in Names |-> "nothing"]]
    /\ touched' = [touched EXCEPT ![f] = {}]
    /\ UNCHANGED <<pods, runs, regs, calls, panicked, op, tasks, rounds, total, bereft>>

CallerStep(f) ==
    \/ CopyPods(f)
    \/ \E t \in tasks[f] : TaskStep(f, t)
    \/ Return(f) \/ LookAtSizes(f) \/ Wake(f) \/ GiveUp(f)

Next ==
    /\ ~panicked
    /\ \/ \E n \in Names : RegisterPod(n) \/ UnregisterPod(n)
       \/ \E i \in RunIds : StartRun(i) \/ EndRun(i)
       \/ \E f \in Callers : CallerStep(f) \/ \E o \in Ops : Call(f, o)

Spec == Init /\ [][Next]_vars

-------------------------------------------------------------------------------
(***************************************************************************)
(* Properties.                                                             *)
(***************************************************************************)

\* A pod is shown as flushing only while a goroutine of FlushAll is at work on
\* its name and will still write the final status, however flushes, health
\* checks and registrations overlap (controller.go 190-206); and there is one
\* goroutine at most per call and pod (TypeOK).
FlushingHasFlusher ==
    /\ TypeOK
    /\ ~panicked => \A n \in Names : pods[n].status = "flushing" =>
          \E f \in Callers : op[f] = "flush" /\ \E t \in tasks[f] :
              t.name = n /\ t.stage \in {"ask", "status"}

\* When WaitForCompletion returns nil, every pod it asked in the last round
\* reported an empty buffer in that round, did not answer, gave no readable
\* size, or had its entry written by somebody else meanwhile (332-349).
DrainedOrUnseen ==
    \A f \in Callers : outcome[f] = "empty" =>
        \A n \in snap[f] \ touched[f] : told[f][n] \in {"empty", "failed", "garbled"}

\* A call takes the process down only if a pod it had copied was unregistered
\* before the call returned, and GetStats never does: registering a pod anew,
\* other calls, and UnregisterPod between calls are all safe (controller.go 74-79,
\* 116-124, 154-158, 189-205; wg.Wait in 127, 210 and 411).
PanicNeedsUnregister ==
    panicked => \E f \in bereft : op[f] # "stats"

\* The goroutines of f that are at one of the stages.
At(f, stages) == {t \in tasks[f] : t.stage \in stages}

\* The steps that the goroutines of f can still take: one for each stage not left.
TaskSteps(f) ==
    Cardinality(At(f, {"mark"})) + Cardinality(At(f, {"mark", "ask"}))
    + Cardinality(At(f, {"mark", "ask", "size"})) + Cardinality(tasks[f])

PerRound == 4 * Cardinality(Names) + 4

\* The steps that the call of f can still take.
StepsLeft(f) ==
    rounds[f] * PerRound +
    CASE phase[f] = "idle" -> 0 [] phase[f] = "sleep" -> 1
      [] phase[f] = "running" -> 2 + TaskSteps(f)
      [] phase[f] = "go" -> PerRound - 1

\* Every call ends after a bounded number of steps of its own, however its pods answer
\* and whatever other callers do meanwhile: WaitForCompletion too, when a pod never
\* drains (controller.go 325-359).
CallsEnd ==
    [][\A f \in Callers : phase[f] # "idle" =>
          \/ UNCHANGED <<phase[f], tasks[f], rounds[f]>>
          \/ StepsLeft(f)' < StepsLeft(f)]_vars
===============================================================================
