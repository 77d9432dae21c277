---------------------------- MODULE LoadGenerator ----------------------------
(***************************************************************************)
(* The load generators and the sidecar they report to: the virtual users   *)
(* of k6-script.js and of scenarios/base.js, which send their requests in  *)
(* batches and look at no answer, the connection in between, the handler   *)
(* of batches (handlers/handlers.go), and the store behind it, of which    *)
(* only what EventStore promises is used, as with one flushing goroutine.  *)
(*                                                                         *)
(* Every virtual user is a JavaScript context of its own: a buffer, and at *)
(* most one http.post, which returns after 5 s at the latest.  A handler   *)
(* whose client no longer waits goes on: its batch may be stored all the   *)
(* same, and later than the next one.  The i-th request of v is <<v, i>>.  *)
(***************************************************************************)
EXTENDS Naturals, Sequences, FiniteSets, SequencesExt

CONSTANTS
    VUs,       \* virtual users
    BatchSize, \* BATCH_SIZE
    MaxIter,   \* bound: requests of one virtual user
    Failing    \* the requests that k6 reports with an error code, a number

Requests == VUs \X (1..MaxIter)

ASSUME LoadAssumption ==
    /\ BatchSize \in Nat \ {0}
    /\ MaxIter \in Nat
    /\ Failing \subseteq Requests

VARIABLES
    made,        \* requests a virtual user has made
    eventBuffer, \* those it has not sent
    waiting,     \* virtual users in http.post
    ended,       \* virtual users that k6 has stopped
    over,        \* teardown has run
    underWay,    \* batches that the handler has not dealt with
    pending,     \* requests in the memory of the sidecar
    stored,      \* its rows
    lost,        \* ghost: requests that did not reach the sidecar, or died with it
    refused,     \* ghost: batches that were answered 400
    left,        \* ghost: requests left behind in the buffers
    late         \* ghost: virtual users that stopped waiting for a batch under way

clientVars  == <<made, eventBuffer, waiting, ended, over>>
sidecarVars == <<pending, stored>>
ghosts      == <<lost, refused, left, late>>
vars == <<clientVars, underWay, sidecarVars, ghosts>>

Sidecar == INSTANCE EventStore WITH Events <- Requests

InFlight  == UNION {ToSet(b) : b \in underWay}
Refused   == UNION {ToSet(b) : b \in refused}

TypeOK ==
    /\ made \in [VUs -> 0..MaxIter]
    /\ eventBuffer \in [VUs -> Seq(Requests)]
    /\ \A v \in VUs : Len(eventBuffer[v]) < BatchSize
    /\ waiting \subseteq VUs \ ended /\ ended \subseteq VUs /\ late \subseteq VUs
    /\ over \in BOOLEAN
    /\ underWay \subseteq Seq(Requests) /\ refused \subseteq Seq(Requests)
    /\ pending \in Seq(Requests) /\ stored \in Seq(Requests)
    /\ lost \subseteq Requests /\ left \subseteq Requests

-------------------------------------------------------------------------------
(***************************************************************************)
(* Faulty variants, by which the properties are tested.                    *)
(***************************************************************************)
FullLate(n) == n > BatchSize                         \* off by one
SendAgain(v) ==                                      \* a post that timed out is repeated
    /\ v \in waiting
    /\ waiting' = waiting \ {v}
    /\ underWay' = underWay \cup {b \o <<Head(b)>> : b \in {c \in underWay : Head(c)[1] = v}}
    /\ late' = late
    /\ UNCHANGED <<made, eventBuffer, ended, over, sidecarVars, lost, refused, left>>
BufferFirst(b, r) == <<r>> \o b                      \* unshift for push

-------------------------------------------------------------------------------
Init ==
    /\ made = [v \in VUs |-> 0]
    /\ eventBuffer = [v \in VUs |-> <<>>]
    /\ waiting = {} /\ ended = {} /\ over = FALSE
    /\ underWay = {}
    /\ Sidecar!Init
    /\ lost = {} /\ refused = {} /\ left = {} /\ late = {}

(* A virtual user. *)

Full(n) == n >= BatchSize
Push(b, r) == Append(b, r)

\* One iteration: the request is made, its event pushed, and a full buffer is emptied
\* and posted.  The script goes on when the post returns.
Iterate(v) ==
    LET buffer == Push(eventBuffer[v], <<v, made[v] + 1>>) IN
    /\ v \notin ended \cup waiting
    /\ made[v] < MaxIter
    /\ made' = [made EXCEPT ![v] = @ + 1]
    /\ IF Full(Len(buffer))
       THEN /\ eventBuffer' = [eventBuffer EXCEPT ![v] = <<>>]
            /\ underWay' = underWay \cup {buffer}
            /\ waiting' = waiting \cup {v}
       ELSE /\ eventBuffer' = [eventBuffer EXCEPT ![v] = buffer]
            /\ UNCHANGED <<underWay, waiting>>
    /\ UNCHANGED <<ended, over, sidecarVars, ghosts>>

\* http.post returns: with an answer of any status, an error, or after 5 s without an
\* answer.  The script does not look at it, and nothing is sent again.
PostReturns(v) ==
    /\ v \in waiting
    /\ waiting' = waiting \ {v}
    /\ late' = IF \E b \in underWay : Head(b)[1] = v THEN late \cup {v} ELSE late
    /\ UNCHANGED <<made, eventBuffer, ended, over, underWay, sidecarVars, lost, refused, left>>

\* k6 stops the virtual user at the end of the test, between iterations or in a post.
End(v) ==
    /\ v \notin ended
    /\ ended' = ended \cup {v}
    /\ waiting' = waiting \ {v}
    /\ late' = IF \E b \in underWay : Head(b)[1] = v THEN late \cup {v} ELSE late
    /\ UNCHANGED <<made, eventBuffer, over, underWay, sidecarVars, lost, refused, left>>

\* teardown runs once, in a context of its own: the buffer that sendBatch finds there is
\* empty, and those of the virtual users go with their contexts.
Teardown ==
    /\ ended = VUs /\ ~over
    /\ over' = TRUE
    /\ eventBuffer' = [v \in VUs |-> <<>>]
    /\ left' = UNION {ToSet(eventBuffer[v]) : v \in VUs}
    /\ UNCHANGED <<made, waiting, ended, underWay, sidecarVars, lost, refused, late>>
-------------------------------------------------------------------------------
(* The sidecar. *)

\* models.Event takes error_code from a JSON string only, and k6 puts its number there.
Decodable(b) == ToSet(b) \cap Failing = {}

\* HandleIngestBatch: the batch becomes pending as a whole, ...
HandleIngestBatch(b) ==
    /\ b \in underWay
    /\ Decodable(b)
    /\ underWay' = underWay \ {b}
    /\ pending' = pending \o b
    /\ Sidecar!Accept
    /\ UNCHANGED <<clientVars, ghosts>>

\* ... or the answer is 400, whatever else is in the batch.
BadPayload(b) ==
    /\ b \in underWay
    /\ ~Decodable(b)
    /\ underWay' = underWay \ {b}
    /\ refused' = refused \cup {b}
    /\ UNCHANGED <<clientVars, sidecarVars, lost, left, late>>

\* The connection breaks, or there was none.
Lose(b) ==
    /\ b \in underWay
    /\ underWay' = underWay \ {b}
    /\ lost' = lost \cup ToSet(b)
    /\ UNCHANGED <<clientVars, sidecarVars, refused, left, late>>

Store ==
    /\ \E n \in 1..Len(pending) : Sidecar!Store(n)
    /\ UNCHANGED <<clientVars, underWay, ghosts>>

\* The process ends: its memory and its connections go with it.
Crash ==
    /\ pending # <<>> \/ underWay # {}
    /\ IF pending = <<>> THEN UNCHANGED sidecarVars ELSE Sidecar!Forget
    /\ underWay' = {}
    /\ lost' = lost \cup InFlight \cup ToSet(pending)
    /\ UNCHANGED <<clientVars, refused, left, late>>

Next ==
    \/ \E v \in VUs : Iterate(v) \/ PostReturns(v) \/ End(v)
    \/ Teardown
    \/ \E b \in underWay : HandleIngestBatch(b) \/ BadPayload(b) \/ Lose(b)
    \/ Store \/ Crash

Spec == Init /\ [][Next]_vars

-------------------------------------------------------------------------------
(***************************************************************************)
(* Properties.                                                             *)
(***************************************************************************)

\* Where request r of virtual user v can be, by name.
Places(r) ==
    (IF \E i \in DOMAIN eventBuffer[r[1]] : eventBuffer[r[1]][i] = r THEN {"buffer"} ELSE {})
    \cup (IF r \in InFlight THEN {"under way"} ELSE {})
    \cup (IF r \in ToSet(pending) THEN {"pending"} ELSE {})
    \cup (IF r \in ToSet(stored) THEN {"stored"} ELSE {})
    \cup (IF r \in lost THEN {"lost"} ELSE {})
    \cup (IF r \in Refused THEN {"refused"} ELSE {})
    \cup (IF r \in left THEN {"left"} ELSE {})

\* A request is reported at most once, whatever times out, crashes or is refused: it is
\* in one place, and in the sidecar it is there once (k6-script.js 91-104: the buffer is
\* emptied before the post, and no post is repeated).  The rows of a virtual user are in
\* the order of its requests, unless it once stopped waiting for a batch that was still
\* under way: the next one may then overtake it.
ReportedOnceInOrder ==
    /\ TypeOK
    /\ \A v \in VUs : \A i \in 1..made[v] : Cardinality(Places(<<v, i>>)) = 1
    /\ IsInjective(stored \o pending)
    /\ LET rows == stored \o pending IN
       \A i, j \in DOMAIN rows :
          i < j /\ rows[i][1] = rows[j][1] /\ rows[i][1] \notin late
          => rows[i][2] < rows[j][2]

\* What no post ever carries is the last made % BATCH_SIZE requests of each virtual
\* user: teardown finds an empty buffer (k6-script.js 85-87, 107-110).
OnlyTheLastBatchIsLeft ==
    over => \A v \in VUs :
        {i \in 1..made[v] : <<v, i>> \in left} = (made[v] - (made[v] % BatchSize) + 1)..made[v]

\* models/event.go 34 describes error_code as "Error code if failed" and k6-script.js 60
\* says "Add error info if failed": a batch with the error info of a failed request is
\* one the sidecar takes.
ErrorInfoIsTaken == refused = {}
===============================================================================
