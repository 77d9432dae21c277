------------------------------ MODULE EventStore ------------------------------
(***************************************************************************)
(* What the sidecar promises to its load generators: requests accepted in  *)
(* some order become rows of one table in that order, once each.  Rows may *)
(* arrive in groups of any size, and a crash forgets whatever is not yet a *)
(* row.  SidecarStorage refines this specification as long as one          *)
(* goroutine flushes.                                                      *)
(***************************************************************************)
EXTENDS Naturals, Sequences

CONSTANT Events    \* the requests that may be reported to the sidecar

VARIABLES
    pending,       \* accepted, not yet a row
    stored         \* the rows of the table, oldest first

vars == <<pending, stored>>

Init == pending = <<>> /\ stored = <<>>

\* A group of requests is acknowledged: pending grows at its end.
Accept ==
    /\ pending' \in Seq(Events)
    /\ Len(pending') > Len(pending)
    /\ SubSeq(pending', 1, Len(pending)) = pending
    /\ UNCHANGED stored

\* The n oldest pending requests become rows, in one transaction.
Store(n) ==
    /\ stored'  = stored \o SubSeq(pending, 1, n)
    /\ pending' = SubSeq(pending, n + 1, Len(pending))

\* The process dies: what is only in memory is gone, rows stay.
Forget ==
    /\ pending' = <<>>
    /\ UNCHANGED stored

Next ==
    \/ Accept
    \/ \E n \in 1..Len(pending) : Store(n)
    \/ Forget

Spec == Init /\ [][Next]_vars
===============================================================================
