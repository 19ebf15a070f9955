-------------------------- MODULE RequestLifecycle --------------------------
(***************************************************************************)
(* What the server promises for one tune request, identified by its        *)
(* handle: it is offered, it may become tracked, a tracked request may be  *)
(* applied, and whatever happens it is gone at most once and for good.     *)
(* A request whose withdrawal is remembered is not tracked.                *)
(*                                                                         *)
(* Worker threads, the priority queue, the consumer, statuses and timers   *)
(* are absent here: they are how RequestPipeline keeps the promise.        *)
(***************************************************************************)
CONSTANTS
    Handle,
    MayStrand     \* may a request be gone and its nodes stay behind?

VARIABLES stage,        \* stage[h]
          withdrawn     \* withdrawals of requests not in the books, as far as remembered

lifecycleVars == <<stage, withdrawn>>

Init ==
    /\ stage = [h \in Handle |-> "unknown"]
    /\ withdrawn = {}

Move(h, from, to) ==
    /\ stage[h] \in from
    /\ stage' = [stage EXCEPT ![h] = to]

Offer(h)    == Move(h, {"unknown"}, "offered") /\ UNCHANGED withdrawn
Reject(h)   == Move(h, {"offered"}, "gone") /\ UNCHANGED withdrawn
Track(h)    == Move(h, {"offered"}, "tracked") /\ h \notin withdrawn /\ UNCHANGED withdrawn
Apply(h)    == Move(h, {"tracked"}, "applied") /\ UNCHANGED withdrawn
Release(h)  == Move(h, {"tracked", "applied"}, "gone") /\ UNCHANGED withdrawn

\* The request is gone and what it had in the lists is not.
Strand(h)   == MayStrand /\ Move(h, {"tracked"}, "dangling") /\ UNCHANGED withdrawn

\* Only a request that is not in the server's books needs to be remembered.  The
\* memory is bounded: an older withdrawal may be forgotten for the new one.
Withdraw(h) ==
    /\ stage[h] \in {"offered", "gone", "dangling"}
    /\ \/ withdrawn' = withdrawn \cup {h}
       \/ \E g \in withdrawn : withdrawn' = (withdrawn \ {g}) \cup {h}
    /\ UNCHANGED stage

Next ==
    \E h \in Handle :
        \/ Offer(h) \/ Reject(h) \/ Track(h) \/ Apply(h)
        \/ Release(h) \/ Strand(h) \/ Withdraw(h)

Spec == Init /\ [][Next]_lifecycleVars
=============================================================================
