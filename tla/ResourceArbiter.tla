-------------------------- MODULE ResourceArbiter --------------------------
(***************************************************************************)
(* What the concurrency coordinator promises to the clients of a resource. *)
(*                                                                         *)
(* Clients hold claims on a resource.  A claim has a priority (0 is the    *)
(* most important) and, for the value-ordered policies, a value.  One of   *)
(* the held claims is in effect; when nothing is held the resource has its *)
(* original value.  The promise has three parts:                           *)
(*   - a new claim takes effect at once exactly when it outranks the claim *)
(*     in effect under the resource's policy;                              *)
(*   - releasing a claim that is not in effect changes nothing;            *)
(*   - when the claim in effect is released, a best remaining claim takes  *)
(*     its place, and the original value returns when none remains.        *)
(*                                                                         *)
(* Lists, per-priority heads and the cached "currently applied priority"   *)
(* are absent here: they are how CocoTable keeps the promise.              *)
(***************************************************************************)
EXTENDS Integers

CONSTANTS Resource,    \* the tunable resources
          Claim,       \* records with the fields res, prio and val
          Policy,      \* [Resource -> policy name]
          Default      \* what a resource holds when nothing is in effect

VARIABLES holders,     \* holders[r]: the claims held on r
          winner       \* winner[r]: the claim in effect, or Default

arbiterVars == <<holders, winner>>

Init ==
    /\ holders = [r \in Resource |-> {}]
    /\ winner  = [r \in Resource |-> Default]

\* Value order of the two value policies; the others do not compare values.
Better(pol, a, b) ==
    \/ pol = "higher_is_better" /\ a.val > b.val
    \/ pol = "lower_is_better"  /\ a.val < b.val

\* Does a new claim c take over from the claim w in effect?
Outranks(pol, c, w) ==
    \/ c.prio < w.prio
    \/ c.prio = w.prio /\ (pol = "instant_apply" \/ Better(pol, c, w))

\* The claims of S that may follow a released winner.
BestOf(pol, S) ==
    {c \in S : \A d \in S : c.prio <= d.prio /\ (c.prio = d.prio => ~Better(pol, d, c))}

Acquire(c) ==
    /\ c \notin holders[c.res]
    /\ holders' = [holders EXCEPT ![c.res] = @ \cup {c}]
    /\ winner'  = [winner EXCEPT ![c.res] =
                      IF @ = Default THEN c
                      ELSE IF Outranks(Policy[c.res], c, @) THEN c ELSE @]

Release(c) ==
    /\ c \in holders[c.res]
    /\ holders' = [holders EXCEPT ![c.res] = @ \ {c}]
    /\ \/ /\ winner[c.res] # c
          /\ UNCHANGED winner
       \/ /\ winner[c.res] = c
          /\ holders[c.res] = {c}
          /\ winner' = [winner EXCEPT ![c.res] = Default]
       \/ /\ winner[c.res] = c
          /\ \E d \in BestOf(Policy[c.res], holders[c.res] \ {c}) :
                winner' = [winner EXCEPT ![c.res] = d]

Next == \E c \in Claim : Acquire(c) \/ Release(c)

Spec == Init /\ [][Next]_arbiterVars
============================================================================
