---------------------------- MODULE MCCocoTable ----------------------------
(* Instance of CocoTable: one resource per policy, one with two clusters, and *)
(* requests of one or two configurations.                                     *)
EXTENDS CocoTable

CONSTANTS h1, h2, h3,
          rInstant, rHigher, rLower, rLazy, rPass, rCluster, rUnsupported,
          u0, u1

MCResource == {rInstant, rHigher, rLower, rLazy, rPass, rCluster, rUnsupported}
MCUnitsOf == [r \in MCResource |-> IF r = rCluster THEN {u0, u1} ELSE {u0}]
MCPolicy == [r \in MCResource |->
    CASE r = rHigher -> "higher_is_better"
      [] r = rLower  -> "lower_is_better"
      [] r = rLazy   -> "lazy_apply"
      [] r = rPass   -> "pass_through"
      [] OTHER       -> "instant_apply"]
MCSupported == MCResource \ {rUnsupported}
MCValue == 1 .. 2

Conf(r, u, v) == [res |-> r, unit |-> u, val |-> v]

\* Bodies of one configuration of a value policy or of a first-come policy, at
\* three priorities, so that a removal finds two other levels occupied ...
ThreeLevels ==
    {<<Conf(rHigher, u0, 1)>>, <<Conf(rHigher, u0, 2)>>,
     <<Conf(rInstant, u0, 1), Conf(rLazy, u0, 1)>>}

\* ... and pairs at two priorities: a resource configured twice, a unit that does
\* not exist, a resource the mode excludes, a pass-through resource, clusters.
TwoLevels ==
    {<<Conf(rHigher, u0, 1), Conf(rHigher, u0, 2)>>,
     <<Conf(rUnsupported, u0, 1), Conf(rPass, u0, 1)>>,
     <<Conf(rInstant, u1, 1), Conf(rCluster, u1, 1)>>,
     <<Conf(rLower, u0, 1), Conf(rCluster, u0, 1)>>,
     <<Conf(rLower, u0, 2)>>}

MCOffered == [prio : {0, 1, 3}, confs : ThreeLevels] \cup [prio : {0, 3}, confs : TwoLevels]

Handles == {h1, h2, h3}
HandleSymmetry == {[h \in Handles |-> p[h]] : p \in {q \in [Handles -> Handles] :
                       \A a, b \in Handles : q[a] = q[b] => a = b}}
============================================================================
