------------------------- MODULE MCClientLifecycle -------------------------
(* Instances of ClientLifecycle. *)
EXTENDS ClientLifecycle

CONSTANTS p1, p2, t1, t2, t3, w1, w2

\* Two threads in one process, and a second process that lives beside it.
MCProcessOf == (t1 :> p1) @@ (t2 :> p1) @@ (t3 :> p2)

WorkerSymmetry == {[w \in {w1, w2} |-> w], [w \in {w1, w2} |-> IF w = w1 THEN w2 ELSE w1]}
============================================================================
