------------------------- MODULE MCServerLifecycle -------------------------
(* Instances of ServerLifecycle. *)
EXTENDS ServerLifecycle

CONSTANTS n1, n2
============================================================================
