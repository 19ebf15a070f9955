----------------------- MODULE MCContextualClassifier -----------------------
(* Instance of ContextualClassifier: two applications a and b that name the  *)
(* same companion c, which is filtered.  The application b also names a,     *)
(* with a cgroup that is not configured.                                     *)
EXTENDS ContextualClassifier, TLC

CONSTANTS a, b, c

MCCompanion ==
    a :> (c :> "companions") @@ b :> (c :> "companions" @@ a :> "unknown") @@ c :> <<>>
=============================================================================
