---------------------------- MODULE RepositorySync ----------------------------
(***************************************************************************)
(* What the owner of a repository may rely on (TerraSync looks at nothing  *)
(* else): a sync goes on until it ends, it ends with or without failures,  *)
(* and the verdict stands until the next update.                           *)
(***************************************************************************)
VARIABLE verdict

Verdicts == {"clean", "syncing", "failed"}

Init == verdict = "clean"

(* update() starts a sync unless one is going on.                          *)
Begin == verdict # "syncing" /\ verdict' = "syncing"

(* The sync ends, for better or worse.                                     *)
End == verdict = "syncing" /\ verdict' \in {"clean", "failed"}

Next == Begin \/ End

Spec == Init /\ [][Next]_verdict
=============================================================================
