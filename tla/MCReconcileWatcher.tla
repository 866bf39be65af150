-------------------------- MODULE MCReconcileWatcher --------------------------
(* Small instances of ReconcileWatcher for TLC. *)
EXTENDS ReconcileWatcher

CONSTANTS a, b

TwoCommits == {a, b}
=============================================================================
