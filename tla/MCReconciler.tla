---------------------------- MODULE MCReconciler ----------------------------
(* Small instances of the reconciler for TLC: which issue belongs where.   *)
EXTENDS ReconcilerProperties

OneRepo  == [i \in Issues |-> 1]
TwoRepos == [i \in Issues |-> IF i = 1 THEN 1 ELSE 2]
=============================================================================
