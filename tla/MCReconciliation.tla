-------------------------- MODULE MCReconciliation --------------------------
(* The instances of Reconciliation that TLC checks; values are in the .cfg files. *)
EXTENDS Reconciliation
=============================================================================
