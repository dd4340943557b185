---------------------------- MODULE MCReconcile ----------------------------
(* Instances of Reconcile for TLC. *)
EXTENDS Reconcile

\* Names that branchName keeps apart.
OwnBranches == [r \in Res |-> r]
=============================================================================
