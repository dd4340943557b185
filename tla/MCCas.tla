------------------------------- MODULE MCCas -------------------------------
(* Instances of Cas for TLC. *)
EXTENDS Cas, TLC

MCSize == [e \in Entry |-> IF e \in Digest THEN 2 ELSE 1]
MCSymmetry == Permutations(Proc) \cup Permutations(Digest)
=============================================================================
