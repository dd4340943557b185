--------------------------- MODULE MCPreparation ---------------------------
(* Instances of Preparation for TLC: an artifact of one publisher under two *)
(* declarations, one of which expects another.                              *)
EXTENDS Preparation

Outputs == {"x", "y"}
OutcomeOf == [r \in Request |-> IF r.config \in {"any", r.artifact} THEN r.environment ELSE "refused"]
ObservedOf == [r \in Request |-> r.environment]
=============================================================================
