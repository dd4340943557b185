---------------------------- MODULE MCMunkiRepo ----------------------------
(* Instances of MunkiRepo for TLC. *)
EXTENDS MunkiRepo

Publication(i, cats, h, keep) == [item |-> i, cats |-> cats, base |-> "b", hash |-> h, keep |-> keep]

\* Two versions of one family with retention, the first also rebuilt.
Publications ==
    {Publication(<<"f", 1>>, {1}, 1, 1), Publication(<<"f", 1>>, {1}, 2, 1), Publication(<<"f", 2>>, {}, 2, 1)}

\* The newest of four versions keeps one other.
KeepTwo == {Publication(<<"f", 4>>, {1}, 1, 2)}
=============================================================================
