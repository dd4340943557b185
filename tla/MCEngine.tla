------------------------------ MODULE MCEngine ------------------------------
(* An instance of Engine for TLC. *)
EXTENDS Engine

\* Resource 2 is built from resource 1, whose publication to "a" refers to 2's.
Chain == [r \in Res |-> IF r = 2 THEN {1} ELSE {}]
Pairs == {<<1, "a">>, <<1, "b">>, <<2, "a">>}
Peers == [q \in Pairs |-> IF q = <<1, "a">> THEN {<<2, "a">>} ELSE {}]
Shared == {[r \in Res |-> 1]}
First == {[d \in Decl |-> 1]}
=============================================================================
