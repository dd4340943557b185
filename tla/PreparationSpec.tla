-------------------------- MODULE PreparationSpec --------------------------
(***************************************************************************)
(* What a preparation promises the commands that ask for one: the outputs   *)
(* the operation makes of that very request, or a failure.  There is no     *)
(* cache here; Preparation is shown to implement this.                      *)
(***************************************************************************)
CONSTANTS
    Proc,     \* processes
    Request,  \* what an operation is given
    Outcome,  \* what it makes of a request: outputs, or "refused"
    Nothing      \* no request, no result

VARIABLES
    request,  \* what each process waits for
    result    \* what its last command was answered

vars == <<request, result>>

Init ==
    /\ request = [p \in Proc |-> Nothing]
    /\ result = [p \in Proc |-> Nothing]

Ask(p, r) ==
    /\ request[p] = Nothing
    /\ request' = [request EXCEPT ![p] = r]
    /\ result' = [result EXCEPT ![p] = Nothing]

Answered(p, o) ==
    /\ request[p] # Nothing
    /\ request' = [request EXCEPT ![p] = Nothing]
    /\ result' = [result EXCEPT ![p] = o]

Answer(p) == Answered(p, Outcome[request[p]])
Fail(p) == Answered(p, "failed")

Next == \E p \in Proc : (\E r \in Request : Ask(p, r)) \/ Answer(p) \/ Fail(p)
Spec == Init /\ [][Next]_vars
=============================================================================
