-------------------------- MODULE ReconcileProofs --------------------------
(***************************************************************************)
(* Proofs about Reconcile, for every set of resources, every assignment of  *)
(* branches and every bound: the reconciler never overwrites or deletes a   *)
(* branch a person took over, its applied marker is truthful, it leaves     *)
(* alone what an unresolved resource may be proposing, and it opens no pull *)
(* request again for a commit that was declined.                           *)
(***************************************************************************)
EXTENDS Reconcile, TLAPS, FiniteSetTheorems, Functions

\* The reviewed branch is a sequence, of whatever commits.
IsBranch(s) == \E S : s \in Seq(S)

\* A commit on top keeps the commits below where they were.
LEMMA OnTop ==
    ASSUME NEW s, IsBranch(s), NEW c
    PROVE  /\ IsBranch(Append(s, c)) /\ Len(s) \in Nat /\ Len(Append(s, c)) = Len(s) + 1
           /\ \A h \in 1..Len(s) : Append(s, c)[h] = s[h]
<1>1. PICK S : s \in Seq(S)
  BY DEF IsBranch
<1>2. DEFINE T == S \cup {c}
<1>3. s \in Seq(T) /\ c \in T
  BY <1>1
<1> HIDE DEF T
<1>4. Append(s, c) \in Seq(T)
  BY <1>3
<1>5. Len(s) \in Nat /\ Len(Append(s, c)) = Len(s) + 1 /\ \A h \in 1..Len(s) : Append(s, c)[h] = s[h]
  BY <1>3
<1>6. QED
  BY <1>4, <1>5 DEF IsBranch

(***************************************************************************)
(* Ownership.  A run pushes and deletes with a lease on a tip that it       *)
(* judged managed against the history it fetched; history only grows, so    *)
(* what it judged managed then is managed now.                              *)
(***************************************************************************)
OwnershipInv ==
    /\ env \in Nat /\ cur \in Branch
    /\ origin = [b \in Branch |-> origin[b]]
    /\ fetchedContained \subseteq contained
    /\ pc \in {"push", "delete"} => Managed(expected, fetchedContained)

\* At first nothing is fetched and nobody's work is at risk.
LEMMA OwnershipInit == Init => OwnershipInv
BY DEF Init, OwnershipInv, Branch

\* Every step keeps it.
LEMMA OwnershipStep ==
    ASSUME OwnershipInv, [Next]_vars
    PROVE  OwnershipInv'
<1>1. ASSUME Sync PROVE OwnershipInv'
  BY <1>1 DEF OwnershipInv, Managed, Sync, Fails, Works, hostVars, sourceVars, runVars, propVars, still
<1>2. ASSUME Load PROVE OwnershipInv'
  BY <1>2 DEF OwnershipInv, Managed, Load, Fails, Works, hostVars, sourceVars, runVars, propVars, still
<1>3. ASSUME Reject PROVE OwnershipInv'
  BY <1>3 DEF OwnershipInv, Managed, Reject, Fails, Works, hostVars, sourceVars, runVars, propVars, still
<1>4. ASSUME ApplySkip PROVE OwnershipInv'
  BY <1>4 DEF OwnershipInv, Managed, ApplySkip, Fails, Works, hostVars, sourceVars, runVars, propVars, still
<1>5. ASSUME ApplyRun PROVE OwnershipInv'
  BY <1>5 DEF OwnershipInv, Managed, ApplyRun, Fails, Works, hostVars, sourceVars, runVars, propVars, still
<1>6. ASSUME ApplyStatus PROVE OwnershipInv'
  BY <1>6 DEF OwnershipInv, Managed, ApplyStatus, Fails, Works, hostVars, sourceVars, runVars, propVars, still
<1>7. ASSUME WriteMarker PROVE OwnershipInv'
  BY <1>7 DEF OwnershipInv, Managed, WriteMarker, Fails, Works, hostVars, sourceVars, runVars, propVars, still
<1>8. ASSUME Resolve PROVE OwnershipInv'
  BY <1>8 DEF OwnershipInv, Managed, Resolve, Fails, Works, hostVars, sourceVars, runVars, propVars, still
<1>9. ASSUME List PROVE OwnershipInv'
  BY <1>9 DEF OwnershipInv, Managed, List, Fails, Works, hostVars, sourceVars, runVars, propVars, still
<1>10. ASSUME Push PROVE OwnershipInv'
  BY <1>10 DEF OwnershipInv, Managed, Push, Fails, Works, hostVars, sourceVars, runVars, propVars, still
<1>11. ASSUME Pull PROVE OwnershipInv'
  BY <1>11 DEF OwnershipInv, Managed, Pull, Fails, Works, hostVars, sourceVars, runVars, propVars, still
<1>12. ASSUME PlanStatus PROVE OwnershipInv'
  BY <1>12 DEF OwnershipInv, Managed, PlanStatus, Fails, Works, hostVars, sourceVars, runVars, propVars, still
<1>13. ASSUME RetireDelete PROVE OwnershipInv'
  BY <1>13 DEF OwnershipInv, Managed, RetireDelete, Fails, Works, hostVars, sourceVars, runVars, propVars, still
<1>14. ASSUME Finish PROVE OwnershipInv'
  BY <1>14 DEF OwnershipInv, Managed, Finish, Fails, Works, hostVars, sourceVars, runVars, propVars, still
<1>15. ASSUME NEW s \in SetId, ProposeNothing(s) PROVE OwnershipInv'
  BY <1>15 DEF OwnershipInv, Managed, ProposeNothing, Fails, Works, hostVars, sourceVars, runVars, propVars, still
<1>16. ASSUME NEW s \in SetId, ProposeCommit(s) PROVE OwnershipInv'
  BY <1>16 DEF OwnershipInv, Managed, ProposeCommit, Turn, BranchName, Branch, SetId, NoTip, Fails, Works, hostVars, sourceVars, runVars, propVars, still
<1>17. ASSUME NEW b \in Branch, RetireSkip(b) PROVE OwnershipInv'
  BY <1>17 DEF OwnershipInv, Managed, RetireSkip, Fails, Works, hostVars, sourceVars, runVars, propVars, still
<1>18. ASSUME NEW b \in Branch, RetireClose(b) PROVE OwnershipInv'
  BY <1>18 DEF OwnershipInv, Managed, RetireClose, Fails, Works, hostVars, sourceVars, runVars, propVars, still
<1>19. ASSUME Crash PROVE OwnershipInv'
  BY <1>19 DEF OwnershipInv, Managed, Crash, Fails, Works, hostVars, sourceVars, runVars, propVars, still
<1>20. ASSUME NEW b \in Branch, PersonPush(b) PROVE OwnershipInv'
  <2>1. PICK t : origin' = [origin EXCEPT ![b] = t]
    BY <1>20 DEF PersonPush
  <2>2. origin' = [c \in Branch |-> origin'[c]]
    BY <2>1 DEF OwnershipInv
  <2>3. QED
    BY <2>2, <1>20 DEF OwnershipInv, Managed, PersonPush, Moving, still, runVars, propVars
<1>21. ASSUME NEW b \in Branch, PersonClose(b) PROVE OwnershipInv'
  BY <1>21 DEF OwnershipInv, Managed, PersonClose, Moving, hostVars, sourceVars, runVars, propVars, still
<1>22. ASSUME NEW b \in Branch, PersonDelete(b) PROVE OwnershipInv'
  BY <1>22 DEF OwnershipInv, Managed, PersonDelete, Moving, hostVars, sourceVars, runVars, propVars, still
<1>23. ASSUME NEW b \in Branch, NEW squash \in BOOLEAN, PersonMerge(b, squash) PROVE OwnershipInv'
  BY <1>23 DEF OwnershipInv, Managed, PersonMerge, Moving, hostVars, sourceVars, runVars, propVars, still
<1>24. ASSUME PersonCommit PROVE OwnershipInv'
  BY <1>24 DEF OwnershipInv, Managed, PersonCommit, Moving, hostVars, sourceVars, runVars, propVars, still
<1>25. ASSUME SourceMoves PROVE OwnershipInv'
  BY <1>25 DEF OwnershipInv, Managed, SourceMoves, Moving, hostVars, sourceVars, runVars, propVars, still
<1>26. CASE UNCHANGED vars
  BY <1>26 DEF OwnershipInv, Managed, vars, hostVars, sourceVars, runVars, propVars, still
<1>27. QED
  BY <1>1, <1>2, <1>3, <1>4, <1>5, <1>6, <1>7, <1>8, <1>9, <1>10, <1>11, <1>12, <1>13, <1>14, <1>15, <1>16, <1>17, <1>18, <1>19, <1>20, <1>21, <1>22, <1>23, <1>24, <1>25, <1>26 DEF Next, Runner, ApplyPhase, UpdatePhase, People
\* The ownership invariant holds throughout.
LEMMA Ownership == Spec => []OwnershipInv
BY OwnershipInit, OwnershipStep, PTL DEF Spec

\* Only people change a branch that was taken over.
LEMMA TakenOverStep ==
    ASSUME OwnershipInv, NEW b0 \in Branch, TakenOver(b0), [Next]_vars
    PROVE  origin'[b0] # origin[b0] => env' # env
<1>1. ASSUME Sync PROVE origin'[b0] # origin[b0] => env' # env
  BY <1>1 DEF OwnershipInv, TakenOver, Managed, Sync, Fails, Works, hostVars, sourceVars, runVars, propVars, still
<1>2. ASSUME Load PROVE origin'[b0] # origin[b0] => env' # env
  BY <1>2 DEF OwnershipInv, TakenOver, Managed, Load, Fails, Works, hostVars, sourceVars, runVars, propVars, still
<1>3. ASSUME Reject PROVE origin'[b0] # origin[b0] => env' # env
  BY <1>3 DEF OwnershipInv, TakenOver, Managed, Reject, Fails, Works, hostVars, sourceVars, runVars, propVars, still
<1>4. ASSUME ApplySkip PROVE origin'[b0] # origin[b0] => env' # env
  BY <1>4 DEF OwnershipInv, TakenOver, Managed, ApplySkip, Fails, Works, hostVars, sourceVars, runVars, propVars, still
<1>5. ASSUME ApplyRun PROVE origin'[b0] # origin[b0] => env' # env
  BY <1>5 DEF OwnershipInv, TakenOver, Managed, ApplyRun, Fails, Works, hostVars, sourceVars, runVars, propVars, still
<1>6. ASSUME ApplyStatus PROVE origin'[b0] # origin[b0] => env' # env
  BY <1>6 DEF OwnershipInv, TakenOver, Managed, ApplyStatus, Fails, Works, hostVars, sourceVars, runVars, propVars, still
<1>7. ASSUME WriteMarker PROVE origin'[b0] # origin[b0] => env' # env
  BY <1>7 DEF OwnershipInv, TakenOver, Managed, WriteMarker, Fails, Works, hostVars, sourceVars, runVars, propVars, still
<1>8. ASSUME Resolve PROVE origin'[b0] # origin[b0] => env' # env
  BY <1>8 DEF OwnershipInv, TakenOver, Managed, Resolve, Fails, Works, hostVars, sourceVars, runVars, propVars, still
<1>9. ASSUME List PROVE origin'[b0] # origin[b0] => env' # env
  BY <1>9 DEF OwnershipInv, TakenOver, Managed, List, Fails, Works, hostVars, sourceVars, runVars, propVars, still
<1>10. ASSUME Push PROVE origin'[b0] # origin[b0] => env' # env
  <2>1. CASE CanPush(cur)
    <3>1. cur # b0
      BY <2>1, <1>10 DEF OwnershipInv, TakenOver, Managed, Push, CanPush
    <3>2. QED
      BY <3>1, <1>10 DEF OwnershipInv, Push
  <2>2. CASE ~CanPush(cur)
    BY <2>2, <1>10 DEF OwnershipInv, Push
  <2>3. QED
    BY <2>1, <2>2
<1>11. ASSUME Pull PROVE origin'[b0] # origin[b0] => env' # env
  BY <1>11 DEF OwnershipInv, TakenOver, Managed, Pull, Fails, Works, hostVars, sourceVars, runVars, propVars, still
<1>12. ASSUME PlanStatus PROVE origin'[b0] # origin[b0] => env' # env
  BY <1>12 DEF OwnershipInv, TakenOver, Managed, PlanStatus, Fails, Works, hostVars, sourceVars, runVars, propVars, still
<1>13. ASSUME RetireDelete PROVE origin'[b0] # origin[b0] => env' # env
  <2>1. CASE CanPush(cur)
    <3>1. cur # b0
      BY <2>1, <1>13 DEF OwnershipInv, TakenOver, Managed, RetireDelete, CanPush
    <3>2. QED
      BY <3>1, <1>13 DEF OwnershipInv, RetireDelete
  <2>2. CASE ~CanPush(cur)
    BY <2>2, <1>13 DEF OwnershipInv, RetireDelete
  <2>3. QED
    BY <2>1, <2>2
<1>14. ASSUME Finish PROVE origin'[b0] # origin[b0] => env' # env
  BY <1>14 DEF OwnershipInv, TakenOver, Managed, Finish, Fails, Works, hostVars, sourceVars, runVars, propVars, still
<1>15. ASSUME NEW s \in SetId, ProposeNothing(s) PROVE origin'[b0] # origin[b0] => env' # env
  BY <1>15 DEF OwnershipInv, TakenOver, Managed, ProposeNothing, Fails, Works, hostVars, sourceVars, runVars, propVars, still
<1>16. ASSUME NEW s \in SetId, ProposeCommit(s) PROVE origin'[b0] # origin[b0] => env' # env
  BY <1>16 DEF OwnershipInv, TakenOver, Managed, ProposeCommit, Fails, Works, hostVars, sourceVars, runVars, propVars, still
<1>17. ASSUME NEW b \in Branch, RetireSkip(b) PROVE origin'[b0] # origin[b0] => env' # env
  BY <1>17 DEF OwnershipInv, TakenOver, Managed, RetireSkip, Fails, Works, hostVars, sourceVars, runVars, propVars, still
<1>18. ASSUME NEW b \in Branch, RetireClose(b) PROVE origin'[b0] # origin[b0] => env' # env
  BY <1>18 DEF OwnershipInv, TakenOver, Managed, RetireClose, Fails, Works, hostVars, sourceVars, runVars, propVars, still
<1>19. ASSUME Crash PROVE origin'[b0] # origin[b0] => env' # env
  BY <1>19 DEF OwnershipInv, TakenOver, Managed, Crash, Fails, Works, hostVars, sourceVars, runVars, propVars, still
<1>20. ASSUME NEW b \in Branch, PersonPush(b) PROVE origin'[b0] # origin[b0] => env' # env
  BY <1>20 DEF OwnershipInv, TakenOver, Managed, PersonPush, Moving, hostVars, sourceVars, runVars, propVars, still
<1>21. ASSUME NEW b \in Branch, PersonClose(b) PROVE origin'[b0] # origin[b0] => env' # env
  BY <1>21 DEF OwnershipInv, TakenOver, Managed, PersonClose, Moving, hostVars, sourceVars, runVars, propVars, still
<1>22. ASSUME NEW b \in Branch, PersonDelete(b) PROVE origin'[b0] # origin[b0] => env' # env
  BY <1>22 DEF OwnershipInv, TakenOver, Managed, PersonDelete, Moving, hostVars, sourceVars, runVars, propVars, still
<1>23. ASSUME NEW b \in Branch, NEW squash \in BOOLEAN, PersonMerge(b, squash) PROVE origin'[b0] # origin[b0] => env' # env
  BY <1>23 DEF OwnershipInv, TakenOver, Managed, PersonMerge, Moving, hostVars, sourceVars, runVars, propVars, still
<1>24. ASSUME PersonCommit PROVE origin'[b0] # origin[b0] => env' # env
  BY <1>24 DEF OwnershipInv, TakenOver, Managed, PersonCommit, Moving, hostVars, sourceVars, runVars, propVars, still
<1>25. ASSUME SourceMoves PROVE origin'[b0] # origin[b0] => env' # env
  BY <1>25 DEF OwnershipInv, TakenOver, Managed, SourceMoves, Moving, hostVars, sourceVars, runVars, propVars, still
<1>26. CASE UNCHANGED vars
  BY <1>26 DEF OwnershipInv, TakenOver, Managed, vars, hostVars, sourceVars, runVars, propVars, still
<1>27. QED
  BY <1>1, <1>2, <1>3, <1>4, <1>5, <1>6, <1>7, <1>8, <1>9, <1>10, <1>11, <1>12, <1>13, <1>14, <1>15, <1>16, <1>17, <1>18, <1>19, <1>20, <1>21, <1>22, <1>23, <1>24, <1>25, <1>26 DEF Next, Runner, ApplyPhase, UpdatePhase, People

\* proposal.go:314 and 390: for every instance, a branch that holds a person's
\* commit is neither rewritten nor deleted by the command, however late in a run
\* the person pushed.
THEOREM PersonWorkSafe == Spec => PersonWorkKept
<1>1. OwnershipInv /\ [Next]_vars =>
        [\A b \in Branch : TakenOver(b) /\ origin'[b] # origin[b] => env' # env]_vars
  BY TakenOverStep
<1>2. QED
  BY <1>1, Ownership, PTL DEF Spec, PersonWorkKept

(***************************************************************************)
(* The applied marker.                                                     *)
(***************************************************************************)
AppliedInv ==
    /\ IsBranch(base) /\ Len(base) <= MaxHead
    /\ head \in 1..Len(base)
    /\ marker \in 0..head
    /\ applyStatus = [h \in 1..MaxHead |-> applyStatus[h]]
    /\ marker # 0 => applyStatus[marker] = "success"
    /\ marker # 0 /\ marker = head => dest = marker
    /\ pc \in {"status", "mark"} => marker # head
    /\ pc = "status" /\ applyOK => dest = head
    /\ pc = "mark" => applyStatus[head] = "success" /\ dest = head

\* At first no marker is written.
LEMMA AppliedInit == Init => AppliedInv
<1> SUFFICES ASSUME Init PROVE AppliedInv
  OBVIOUS
<1>1. PICK c : base = <<c>>
  BY DEF Init
<1>2. base \in Seq({c}) /\ Len(base) = 1
  BY <1>1
<1>3. IsBranch(base)
  BY <1>2 DEF IsBranch
<1>4. QED
  BY <1>2, <1>3, ConstantsAssumption DEF Init, AppliedInv

\* Every step keeps it: a run applies only a head the marker does not name, and
\* the marker moves to a head only after that head's success was recorded.
LEMMA AppliedStep ==
    ASSUME AppliedInv, [Next]_vars
    PROVE  AppliedInv'
<1>0. Len(base) \in Nat /\ MaxHead \in Nat /\ head \in Nat /\ head \in 1..MaxHead
  BY OnTop, ConstantsAssumption DEF AppliedInv
<1>1. ASSUME Sync PROVE AppliedInv'
  <2>1. Len(base) \in Nat
    BY OnTop DEF AppliedInv
  <2>2. QED
    BY <2>1, <1>1, ConstantsAssumption DEF AppliedInv, Sync, hostVars, sourceVars, propVars
<1>2. ASSUME Load PROVE AppliedInv'
  BY <1>2 DEF AppliedInv, Load, Fails, Works, hostVars, sourceVars, runVars, propVars, still
<1>3. ASSUME Reject PROVE AppliedInv'
  BY <1>3, <1>0 DEF AppliedInv, Reject, Fails, Works, hostVars, sourceVars, runVars, propVars, still
<1>4. ASSUME ApplySkip PROVE AppliedInv'
  BY <1>4 DEF AppliedInv, ApplySkip, Fails, Works, hostVars, sourceVars, runVars, propVars, still
<1>5. ASSUME ApplyRun PROVE AppliedInv'
  BY <1>5, <1>0 DEF AppliedInv, ApplyRun, Fails, Works, hostVars, sourceVars, runVars, propVars, still
<1>6. ASSUME ApplyStatus PROVE AppliedInv'
  BY <1>6, <1>0 DEF AppliedInv, ApplyStatus, Fails, Works, hostVars, sourceVars, runVars, propVars, still
<1>7. ASSUME WriteMarker PROVE AppliedInv'
  BY <1>7, <1>0 DEF AppliedInv, WriteMarker, Fails, Works, hostVars, sourceVars, runVars, propVars, still
<1>8. ASSUME Resolve PROVE AppliedInv'
  BY <1>8 DEF AppliedInv, Resolve, Fails, Works, hostVars, sourceVars, runVars, propVars, still
<1>9. ASSUME List PROVE AppliedInv'
  BY <1>9 DEF AppliedInv, List, Fails, Works, hostVars, sourceVars, runVars, propVars, still
<1>10. ASSUME Push PROVE AppliedInv'
  BY <1>10 DEF AppliedInv, Push, Fails, Works, hostVars, sourceVars, runVars, propVars, still
<1>11. ASSUME Pull PROVE AppliedInv'
  BY <1>11 DEF AppliedInv, Pull, Fails, Works, hostVars, sourceVars, runVars, propVars, still
<1>12. ASSUME PlanStatus PROVE AppliedInv'
  BY <1>12 DEF AppliedInv, PlanStatus, Fails, Works, hostVars, sourceVars, runVars, propVars, still
<1>13. ASSUME RetireDelete PROVE AppliedInv'
  BY <1>13 DEF AppliedInv, RetireDelete, Fails, Works, hostVars, sourceVars, runVars, propVars, still
<1>14. ASSUME Finish PROVE AppliedInv'
  BY <1>14 DEF AppliedInv, Finish, Fails, Works, hostVars, sourceVars, runVars, propVars, still
<1>15. ASSUME NEW s \in SetId, ProposeNothing(s) PROVE AppliedInv'
  BY <1>15 DEF AppliedInv, ProposeNothing, Fails, Works, hostVars, sourceVars, runVars, propVars, still
<1>16. ASSUME NEW s \in SetId, ProposeCommit(s) PROVE AppliedInv'
  BY <1>16 DEF AppliedInv, ProposeCommit, Fails, Works, hostVars, sourceVars, runVars, propVars, still
<1>17. ASSUME NEW b \in Branch, RetireSkip(b) PROVE AppliedInv'
  BY <1>17 DEF AppliedInv, RetireSkip, Fails, Works, hostVars, sourceVars, runVars, propVars, still
<1>18. ASSUME NEW b \in Branch, RetireClose(b) PROVE AppliedInv'
  BY <1>18 DEF AppliedInv, RetireClose, Fails, Works, hostVars, sourceVars, runVars, propVars, still
<1>19. ASSUME Crash PROVE AppliedInv'
  BY <1>19 DEF AppliedInv, Crash, Fails, Works, hostVars, sourceVars, runVars, propVars, still
<1>20. ASSUME NEW b \in Branch, PersonPush(b) PROVE AppliedInv'
  BY <1>20 DEF AppliedInv, PersonPush, Moving, hostVars, sourceVars, runVars, propVars, still
<1>21. ASSUME NEW b \in Branch, PersonClose(b) PROVE AppliedInv'
  BY <1>21 DEF AppliedInv, PersonClose, Moving, hostVars, sourceVars, runVars, propVars, still
<1>22. ASSUME NEW b \in Branch, PersonDelete(b) PROVE AppliedInv'
  BY <1>22 DEF AppliedInv, PersonDelete, Moving, hostVars, sourceVars, runVars, propVars, still
<1>23. ASSUME NEW b \in Branch, NEW squash \in BOOLEAN, PersonMerge(b, squash) PROVE AppliedInv'
  <2>1. PICK c : base' = Append(base, c) /\ Len(base) < MaxHead
    BY <1>23 DEF PersonMerge
  <2>2. IsBranch(base') /\ Len(base) \in Nat /\ Len(base') = Len(base) + 1
    BY <2>1, OnTop DEF AppliedInv
  <2>3. UNCHANGED <<pc, head, marker, dest, applyOK, applyStatus>>
    BY <1>23 DEF PersonMerge, still, runVars, propVars
  <2>4. QED
    BY <2>1, <2>2, <2>3, ConstantsAssumption DEF AppliedInv
<1>24. ASSUME PersonCommit PROVE AppliedInv'
  <2>1. PICK c : base' = Append(base, c) /\ Len(base) < MaxHead
    BY <1>24 DEF PersonCommit
  <2>2. IsBranch(base') /\ Len(base) \in Nat /\ Len(base') = Len(base) + 1
    BY <2>1, OnTop DEF AppliedInv
  <2>3. UNCHANGED <<pc, head, marker, dest, applyOK, applyStatus>>
    BY <1>24 DEF PersonCommit, still, runVars, propVars
  <2>4. QED
    BY <2>1, <2>2, <2>3, ConstantsAssumption DEF AppliedInv
<1>25. ASSUME SourceMoves PROVE AppliedInv'
  BY <1>25 DEF AppliedInv, SourceMoves, Moving, hostVars, sourceVars, runVars, propVars, still
<1>26. CASE UNCHANGED vars
  BY <1>26 DEF AppliedInv, vars, hostVars, sourceVars, runVars, propVars, still
<1>27. QED
  BY <1>1, <1>2, <1>3, <1>4, <1>5, <1>6, <1>7, <1>8, <1>9, <1>10, <1>11, <1>12, <1>13, <1>14, <1>15, <1>16, <1>17, <1>18, <1>19, <1>20, <1>21, <1>22, <1>23, <1>24, <1>25, <1>26 DEF Next, Runner, ApplyPhase, UpdatePhase, People

\* The invariant of marker and destinations holds throughout.
LEMMA Applied == Spec => []AppliedInv
BY AppliedInit, AppliedStep, PTL DEF Spec

\* marker.go:12: for every instance, the commit the marker names was recorded as
\* applied, and while it is the reviewed head the destinations hold it, so a run
\* that skips the apply phase skips nothing.
THEOREM MarkerSafe == Spec => []MarkerTruthful
<1>1. AppliedInv => MarkerTruthful
  <2>1. AppliedInv => Len(base) \in Nat
    BY OnTop DEF AppliedInv
  <2>2. QED
    BY <2>1 DEF AppliedInv, MarkerTruthful
<1>2. QED
  BY <1>1, Applied, PTL

(***************************************************************************)
(* Unresolved resources.  Two resources may share a branch (see the run      *)
(* MCReconcile_shared); the promise is for those that have their own.        *)
(***************************************************************************)
OwnBranch == \A r, q \in Res : BranchOf[r] = BranchOf[q] => r = q

Updating == {"next", "push", "pull", "plan", "delete"}

UnresolvedInv ==
    /\ errs \subseteq Res /\ broken \subseteq Res
    /\ pc \in Updating \cup {"list"} => \A r \in errs : Reviewed.mode[r] = "active"
    /\ pc \in Updating => /\ todo \subseteq SetId /\ todo \cap errs = {}
                          /\ doomed \cap KeptByErrors(errs) = {}
    /\ pc \in {"push", "pull", "plan"} => \A r \in errs : cur # BranchOf[r]
    /\ pc = "delete" => cur \notin KeptByErrors(errs)
    /\ pc = "push" => commit # NoTip

\* At first no run has doomed a proposal.
LEMMA UnresolvedInit == Init => UnresolvedInv
BY DEF Init, UnresolvedInv, Updating

\* A resource that failed to resolve has no set of its own.
LEMMA FailedHasNoSet ==
    ASSUME NEW rev, NEW got, NEW failed \in SUBSET Res,
           \A r \in failed : rev.mode[r] = "active"
    PROVE  Changesets(rev, got, failed) \cap failed = {}
<1>1. ASSUME NEW s \in failed, s \in Changesets(rev, got, failed) PROVE FALSE
  <2>1. s # Refresh
    BY <1>1, ConstantsAssumption
  <2>2. s \in Changed(rev, got, failed)
    BY <1>1, <2>1 DEF Changesets, Members
  <2>3. QED
    BY <1>1, <2>2 DEF Changed
<1>2. QED
  BY <1>1

\* Every step keeps it.
LEMMA UnresolvedStep ==
    ASSUME AppliedInv, UnresolvedInv, OwnBranch, [Next]_vars
    PROVE  UnresolvedInv'
<1>1. ASSUME Sync PROVE UnresolvedInv'
  BY <1>1 DEF UnresolvedInv, Updating, Reviewed, KeptByErrors, Sync, Fails, Works, hostVars, sourceVars, runVars, propVars, still
<1>2. ASSUME Load PROVE UnresolvedInv'
  BY <1>2 DEF UnresolvedInv, Updating, Reviewed, KeptByErrors, Load, Fails, Works, hostVars, sourceVars, runVars, propVars, still
<1>3. ASSUME Reject PROVE UnresolvedInv'
  BY <1>3 DEF UnresolvedInv, Updating, Reviewed, KeptByErrors, Reject, Fails, Works, hostVars, sourceVars, runVars, propVars, still
<1>4. ASSUME ApplySkip PROVE UnresolvedInv'
  BY <1>4 DEF UnresolvedInv, Updating, Reviewed, KeptByErrors, ApplySkip, Fails, Works, hostVars, sourceVars, runVars, propVars, still
<1>5. ASSUME ApplyRun PROVE UnresolvedInv'
  BY <1>5 DEF UnresolvedInv, Updating, Reviewed, KeptByErrors, ApplyRun, Fails, Works, hostVars, sourceVars, runVars, propVars, still
<1>6. ASSUME ApplyStatus PROVE UnresolvedInv'
  BY <1>6 DEF UnresolvedInv, Updating, Reviewed, KeptByErrors, ApplyStatus, Fails, Works, hostVars, sourceVars, runVars, propVars, still
<1>7. ASSUME WriteMarker PROVE UnresolvedInv'
  BY <1>7 DEF UnresolvedInv, Updating, Reviewed, KeptByErrors, WriteMarker, Fails, Works, hostVars, sourceVars, runVars, propVars, still
<1>8. ASSUME Resolve PROVE UnresolvedInv'
  BY <1>8 DEF UnresolvedInv, Updating, Reviewed, KeptByErrors, Resolve, Fails, Works, hostVars, sourceVars, runVars, propVars, still
<1>9. ASSUME List PROVE UnresolvedInv'
  <2>1. CASE pc' = "idle"
    BY <2>1, <1>9 DEF UnresolvedInv, Updating, List, hostVars, sourceVars
  <2>2. CASE pc' = "next"
    <3>1. todo' = Changesets(Reviewed, cand, errs) /\ todo' \subseteq SetId
      BY <2>2, <1>9 DEF List, Changesets
    <3>2. todo' \cap errs = {}
      BY <3>1, FailedHasNoSet, <1>9 DEF UnresolvedInv, List
    <3>3. doomed' \cap KeptByErrors(errs) = {}
      BY <2>2, <1>9 DEF List
    <3>4. UNCHANGED <<errs, head, base, broken>>
      BY <1>9 DEF List, hostVars, sourceVars
    <3>5. QED
      BY <2>2, <3>1, <3>2, <3>3, <3>4, <1>9 DEF UnresolvedInv, Updating, Reviewed, KeptByErrors, List
  <2>3. QED
    BY <2>1, <2>2, <1>9 DEF List
<1>10. ASSUME Push PROVE UnresolvedInv'
  BY <1>10 DEF UnresolvedInv, Updating, Reviewed, KeptByErrors, Push, Fails, Works, hostVars, sourceVars, runVars, propVars, still
<1>11. ASSUME Pull PROVE UnresolvedInv'
  BY <1>11 DEF UnresolvedInv, Updating, Reviewed, KeptByErrors, Pull, Fails, Works, hostVars, sourceVars, runVars, propVars, still
<1>12. ASSUME PlanStatus PROVE UnresolvedInv'
  BY <1>12 DEF UnresolvedInv, Updating, Reviewed, KeptByErrors, PlanStatus, Fails, Works, hostVars, sourceVars, runVars, propVars, still
<1>13. ASSUME RetireDelete PROVE UnresolvedInv'
  BY <1>13 DEF UnresolvedInv, Updating, Reviewed, KeptByErrors, RetireDelete, Fails, Works, hostVars, sourceVars, runVars, propVars, still
<1>14. ASSUME Finish PROVE UnresolvedInv'
  BY <1>14 DEF UnresolvedInv, Updating, Reviewed, KeptByErrors, Finish, Fails, Works, hostVars, sourceVars, runVars, propVars, still
<1>15. ASSUME NEW s \in SetId, ProposeNothing(s) PROVE UnresolvedInv'
  BY <1>15 DEF UnresolvedInv, Updating, Reviewed, KeptByErrors, ProposeNothing, Fails, Works, hostVars, sourceVars, runVars, propVars, still
<1>16. ASSUME NEW s \in SetId, ProposeCommit(s) PROVE UnresolvedInv'
  <2>1. s \in todo /\ s \notin errs /\ cur' = BranchName(s) /\ pc' \in {"push", "pull"}
    BY <1>16 DEF UnresolvedInv, Updating, ProposeCommit, Turn
  <2>2. \A r \in errs : cur' # BranchOf[r]
    BY <2>1, ConstantsAssumption DEF UnresolvedInv, OwnBranch, BranchName, SetId
  <2>3. pc' = "push" => commit'.parent = head
    BY <1>16 DEF ProposeCommit
  <2>4. NoTip.parent = 0 /\ head # 0
    BY DEF NoTip, AppliedInv
  <2>5. UNCHANGED <<errs, head, base, doomed, broken>> /\ todo' \subseteq todo /\ pc = "next"
    BY <1>16 DEF ProposeCommit, Turn, hostVars, sourceVars
  <2>6. pc' = "push" => commit' # NoTip
    BY <2>3, <2>4
  <2>7. QED
    BY <2>1, <2>2, <2>5, <2>6 DEF UnresolvedInv, Updating, Reviewed, KeptByErrors
<1>17. ASSUME NEW b \in Branch, RetireSkip(b) PROVE UnresolvedInv'
  BY <1>17 DEF UnresolvedInv, Updating, Reviewed, KeptByErrors, RetireSkip, Fails, Works, hostVars, sourceVars, runVars, propVars, still
<1>18. ASSUME NEW b \in Branch, RetireClose(b) PROVE UnresolvedInv'
  BY <1>18 DEF UnresolvedInv, Updating, Reviewed, KeptByErrors, RetireClose, Fails, Works, hostVars, sourceVars, runVars, propVars, still
<1>19. ASSUME Crash PROVE UnresolvedInv'
  BY <1>19 DEF UnresolvedInv, Updating, Reviewed, KeptByErrors, Crash, Fails, Works, hostVars, sourceVars, runVars, propVars, still
<1>20. ASSUME NEW b \in Branch, PersonPush(b) PROVE UnresolvedInv'
  BY <1>20 DEF UnresolvedInv, Updating, Reviewed, KeptByErrors, PersonPush, Moving, hostVars, sourceVars, runVars, propVars, still
<1>21. ASSUME NEW b \in Branch, PersonClose(b) PROVE UnresolvedInv'
  BY <1>21 DEF UnresolvedInv, Updating, Reviewed, KeptByErrors, PersonClose, Moving, hostVars, sourceVars, runVars, propVars, still
<1>22. ASSUME NEW b \in Branch, PersonDelete(b) PROVE UnresolvedInv'
  BY <1>22 DEF UnresolvedInv, Updating, Reviewed, KeptByErrors, PersonDelete, Moving, hostVars, sourceVars, runVars, propVars, still
<1>23. ASSUME NEW b \in Branch, NEW squash \in BOOLEAN, PersonMerge(b, squash) PROVE UnresolvedInv'
  <2>1. Reviewed' = Reviewed
    <3>1. PICK c : base' = Append(base, c)
      BY <1>23 DEF PersonMerge
    <3>2. base'[head] = base[head] /\ head' = head
      BY <3>1, OnTop, <1>23 DEF AppliedInv, PersonMerge, still, runVars
    <3>3. QED
      BY <3>2 DEF Reviewed
  <2>2. QED
    BY <2>1, <1>23 DEF UnresolvedInv, Updating, KeptByErrors, PersonMerge, still, runVars, propVars, sourceVars
<1>24. ASSUME PersonCommit PROVE UnresolvedInv'
  <2>1. Reviewed' = Reviewed
    <3>1. PICK c : base' = Append(base, c)
      BY <1>24 DEF PersonCommit
    <3>2. base'[head] = base[head] /\ head' = head
      BY <3>1, OnTop, <1>24 DEF AppliedInv, PersonCommit, still, runVars
    <3>3. QED
      BY <3>2 DEF Reviewed
  <2>2. QED
    BY <2>1, <1>24 DEF UnresolvedInv, Updating, KeptByErrors, PersonCommit, still, runVars, propVars, sourceVars
<1>25. ASSUME SourceMoves PROVE UnresolvedInv'
  BY <1>25 DEF UnresolvedInv, Updating, Reviewed, KeptByErrors, SourceMoves, Moving, hostVars, sourceVars, runVars, propVars, still
<1>26. CASE UNCHANGED vars
  BY <1>26 DEF UnresolvedInv, Updating, Reviewed, KeptByErrors, vars, hostVars, sourceVars, runVars, propVars, still
<1>27. QED
  BY <1>1, <1>2, <1>3, <1>4, <1>5, <1>6, <1>7, <1>8, <1>9, <1>10, <1>11, <1>12, <1>13, <1>14, <1>15, <1>16, <1>17, <1>18, <1>19, <1>20, <1>21, <1>22, <1>23, <1>24, <1>25, <1>26 DEF Next, Runner, ApplyPhase, UpdatePhase, People

\* How a step of the run may change branches and pull requests.
HostStep ==
    \/ origin' = origin /\ open \subseteq open'
    \/ pc = "push" /\ origin' = [origin EXCEPT ![cur] = commit] /\ open' = open
    \/ pc = "next" /\ origin' = origin /\ \E b \in doomed : open \ {b} \subseteq open'
    \/ /\ pc = "delete" /\ open \ {cur} \subseteq open'
       /\ origin' \in {origin, [origin EXCEPT ![cur] = NoTip]}

\* No step of the run changes them otherwise.
LEMMA HostSteps ==
    ASSUME OwnershipInv, env' = env, [Next]_vars
    PROVE  HostStep
<1>1. ASSUME Sync PROVE HostStep
  BY <1>1 DEF HostStep, OwnershipInv, Sync, Fails, Works, hostVars, sourceVars, runVars, propVars, still
<1>2. ASSUME Load PROVE HostStep
  BY <1>2 DEF HostStep, OwnershipInv, Load, Fails, Works, hostVars, sourceVars, runVars, propVars, still
<1>3. ASSUME Reject PROVE HostStep
  BY <1>3 DEF HostStep, OwnershipInv, Reject, Fails, Works, hostVars, sourceVars, runVars, propVars, still
<1>4. ASSUME ApplySkip PROVE HostStep
  BY <1>4 DEF HostStep, OwnershipInv, ApplySkip, Fails, Works, hostVars, sourceVars, runVars, propVars, still
<1>5. ASSUME ApplyRun PROVE HostStep
  BY <1>5 DEF HostStep, OwnershipInv, ApplyRun, Fails, Works, hostVars, sourceVars, runVars, propVars, still
<1>6. ASSUME ApplyStatus PROVE HostStep
  BY <1>6 DEF HostStep, OwnershipInv, ApplyStatus, Fails, Works, hostVars, sourceVars, runVars, propVars, still
<1>7. ASSUME WriteMarker PROVE HostStep
  BY <1>7 DEF HostStep, OwnershipInv, WriteMarker, Fails, Works, hostVars, sourceVars, runVars, propVars, still
<1>8. ASSUME Resolve PROVE HostStep
  BY <1>8 DEF HostStep, OwnershipInv, Resolve, Fails, Works, hostVars, sourceVars, runVars, propVars, still
<1>9. ASSUME List PROVE HostStep
  BY <1>9 DEF HostStep, OwnershipInv, List, Fails, Works, hostVars, sourceVars, runVars, propVars, still
<1>10. ASSUME Push PROVE HostStep
  BY <1>10 DEF HostStep, OwnershipInv, Push, Fails, Works, hostVars, sourceVars, runVars, propVars, still
<1>11. ASSUME Pull PROVE HostStep
  BY <1>11 DEF HostStep, OwnershipInv, Pull, Fails, Works, hostVars, sourceVars, runVars, propVars, still
<1>12. ASSUME PlanStatus PROVE HostStep
  BY <1>12 DEF HostStep, OwnershipInv, PlanStatus, Fails, Works, hostVars, sourceVars, runVars, propVars, still
<1>13. ASSUME RetireDelete PROVE HostStep
  BY <1>13 DEF HostStep, OwnershipInv, RetireDelete, Fails, Works, hostVars, sourceVars, runVars, propVars, still
<1>14. ASSUME Finish PROVE HostStep
  BY <1>14 DEF HostStep, OwnershipInv, Finish, Fails, Works, hostVars, sourceVars, runVars, propVars, still
<1>15. ASSUME NEW s \in SetId, ProposeNothing(s) PROVE HostStep
  BY <1>15 DEF HostStep, OwnershipInv, ProposeNothing, Fails, Works, hostVars, sourceVars, runVars, propVars, still
<1>16. ASSUME NEW s \in SetId, ProposeCommit(s) PROVE HostStep
  BY <1>16 DEF HostStep, OwnershipInv, ProposeCommit, Fails, Works, hostVars, sourceVars, runVars, propVars, still
<1>17. ASSUME NEW b \in Branch, RetireSkip(b) PROVE HostStep
  BY <1>17 DEF HostStep, OwnershipInv, RetireSkip, Fails, Works, hostVars, sourceVars, runVars, propVars, still
<1>18. ASSUME NEW b \in Branch, RetireClose(b) PROVE HostStep
  BY <1>18 DEF HostStep, OwnershipInv, RetireClose, Fails, Works, hostVars, sourceVars, runVars, propVars, still
<1>19. ASSUME Crash PROVE HostStep
  BY <1>19 DEF HostStep, OwnershipInv, Crash, Fails, Works, hostVars, sourceVars, runVars, propVars, still
<1>20. ASSUME NEW b \in Branch, PersonPush(b) PROVE HostStep
  BY <1>20 DEF HostStep, OwnershipInv, PersonPush, Moving, hostVars, sourceVars, runVars, propVars, still
<1>21. ASSUME NEW b \in Branch, PersonClose(b) PROVE HostStep
  BY <1>21 DEF HostStep, OwnershipInv, PersonClose, Moving, hostVars, sourceVars, runVars, propVars, still
<1>22. ASSUME NEW b \in Branch, PersonDelete(b) PROVE HostStep
  BY <1>22 DEF HostStep, OwnershipInv, PersonDelete, Moving, hostVars, sourceVars, runVars, propVars, still
<1>23. ASSUME NEW b \in Branch, NEW squash \in BOOLEAN, PersonMerge(b, squash) PROVE HostStep
  BY <1>23 DEF PersonMerge, Moving, OwnershipInv
<1>24. ASSUME PersonCommit PROVE HostStep
  BY <1>24 DEF PersonCommit, Moving, OwnershipInv
<1>25. ASSUME SourceMoves PROVE HostStep
  BY <1>25 DEF HostStep, OwnershipInv, SourceMoves, Moving, hostVars, sourceVars, runVars, propVars, still
<1>26. CASE UNCHANGED vars
  BY <1>26 DEF HostStep, OwnershipInv, vars, hostVars, sourceVars, runVars, propVars, still
<1>27. QED
  BY <1>1, <1>2, <1>3, <1>4, <1>5, <1>6, <1>7, <1>8, <1>9, <1>10, <1>11, <1>12, <1>13, <1>14, <1>15, <1>16, <1>17, <1>18, <1>19, <1>20, <1>21, <1>22, <1>23, <1>24, <1>25, <1>26 DEF Next, Runner, ApplyPhase, UpdatePhase, People

\* With a branch for each resource, the invariant of unresolved resources holds throughout.
LEMMA Unresolved == OwnBranch => (Spec => []UnresolvedInv)
<1> SUFFICES ASSUME OwnBranch PROVE Spec => []UnresolvedInv
  OBVIOUS
<1>1. AppliedInv /\ UnresolvedInv /\ [Next]_vars => UnresolvedInv'
  BY UnresolvedStep
<1>2. QED
  BY <1>1, UnresolvedInit, Applied, PTL DEF Spec

\* proposal.go:62: for every instance in which resources have branches of their
\* own, what a resource that failed to resolve may be proposing stays, and the
\* lock refresh is not retired, whatever else the run proposes and retires.
THEOREM UnresolvedSafe == OwnBranch => (Spec => UnresolvedKept)
<1> SUFFICES ASSUME OwnBranch PROVE Spec => UnresolvedKept
  OBVIOUS
<1> DEFINE Kept == (pc \in {"next", "push", "pull", "plan", "delete"} /\ env' = env) =>
         /\ \A r \in errs : /\ origin'[BranchOf[r]] = origin[BranchOf[r]]
                            /\ (BranchOf[r] \in open => BranchOf[r] \in open')
         /\ ((errs # {} /\ origin[Refresh] # NoTip) => (origin'[Refresh] # NoTip))
<1>1. OwnershipInv /\ UnresolvedInv /\ [Next]_vars => Kept
  <2> SUFFICES ASSUME OwnershipInv, UnresolvedInv, [Next]_vars, pc \in Updating, env' = env
               PROVE  /\ \A r \in errs : /\ origin'[BranchOf[r]] = origin[BranchOf[r]]
                                         /\ (BranchOf[r] \in open => BranchOf[r] \in open')
                      /\ ((errs # {} /\ origin[Refresh] # NoTip) => (origin'[Refresh] # NoTip))
    BY DEF Updating
  <2>0. Refresh \in Branch /\ \A r \in errs : BranchOf[r] \in Branch
    BY DEF Branch, UnresolvedInv
  <2>1. HostStep
    BY HostSteps
  <2>2. CASE origin' = origin /\ open \subseteq open'
    BY <2>2
  <2>3. CASE pc = "push" /\ origin' = [origin EXCEPT ![cur] = commit] /\ open' = open
    BY <2>0, <2>3 DEF OwnershipInv, UnresolvedInv
  <2>4. CASE pc = "next" /\ origin' = origin /\ \E b \in doomed : open \ {b} \subseteq open'
    <3>1. PICK b \in doomed : open \ {b} \subseteq open'
      BY <2>4
    <3>2. \A r \in errs : BranchOf[r] # b
      BY <2>4 DEF UnresolvedInv, Updating, KeptByErrors
    <3>3. QED
      BY <2>4, <3>1, <3>2
  <2>5. CASE /\ pc = "delete" /\ open \ {cur} \subseteq open'
             /\ origin' \in {origin, [origin EXCEPT ![cur] = NoTip]}
    <3>1. (\A r \in errs : BranchOf[r] # cur) /\ (errs # {} => cur # Refresh)
      BY <2>5 DEF UnresolvedInv, KeptByErrors
    <3>2. QED
      BY <2>0, <2>5, <3>1 DEF OwnershipInv
  <2>6. QED
    BY <2>1, <2>2, <2>3, <2>4, <2>5 DEF HostStep
<1>2. OwnershipInv /\ UnresolvedInv /\ [Next]_vars => [Kept]_vars
  BY <1>1
<1>3. QED
  BY <1>2, Ownership, Unresolved, PTL DEF Spec, UnresolvedKept

(***************************************************************************)
(* Types.  The identity of a new proposal is one that no commit still       *)
(* referred to has: only finitely many are, so there is one.                *)
(***************************************************************************)
\* The values of a function on a finite set are finitely many.
LEMMA ImageFinite ==
    ASSUME NEW S, IsFiniteSet(S), NEW f
    PROVE  IsFiniteSet({f[x] : x \in S})
<1> DEFINE T == {f[x] : x \in S}  g == [x \in S |-> f[x]]
<1>1. g \in Surjection(S, T) BY DEF Surjection
<1> QED BY <1>1, FS_Surjection

\* What the host and the sources hold.
HostTypes ==
    /\ base \in Seq(Commit) /\ Len(base) \in 1..MaxHead
    /\ contained \subseteq Tip /\ IsFiniteSet(contained)
    /\ origin \in [Branch -> Tip] /\ open \subseteq Branch
    /\ closed \in [Branch -> SUBSET PullRecord] /\ \A b \in Branch : IsFiniteSet(closed[b])
    /\ planned \subseteq Tip /\ IsFiniteSet(planned)
    /\ applyStatus \in [1..MaxHead -> {"none", "success", "failure"}]
    /\ upstream \in [Res -> Entry] /\ broken \subseteq Res

\* What the run and the state directory hold.
RunTypes ==
    /\ dest \in 0..MaxHead /\ marker \in 0..MaxHead
    /\ pc \in {"idle", "load", "apply", "status", "mark", "resolve", "list", "next", "push", "pull", "plan", "delete"}
    /\ head \in 1..MaxHead /\ head <= Len(base)
    /\ fetched \in [Branch -> Tip] /\ fetchedContained \subseteq Tip
    /\ cand \in [Res -> Entry] /\ errs \subseteq Res
    /\ pulls \subseteq Branch /\ todo \subseteq SetId /\ doomed \subseteq Branch
    /\ cur \in Branch /\ commit \in Tip /\ expected \in Tip
    /\ planOK \in BOOLEAN /\ applyOK \in BOOLEAN
    /\ env \in Nat /\ faults \in Nat
Types == HostTypes /\ RunTypes

\* What the run reads of the reviewed branch are commits.
LEMMA CommitsAre ==
    ASSUME Types
    PROVE  /\ Reviewed \in Commit /\ base[Len(base)] \in Commit /\ Len(base) \in Nat /\ MaxHead \in Nat
           /\ \A h \in 1..Len(base) : base[h] \in Commit
           /\ head \in Nat /\ head <= MaxHead /\ 1 <= head /\ head \in 1..Len(base)
BY ConstantsAssumption DEF Types, HostTypes, RunTypes, Reviewed

\* Branches of sets are branches, of which there are finitely many.
LEMMA NamesAre ==
    /\ Refresh \in Branch /\ NoTip \in Tip /\ \A r \in Res : BranchOf[r] \in Branch
    /\ \A s \in SetId : BranchName(s) \in Branch
    /\ IsFiniteSet(Branch)
<1>1. Refresh \in Branch /\ \A r \in Res : BranchOf[r] \in Branch BY DEF Branch
<1>2. \A s \in SetId : BranchName(s) \in Branch BY <1>1 DEF SetId, BranchName
<1>3. NoTip \in Tip BY DEF NoTip, Tip, Lock
<1>4. IsFiniteSet({BranchOf[r] : r \in Res}) BY ConstantsAssumption, ImageFinite
<1>5. IsFiniteSet(Branch) BY <1>4, FS_AddElement DEF Branch
<1> QED BY <1>1, <1>2, <1>3, <1>5

\* What a set proposes is a lock.
LEMMA ProposalIs ==
    ASSUME NEW rev \in Commit, NEW got \in [Res -> Entry], NEW failed, NEW s
    PROVE  ProposedLock(rev, got, failed, s) \in Lock
<1>1. \A r \in Res : After(rev, got, r) \in Entry \cup {NoEntry} BY DEF After
<1>2. rev.lock \in [Res -> Entry \cup {NoEntry}] BY DEF Commit, Lock
<1> QED BY <1>1, <1>2 DEF ProposedLock, Lock

\* A closed pull request is one more, on its branch.
LEMMA ClosedWithIs ==
    ASSUME HostTypes, NEW b \in Branch, NEW merged \in BOOLEAN, NEW who \in {"person", "stemma", "host"},
           closed' = ClosedWith(b, merged, who)
    PROVE  /\ closed' \in [Branch -> SUBSET PullRecord] /\ \A c \in Branch : IsFiniteSet(closed'[c])
           /\ closed'[b] = closed[b] \cup {[tip |-> origin[b], merged |-> merged, by |-> who]}
           /\ \A c \in Branch \ {b} : closed'[c] = closed[c]
<1> DEFINE new == [tip |-> origin[b], merged |-> merged, by |-> who]
<1>1. new \in PullRecord BY DEF HostTypes, PullRecord
<1>2. /\ closed' = [closed EXCEPT ![b] = closed[b] \cup {new}] BY DEF ClosedWith
<1> HIDE DEF new
<1>3. closed' \in [Branch -> SUBSET PullRecord] BY <1>1, <1>2 DEF HostTypes
<1>4. closed'[b] = closed[b] \cup {new} /\ \A c \in Branch \ {b} : closed'[c] = closed[c]
  BY <1>2 DEF HostTypes
<1>5. IsFiniteSet(closed[b] \cup {new}) BY FS_AddElement DEF HostTypes
<1>6. \A c \in Branch : IsFiniteSet(closed'[c]) BY <1>4, <1>5 DEF HostTypes
<1> QED BY <1>3, <1>4, <1>6 DEF new

\* Only finitely many commits are still referred to.
LEMMA ReferredIs ==
    ASSUME Types
    PROVE  IsFiniteSet(Referred) /\ Referred \subseteq Tip
<1> DEFINE all == UNION {closed[b] : b \in Branch}
<1>1. IsFiniteSet(Branch) BY NamesAre
<1>2. IsFiniteSet({origin[b] : b \in Branch}) /\ IsFiniteSet({fetched[b] : b \in Branch})
  BY <1>1, ImageFinite
<1>3. IsFiniteSet(all)
  <2>1. IsFiniteSet({closed[b] : b \in Branch}) BY <1>1, ImageFinite
  <2>2. \A T \in {closed[b] : b \in Branch} : IsFiniteSet(T) BY DEF Types, HostTypes
  <2> QED BY <2>1, <2>2, FS_UNION
<1>4. IsFiniteSet({c.tip : c \in all})
  <2> DEFINE f == [c \in all |-> c.tip]
  <2>1. IsFiniteSet({f[c] : c \in all}) BY <1>3, ImageFinite
  <2>2. {f[c] : c \in all} = {c.tip : c \in all} OBVIOUS
  <2> QED BY <2>1, <2>2
<1>5. {c.tip : c \in all} \subseteq Tip BY DEF Types, HostTypes, PullRecord
<1>6. IsFiniteSet(planned) /\ IsFiniteSet(contained) BY DEF Types, HostTypes
<1>7. IsFiniteSet({origin[b] : b \in Branch} \cup {fetched[b] : b \in Branch}) BY <1>2, FS_Union
<1>8. IsFiniteSet({origin[b] : b \in Branch} \cup {fetched[b] : b \in Branch} \cup planned)
  BY <1>6, <1>7, FS_Union
<1>9. IsFiniteSet({origin[b] : b \in Branch} \cup {fetched[b] : b \in Branch} \cup planned \cup contained)
  BY <1>6, <1>8, FS_Union
<1>10. IsFiniteSet(Referred) BY <1>4, <1>9, FS_Union DEF Referred
<1> HIDE DEF all
<1>11. Referred = {origin[b] : b \in Branch} \cup {fetched[b] : b \in Branch} \cup planned \cup contained \cup {c.tip : c \in all}
  BY DEF Referred, all
<1>12. Referred \subseteq Tip BY <1>5, <1>11 DEF Types, HostTypes, RunTypes
<1> QED BY <1>10, <1>12

\* So there is an identity that none of them has.
LEMMA FreshIs ==
    ASSUME Types
    PROVE  FreshId \in Nat /\ \A t \in Referred : t.id # FreshId
<1> DEFINE N == Cardinality(Referred)
<1>1. IsFiniteSet(Referred) /\ N \in Nat BY ReferredIs, FS_CardinalityType
<1> HIDE DEF N
<1>2. \E n \in 1..(N + 1) : \A t \in Referred : t.id # n
  <2> SUFFICES ASSUME \A n \in 1..(N + 1) : \E t \in Referred : t.id = n PROVE FALSE OBVIOUS
  <2> DEFINE f == [n \in 1..(N + 1) |-> CHOOSE t \in Referred : t.id = n]
  <2>1. \A n \in 1..(N + 1) : f[n] \in Referred /\ f[n].id = n OBVIOUS
  <2>2. f \in [1..(N + 1) -> Referred] BY <2>1
  <2>3. IsFiniteSet(1..(N + 1)) /\ Cardinality(1..(N + 1)) = N + 1 BY <1>1, FS_Interval
  <2>4. Cardinality(Referred) < Cardinality(1..(N + 1)) BY <1>1, <2>3 DEF N
  <2> HIDE DEF f
  <2>5. \E n, m \in 1..(N + 1) : n # m /\ f[n] = f[m] BY <1>1, <2>2, <2>3, <2>4, FS_PigeonHole
  <2> QED BY <2>1, <2>5
<1>3. FreshId = CHOOSE n \in 1..(N + 1) : \A t \in Referred : t.id # n BY DEF FreshId, N
<1>4. FreshId \in 1..(N + 1) /\ \A t \in Referred : t.id # FreshId BY <1>2, <1>3
<1> QED BY <1>1, <1>4

\* The types hold at first.
LEMMA TypesInit == Init => Types
<1> SUFFICES ASSUME Init PROVE Types OBVIOUS
<1>1. PICK e \in Entry : /\ base = <<[lock |-> [r \in Res |-> e], mode |-> [r \in Res |-> "active"], loads |-> TRUE]>>
                         /\ upstream = [r \in Res |-> e]
  BY DEF Init
<1>2. [lock |-> [r \in Res |-> e], mode |-> [r \in Res |-> "active"], loads |-> TRUE] \in Commit
  BY DEF Commit, Lock, Mode
<1>3. base \in Seq(Commit) /\ Len(base) = 1 BY <1>1, <1>2
<1>4. 1 \in 1..MaxHead /\ 0 \in 0..MaxHead /\ Len(base) \in 1..MaxHead BY <1>3, ConstantsAssumption
<1>5. HostTypes BY <1>1, <1>3, <1>4, NamesAre, FS_EmptySet DEF Init, HostTypes
<1>6. RunTypes
  <2>1. dest \in 0..MaxHead /\ marker \in 0..MaxHead /\ head \in 1..MaxHead /\ head <= Len(base)
    BY <1>3, <1>4 DEF Init
  <2>2. fetched \in [Branch -> Tip] /\ cur \in Branch /\ commit \in Tip /\ expected \in Tip
    BY NamesAre DEF Init
  <2>3. cand \in [Res -> Entry] BY <1>1 DEF Init
  <2> QED BY <2>1, <2>2, <2>3 DEF Init, RunTypes
<1> QED BY <1>5, <1>6 DEF Types

\* Every step keeps them.
LEMMA TypesStep == Types /\ [Next]_vars => Types'
<1> SUFFICES ASSUME Types, [Next]_vars PROVE Types' OBVIOUS
<1>t. Types /\ HostTypes /\ RunTypes BY DEF Types
<1>h. /\ base \in Seq(Commit) /\ Len(base) \in 1..MaxHead
      /\ contained \subseteq Tip /\ IsFiniteSet(contained)
      /\ origin \in [Branch -> Tip] /\ open \subseteq Branch
      /\ closed \in [Branch -> SUBSET PullRecord] /\ \A b \in Branch : IsFiniteSet(closed[b])
      /\ planned \subseteq Tip /\ IsFiniteSet(planned)
      /\ applyStatus \in [1..MaxHead -> {"none", "success", "failure"}]
      /\ upstream \in [Res -> Entry] /\ broken \subseteq Res
      /\ dest \in 0..MaxHead /\ marker \in 0..MaxHead
      /\ pc \in {"idle", "load", "apply", "status", "mark", "resolve", "list", "next", "push", "pull", "plan", "delete"}
      /\ head \in 1..MaxHead /\ head <= Len(base)
      /\ fetched \in [Branch -> Tip] /\ fetchedContained \subseteq Tip
      /\ cand \in [Res -> Entry] /\ errs \subseteq Res
      /\ pulls \subseteq Branch /\ todo \subseteq SetId /\ doomed \subseteq Branch
      /\ cur \in Branch /\ commit \in Tip /\ expected \in Tip
      /\ planOK \in BOOLEAN /\ applyOK \in BOOLEAN
      /\ env \in Nat /\ faults \in Nat
  BY DEF Types, HostTypes, RunTypes
<1>m. /\ base[Len(base)] \in Commit /\ Len(base) \in Nat /\ MaxHead \in Nat
      /\ head \in Nat /\ head <= MaxHead /\ 1 <= head /\ head \in 0..MaxHead /\ 0 \in 0..MaxHead
      /\ faults + 1 \in Nat /\ env + 1 \in Nat
  BY <1>t, CommitsAre DEF RunTypes
<1>1. ASSUME Sync PROVE Types'
  <2>20. HostTypes'
    BY <1>1, <1>h, <1>m DEF HostTypes, Sync, hostVars, sourceVars, runVars, propVars, Fails, Works
  <2>21. RunTypes'
    BY <1>1, <1>h, <1>m DEF RunTypes, Sync, hostVars, sourceVars, runVars, propVars, Fails, Works
  <2> QED BY <2>20, <2>21 DEF Types
<1>2. ASSUME Load PROVE Types'
  <2>20. HostTypes'
    BY <1>2, <1>h, <1>m DEF HostTypes, Load, hostVars, sourceVars, runVars, propVars, Fails, Works
  <2>21. RunTypes'
    BY <1>2, <1>h, <1>m DEF RunTypes, Load, hostVars, sourceVars, runVars, propVars, Fails, Works
  <2> QED BY <2>20, <2>21 DEF Types
<1>3. ASSUME Reject PROVE Types'
  <2>4. applyStatus' \in [1..MaxHead -> {"none", "success", "failure"}] BY <1>h, <1>3 DEF Reject
  <2>20. HostTypes'
    BY <1>3, <1>h, <1>m, <2>4 DEF HostTypes, Reject, hostVars, sourceVars, runVars, propVars, Fails, Works
  <2>21. RunTypes'
    BY <1>3, <1>h, <1>m, <2>4 DEF RunTypes, Reject, hostVars, sourceVars, runVars, propVars, Fails, Works
  <2> QED BY <2>20, <2>21 DEF Types
<1>4. ASSUME ApplySkip PROVE Types'
  <2>20. HostTypes'
    BY <1>4, <1>h, <1>m DEF HostTypes, ApplySkip, hostVars, sourceVars, runVars, propVars, Fails, Works
  <2>21. RunTypes'
    BY <1>4, <1>h, <1>m DEF RunTypes, ApplySkip, hostVars, sourceVars, runVars, propVars, Fails, Works
  <2> QED BY <2>20, <2>21 DEF Types
<1>5. ASSUME ApplyRun PROVE Types'
  <2>20. HostTypes'
    BY <1>5, <1>h, <1>m DEF HostTypes, ApplyRun, hostVars, sourceVars, runVars, propVars, Fails, Works
  <2>21. RunTypes'
    BY <1>5, <1>h, <1>m DEF RunTypes, ApplyRun, hostVars, sourceVars, runVars, propVars, Fails, Works
  <2> QED BY <2>20, <2>21 DEF Types
<1>6. ASSUME ApplyStatus PROVE Types'
  <2>3. [applyStatus EXCEPT ![head] = IF applyOK THEN "success" ELSE "failure"] \in [1..MaxHead -> {"none", "success", "failure"}]
    BY <1>h
  <2>4. applyStatus' \in [1..MaxHead -> {"none", "success", "failure"}] BY <2>3, <1>h, <1>6 DEF ApplyStatus
  <2>20. HostTypes'
    BY <1>6, <1>h, <1>m, <2>3, <2>4 DEF HostTypes, ApplyStatus, hostVars, sourceVars, runVars, propVars,
       Fails, Works
  <2>21. RunTypes'
    BY <1>6, <1>h, <1>m, <2>3, <2>4 DEF RunTypes, ApplyStatus, hostVars, sourceVars, runVars, propVars,
       Fails, Works
  <2> QED BY <2>20, <2>21 DEF Types
<1>7. ASSUME WriteMarker PROVE Types'
  <2>20. HostTypes'
    BY <1>7, <1>h, <1>m DEF HostTypes, WriteMarker, hostVars, sourceVars, runVars, propVars, Fails, Works
  <2>21. RunTypes'
    BY <1>7, <1>h, <1>m DEF RunTypes, WriteMarker, hostVars, sourceVars, runVars, propVars, Fails, Works
  <2> QED BY <2>20, <2>21 DEF Types
<1>8. ASSUME Resolve PROVE Types'
  <2>4. cand' \in [Res -> Entry] /\ errs' \subseteq Res BY <1>h, <1>8 DEF Resolve
  <2>20. HostTypes'
    BY <1>8, <1>h, <1>m, <2>4 DEF HostTypes, Resolve, hostVars, sourceVars, runVars, propVars, Fails, Works
  <2>21. RunTypes'
    BY <1>8, <1>h, <1>m, <2>4 DEF RunTypes, Resolve, hostVars, sourceVars, runVars, propVars, Fails, Works
  <2> QED BY <2>20, <2>21 DEF Types
<1>9. ASSUME List PROVE Types'
  <2>4. pulls' \subseteq Branch /\ todo' \subseteq SetId /\ doomed' \subseteq Branch
    BY <1>h, <1>9 DEF List, Changesets
  <2>20. HostTypes'
    BY <1>9, <1>h, <1>m, <2>4 DEF HostTypes, List, hostVars, sourceVars, runVars, propVars, Fails, Works
  <2>21. RunTypes'
    BY <1>9, <1>h, <1>m, <2>4 DEF RunTypes, List, hostVars, sourceVars, runVars, propVars, Fails, Works
  <2> QED BY <2>20, <2>21 DEF Types
<1>10. ASSUME Push PROVE Types'
  <2>3. [origin EXCEPT ![cur] = commit] \in [Branch -> Tip] BY <1>h
  <2>4. origin' \in [Branch -> Tip] BY <2>3, <1>h, <1>10 DEF Push
  <2>20. HostTypes'
    BY <1>10, <1>h, <1>m, <2>3, <2>4 DEF HostTypes, Push, hostVars, sourceVars, runVars, propVars, Fails,
       Works
  <2>21. RunTypes'
    BY <1>10, <1>h, <1>m, <2>3, <2>4 DEF RunTypes, Push, hostVars, sourceVars, runVars, propVars, Fails,
       Works
  <2> QED BY <2>20, <2>21 DEF Types
<1>11. ASSUME Pull PROVE Types'
  <2>4. open' \subseteq Branch BY <1>h, <1>11 DEF Pull
  <2>20. HostTypes'
    BY <1>11, <1>h, <1>m, <2>4 DEF HostTypes, Pull, hostVars, sourceVars, runVars, propVars, Fails, Works
  <2>21. RunTypes'
    BY <1>11, <1>h, <1>m, <2>4 DEF RunTypes, Pull, hostVars, sourceVars, runVars, propVars, Fails, Works
  <2> QED BY <2>20, <2>21 DEF Types
<1>12. ASSUME PlanStatus PROVE Types'
  <2> DEFINE read == {t \in planned : \E b \in Branch : t = origin[b]} \ {commit}
             recorded == IF planOK THEN read \cup {commit} ELSE read
  <2>1. planned' \in {planned, recorded} BY <1>12 DEF PlanStatus
  <2>2. read \subseteq planned OBVIOUS
  <2> HIDE DEF read
  <2>3. IsFiniteSet(read) /\ read \subseteq Tip BY <2>2, <1>h, FS_Subset
  <2>4. IsFiniteSet(recorded) /\ recorded \subseteq Tip BY <2>3, <1>h, FS_AddElement
  <2> HIDE DEF recorded
  <2>5. planned' \subseteq Tip /\ IsFiniteSet(planned') BY <2>1, <2>4, <1>h
  <2>20. HostTypes'
    BY <1>12, <1>h, <1>m, <2>1, <2>2, <2>3, <2>4, <2>5 DEF HostTypes, PlanStatus, hostVars, sourceVars,
       runVars, propVars, Fails, Works
  <2>21. RunTypes'
    BY <1>12, <1>h, <1>m, <2>1, <2>2, <2>3, <2>4, <2>5 DEF RunTypes, PlanStatus, hostVars, sourceVars,
       runVars, propVars, Fails, Works
  <2> QED BY <2>20, <2>21 DEF Types
<1>13. ASSUME RetireDelete PROVE Types'
  <2>3. /\ closed' \in [Branch -> SUBSET PullRecord] /\ \A c \in Branch : IsFiniteSet(closed'[c])
    <3>1. CASE closed' = ClosedWith(cur, FALSE, "stemma") BY <3>1, <1>h, <1>t, ClosedWithIs
    <3>2. CASE closed' = closed BY <3>2, <1>h
    <3> QED BY <3>1, <3>2, <1>13 DEF RetireDelete
  <2>4. origin' \in [Branch -> Tip] /\ open' \subseteq Branch
    <3>1. [origin EXCEPT ![cur] = NoTip] \in [Branch -> Tip] BY <1>h, NamesAre
    <3> QED BY <3>1, <1>h, <1>13 DEF RetireDelete
  <2>20. HostTypes'
    BY <1>13, <1>h, <1>m, <2>3, <2>4 DEF HostTypes, RetireDelete, hostVars, sourceVars, runVars, propVars,
       Fails, Works
  <2>21. RunTypes'
    BY <1>13, <1>h, <1>m, <2>3, <2>4 DEF RunTypes, RetireDelete, hostVars, sourceVars, runVars, propVars,
       Fails, Works
  <2> QED BY <2>20, <2>21 DEF Types
<1>14. ASSUME Finish PROVE Types'
  <2>20. HostTypes'
    BY <1>14, <1>h, <1>m DEF HostTypes, Finish, hostVars, sourceVars, runVars, propVars, Fails, Works
  <2>21. RunTypes'
    BY <1>14, <1>h, <1>m DEF RunTypes, Finish, hostVars, sourceVars, runVars, propVars, Fails, Works
  <2> QED BY <2>20, <2>21 DEF Types
<1>15. ASSUME NEW s \in SetId, ProposeNothing(s) PROVE Types'
  <2>20. HostTypes'
    BY <1>15, <1>h, <1>m DEF HostTypes, ProposeNothing, hostVars, sourceVars, runVars, propVars, Fails,
       Works
  <2>21. RunTypes'
    BY <1>15, <1>h, <1>m DEF RunTypes, ProposeNothing, hostVars, sourceVars, runVars, propVars, Fails, Works
  <2> QED BY <2>20, <2>21 DEF Types
<1>16. ASSUME NEW s \in SetId, ProposeCommit(s) PROVE Types'
  <2>3. BranchName(s) \in Branch /\ fetched[BranchName(s)] \in Tip BY <1>h, NamesAre
  <2>4. ProposedLock(Reviewed, cand, errs, s) \in Lock BY <1>h, <1>t, CommitsAre, ProposalIs
  <2>5. head \in Nat /\ FreshId \in Nat BY <1>t, CommitsAre, FreshIs
  <2>6. [parent |-> head, lock |-> ProposedLock(Reviewed, cand, errs, s), own |-> TRUE, id |-> FreshId] \in Tip
    BY <2>4, <2>5 DEF Tip
  <2>7. commit' \in Tip /\ pc' \in {"pull", "push"}
    <3>1. commit' = fetched[BranchName(s)] \/ commit' = [parent |-> head, lock |-> ProposedLock(Reviewed, cand, errs, s), own |-> TRUE, id |-> FreshId]
      BY <1>16 DEF ProposeCommit
    <3>2. pc' \in {"pull", "push"} BY <1>16 DEF ProposeCommit
    <3> QED BY <2>3, <2>6, <3>1, <3>2
  <2>8. cur' \in Branch /\ expected' \in Tip /\ todo' \subseteq SetId /\ planOK' \in BOOLEAN
    BY <2>3, <1>h, <1>16 DEF ProposeCommit
  <2>20. HostTypes'
    BY <1>16, <1>h, <1>m, <2>3, <2>4, <2>5, <2>6, <2>7, <2>8 DEF HostTypes, ProposeCommit, hostVars,
       sourceVars, runVars, propVars, Fails, Works
  <2>21. RunTypes'
    BY <1>16, <1>h, <1>m, <2>3, <2>4, <2>5, <2>6, <2>7, <2>8 DEF RunTypes, ProposeCommit, hostVars,
       sourceVars, runVars, propVars, Fails, Works
  <2> QED BY <2>20, <2>21 DEF Types
<1>17. ASSUME NEW b \in Branch, RetireSkip(b) PROVE Types'
  <2>20. HostTypes'
    BY <1>17, <1>h, <1>m DEF HostTypes, RetireSkip, hostVars, sourceVars, runVars, propVars, Fails, Works
  <2>21. RunTypes'
    BY <1>17, <1>h, <1>m DEF RunTypes, RetireSkip, hostVars, sourceVars, runVars, propVars, Fails, Works
  <2> QED BY <2>20, <2>21 DEF Types
<1>18. ASSUME NEW b \in Branch, RetireClose(b) PROVE Types'
  <2>3. /\ closed' \in [Branch -> SUBSET PullRecord] /\ \A c \in Branch : IsFiniteSet(closed'[c])
    <3>1. CASE closed' = ClosedWith(b, FALSE, "stemma") BY <3>1, <1>t, ClosedWithIs
    <3>2. CASE closed' = closed BY <3>2, <1>h
    <3> QED BY <3>1, <3>2, <1>18 DEF RetireClose
  <2>4. open' \subseteq Branch /\ cur' \in Branch /\ expected' \in Tip /\ doomed' \subseteq Branch
    BY <1>h, <1>18 DEF RetireClose
  <2>20. HostTypes'
    BY <1>18, <1>h, <1>m, <2>3, <2>4 DEF HostTypes, RetireClose, hostVars, sourceVars, runVars, propVars,
       Fails, Works
  <2>21. RunTypes'
    BY <1>18, <1>h, <1>m, <2>3, <2>4 DEF RunTypes, RetireClose, hostVars, sourceVars, runVars, propVars,
       Fails, Works
  <2> QED BY <2>20, <2>21 DEF Types
<1>19. ASSUME Crash PROVE Types'
  <2>4. dest' \in 0..MaxHead BY <1>h, <1>m, <1>19 DEF Crash
  <2>20. HostTypes'
    BY <1>19, <1>h, <1>m, <2>4 DEF HostTypes, Crash, hostVars, sourceVars, runVars, propVars, Fails, Works
  <2>21. RunTypes'
    BY <1>19, <1>h, <1>m, <2>4 DEF RunTypes, Crash, hostVars, sourceVars, runVars, propVars, Fails, Works
  <2> QED BY <2>20, <2>21 DEF Types
<1>20. ASSUME NEW b \in Branch, PersonPush(b) PROVE Types'
  <2>3. [origin[b] EXCEPT !.own = FALSE] \in Tip
    <3>1. origin[b] \in Tip BY <1>h
    <3> QED BY <3>1 DEF Tip
  <2>4. origin' \in [Branch -> Tip]
    <3>1. origin' = [origin EXCEPT ![b] = [origin[b] EXCEPT !.own = FALSE]] BY <1>20 DEF PersonPush
    <3> QED BY <2>3, <3>1, <1>h
  <2>20. HostTypes'
    BY <1>20, <1>h, <1>m, <2>3, <2>4 DEF HostTypes, PersonPush, still, hostVars, sourceVars, runVars,
       propVars, Moving
  <2>21. RunTypes'
    BY <1>20, <1>h, <1>m, <2>3, <2>4 DEF RunTypes, PersonPush, still, hostVars, sourceVars, runVars,
       propVars, Moving
  <2> QED BY <2>20, <2>21 DEF Types
<1>21. ASSUME NEW b \in Branch, PersonClose(b) PROVE Types'
  <2>3. /\ closed' \in [Branch -> SUBSET PullRecord] /\ \A c \in Branch : IsFiniteSet(closed'[c])
    BY <1>21, <1>t, ClosedWithIs DEF PersonClose
  <2>4. open' \subseteq Branch BY <1>h, <1>21 DEF PersonClose
  <2>20. HostTypes'
    BY <1>21, <1>h, <1>m, <2>3, <2>4 DEF HostTypes, PersonClose, still, hostVars, sourceVars, runVars,
       propVars, Moving
  <2>21. RunTypes'
    BY <1>21, <1>h, <1>m, <2>3, <2>4 DEF RunTypes, PersonClose, still, hostVars, sourceVars, runVars,
       propVars, Moving
  <2> QED BY <2>20, <2>21 DEF Types
<1>22. ASSUME NEW b \in Branch, PersonDelete(b) PROVE Types'
  <2>3. /\ closed' \in [Branch -> SUBSET PullRecord] /\ \A c \in Branch : IsFiniteSet(closed'[c])
    <3>1. CASE closed' = ClosedWith(b, FALSE, "host") BY <3>1, <1>t, ClosedWithIs
    <3>2. CASE closed' = closed BY <3>2, <1>h
    <3> QED BY <3>1, <3>2, <1>22 DEF PersonDelete
  <2>4. open' \subseteq Branch BY <1>h, <1>22 DEF PersonDelete
  <2>5. origin' \in [Branch -> Tip]
    <3>1. origin' = [origin EXCEPT ![b] = NoTip] BY <1>22 DEF PersonDelete
    <3> QED BY <3>1, <1>h, NamesAre
  <2>20. HostTypes'
    BY <1>22, <1>h, <1>m, <2>3, <2>4, <2>5 DEF HostTypes, PersonDelete, still, hostVars, sourceVars,
       runVars, propVars, Moving
  <2>21. RunTypes'
    BY <1>22, <1>h, <1>m, <2>3, <2>4, <2>5 DEF RunTypes, PersonDelete, still, hostVars, sourceVars, runVars,
       propVars, Moving
  <2> QED BY <2>20, <2>21 DEF Types
<1>23. ASSUME NEW b \in Branch, NEW squash \in BOOLEAN, PersonMerge(b, squash) PROVE Types'
  <2> DEFINE t == origin[b]
             rev == base[Len(base)]
             touched == {r \in Res : t.lock[r] # base[t.parent].lock[r]}
             locks == [r \in Res |-> IF r \in touched THEN t.lock[r] ELSE rev.lock[r]]
             next == [rev EXCEPT !.lock = locks]
  <2>1. t \in Tip /\ rev \in Commit BY <1>h, <1>m
  <2>2. base' = Append(base, next) BY <1>23 DEF PersonMerge
  <2> HIDE DEF touched
  <2>3. locks \in Lock BY <2>1 DEF Tip, Commit, Lock
  <2> HIDE DEF locks
  <2>4. next \in Commit BY <2>1, <2>3 DEF Commit
  <2> HIDE DEF next, rev
  <2>5. base' \in Seq(Commit) /\ Len(base') \in 1..MaxHead /\ Len(base) <= Len(base') /\ head <= Len(base')
    <3>1. Len(base) < MaxHead BY <1>23 DEF PersonMerge
    <3>2. Append(base, next) \in Seq(Commit) /\ Len(Append(base, next)) = Len(base) + 1 BY <2>4, <1>h
    <3> QED BY <3>1, <3>2, <2>2, <1>h, <1>m
  <2>6. /\ closed' \in [Branch -> SUBSET PullRecord] /\ \A c \in Branch : IsFiniteSet(closed'[c])
    BY <1>23, <1>t, ClosedWithIs DEF PersonMerge
  <2>7. contained' \subseteq Tip /\ IsFiniteSet(contained')
    <3>1. contained' \in {contained, contained \cup {t}} BY <1>23 DEF PersonMerge
    <3>2. IsFiniteSet(contained \cup {t}) BY <1>h, FS_AddElement
    <3> HIDE DEF t
    <3> QED BY <3>1, <3>2, <2>1, <1>h
  <2>8. open' \subseteq Branch BY <1>h, <1>23 DEF PersonMerge
  <2>20. HostTypes'
    BY <1>23, <1>h, <1>m, <2>1, <2>2, <2>3, <2>4, <2>5, <2>6, <2>7, <2>8 DEF HostTypes, PersonMerge, still,
       hostVars, sourceVars, runVars, propVars, Moving
  <2>21. RunTypes'
    BY <1>23, <1>h, <1>m, <2>1, <2>2, <2>3, <2>4, <2>5, <2>6, <2>7, <2>8 DEF RunTypes, PersonMerge, still,
       hostVars, sourceVars, runVars, propVars, Moving
  <2> QED BY <2>20, <2>21 DEF Types
<1>24. ASSUME PersonCommit PROVE Types'
  <2> DEFINE rev == base[Len(base)]
  <2>1. rev \in Commit BY <1>m
  <2>2. PICK next \in Commit : base' = Append(base, next)
    <3>1. ASSUME NEW r \in Res, NEW m \in {"active", "suspended", "undeclared"}, base' = Append(base, [rev EXCEPT !.mode[r] = m])
          PROVE  \E next \in Commit : base' = Append(base, next)
      <4>1. [rev.mode EXCEPT ![r] = m] \in Mode BY <2>1 DEF Commit, Mode
      <4>2. [rev EXCEPT !.mode = [rev.mode EXCEPT ![r] = m]] \in Commit BY <2>1, <4>1 DEF Commit
      <4> QED BY <3>1, <4>2
    <3>2. CASE base' = Append(base, [rev EXCEPT !.loads = ~rev.loads])
      <4>1. [rev EXCEPT !.loads = ~rev.loads] \in Commit BY <2>1 DEF Commit
      <4> QED BY <3>2, <4>1
    <3> QED BY <3>1, <3>2, <1>24 DEF PersonCommit
  <2>4. base' \in Seq(Commit) /\ Len(base') \in 1..MaxHead /\ Len(base) <= Len(base') /\ head <= Len(base')
    <3>1. Len(base) < MaxHead BY <1>24 DEF PersonCommit
    <3>2. Append(base, next) \in Seq(Commit) /\ Len(Append(base, next)) = Len(base) + 1 BY <2>2, <1>h
    <3> QED BY <3>1, <3>2, <2>2, <1>h, <1>m
  <2>20. HostTypes'
    BY <1>24, <1>h, <1>m, <2>1, <2>2, <2>4 DEF HostTypes, PersonCommit, still, hostVars, sourceVars,
       runVars, propVars, Moving
  <2>21. RunTypes'
    BY <1>24, <1>h, <1>m, <2>1, <2>2, <2>4 DEF RunTypes, PersonCommit, still, hostVars, sourceVars, runVars,
       propVars, Moving
  <2> QED BY <2>20, <2>21 DEF Types
<1>25. ASSUME SourceMoves PROVE Types'
  <2>4. upstream' \in [Res -> Entry] /\ broken' \subseteq Res BY <1>h, <1>25 DEF SourceMoves
  <2>20. HostTypes'
    BY <1>25, <1>h, <1>m, <2>4 DEF HostTypes, SourceMoves, still, hostVars, sourceVars, runVars, propVars,
       Moving
  <2>21. RunTypes'
    BY <1>25, <1>h, <1>m, <2>4 DEF RunTypes, SourceMoves, still, hostVars, sourceVars, runVars, propVars,
       Moving
  <2> QED BY <2>20, <2>21 DEF Types
<1>26. ASSUME UNCHANGED vars PROVE Types'
  <2>20. HostTypes' BY <1>26, <1>h, <1>m DEF HostTypes, vars, hostVars, sourceVars, runVars, propVars
  <2>21. RunTypes' BY <1>26, <1>h, <1>m DEF RunTypes, vars, hostVars, sourceVars, runVars, propVars
  <2> QED BY <2>20, <2>21 DEF Types
<1> QED BY <1>1, <1>2, <1>3, <1>4, <1>5, <1>6, <1>7, <1>8, <1>9, <1>10, <1>11, <1>12, <1>13, <1>14, <1>15,
   <1>16, <1>17, <1>18, <1>19, <1>20, <1>21, <1>22, <1>23, <1>24, <1>25, <1>26 DEF Next, Runner, ApplyPhase,
   UpdatePhase, People

(***************************************************************************)
(* Declined proposals.  A run judges whether a proposal was declined when    *)
(* it decides to publish it; a pull request that a person closes afterwards  *)
(* was one the run had listed as open, and then the run opens no other.      *)
(***************************************************************************)
\* The run opens no pull request on the branch in hand, or the one at its commit was not declined.
Undeclined ==
    \/ cur \in pulls
    \/ cur \notin open /\ \A c \in closed[cur] : c.tip = commit => c.merged

\* Sets not considered yet are of branches that the run listed as open, if they are.
ReopenInv ==
    /\ pc \in Updating => todo \subseteq SetId
    /\ pc = "next" => \A s \in todo : BranchName(s) \in open => BranchName(s) \in pulls
    /\ pc \in {"push", "pull", "plan", "delete"} =>
          \A s \in todo : BranchName(s) # cur /\ BranchName(s) \in open => BranchName(s) \in pulls
    /\ pc \in {"push", "pull", "plan"} => \A s \in todo : BranchName(s) # cur
    /\ pc = "delete" => todo = {}
    /\ pc \in {"push", "pull"} => Undeclined

\* At first no run is under way.
LEMMA ReopenInit == Init => ReopenInv
BY DEF Init, ReopenInv, Updating

\* Sets with branches of their own are told apart by them.
LEMMA NamesApart ==
    ASSUME OwnBranch, NEW s \in SetId, NEW q \in SetId, BranchName(s) = BranchName(q)
    PROVE  s = q
BY ConstantsAssumption DEF OwnBranch, BranchName, SetId

\* What a run is about to publish was not declined: as it stands it would have been left
\* alone, and a new commit is none that a closed pull request was for.
LEMMA NotDeclined ==
    ASSUME Types, NEW s \in SetId, ProposeCommit(s)
    PROVE  cur' \in pulls \/ ~DeclinedAt(cur', commit')
<1> DEFINE b == BranchName(s)
           t == fetched[b]
           lock == ProposedLock(Reviewed, cand, errs, s)
<1>1. b \in Branch BY NamesAre
<1>2. CASE t # NoTip /\ t.parent = head /\ t.lock = lock
  <2>1. cur' = b /\ commit' = t /\ ~Declines(s) BY <1>2 DEF ProposeCommit
  <2>2. Proposes(t, Reviewed, cand, errs, s)
    <3>1. \A r \in Members(Reviewed, cand, errs, s) : r \in Res BY DEF Members, Changed
    <3> QED BY <1>2, <3>1 DEF Proposes, ProposedLock
  <2> QED BY <2>1, <2>2 DEF Declines, DeclinedAt
<1>3. CASE ~(t # NoTip /\ t.parent = head /\ t.lock = lock)
  <2>1. cur' = b /\ commit'.id = FreshId BY <1>3 DEF ProposeCommit
  <2>2. \A c \in closed[b] : c.tip \in Referred BY <1>1 DEF Referred
  <2>3. \A c \in closed[b] : c.tip # commit' BY <2>1, <2>2, FreshIs
  <2>4. closed' = closed BY DEF ProposeCommit, hostVars
  <2> QED BY <2>1, <2>3, <2>4 DEF DeclinedAt
<1> QED BY <1>2, <1>3

\* A closed pull request that is recorded was open, and nothing else changes.
LEMMA ClosingIs ==
    ASSUME Types, ReopenInv, NEW b \in Branch, b \in open, NEW merged \in BOOLEAN, NEW who \in {"person", "stemma", "host"},
           closed' = ClosedWith(b, merged, who), open' = open \ {b},
           UNCHANGED <<pc, pulls, todo, cur, commit>>
    PROVE  ReopenInv'
<1>1. \A c \in Branch \ {b} : closed'[c] = closed[c] BY ClosedWithIs DEF Types
<1>2. cur \in Branch BY DEF Types, RunTypes
<1>3. Undeclined => Undeclined'
  <2>1. CASE cur \in pulls BY <2>1 DEF Undeclined
  <2>2. CASE cur \notin open
    <3>1. closed'[cur] = closed[cur] BY <2>2, <1>1, <1>2
    <3> QED BY <2>2, <3>1 DEF Undeclined
  <2> QED BY <2>1, <2>2 DEF Undeclined
<1>4. \A s : BranchName(s)' = BranchName(s) BY DEF BranchName
<1> QED BY <1>3, <1>4 DEF ReopenInv

\* Every step keeps it.
LEMMA ReopenStep ==
    ASSUME OwnBranch, Types, Types', ReopenInv, [Next]_vars
    PROVE  ReopenInv'
<1>t. Types /\ HostTypes /\ RunTypes BY DEF Types
<1>o. ASSUME UNCHANGED <<closed, pulls, todo, cur, commit>>, open' \subseteq open, pc' = pc PROVE ReopenInv'
  BY <1>o DEF ReopenInv, Undeclined, BranchName
<1>i. ASSUME pc' \notin Updating PROVE ReopenInv' BY <1>i DEF ReopenInv, Updating
<1>1. ASSUME Sync PROVE ReopenInv'
  BY <1>1, <1>i DEF Sync, Updating
<1>2. ASSUME Load PROVE ReopenInv'
  BY <1>2, <1>i DEF Load, Updating
<1>3. ASSUME Reject PROVE ReopenInv'
  BY <1>3, <1>i DEF Reject, Updating
<1>4. ASSUME ApplySkip PROVE ReopenInv'
  BY <1>4, <1>i DEF ApplySkip, Updating
<1>5. ASSUME ApplyRun PROVE ReopenInv'
  BY <1>5, <1>i DEF ApplyRun, Updating
<1>6. ASSUME ApplyStatus PROVE ReopenInv'
  BY <1>6, <1>i DEF ApplyStatus, Updating
<1>7. ASSUME WriteMarker PROVE ReopenInv'
  BY <1>7, <1>i DEF WriteMarker, Updating
<1>8. ASSUME Resolve PROVE ReopenInv'
  BY <1>8, <1>i DEF Resolve, Updating
<1>9. ASSUME List PROVE ReopenInv'
  <2>1. CASE pc' = "idle" BY <2>1, <1>i DEF Updating
  <2>2. CASE pc' = "next"
    <3>1. pulls' = open /\ open' = open /\ todo' \subseteq SetId
      BY <1>9, <2>2 DEF List, hostVars, Changesets
    <3> QED BY <2>2, <3>1 DEF ReopenInv, Updating
  <2> QED BY <2>1, <2>2, <1>9 DEF List
<1>10. ASSUME Push PROVE ReopenInv'
  <2>1. UNCHANGED <<open, closed, pulls, todo, cur, commit>> /\ pc = "push" /\ pc' \in {"pull", "next"}
    BY <1>10 DEF Push, runVars, propVars
  <2> QED BY <2>1 DEF ReopenInv, Undeclined, BranchName, Updating
<1>11. ASSUME Pull PROVE ReopenInv'
  <2>1. /\ UNCHANGED <<closed, pulls, todo, cur, commit>> /\ pc = "pull" /\ pc' \in {"plan", "next"}
        /\ open' \subseteq open \cup {cur}
    BY <1>11 DEF Pull, runVars, propVars
  <2> QED BY <2>1 DEF ReopenInv, BranchName, Updating
<1>12. ASSUME PlanStatus PROVE ReopenInv'
  <2>1. UNCHANGED <<open, closed, pulls, todo, cur, commit>> /\ pc = "plan" /\ pc' = "next"
    BY <1>12 DEF PlanStatus, runVars, propVars
  <2> QED BY <2>1 DEF ReopenInv, BranchName, Updating
<1>13. ASSUME RetireDelete PROVE ReopenInv'
  <2>1. pc = "delete" /\ pc' = "next" /\ todo' = todo BY <1>13 DEF RetireDelete, runVars
  <2> QED BY <2>1 DEF ReopenInv, Updating
<1>14. ASSUME Finish PROVE ReopenInv'
  BY <1>14, <1>i DEF Finish, Updating
<1>15. ASSUME NEW s \in SetId, ProposeNothing(s) PROVE ReopenInv'
  <2>1. UNCHANGED <<open, pc, pulls>> /\ todo' \subseteq todo /\ pc = "next"
    BY <1>15 DEF ProposeNothing, Turn, hostVars
  <2> QED BY <2>1 DEF ReopenInv, BranchName, Updating
<1>16. ASSUME NEW s \in SetId, ProposeCommit(s) PROVE ReopenInv'
  <2>1. /\ UNCHANGED <<open, closed, pulls>> /\ todo' = todo \ {s} /\ pc = "next" /\ s \in todo
        /\ pc' \in {"push", "pull"} /\ cur' = BranchName(s)
    BY <1>16 DEF ProposeCommit, Turn, hostVars
  <2>2. cur' \in pulls \/ ~DeclinedAt(cur', commit') BY <1>16, <1>t, NotDeclined
  <2>3. Undeclined'
    <3>1. cur' \in open => cur' \in pulls BY <2>1 DEF ReopenInv
    <3> QED BY <2>1, <2>2, <3>1 DEF Undeclined, DeclinedAt
  <2>4. \A q \in todo' : q \in SetId /\ BranchName(q) # cur' BY <2>1, NamesApart DEF ReopenInv, Updating
  <2> QED BY <2>1, <2>3, <2>4 DEF ReopenInv, BranchName, Updating
<1>17. ASSUME NEW b \in Branch, RetireSkip(b) PROVE ReopenInv'
  <2>1. pc = "next" /\ pc' = pc /\ todo = {} /\ todo' = {} BY <1>17 DEF RetireSkip
  <2> QED BY <2>1 DEF ReopenInv, Updating
<1>18. ASSUME NEW b \in Branch, RetireClose(b) PROVE ReopenInv'
  <2>1. pc' \in {"next", "delete"} /\ todo' = {} BY <1>18 DEF RetireClose
  <2> QED BY <2>1 DEF ReopenInv, Updating
<1>19. ASSUME Crash PROVE ReopenInv'
  BY <1>19, <1>i DEF Crash, Updating
<1>20. ASSUME NEW b \in Branch, PersonPush(b) PROVE ReopenInv'
  BY <1>20, <1>o DEF PersonPush, still, runVars, propVars
<1>21. ASSUME NEW b \in Branch, PersonClose(b) PROVE ReopenInv'
  BY <1>21, <1>t, ClosingIs DEF PersonClose, still, runVars, propVars
<1>22. ASSUME NEW b \in Branch, PersonDelete(b) PROVE ReopenInv'
  <2>1. CASE b \in open
    <3>1. closed' = ClosedWith(b, FALSE, "host") /\ open' = open \ {b} /\ UNCHANGED <<pc, pulls, todo, cur, commit>>
      BY <1>22, <2>1 DEF PersonDelete, still, runVars, propVars
    <3> QED BY <2>1, <3>1, <1>t, ClosingIs
  <2>2. CASE b \notin open BY <1>22, <2>2, <1>o DEF PersonDelete, still, runVars, propVars
  <2> QED BY <2>1, <2>2
<1>23. ASSUME NEW b \in Branch, NEW squash \in BOOLEAN, PersonMerge(b, squash) PROVE ReopenInv'
  BY <1>23, <1>t, ClosingIs DEF PersonMerge, still, runVars, propVars
<1>24. ASSUME PersonCommit PROVE ReopenInv'
  BY <1>24, <1>o DEF PersonCommit, still, runVars, propVars
<1>25. ASSUME SourceMoves PROVE ReopenInv'
  BY <1>25, <1>o DEF SourceMoves, still, hostVars, runVars, propVars
<1>26. ASSUME UNCHANGED vars PROVE ReopenInv'
  BY <1>26, <1>o DEF vars, hostVars, runVars, propVars
<1> QED BY <1>1, <1>2, <1>3, <1>4, <1>5, <1>6, <1>7, <1>8, <1>9, <1>10, <1>11, <1>12, <1>13, <1>14, <1>15,
   <1>16, <1>17, <1>18, <1>19, <1>20, <1>21, <1>22, <1>23, <1>24, <1>25, <1>26 DEF Next, Runner, ApplyPhase,
   UpdatePhase, People

\* The types hold throughout, and with them, where resources have branches of their own, that
\* what a run is about to publish was not declined.
LEMMA AlwaysTypes == Spec => []Types
BY TypesInit, TypesStep, PTL DEF Spec

\* Every variable keeps its type, for every instance.
THEOREM TypesSafe == Spec => []TypeOK
<1>1. Types => TypeOK
  <2> SUFFICES ASSUME Types PROVE TypeOK OBVIOUS
  <2>1. head \in 1..Len(base) /\ \A h \in 1..Len(base) : base[h] \in Commit BY CommitsAre
  <2>2. HostTypes /\ RunTypes BY DEF Types
  <2> QED BY <2>1, <2>2 DEF HostTypes, RunTypes, TypeOK
<1> QED BY <1>1, AlwaysTypes, PTL

\* proposal.go:180: for every instance in which resources have branches of their own, a run
\* opens no pull request for a commit whose pull request was closed without a merge, however
\* closing, retries and failed calls come in its way.
THEOREM DeclinedSafe == OwnBranch => (Spec => NoReopenAtTip)
<1> SUFFICES ASSUME OwnBranch PROVE Spec => NoReopenAtTip OBVIOUS
<1> DEFINE Kept == \A b \in open' \ open : origin[b] = commit => ~DeclinedAt(b, commit)
<1>1. Types /\ Types' /\ ReopenInv /\ [Next]_vars => ReopenInv' BY ReopenStep
<1>2. Types /\ ReopenInv /\ [Next]_vars => Kept
  <2> SUFFICES ASSUME Types, ReopenInv, [Next]_vars, NEW b \in open' \ open PROVE ~DeclinedAt(b, commit) OBVIOUS
  <2>1. ~(open' \subseteq open) OBVIOUS
  <2>2. Pull
    BY <2>1 DEF Next, Runner, ApplyPhase, UpdatePhase, People, vars, hostVars, still,
       Sync, Load, Reject, ApplySkip, ApplyRun, ApplyStatus, WriteMarker, Resolve, List, Push, PlanStatus,
       RetireDelete, Finish, ProposeNothing, ProposeCommit, RetireSkip, RetireClose, Crash,
       PersonPush, PersonClose, PersonDelete, PersonMerge, PersonCommit, SourceMoves
  <2>3. b = cur /\ cur \notin pulls /\ pc = "pull" BY <2>2 DEF Pull
  <2> QED BY <2>3 DEF ReopenInv, Undeclined, DeclinedAt
<1>3. Types /\ ReopenInv /\ [Next]_vars => [Kept]_vars BY <1>2
<1> QED BY <1>1, <1>3, ReopenInit, AlwaysTypes, PTL DEF Spec, NoReopenAtTip
=============================================================================
