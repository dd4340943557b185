----------------------------- MODULE CasProofs -----------------------------
(***************************************************************************)
(* Proofs about Cas, for every set of processes, digests, keys and plugins, *)
(* every size, budget and bound.                                           *)
(***************************************************************************)
EXTENDS Cas, TLAPS, WellFoundedInduction

\* Recording a use, or failing to, keeps the types of what it writes.
LEMMA TouchType ==
    ASSUME TypeOK, NEW p \in Proc, NEW e \in Entry, Touch(p, e)
    PROVE  /\ uses' \in [Entry -> Nat]
           /\ failedRecency' \in [Proc -> BOOLEAN]
           /\ faults' \in Nat
<1>1. CASE uses' = [uses EXCEPT ![e] = now] /\ UNCHANGED <<failedRecency, faults>>
  BY <1>1 DEF TypeOK
<1>2. CASE /\ faults' = faults + 1
           /\ failedRecency' = [failedRecency EXCEPT ![p] = TRUE]
           /\ UNCHANGED uses
  BY <1>2 DEF TypeOK
<1>3. QED
  BY <1>1, <1>2 DEF Touch

\* Every step keeps the type of every variable.
LEMMA TypeStep ==
    TypeOK /\ [Next]_vars => TypeOK'
<1> SUFFICES ASSUME TypeOK, [Next]_vars PROVE TypeOK'
  OBVIOUS
<1>1. ASSUME NEW p \in Proc, NEW o \in {"online", "offline"}, StartRun(p, o)
      PROVE  TypeOK'
  BY <1>1 DEF TypeOK, PC, Options, Bytes, Entry, StartRun, Goto, disk, locks, command, collector
<1>2. ASSUME NEW p \in Proc, NEW o \in {"prune", "all", "dry"}, StartPrune(p, o)
      PROVE  TypeOK'
  BY <1>2 DEF TypeOK, PC, Options, Bytes, Entry, StartPrune, Goto, disk, locks, command, collector
<1>3. ASSUME NEW p \in Proc, SkipMaintenance(p)
      PROVE  TypeOK'
  BY <1>3 DEF TypeOK, PC, Options, Bytes, Entry, SkipMaintenance, Goto, disk, locks, command, collector
<1>4. ASSUME NEW p \in Proc, NEW to \in {"leasing", "idle"}, CollectBegin(p, to)
      PROVE  TypeOK'
  BY <1>4 DEF TypeOK, PC, Options, Bytes, Entry, CollectBegin, Goto, disk, locks, command, collector, Inventory
<1>5. ASSUME NEW p \in Proc, Lease(p)
      PROVE  TypeOK'
  BY <1>5 DEF TypeOK, PC, Options, Bytes, Entry, Lease, Goto, disk, locks, command, collector
<1>6. ASSUME NEW p \in Proc, OpenSession(p)
      PROVE  TypeOK'
  BY <1>6 DEF TypeOK, PC, Options, Bytes, Entry, OpenSession, Goto, disk, locks, command, collector
<1>7. ASSUME NEW p \in Proc, CloseSession(p)
      PROVE  TypeOK'
  BY <1>7 DEF TypeOK, PC, Options, Bytes, Entry, CloseSession, Goto, disk, locks, command, collector
<1>8. ASSUME NEW p \in Proc, EndRun(p)
      PROVE  TypeOK'
  BY <1>8 DEF TypeOK, PC, Options, Bytes, Entry, EndRun, Goto, disk, locks, command, collector
<1>9. ASSUME NEW p \in Proc, NEW E \in {{}} \cup {{d} : d \in Digest}, WriteBegin(p, E)
      PROVE  TypeOK'
  BY <1>9 DEF TypeOK, PC, Options, Bytes, Entry, WriteBegin, Goto, disk, locks, command, collector
<1>10. ASSUME NEW p \in Proc, NEW d \in Digest, WritePublish(p, d)
      PROVE  TypeOK'
  <2>1. Touch(p, d) /\ d \in Entry
    BY <1>10 DEF WritePublish, Entry
  <2>2. uses' \in [Entry -> Nat] /\ failedRecency' \in [Proc -> BOOLEAN] /\ faults' \in Nat
    BY <2>1, TouchType
  <2>3. QED
    BY <1>10, <2>2 DEF TypeOK, PC, Options, Bytes, WritePublish, Goto, disk, locks, command, collector
<1>11. ASSUME NEW p \in Proc, WriteFail(p)
      PROVE  TypeOK'
  BY <1>11 DEF TypeOK, PC, Options, Bytes, Entry, WriteFail, Goto, disk, locks, command, collector
<1>12. ASSUME NEW p \in Proc, NEW d \in Digest, ReadOpen(p, d)
      PROVE  TypeOK'
  BY <1>12 DEF TypeOK, PC, Options, Bytes, Entry, ReadOpen, Goto, disk, locks, command, collector, HasDigest
<1>13. ASSUME NEW p \in Proc, NEW d \in Digest, ReadVerified(p, d)
      PROVE  TypeOK'
  <2>1. Touch(p, d) /\ d \in Entry
    BY <1>13 DEF ReadVerified, Entry
  <2>2. uses' \in [Entry -> Nat] /\ failedRecency' \in [Proc -> BOOLEAN] /\ faults' \in Nat
    BY <2>1, TouchType
  <2>3. QED
    BY <1>13, <2>2 DEF TypeOK, PC, Options, Bytes, ReadVerified, Goto, disk, locks, command, collector
<1>14. ASSUME NEW p \in Proc, NEW d \in Digest, ReadDiscard(p, d)
      PROVE  TypeOK'
  BY <1>14 DEF TypeOK, PC, Options, Bytes, Entry, ReadDiscard, Goto, disk, locks, command, collector
<1>15. ASSUME NEW p \in Proc, ReadFail(p)
      PROVE  TypeOK'
  BY <1>15 DEF TypeOK, PC, Options, Bytes, Entry, ReadFail, Goto, disk, locks, command, collector
<1>16. ASSUME NEW p \in Proc, NEW d \in Digest, Reuse(p, d)
      PROVE  TypeOK'
  <2>1. Touch(p, d) /\ d \in Entry
    BY <1>16 DEF Reuse, Entry
  <2>2. uses' \in [Entry -> Nat] /\ failedRecency' \in [Proc -> BOOLEAN] /\ faults' \in Nat
    BY <2>1, TouchType
  <2>3. QED
    BY <1>16, <2>2 DEF TypeOK, PC, Options, Bytes, Reuse, disk, locks, command, collector
<1>17. ASSUME NEW p \in Proc, NEW k \in Key, NEW D \in SUBSET Digest, Remember(p, k, D)
      PROVE  TypeOK'
  <2>1. Touch(p, k) /\ k \in Entry
    BY <1>17 DEF Remember, Entry
  <2>2. uses' \in [Entry -> Nat] /\ failedRecency' \in [Proc -> BOOLEAN] /\ faults' \in Nat
    BY <2>1, TouchType
  <2>3. QED
    BY <1>17, <2>2 DEF TypeOK, PC, Options, Bytes, Remember, disk, locks, command, collector
<1>18. ASSUME NEW p \in Proc, NEW k \in Key, Recall(p, k)
      PROVE  TypeOK'
  <2>1. Touch(p, k) /\ k \in Entry
    BY <1>18 DEF Recall, Entry
  <2>2. uses' \in [Entry -> Nat] /\ failedRecency' \in [Proc -> BOOLEAN] /\ faults' \in Nat
    BY <2>1, TouchType
  <2>3. QED
    BY <1>18, <2>2 DEF TypeOK, PC, Options, Bytes, Recall, disk, locks, command, collector
<1>19. ASSUME NEW p \in Proc, NEW q \in Plugin, Installed(p, q)
      PROVE  TypeOK'
  <2>1. Touch(p, q) /\ q \in Entry
    BY <1>19 DEF Installed, Entry
  <2>2. uses' \in [Entry -> Nat] /\ failedRecency' \in [Proc -> BOOLEAN] /\ faults' \in Nat
    BY <2>1, TouchType
  <2>3. QED
    BY <1>19, <2>2 DEF TypeOK, PC, Options, Bytes, Installed, disk, locks, command, collector
<1>20. ASSUME NEW p \in Proc, NEW q \in Plugin, InstallBegin(p, q)
      PROVE  TypeOK'
  BY <1>20 DEF TypeOK, PC, Options, Bytes, Entry, InstallBegin, Goto, disk, locks, command, collector
<1>21. ASSUME NEW p \in Proc, NEW q \in Plugin, InstallLockedDone(p, q)
      PROVE  TypeOK'
  <2>1. Touch(p, q) /\ q \in Entry
    BY <1>21 DEF InstallLockedDone, Entry
  <2>2. uses' \in [Entry -> Nat] /\ failedRecency' \in [Proc -> BOOLEAN] /\ faults' \in Nat
    BY <2>1, TouchType
  <2>3. QED
    BY <1>21, <2>2 DEF TypeOK, PC, Options, Bytes, InstallLockedDone, Goto, disk, locks, command, collector
<1>22. ASSUME NEW p \in Proc, NEW q \in Plugin, InstallLockedStage(p, q)
      PROVE  TypeOK'
  BY <1>22 DEF TypeOK, PC, Options, Bytes, Entry, InstallLockedStage, Goto, disk, locks, command, collector
<1>23. ASSUME NEW p \in Proc, NEW q \in Plugin, InstallStaged(p, q)
      PROVE  TypeOK'
  BY <1>23 DEF TypeOK, PC, Options, Bytes, Entry, InstallStaged, disk, locks, command, collector
<1>24. ASSUME NEW p \in Proc, NEW q \in Plugin, InstallMark(p, q)
      PROVE  TypeOK'
  <2>1. Touch(p, q) /\ q \in Entry
    BY <1>24 DEF InstallMark, Entry
  <2>2. uses' \in [Entry -> Nat] /\ failedRecency' \in [Proc -> BOOLEAN] /\ faults' \in Nat
    BY <2>1, TouchType
  <2>3. /\ pc' \in [Proc -> PC] /\ complete' \in [Plugin -> BOOLEAN] /\ keyLock' \in [Plugin -> SUBSET Proc]
        /\ executing' \in [Proc -> SUBSET Plugin]
    BY <1>24 DEF TypeOK, PC, InstallMark, Goto
  <2>4. UNCHANGED <<object, indexState, indexObjects, files, partial, orphan, shared, exclusive,
                    opts, runs, target, seen, known, collector, now>>
    BY <1>24 DEF InstallMark
  <2>5. QED
    BY <2>2, <2>3, <2>4 DEF TypeOK, collector
<1>25. ASSUME NEW p \in Proc, NEW q \in Plugin, InstallFail(p, q)
      PROVE  TypeOK'
  BY <1>25 DEF TypeOK, PC, Options, Bytes, Entry, InstallFail, Goto, disk, locks, command, collector
<1>26. ASSUME NEW p \in Proc, SweepTemporaries(p)
      PROVE  TypeOK'
  BY <1>26 DEF TypeOK, PC, Options, Bytes, Entry, SweepTemporaries, disk, locks, command, collector
<1>27. ASSUME NEW p \in Proc, NEW e \in Entry, RemoveContent(p, e)
      PROVE  TypeOK'
  <2>1. complete' \in [Plugin -> BOOLEAN]
    BY <1>27 DEF TypeOK, RemoveContent
  <2>2. object' \in [Digest -> Bytes \cup {"absent"}]
    <3>1. \/ object' = object
          \/ object' = [d \in Digest |-> IF d = e THEN "absent" ELSE object[d]]
      BY <1>27 DEF RemoveContent
    <3>2. object \in [Digest -> Bytes \cup {"absent"}]
      BY DEF TypeOK
    <3>3. QED
      BY <3>1, <3>2
  <2>3. indexState' \in [Key -> {"none", "stored", "garbage"}]
    <3>1. \/ indexState' = indexState
          \/ indexState' = [k \in Key |-> IF k = e THEN "none" ELSE indexState[k]]
      BY <1>27 DEF RemoveContent
    <3>2. indexState \in [Key -> {"none", "stored", "garbage"}]
      BY DEF TypeOK
    <3>3. QED
      BY <3>1, <3>2
  <2>4. files' \in [Plugin -> {"none", "empty", "partial", "full", "torn"}]
    BY <1>27 DEF TypeOK, RemoveContent
  <2>5. /\ victim' \in SUBSET Entry
        /\ UNCHANGED <<indexObjects, uses, partial, orphan, locks, command, back, listed, sweep, cascade, now, faults>>
    BY <1>27 DEF RemoveContent
  <2>6. QED
    BY <2>1, <2>2, <2>3, <2>4, <2>5 DEF TypeOK, locks, command
<1>28. ASSUME NEW p \in Proc, NEW e \in Entry, RemoveMarker(p, e)
      PROVE  TypeOK'
  BY <1>28 DEF TypeOK, PC, Options, Bytes, Entry, RemoveMarker, disk, locks, command, collector, Dependents
<1>29. ASSUME NEW p \in Proc, CollectDone(p)
      PROVE  TypeOK'
  BY <1>29 DEF TypeOK, PC, Options, Bytes, Entry, CollectDone, disk, locks, command, collector
<1>30. ASSUME NEW p \in Proc, CollectEnd(p)
      PROVE  TypeOK'
  BY <1>30 DEF TypeOK, PC, Options, Bytes, Entry, CollectEnd, Goto, disk, locks, command, collector
<1>31. ASSUME NEW p \in Proc, Cancel(p)
      PROVE  TypeOK'
  BY <1>31 DEF TypeOK, PC, Options, Bytes, Entry, Cancel, Goto, Fault, disk, locks, command, collector
<1>32. ASSUME NEW p \in Proc, Crash(p)
      PROVE  TypeOK'
  BY <1>32 DEF TypeOK, PC, Options, Bytes, Entry, Crash, Fault, Dies, disk, locks, command, collector
<1>33. ASSUME NEW p \in Proc, NEW q \in Plugin, TornRemoval(p, q)
      PROVE  TypeOK'
  <2>1. complete' \in [Plugin -> BOOLEAN]
    BY <1>33 DEF TypeOK, TornRemoval
  <2>2. files' \in [Plugin -> {"none", "empty", "partial", "full", "torn"}] /\ faults' \in Nat /\ Dies(p)
    BY <1>33 DEF TypeOK, TornRemoval, Fault
  <2>3. QED
    BY <2>1, <2>2 DEF TypeOK, PC, Dies
<1>34. ASSUME NEW d \in Digest, NEW b \in {"flipped", "truncated"}, BitRot(d, b)
      PROVE  TypeOK'
  BY <1>34 DEF TypeOK, PC, Options, Bytes, Entry, BitRot, Fault, disk, locks, command, collector
<1>35. ASSUME NEW k \in Key, IndexRot(k)
      PROVE  TypeOK'
  BY <1>35 DEF TypeOK, PC, Options, Bytes, Entry, IndexRot, Fault, disk, locks, command, collector
<1>36. CASE Tick
  BY <1>36 DEF TypeOK, PC, Options, Bytes, Entry, Tick, disk, locks, command, collector
<1>37. CASE UNCHANGED vars
  BY <1>37 DEF TypeOK, PC, Options, Bytes, vars, disk, locks, command, collector
<1>38. QED
  BY <1>1, <1>2, <1>3, <1>4, <1>5, <1>6, <1>7, <1>8, <1>9, <1>10, <1>11, <1>12, <1>13, <1>14, <1>15, <1>16, <1>17, <1>18, <1>19, <1>20, <1>21, <1>22, <1>23, <1>24, <1>25, <1>26, <1>27, <1>28, <1>29, <1>30, <1>31, <1>32, <1>33, <1>34, <1>35, <1>36, <1>37 DEF Next, CommandStep, ObjectStep, InstallStep, CollectStep, Environment

\* The initial state has the type.
LEMMA InitType == Init => TypeOK
<1> SUFFICES ASSUME Init PROVE TypeOK
  OBVIOUS
<1>1. /\ object \in [Digest -> Bytes \cup {"absent"}]
      /\ indexState \in [Key -> {"none", "stored", "garbage"}]
      /\ indexObjects \in [Key -> SUBSET Digest]
      /\ files \in [Plugin -> {"none", "empty", "partial", "full", "torn"}]
      /\ uses \in [Entry -> Nat]
      /\ partial \in [Proc -> SUBSET {"work", "import"}]
  BY DEF Init
<1>2. complete \in [Plugin -> BOOLEAN] /\ orphan \in BOOLEAN /\ failedRecency \in [Proc -> BOOLEAN]
  BY DEF Init
<1>3. /\ shared \in [Proc -> 0..2]
      /\ exclusive \in SUBSET Proc
      /\ keyLock \in [Plugin -> SUBSET Proc]
      /\ pc \in [Proc -> PC]
      /\ opts \in [Proc -> Options]
      /\ runs \in [Proc -> Nat]
      /\ target \in [Proc -> SUBSET Entry]
      /\ seen \in [Proc -> Bytes]
  BY DEF Init, PC, Options, Bytes
<1>4. /\ known \in [Proc -> SUBSET Digest]
      /\ executing \in [Proc -> SUBSET Plugin]
      /\ back \in [Proc -> {"leasing", "idle"}]
      /\ listed \in SUBSET Entry /\ sweep \in SUBSET Entry
      /\ cascade \in SUBSET Entry /\ victim \in SUBSET Entry
      /\ now \in Nat /\ faults \in Nat
  BY DEF Init
<1>5. QED
  BY <1>1, <1>2, <1>3, <1>4 DEF TypeOK

\* The type invariant of the cache and its processes.
THEOREM TypeCorrect == Spec => []TypeOK
  BY InitType, TypeStep, PTL DEF Spec

\* Every step keeps the locks in agreement with the program counters.
LEMMA LockStep ==
    TypeOK /\ LockInv /\ [Next]_vars => LockInv'
<1> SUFFICES ASSUME TypeOK, LockInv, [Next]_vars PROVE LockInv'
  OBVIOUS
<1> USE DEF Leased, InSession, InCollection
<1>1. ASSUME NEW p \in Proc, NEW o \in {"online", "offline"}, StartRun(p, o)
      PROVE  LockInv'
  BY <1>1 DEF TypeOK, LockInv, StartRun, Goto, disk, locks, command, collector
<1>2. ASSUME NEW p \in Proc, NEW o \in {"prune", "all", "dry"}, StartPrune(p, o)
      PROVE  LockInv'
  BY <1>2 DEF TypeOK, LockInv, StartPrune, Goto, disk, locks, command, collector
<1>3. ASSUME NEW p \in Proc, SkipMaintenance(p)
      PROVE  LockInv'
  BY <1>3 DEF TypeOK, LockInv, SkipMaintenance, Goto, CanCollect, disk, locks, command, collector
<1>4. ASSUME NEW p \in Proc, NEW to \in {"leasing", "idle"}, CollectBegin(p, to)
      PROVE  LockInv'
  BY <1>4 DEF TypeOK, LockInv, CollectBegin, Goto, CanCollect, disk, locks, command, collector
<1>5. ASSUME NEW p \in Proc, Lease(p)
      PROVE  LockInv'
  BY <1>5 DEF TypeOK, LockInv, Lease, Goto, CanLease, disk, locks, command, collector
<1>6. ASSUME NEW p \in Proc, OpenSession(p)
      PROVE  LockInv'
  BY <1>6 DEF TypeOK, LockInv, OpenSession, Goto, CanLease, disk, locks, command, collector
<1>7. ASSUME NEW p \in Proc, CloseSession(p)
      PROVE  LockInv'
  BY <1>7 DEF TypeOK, LockInv, CloseSession, Goto, disk, locks, command, collector
<1>8. ASSUME NEW p \in Proc, EndRun(p)
      PROVE  LockInv'
  BY <1>8 DEF TypeOK, LockInv, EndRun, Goto, disk, locks, command, collector
<1>9. ASSUME NEW p \in Proc, NEW E \in {{}} \cup {{d} : d \in Digest}, WriteBegin(p, E)
      PROVE  LockInv'
  BY <1>9 DEF TypeOK, LockInv, WriteBegin, Goto, disk, locks, command, collector
<1>10. ASSUME NEW p \in Proc, NEW d \in Digest, WritePublish(p, d)
      PROVE  LockInv'
  BY <1>10 DEF TypeOK, LockInv, WritePublish, Goto, disk, locks, command, collector
<1>11. ASSUME NEW p \in Proc, WriteFail(p)
      PROVE  LockInv'
  BY <1>11 DEF TypeOK, LockInv, WriteFail, Goto, disk, locks, command, collector
<1>12. ASSUME NEW p \in Proc, NEW d \in Digest, ReadOpen(p, d)
      PROVE  LockInv'
  BY <1>12 DEF TypeOK, LockInv, ReadOpen, Goto, disk, locks, command, collector
<1>13. ASSUME NEW p \in Proc, NEW d \in Digest, ReadVerified(p, d)
      PROVE  LockInv'
  BY <1>13 DEF TypeOK, LockInv, ReadVerified, Goto, disk, locks, command, collector
<1>14. ASSUME NEW p \in Proc, NEW d \in Digest, ReadDiscard(p, d)
      PROVE  LockInv'
  BY <1>14 DEF TypeOK, LockInv, ReadDiscard, Goto, disk, locks, command, collector
<1>15. ASSUME NEW p \in Proc, ReadFail(p)
      PROVE  LockInv'
  BY <1>15 DEF TypeOK, LockInv, ReadFail, Goto, disk, locks, command, collector
<1>16. ASSUME NEW p \in Proc, NEW d \in Digest, Reuse(p, d)
      PROVE  LockInv'
  BY <1>16 DEF TypeOK, LockInv, Reuse, disk, locks, command, collector
<1>17. ASSUME NEW p \in Proc, NEW k \in Key, NEW D \in SUBSET Digest, Remember(p, k, D)
      PROVE  LockInv'
  BY <1>17 DEF TypeOK, LockInv, Remember, disk, locks, command, collector
<1>18. ASSUME NEW p \in Proc, NEW k \in Key, Recall(p, k)
      PROVE  LockInv'
  BY <1>18 DEF TypeOK, LockInv, Recall, disk, locks, command, collector
<1>19. ASSUME NEW p \in Proc, NEW q \in Plugin, Installed(p, q)
      PROVE  LockInv'
  BY <1>19 DEF TypeOK, LockInv, Installed, disk, locks, command, collector
<1>20. ASSUME NEW p \in Proc, NEW q \in Plugin, InstallBegin(p, q)
      PROVE  LockInv'
  BY <1>20 DEF TypeOK, LockInv, InstallBegin, Goto, disk, locks, command, collector
<1>21. ASSUME NEW p \in Proc, NEW q \in Plugin, InstallLockedDone(p, q)
      PROVE  LockInv'
  BY <1>21 DEF TypeOK, LockInv, InstallLockedDone, Goto, disk, locks, command, collector
<1>22. ASSUME NEW p \in Proc, NEW q \in Plugin, InstallLockedStage(p, q)
      PROVE  LockInv'
  BY <1>22 DEF TypeOK, LockInv, InstallLockedStage, Goto, disk, locks, command, collector
<1>23. ASSUME NEW p \in Proc, NEW q \in Plugin, InstallStaged(p, q)
      PROVE  LockInv'
  BY <1>23 DEF TypeOK, LockInv, InstallStaged, disk, locks, command, collector
<1>24. ASSUME NEW p \in Proc, NEW q \in Plugin, InstallMark(p, q)
      PROVE  LockInv'
  BY <1>24 DEF TypeOK, LockInv, InstallMark, Goto, disk, locks, command, collector
<1>25. ASSUME NEW p \in Proc, NEW q \in Plugin, InstallFail(p, q)
      PROVE  LockInv'
  BY <1>25 DEF TypeOK, LockInv, InstallFail, Goto, disk, locks, command, collector
<1>26. ASSUME NEW p \in Proc, SweepTemporaries(p)
      PROVE  LockInv'
  BY <1>26 DEF TypeOK, LockInv, SweepTemporaries, Collecting, disk, locks, command, collector
<1>27. ASSUME NEW p \in Proc, NEW e \in Entry, RemoveContent(p, e)
      PROVE  LockInv'
  BY <1>27 DEF TypeOK, LockInv, RemoveContent, Collecting, disk, locks, command, collector
<1>28. ASSUME NEW p \in Proc, NEW e \in Entry, RemoveMarker(p, e)
      PROVE  LockInv'
  BY <1>28 DEF TypeOK, LockInv, RemoveMarker, Collecting, disk, locks, command, collector
<1>29. ASSUME NEW p \in Proc, CollectDone(p)
      PROVE  LockInv'
  BY <1>29 DEF TypeOK, LockInv, CollectDone, Collecting, disk, locks, command, collector
<1>30. ASSUME NEW p \in Proc, CollectEnd(p)
      PROVE  LockInv'
  BY <1>30 DEF TypeOK, LockInv, CollectEnd, Goto, disk, locks, command, collector
<1>31. ASSUME NEW p \in Proc, Cancel(p)
      PROVE  LockInv'
  BY <1>31 DEF TypeOK, LockInv, Cancel, Goto, Collecting, disk, locks, command, collector
<1>32. ASSUME NEW p \in Proc, Crash(p)
      PROVE  LockInv'
  BY <1>32 DEF TypeOK, LockInv, Crash, Dies, disk, locks, command, collector
<1>33. ASSUME NEW p \in Proc, NEW q \in Plugin, TornRemoval(p, q)
      PROVE  LockInv'
  BY <1>33 DEF TypeOK, LockInv, TornRemoval, Dies, Collecting, disk, locks, command, collector
<1>34. ASSUME NEW d \in Digest, NEW b \in {"flipped", "truncated"}, BitRot(d, b)
      PROVE  LockInv'
  BY <1>34 DEF TypeOK, LockInv, BitRot, disk, locks, command, collector
<1>35. ASSUME NEW k \in Key, IndexRot(k)
      PROVE  LockInv'
  BY <1>35 DEF TypeOK, LockInv, IndexRot, disk, locks, command, collector
<1>36. CASE Tick
  BY <1>36 DEF TypeOK, LockInv, Tick, disk, locks, command, collector
<1>37. CASE UNCHANGED vars
  BY <1>37 DEF TypeOK, LockInv, vars, disk, locks, command, collector
<1>38. QED
  BY <1>1, <1>2, <1>3, <1>4, <1>5, <1>6, <1>7, <1>8, <1>9, <1>10, <1>11, <1>12, <1>13, <1>14, <1>15, <1>16, <1>17, <1>18, <1>19, <1>20, <1>21, <1>22, <1>23, <1>24, <1>25, <1>26, <1>27, <1>28, <1>29, <1>30, <1>31, <1>32, <1>33, <1>34, <1>35, <1>36, <1>37 DEF Next, CommandStep, ObjectStep, InstallStep, CollectStep, Environment

\* Every step keeps the work of open sessions and running writes.
LEMMA WorkStep ==
    TypeOK /\ LockInv /\ LiveWorkKept /\ [Next]_vars => LiveWorkKept'
<1> SUFFICES ASSUME TypeOK, LockInv, LiveWorkKept, [Next]_vars PROVE LiveWorkKept'
  OBVIOUS
<1> USE DEF InSession
<1>1. ASSUME NEW p \in Proc, NEW o \in {"online", "offline"}, StartRun(p, o)
      PROVE  LiveWorkKept'
  BY <1>1 DEF TypeOK, LiveWorkKept, StartRun, Goto, disk, locks, command, collector
<1>2. ASSUME NEW p \in Proc, NEW o \in {"prune", "all", "dry"}, StartPrune(p, o)
      PROVE  LiveWorkKept'
  BY <1>2 DEF TypeOK, LiveWorkKept, StartPrune, Goto, disk, locks, command, collector
<1>3. ASSUME NEW p \in Proc, SkipMaintenance(p)
      PROVE  LiveWorkKept'
  BY <1>3 DEF TypeOK, LiveWorkKept, SkipMaintenance, Goto, CanCollect, disk, locks, command, collector
<1>4. ASSUME NEW p \in Proc, NEW to \in {"leasing", "idle"}, CollectBegin(p, to)
      PROVE  LiveWorkKept'
  BY <1>4 DEF TypeOK, LiveWorkKept, CollectBegin, Goto, CanCollect, disk, locks, command, collector
<1>5. ASSUME NEW p \in Proc, Lease(p)
      PROVE  LiveWorkKept'
  BY <1>5 DEF TypeOK, LiveWorkKept, Lease, Goto, CanLease, disk, locks, command, collector
<1>6. ASSUME NEW p \in Proc, OpenSession(p)
      PROVE  LiveWorkKept'
  BY <1>6 DEF TypeOK, LiveWorkKept, OpenSession, Goto, CanLease, disk, locks, command, collector
<1>7. ASSUME NEW p \in Proc, CloseSession(p)
      PROVE  LiveWorkKept'
  BY <1>7 DEF TypeOK, LiveWorkKept, CloseSession, Goto, disk, locks, command, collector
<1>8. ASSUME NEW p \in Proc, EndRun(p)
      PROVE  LiveWorkKept'
  BY <1>8 DEF TypeOK, LiveWorkKept, EndRun, Goto, disk, locks, command, collector
<1>9. ASSUME NEW p \in Proc, NEW E \in {{}} \cup {{d} : d \in Digest}, WriteBegin(p, E)
      PROVE  LiveWorkKept'
  BY <1>9 DEF TypeOK, LiveWorkKept, WriteBegin, Goto, disk, locks, command, collector
<1>10. ASSUME NEW p \in Proc, NEW d \in Digest, WritePublish(p, d)
      PROVE  LiveWorkKept'
  BY <1>10 DEF TypeOK, LiveWorkKept, WritePublish, Goto, disk, locks, command, collector
<1>11. ASSUME NEW p \in Proc, WriteFail(p)
      PROVE  LiveWorkKept'
  BY <1>11 DEF TypeOK, LiveWorkKept, WriteFail, Goto, disk, locks, command, collector
<1>12. ASSUME NEW p \in Proc, NEW d \in Digest, ReadOpen(p, d)
      PROVE  LiveWorkKept'
  BY <1>12 DEF TypeOK, LiveWorkKept, ReadOpen, Goto, disk, locks, command, collector
<1>13. ASSUME NEW p \in Proc, NEW d \in Digest, ReadVerified(p, d)
      PROVE  LiveWorkKept'
  BY <1>13 DEF TypeOK, LiveWorkKept, ReadVerified, Goto, disk, locks, command, collector
<1>14. ASSUME NEW p \in Proc, NEW d \in Digest, ReadDiscard(p, d)
      PROVE  LiveWorkKept'
  BY <1>14 DEF TypeOK, LiveWorkKept, ReadDiscard, Goto, disk, locks, command, collector
<1>15. ASSUME NEW p \in Proc, ReadFail(p)
      PROVE  LiveWorkKept'
  BY <1>15 DEF TypeOK, LiveWorkKept, ReadFail, Goto, disk, locks, command, collector
<1>16. ASSUME NEW p \in Proc, NEW d \in Digest, Reuse(p, d)
      PROVE  LiveWorkKept'
  BY <1>16 DEF TypeOK, LiveWorkKept, Reuse, disk, locks, command, collector
<1>17. ASSUME NEW p \in Proc, NEW k \in Key, NEW D \in SUBSET Digest, Remember(p, k, D)
      PROVE  LiveWorkKept'
  BY <1>17 DEF TypeOK, LiveWorkKept, Remember, disk, locks, command, collector
<1>18. ASSUME NEW p \in Proc, NEW k \in Key, Recall(p, k)
      PROVE  LiveWorkKept'
  BY <1>18 DEF TypeOK, LiveWorkKept, Recall, disk, locks, command, collector
<1>19. ASSUME NEW p \in Proc, NEW q \in Plugin, Installed(p, q)
      PROVE  LiveWorkKept'
  BY <1>19 DEF TypeOK, LiveWorkKept, Installed, disk, locks, command, collector
<1>20. ASSUME NEW p \in Proc, NEW q \in Plugin, InstallBegin(p, q)
      PROVE  LiveWorkKept'
  BY <1>20 DEF TypeOK, LiveWorkKept, InstallBegin, Goto, disk, locks, command, collector
<1>21. ASSUME NEW p \in Proc, NEW q \in Plugin, InstallLockedDone(p, q)
      PROVE  LiveWorkKept'
  BY <1>21 DEF TypeOK, LiveWorkKept, InstallLockedDone, Goto, disk, locks, command, collector
<1>22. ASSUME NEW p \in Proc, NEW q \in Plugin, InstallLockedStage(p, q)
      PROVE  LiveWorkKept'
  BY <1>22 DEF TypeOK, LiveWorkKept, InstallLockedStage, Goto, disk, locks, command, collector
<1>23. ASSUME NEW p \in Proc, NEW q \in Plugin, InstallStaged(p, q)
      PROVE  LiveWorkKept'
  BY <1>23 DEF TypeOK, LiveWorkKept, InstallStaged, disk, locks, command, collector
<1>24. ASSUME NEW p \in Proc, NEW q \in Plugin, InstallMark(p, q)
      PROVE  LiveWorkKept'
  BY <1>24 DEF TypeOK, LiveWorkKept, InstallMark, Goto, disk, locks, command, collector
<1>25. ASSUME NEW p \in Proc, NEW q \in Plugin, InstallFail(p, q)
      PROVE  LiveWorkKept'
  BY <1>25 DEF TypeOK, LiveWorkKept, InstallFail, Goto, disk, locks, command, collector
<1>26. ASSUME NEW p \in Proc, SweepTemporaries(p)
      PROVE  LiveWorkKept'
  <2>1. \A r \in Proc : pc[r] \notin InSession
    BY <1>26 DEF TypeOK, LockInv, Leased, SweepTemporaries, Collecting
  <2>2. QED
    BY <1>26, <2>1 DEF TypeOK, LiveWorkKept, SweepTemporaries, command
<1>27. ASSUME NEW p \in Proc, NEW e \in Entry, RemoveContent(p, e)
      PROVE  LiveWorkKept'
  BY <1>27 DEF TypeOK, LiveWorkKept, RemoveContent, Collecting, disk, locks, command, collector
<1>28. ASSUME NEW p \in Proc, NEW e \in Entry, RemoveMarker(p, e)
      PROVE  LiveWorkKept'
  BY <1>28 DEF TypeOK, LiveWorkKept, RemoveMarker, Collecting, disk, locks, command, collector
<1>29. ASSUME NEW p \in Proc, CollectDone(p)
      PROVE  LiveWorkKept'
  BY <1>29 DEF TypeOK, LiveWorkKept, CollectDone, Collecting, disk, locks, command, collector
<1>30. ASSUME NEW p \in Proc, CollectEnd(p)
      PROVE  LiveWorkKept'
  BY <1>30 DEF TypeOK, LiveWorkKept, CollectEnd, Goto, disk, locks, command, collector
<1>31. ASSUME NEW p \in Proc, Cancel(p)
      PROVE  LiveWorkKept'
  BY <1>31 DEF TypeOK, LiveWorkKept, Cancel, Goto, Collecting, disk, locks, command, collector
<1>32. ASSUME NEW p \in Proc, Crash(p)
      PROVE  LiveWorkKept'
  BY <1>32 DEF TypeOK, LiveWorkKept, Crash, Dies, disk, locks, command, collector
<1>33. ASSUME NEW p \in Proc, NEW q \in Plugin, TornRemoval(p, q)
      PROVE  LiveWorkKept'
  BY <1>33 DEF TypeOK, LiveWorkKept, TornRemoval, Dies, Collecting, disk, locks, command, collector
<1>34. ASSUME NEW d \in Digest, NEW b \in {"flipped", "truncated"}, BitRot(d, b)
      PROVE  LiveWorkKept'
  BY <1>34 DEF TypeOK, LiveWorkKept, BitRot, disk, locks, command, collector
<1>35. ASSUME NEW k \in Key, IndexRot(k)
      PROVE  LiveWorkKept'
  BY <1>35 DEF TypeOK, LiveWorkKept, IndexRot, disk, locks, command, collector
<1>36. CASE Tick
  BY <1>36 DEF TypeOK, LiveWorkKept, Tick, disk, locks, command, collector
<1>37. CASE UNCHANGED vars
  BY <1>37 DEF TypeOK, LiveWorkKept, vars, disk, locks, command, collector
<1>38. QED
  BY <1>1, <1>2, <1>3, <1>4, <1>5, <1>6, <1>7, <1>8, <1>9, <1>10, <1>11, <1>12, <1>13, <1>14, <1>15, <1>16, <1>17, <1>18, <1>19, <1>20, <1>21, <1>22, <1>23, <1>24, <1>25, <1>26, <1>27, <1>28, <1>29, <1>30, <1>31, <1>32, <1>33, <1>34, <1>35, <1>36, <1>37 DEF Next, CommandStep, ObjectStep, InstallStep, CollectStep, Environment

\* Every step keeps what stages locked and unmarked.
LEMMA StagingStep ==
    TypeOK /\ LockInv /\ StagingInv /\ [Next]_vars => StagingInv'
<1> SUFFICES ASSUME TypeOK, LockInv, StagingInv, [Next]_vars PROVE StagingInv'
  OBVIOUS
<1>1. ASSUME NEW p \in Proc, NEW o \in {"online", "offline"}, StartRun(p, o)
      PROVE  StagingInv'
  BY <1>1 DEF TypeOK, StagingInv, StartRun, Goto, disk, locks, command, collector
<1>2. ASSUME NEW p \in Proc, NEW o \in {"prune", "all", "dry"}, StartPrune(p, o)
      PROVE  StagingInv'
  BY <1>2 DEF TypeOK, StagingInv, StartPrune, Goto, disk, locks, command, collector
<1>3. ASSUME NEW p \in Proc, SkipMaintenance(p)
      PROVE  StagingInv'
  BY <1>3 DEF TypeOK, StagingInv, SkipMaintenance, Goto, CanCollect, disk, locks, command, collector
<1>4. ASSUME NEW p \in Proc, NEW to \in {"leasing", "idle"}, CollectBegin(p, to)
      PROVE  StagingInv'
  BY <1>4 DEF TypeOK, StagingInv, CollectBegin, Goto, CanCollect, disk, locks, command, collector
<1>5. ASSUME NEW p \in Proc, Lease(p)
      PROVE  StagingInv'
  BY <1>5 DEF TypeOK, StagingInv, Lease, Goto, CanLease, disk, locks, command, collector
<1>6. ASSUME NEW p \in Proc, OpenSession(p)
      PROVE  StagingInv'
  BY <1>6 DEF TypeOK, StagingInv, OpenSession, Goto, CanLease, disk, locks, command, collector
<1>7. ASSUME NEW p \in Proc, CloseSession(p)
      PROVE  StagingInv'
  BY <1>7 DEF TypeOK, StagingInv, CloseSession, Goto, disk, locks, command, collector
<1>8. ASSUME NEW p \in Proc, EndRun(p)
      PROVE  StagingInv'
  BY <1>8 DEF TypeOK, StagingInv, EndRun, Goto, disk, locks, command, collector
<1>9. ASSUME NEW p \in Proc, NEW E \in {{}} \cup {{d} : d \in Digest}, WriteBegin(p, E)
      PROVE  StagingInv'
  BY <1>9 DEF TypeOK, StagingInv, WriteBegin, Goto, disk, locks, command, collector
<1>10. ASSUME NEW p \in Proc, NEW d \in Digest, WritePublish(p, d)
      PROVE  StagingInv'
  BY <1>10 DEF TypeOK, StagingInv, WritePublish, Goto, disk, locks, command, collector
<1>11. ASSUME NEW p \in Proc, WriteFail(p)
      PROVE  StagingInv'
  BY <1>11 DEF TypeOK, StagingInv, WriteFail, Goto, disk, locks, command, collector
<1>12. ASSUME NEW p \in Proc, NEW d \in Digest, ReadOpen(p, d)
      PROVE  StagingInv'
  BY <1>12 DEF TypeOK, StagingInv, ReadOpen, Goto, disk, locks, command, collector
<1>13. ASSUME NEW p \in Proc, NEW d \in Digest, ReadVerified(p, d)
      PROVE  StagingInv'
  BY <1>13 DEF TypeOK, StagingInv, ReadVerified, Goto, disk, locks, command, collector
<1>14. ASSUME NEW p \in Proc, NEW d \in Digest, ReadDiscard(p, d)
      PROVE  StagingInv'
  BY <1>14 DEF TypeOK, StagingInv, ReadDiscard, Goto, disk, locks, command, collector
<1>15. ASSUME NEW p \in Proc, ReadFail(p)
      PROVE  StagingInv'
  BY <1>15 DEF TypeOK, StagingInv, ReadFail, Goto, disk, locks, command, collector
<1>16. ASSUME NEW p \in Proc, NEW d \in Digest, Reuse(p, d)
      PROVE  StagingInv'
  BY <1>16 DEF TypeOK, StagingInv, Reuse, disk, locks, command, collector
<1>17. ASSUME NEW p \in Proc, NEW k \in Key, NEW D \in SUBSET Digest, Remember(p, k, D)
      PROVE  StagingInv'
  BY <1>17 DEF TypeOK, StagingInv, Remember, disk, locks, command, collector
<1>18. ASSUME NEW p \in Proc, NEW k \in Key, Recall(p, k)
      PROVE  StagingInv'
  BY <1>18 DEF TypeOK, StagingInv, Recall, disk, locks, command, collector
<1>19. ASSUME NEW p \in Proc, NEW q \in Plugin, Installed(p, q)
      PROVE  StagingInv'
  BY <1>19 DEF TypeOK, StagingInv, Installed, disk, locks, command, collector
<1>20. ASSUME NEW p \in Proc, NEW q \in Plugin, InstallBegin(p, q)
      PROVE  StagingInv'
  BY <1>20 DEF TypeOK, StagingInv, InstallBegin, Goto, disk, locks, command, collector
<1>21. ASSUME NEW p \in Proc, NEW q \in Plugin, InstallLockedDone(p, q)
      PROVE  StagingInv'
  BY <1>21 DEF TypeOK, StagingInv, InstallLockedDone, Goto, disk, locks, command, collector
<1>22. ASSUME NEW p \in Proc, NEW q \in Plugin, InstallLockedStage(p, q)
      PROVE  StagingInv'
  <2> SUFFICES ASSUME NEW r \in Proc, pc'[r] = "staging"
               PROVE  \E x \in Plugin : target'[r] = {x} /\ keyLock'[x] = {r} /\ ~complete'[x]
    BY DEF StagingInv
  <2>1. /\ target' = target /\ complete' = complete
        /\ target[p] = {q} /\ ~complete[q] /\ keyLock[q] = {}
        /\ keyLock' = [keyLock EXCEPT ![q] = {p}]
    BY <1>22 DEF InstallLockedStage
  <2>2. CASE r = p
    BY <2>1, <2>2 DEF TypeOK
  <2>3. CASE r # p
    <3>1. pc[r] = "staging"
      BY <1>22, <2>3 DEF TypeOK, InstallLockedStage, Goto
    <3>2. PICK x \in Plugin : target[r] = {x} /\ keyLock[x] = {r} /\ ~complete[x]
      BY <3>1 DEF StagingInv
    <3>3. x # q
      BY <2>1, <3>2
    <3>4. QED
      BY <2>1, <3>2, <3>3 DEF TypeOK
  <2>4. QED
    BY <2>2, <2>3
<1>23. ASSUME NEW p \in Proc, NEW q \in Plugin, InstallStaged(p, q)
      PROVE  StagingInv'
  BY <1>23 DEF TypeOK, StagingInv, InstallStaged, disk, locks, command, collector
<1>24. ASSUME NEW p \in Proc, NEW q \in Plugin, InstallMark(p, q)
      PROVE  StagingInv'
  <2> SUFFICES ASSUME NEW r \in Proc, pc'[r] = "staging"
               PROVE  \E x \in Plugin : target'[r] = {x} /\ keyLock'[x] = {r} /\ ~complete'[x]
    BY DEF StagingInv
  <2>1. r # p /\ pc[r] = "staging" /\ target'[r] = target[r]
    BY <1>24 DEF TypeOK, InstallMark, Goto
  <2>2. PICK x \in Plugin : target[r] = {x} /\ keyLock[x] = {r} /\ ~complete[x]
    BY <2>1 DEF StagingInv
  <2>3. keyLock[q] = {p}
    BY <1>24 DEF StagingInv, InstallMark, Goto
  <2>4. /\ x # q
        /\ keyLock' = [keyLock EXCEPT ![q] = {}]
        /\ complete' = [complete EXCEPT ![q] = TRUE]
    BY <1>24, <2>1, <2>2, <2>3 DEF InstallMark
  <2>5. QED
    BY <2>1, <2>2, <2>4 DEF TypeOK
<1>25. ASSUME NEW p \in Proc, NEW q \in Plugin, InstallFail(p, q)
      PROVE  StagingInv'
  <2> SUFFICES ASSUME NEW r \in Proc, pc'[r] = "staging"
               PROVE  \E x \in Plugin : target'[r] = {x} /\ keyLock'[x] = {r} /\ ~complete'[x]
    BY DEF StagingInv
  <2>1. r # p /\ pc[r] = "staging" /\ target'[r] = target[r] /\ complete' = complete
    BY <1>25 DEF TypeOK, InstallFail, Goto
  <2>2. PICK x \in Plugin : target[r] = {x} /\ keyLock[x] = {r} /\ ~complete[x]
    BY <2>1 DEF StagingInv
  <2>3. keyLock[q] = {p}
    BY <1>25 DEF StagingInv, InstallFail, Goto
  <2>4. x # q /\ keyLock' = [keyLock EXCEPT ![q] = {}]
    BY <1>25, <2>1, <2>2, <2>3 DEF InstallFail
  <2>5. QED
    BY <2>1, <2>2, <2>4 DEF TypeOK
<1>26. ASSUME NEW p \in Proc, SweepTemporaries(p)
      PROVE  StagingInv'
  BY <1>26 DEF TypeOK, StagingInv, SweepTemporaries, Collecting, disk, locks, command, collector
<1>27. ASSUME NEW p \in Proc, NEW e \in Entry, RemoveContent(p, e)
      PROVE  StagingInv'
  <2>1. \A r \in Proc : pc[r] # "staging"
    BY <1>27 DEF TypeOK, LockInv, Leased, InSession, RemoveContent, Collecting
  <2>2. QED
    BY <1>27, <2>1 DEF StagingInv, RemoveContent, command
<1>28. ASSUME NEW p \in Proc, NEW e \in Entry, RemoveMarker(p, e)
      PROVE  StagingInv'
  BY <1>28 DEF TypeOK, StagingInv, RemoveMarker, Collecting, disk, locks, command, collector
<1>29. ASSUME NEW p \in Proc, CollectDone(p)
      PROVE  StagingInv'
  BY <1>29 DEF TypeOK, StagingInv, CollectDone, Collecting, disk, locks, command, collector
<1>30. ASSUME NEW p \in Proc, CollectEnd(p)
      PROVE  StagingInv'
  BY <1>30 DEF TypeOK, StagingInv, CollectEnd, Goto, disk, locks, command, collector
<1>31. ASSUME NEW p \in Proc, Cancel(p)
      PROVE  StagingInv'
  <2>1. UNCHANGED <<disk, keyLock, target>>
    BY <1>31 DEF Cancel
  <2>2. \A r \in Proc : pc'[r] = "staging" => pc[r] = "staging"
    BY <1>31 DEF TypeOK, Cancel, Goto, Collecting
  <2>3. QED
    BY <2>1, <2>2 DEF StagingInv, disk
<1>32. ASSUME NEW p \in Proc, Crash(p)
      PROVE  StagingInv'
  <2> SUFFICES ASSUME NEW r \in Proc, pc'[r] = "staging"
               PROVE  \E x \in Plugin : target'[r] = {x} /\ keyLock'[x] = {r} /\ ~complete'[x]
    BY DEF StagingInv
  <2>1. r # p /\ pc[r] = "staging" /\ target'[r] = target[r] /\ complete' = complete
    BY <1>32 DEF TypeOK, Crash, Dies
  <2>2. PICK x \in Plugin : target[r] = {x} /\ keyLock[x] = {r} /\ ~complete[x]
    BY <2>1 DEF StagingInv
  <2>3. keyLock'[x] = {r}
    <3>1. keyLock'[x] = keyLock[x] \ {p}
      BY <1>32 DEF Crash, Dies
    <3>2. QED
      BY <2>1, <2>2, <3>1
  <2>4. QED
    BY <2>1, <2>2, <2>3
<1>33. ASSUME NEW p \in Proc, NEW q \in Plugin, TornRemoval(p, q)
      PROVE  StagingInv'
  <2>1. \A r \in Proc : pc[r] # "staging"
    BY <1>33 DEF TypeOK, LockInv, Leased, InSession, TornRemoval, Collecting
  <2>2. QED
    BY <1>33, <2>1 DEF TypeOK, StagingInv, TornRemoval, Dies
<1>34. ASSUME NEW d \in Digest, NEW b \in {"flipped", "truncated"}, BitRot(d, b)
      PROVE  StagingInv'
  BY <1>34 DEF TypeOK, StagingInv, BitRot, disk, locks, command, collector
<1>35. ASSUME NEW k \in Key, IndexRot(k)
      PROVE  StagingInv'
  BY <1>35 DEF TypeOK, StagingInv, IndexRot, disk, locks, command, collector
<1>36. CASE Tick
  BY <1>36 DEF TypeOK, StagingInv, Tick, disk, locks, command, collector
<1>37. CASE UNCHANGED vars
  BY <1>37 DEF TypeOK, StagingInv, vars, disk, locks, command, collector
<1>38. QED
  BY <1>1, <1>2, <1>3, <1>4, <1>5, <1>6, <1>7, <1>8, <1>9, <1>10, <1>11, <1>12, <1>13, <1>14, <1>15, <1>16, <1>17, <1>18, <1>19, <1>20, <1>21, <1>22, <1>23, <1>24, <1>25, <1>26, <1>27, <1>28, <1>29, <1>30, <1>31, <1>32, <1>33, <1>34, <1>35, <1>36, <1>37 DEF Next, CommandStep, ObjectStep, InstallStep, CollectStep, Environment

\* Every step keeps what executes marked and its session open.
LEMMA ExecutingStep ==
    TypeOK /\ LockInv /\ ExecutingInv /\ [Next]_vars => ExecutingInv'
<1> SUFFICES ASSUME TypeOK, LockInv, ExecutingInv, [Next]_vars PROVE ExecutingInv'
  OBVIOUS
<1> USE DEF InSession
<1>1. ASSUME NEW p \in Proc, NEW o \in {"online", "offline"}, StartRun(p, o)
      PROVE  ExecutingInv'
  BY <1>1 DEF TypeOK, ExecutingInv, StartRun, Goto, disk, locks, command, collector
<1>2. ASSUME NEW p \in Proc, NEW o \in {"prune", "all", "dry"}, StartPrune(p, o)
      PROVE  ExecutingInv'
  BY <1>2 DEF TypeOK, ExecutingInv, StartPrune, Goto, disk, locks, command, collector
<1>3. ASSUME NEW p \in Proc, SkipMaintenance(p)
      PROVE  ExecutingInv'
  BY <1>3 DEF TypeOK, ExecutingInv, SkipMaintenance, Goto, CanCollect, disk, locks, command, collector
<1>4. ASSUME NEW p \in Proc, NEW to \in {"leasing", "idle"}, CollectBegin(p, to)
      PROVE  ExecutingInv'
  BY <1>4 DEF TypeOK, ExecutingInv, CollectBegin, Goto, CanCollect, disk, locks, command, collector
<1>5. ASSUME NEW p \in Proc, Lease(p)
      PROVE  ExecutingInv'
  BY <1>5 DEF TypeOK, ExecutingInv, Lease, Goto, CanLease, disk, locks, command, collector
<1>6. ASSUME NEW p \in Proc, OpenSession(p)
      PROVE  ExecutingInv'
  BY <1>6 DEF TypeOK, ExecutingInv, OpenSession, Goto, CanLease, disk, locks, command, collector
<1>7. ASSUME NEW p \in Proc, CloseSession(p)
      PROVE  ExecutingInv'
  BY <1>7 DEF TypeOK, ExecutingInv, CloseSession, Goto, disk, locks, command, collector
<1>8. ASSUME NEW p \in Proc, EndRun(p)
      PROVE  ExecutingInv'
  BY <1>8 DEF TypeOK, ExecutingInv, EndRun, Goto, disk, locks, command, collector
<1>9. ASSUME NEW p \in Proc, NEW E \in {{}} \cup {{d} : d \in Digest}, WriteBegin(p, E)
      PROVE  ExecutingInv'
  BY <1>9 DEF TypeOK, ExecutingInv, WriteBegin, Goto, disk, locks, command, collector
<1>10. ASSUME NEW p \in Proc, NEW d \in Digest, WritePublish(p, d)
      PROVE  ExecutingInv'
  BY <1>10 DEF TypeOK, ExecutingInv, WritePublish, Goto, disk, locks, command, collector
<1>11. ASSUME NEW p \in Proc, WriteFail(p)
      PROVE  ExecutingInv'
  BY <1>11 DEF TypeOK, ExecutingInv, WriteFail, Goto, disk, locks, command, collector
<1>12. ASSUME NEW p \in Proc, NEW d \in Digest, ReadOpen(p, d)
      PROVE  ExecutingInv'
  BY <1>12 DEF TypeOK, ExecutingInv, ReadOpen, Goto, disk, locks, command, collector
<1>13. ASSUME NEW p \in Proc, NEW d \in Digest, ReadVerified(p, d)
      PROVE  ExecutingInv'
  BY <1>13 DEF TypeOK, ExecutingInv, ReadVerified, Goto, disk, locks, command, collector
<1>14. ASSUME NEW p \in Proc, NEW d \in Digest, ReadDiscard(p, d)
      PROVE  ExecutingInv'
  BY <1>14 DEF TypeOK, ExecutingInv, ReadDiscard, Goto, disk, locks, command, collector
<1>15. ASSUME NEW p \in Proc, ReadFail(p)
      PROVE  ExecutingInv'
  BY <1>15 DEF TypeOK, ExecutingInv, ReadFail, Goto, disk, locks, command, collector
<1>16. ASSUME NEW p \in Proc, NEW d \in Digest, Reuse(p, d)
      PROVE  ExecutingInv'
  BY <1>16 DEF TypeOK, ExecutingInv, Reuse, disk, locks, command, collector
<1>17. ASSUME NEW p \in Proc, NEW k \in Key, NEW D \in SUBSET Digest, Remember(p, k, D)
      PROVE  ExecutingInv'
  BY <1>17 DEF TypeOK, ExecutingInv, Remember, disk, locks, command, collector
<1>18. ASSUME NEW p \in Proc, NEW k \in Key, Recall(p, k)
      PROVE  ExecutingInv'
  BY <1>18 DEF TypeOK, ExecutingInv, Recall, disk, locks, command, collector
<1>19. ASSUME NEW p \in Proc, NEW q \in Plugin, Installed(p, q)
      PROVE  ExecutingInv'
  BY <1>19 DEF TypeOK, ExecutingInv, Installed, disk, locks, command, collector
<1>20. ASSUME NEW p \in Proc, NEW q \in Plugin, InstallBegin(p, q)
      PROVE  ExecutingInv'
  BY <1>20 DEF TypeOK, ExecutingInv, InstallBegin, Goto, disk, locks, command, collector
<1>21. ASSUME NEW p \in Proc, NEW q \in Plugin, InstallLockedDone(p, q)
      PROVE  ExecutingInv'
  BY <1>21 DEF TypeOK, ExecutingInv, InstallLockedDone, Goto, disk, locks, command, collector
<1>22. ASSUME NEW p \in Proc, NEW q \in Plugin, InstallLockedStage(p, q)
      PROVE  ExecutingInv'
  BY <1>22 DEF TypeOK, ExecutingInv, InstallLockedStage, Goto, disk, locks, command, collector
<1>23. ASSUME NEW p \in Proc, NEW q \in Plugin, InstallStaged(p, q)
      PROVE  ExecutingInv'
  BY <1>23 DEF TypeOK, ExecutingInv, InstallStaged, disk, locks, command, collector
<1>24. ASSUME NEW p \in Proc, NEW q \in Plugin, InstallMark(p, q)
      PROVE  ExecutingInv'
  BY <1>24 DEF TypeOK, ExecutingInv, InstallMark, Goto, disk, locks, command, collector
<1>25. ASSUME NEW p \in Proc, NEW q \in Plugin, InstallFail(p, q)
      PROVE  ExecutingInv'
  BY <1>25 DEF TypeOK, ExecutingInv, InstallFail, Goto, disk, locks, command, collector
<1>26. ASSUME NEW p \in Proc, SweepTemporaries(p)
      PROVE  ExecutingInv'
  BY <1>26 DEF TypeOK, ExecutingInv, SweepTemporaries, Collecting, disk, locks, command, collector
<1>27. ASSUME NEW p \in Proc, NEW e \in Entry, RemoveContent(p, e)
      PROVE  ExecutingInv'
  <2>1. \A r \in Proc : pc[r] \notin InSession
    BY <1>27 DEF TypeOK, LockInv, Leased, RemoveContent, Collecting
  <2>2. QED
    BY <1>27, <2>1 DEF TypeOK, ExecutingInv, RemoveContent, command
<1>28. ASSUME NEW p \in Proc, NEW e \in Entry, RemoveMarker(p, e)
      PROVE  ExecutingInv'
  BY <1>28 DEF TypeOK, ExecutingInv, RemoveMarker, Collecting, disk, locks, command, collector
<1>29. ASSUME NEW p \in Proc, CollectDone(p)
      PROVE  ExecutingInv'
  BY <1>29 DEF TypeOK, ExecutingInv, CollectDone, Collecting, disk, locks, command, collector
<1>30. ASSUME NEW p \in Proc, CollectEnd(p)
      PROVE  ExecutingInv'
  BY <1>30 DEF TypeOK, ExecutingInv, CollectEnd, Goto, disk, locks, command, collector
<1>31. ASSUME NEW p \in Proc, Cancel(p)
      PROVE  ExecutingInv'
  BY <1>31 DEF TypeOK, ExecutingInv, Cancel, Goto, Collecting, disk, locks, command, collector
<1>32. ASSUME NEW p \in Proc, Crash(p)
      PROVE  ExecutingInv'
  BY <1>32 DEF TypeOK, ExecutingInv, Crash, Dies, disk, locks, command, collector
<1>33. ASSUME NEW p \in Proc, NEW q \in Plugin, TornRemoval(p, q)
      PROVE  ExecutingInv'
  <2>1. \A r \in Proc : pc[r] \notin InSession
    BY <1>33 DEF TypeOK, LockInv, Leased, TornRemoval, Collecting
  <2>2. QED
    BY <1>33, <2>1 DEF TypeOK, ExecutingInv, TornRemoval, Dies
<1>34. ASSUME NEW d \in Digest, NEW b \in {"flipped", "truncated"}, BitRot(d, b)
      PROVE  ExecutingInv'
  BY <1>34 DEF TypeOK, ExecutingInv, BitRot, disk, locks, command, collector
<1>35. ASSUME NEW k \in Key, IndexRot(k)
      PROVE  ExecutingInv'
  BY <1>35 DEF TypeOK, ExecutingInv, IndexRot, disk, locks, command, collector
<1>36. CASE Tick
  BY <1>36 DEF TypeOK, ExecutingInv, Tick, disk, locks, command, collector
<1>37. CASE UNCHANGED vars
  BY <1>37 DEF TypeOK, ExecutingInv, vars, disk, locks, command, collector
<1>38. QED
  BY <1>1, <1>2, <1>3, <1>4, <1>5, <1>6, <1>7, <1>8, <1>9, <1>10, <1>11, <1>12, <1>13, <1>14, <1>15, <1>16, <1>17, <1>18, <1>19, <1>20, <1>21, <1>22, <1>23, <1>24, <1>25, <1>26, <1>27, <1>28, <1>29, <1>30, <1>31, <1>32, <1>33, <1>34, <1>35, <1>36, <1>37 DEF Next, CommandStep, ObjectStep, InstallStep, CollectStep, Environment

\* Every step keeps markers truthful.
LEMMA MarkerStep ==
    TypeOK /\ StagingInv /\ MarkerMeansStaged /\ [Next]_vars => MarkerMeansStaged'
<1> SUFFICES ASSUME TypeOK, StagingInv, MarkerMeansStaged, [Next]_vars PROVE MarkerMeansStaged'
  OBVIOUS
<1>1. ASSUME NEW p \in Proc, NEW o \in {"online", "offline"}, StartRun(p, o)
      PROVE  MarkerMeansStaged'
  BY <1>1 DEF TypeOK, MarkerMeansStaged, StartRun, Goto, disk, locks, command, collector
<1>2. ASSUME NEW p \in Proc, NEW o \in {"prune", "all", "dry"}, StartPrune(p, o)
      PROVE  MarkerMeansStaged'
  BY <1>2 DEF TypeOK, MarkerMeansStaged, StartPrune, Goto, disk, locks, command, collector
<1>3. ASSUME NEW p \in Proc, SkipMaintenance(p)
      PROVE  MarkerMeansStaged'
  BY <1>3 DEF TypeOK, MarkerMeansStaged, SkipMaintenance, Goto, CanCollect, disk, locks, command, collector
<1>4. ASSUME NEW p \in Proc, NEW to \in {"leasing", "idle"}, CollectBegin(p, to)
      PROVE  MarkerMeansStaged'
  BY <1>4 DEF TypeOK, MarkerMeansStaged, CollectBegin, Goto, CanCollect, disk, locks, command, collector
<1>5. ASSUME NEW p \in Proc, Lease(p)
      PROVE  MarkerMeansStaged'
  BY <1>5 DEF TypeOK, MarkerMeansStaged, Lease, Goto, CanLease, disk, locks, command, collector
<1>6. ASSUME NEW p \in Proc, OpenSession(p)
      PROVE  MarkerMeansStaged'
  BY <1>6 DEF TypeOK, MarkerMeansStaged, OpenSession, Goto, CanLease, disk, locks, command, collector
<1>7. ASSUME NEW p \in Proc, CloseSession(p)
      PROVE  MarkerMeansStaged'
  BY <1>7 DEF TypeOK, MarkerMeansStaged, CloseSession, Goto, disk, locks, command, collector
<1>8. ASSUME NEW p \in Proc, EndRun(p)
      PROVE  MarkerMeansStaged'
  BY <1>8 DEF TypeOK, MarkerMeansStaged, EndRun, Goto, disk, locks, command, collector
<1>9. ASSUME NEW p \in Proc, NEW E \in {{}} \cup {{d} : d \in Digest}, WriteBegin(p, E)
      PROVE  MarkerMeansStaged'
  BY <1>9 DEF TypeOK, MarkerMeansStaged, WriteBegin, Goto, disk, locks, command, collector
<1>10. ASSUME NEW p \in Proc, NEW d \in Digest, WritePublish(p, d)
      PROVE  MarkerMeansStaged'
  BY <1>10 DEF TypeOK, MarkerMeansStaged, WritePublish, Goto, disk, locks, command, collector
<1>11. ASSUME NEW p \in Proc, WriteFail(p)
      PROVE  MarkerMeansStaged'
  BY <1>11 DEF TypeOK, MarkerMeansStaged, WriteFail, Goto, disk, locks, command, collector
<1>12. ASSUME NEW p \in Proc, NEW d \in Digest, ReadOpen(p, d)
      PROVE  MarkerMeansStaged'
  BY <1>12 DEF TypeOK, MarkerMeansStaged, ReadOpen, Goto, disk, locks, command, collector
<1>13. ASSUME NEW p \in Proc, NEW d \in Digest, ReadVerified(p, d)
      PROVE  MarkerMeansStaged'
  BY <1>13 DEF TypeOK, MarkerMeansStaged, ReadVerified, Goto, disk, locks, command, collector
<1>14. ASSUME NEW p \in Proc, NEW d \in Digest, ReadDiscard(p, d)
      PROVE  MarkerMeansStaged'
  BY <1>14 DEF TypeOK, MarkerMeansStaged, ReadDiscard, Goto, disk, locks, command, collector
<1>15. ASSUME NEW p \in Proc, ReadFail(p)
      PROVE  MarkerMeansStaged'
  BY <1>15 DEF TypeOK, MarkerMeansStaged, ReadFail, Goto, disk, locks, command, collector
<1>16. ASSUME NEW p \in Proc, NEW d \in Digest, Reuse(p, d)
      PROVE  MarkerMeansStaged'
  BY <1>16 DEF TypeOK, MarkerMeansStaged, Reuse, disk, locks, command, collector
<1>17. ASSUME NEW p \in Proc, NEW k \in Key, NEW D \in SUBSET Digest, Remember(p, k, D)
      PROVE  MarkerMeansStaged'
  BY <1>17 DEF TypeOK, MarkerMeansStaged, Remember, disk, locks, command, collector
<1>18. ASSUME NEW p \in Proc, NEW k \in Key, Recall(p, k)
      PROVE  MarkerMeansStaged'
  BY <1>18 DEF TypeOK, MarkerMeansStaged, Recall, disk, locks, command, collector
<1>19. ASSUME NEW p \in Proc, NEW q \in Plugin, Installed(p, q)
      PROVE  MarkerMeansStaged'
  BY <1>19 DEF TypeOK, MarkerMeansStaged, Installed, disk, locks, command, collector
<1>20. ASSUME NEW p \in Proc, NEW q \in Plugin, InstallBegin(p, q)
      PROVE  MarkerMeansStaged'
  BY <1>20 DEF TypeOK, MarkerMeansStaged, InstallBegin, Goto, disk, locks, command, collector
<1>21. ASSUME NEW p \in Proc, NEW q \in Plugin, InstallLockedDone(p, q)
      PROVE  MarkerMeansStaged'
  BY <1>21 DEF TypeOK, MarkerMeansStaged, InstallLockedDone, Goto, disk, locks, command, collector
<1>22. ASSUME NEW p \in Proc, NEW q \in Plugin, InstallLockedStage(p, q)
      PROVE  MarkerMeansStaged'
  BY <1>22 DEF TypeOK, MarkerMeansStaged, InstallLockedStage, Goto, disk, locks, command, collector
<1>23. ASSUME NEW p \in Proc, NEW q \in Plugin, InstallStaged(p, q)
      PROVE  MarkerMeansStaged'
  BY <1>23 DEF TypeOK, MarkerMeansStaged, InstallStaged, disk, locks, command, collector
<1>24. ASSUME NEW p \in Proc, NEW q \in Plugin, InstallMark(p, q)
      PROVE  MarkerMeansStaged'
  BY <1>24 DEF TypeOK, MarkerMeansStaged, InstallMark, Goto, disk, locks, command, collector
<1>25. ASSUME NEW p \in Proc, NEW q \in Plugin, InstallFail(p, q)
      PROVE  MarkerMeansStaged'
  BY <1>25 DEF TypeOK, StagingInv, MarkerMeansStaged, InstallFail, Goto, locks
<1>26. ASSUME NEW p \in Proc, SweepTemporaries(p)
      PROVE  MarkerMeansStaged'
  BY <1>26 DEF TypeOK, MarkerMeansStaged, SweepTemporaries, Collecting, disk, locks, command, collector
<1>27. ASSUME NEW p \in Proc, NEW e \in Entry, RemoveContent(p, e)
      PROVE  MarkerMeansStaged'
  BY <1>27 DEF TypeOK, MarkerMeansStaged, RemoveContent, Collecting, disk, locks, command, collector
<1>28. ASSUME NEW p \in Proc, NEW e \in Entry, RemoveMarker(p, e)
      PROVE  MarkerMeansStaged'
  BY <1>28 DEF TypeOK, MarkerMeansStaged, RemoveMarker, Collecting, disk, locks, command, collector
<1>29. ASSUME NEW p \in Proc, CollectDone(p)
      PROVE  MarkerMeansStaged'
  BY <1>29 DEF TypeOK, MarkerMeansStaged, CollectDone, Collecting, disk, locks, command, collector
<1>30. ASSUME NEW p \in Proc, CollectEnd(p)
      PROVE  MarkerMeansStaged'
  BY <1>30 DEF TypeOK, MarkerMeansStaged, CollectEnd, Goto, disk, locks, command, collector
<1>31. ASSUME NEW p \in Proc, Cancel(p)
      PROVE  MarkerMeansStaged'
  BY <1>31 DEF TypeOK, MarkerMeansStaged, Cancel, Goto, Collecting, disk, locks, command, collector
<1>32. ASSUME NEW p \in Proc, Crash(p)
      PROVE  MarkerMeansStaged'
  BY <1>32 DEF TypeOK, MarkerMeansStaged, Crash, Dies, disk, locks, command, collector
<1>33. ASSUME NEW p \in Proc, NEW q \in Plugin, TornRemoval(p, q)
      PROVE  MarkerMeansStaged'
  BY <1>33 DEF TypeOK, MarkerMeansStaged, TornRemoval, Dies, disk, locks, command, collector
<1>34. ASSUME NEW d \in Digest, NEW b \in {"flipped", "truncated"}, BitRot(d, b)
      PROVE  MarkerMeansStaged'
  BY <1>34 DEF TypeOK, MarkerMeansStaged, BitRot, disk, locks, command, collector
<1>35. ASSUME NEW k \in Key, IndexRot(k)
      PROVE  MarkerMeansStaged'
  BY <1>35 DEF TypeOK, MarkerMeansStaged, IndexRot, disk, locks, command, collector
<1>36. CASE Tick
  BY <1>36 DEF TypeOK, MarkerMeansStaged, Tick, disk, locks, command, collector
<1>37. CASE UNCHANGED vars
  BY <1>37 DEF TypeOK, MarkerMeansStaged, vars, disk, locks, command, collector
<1>38. QED
  BY <1>1, <1>2, <1>3, <1>4, <1>5, <1>6, <1>7, <1>8, <1>9, <1>10, <1>11, <1>12, <1>13, <1>14, <1>15, <1>16, <1>17, <1>18, <1>19, <1>20, <1>21, <1>22, <1>23, <1>24, <1>25, <1>26, <1>27, <1>28, <1>29, <1>30, <1>31, <1>32, <1>33, <1>34, <1>35, <1>36, <1>37 DEF Next, CommandStep, ObjectStep, InstallStep, CollectStep, Environment

\* Which steps change an object.
LEMMA ObjectChanges ==
    [Next]_vars =>
        \/ object' = object
        \/ \E p \in Proc : \/ \E e \in Entry : RemoveContent(p, e)
                          \/ \E d \in Digest : ReadDiscard(p, d) \/ WritePublish(p, d)
        \/ \E d \in Digest, b \in {"flipped", "truncated"} : BitRot(d, b)
<1> DEFINE Changed ==
        \/ object' = object
        \/ \E p \in Proc : \/ \E e \in Entry : RemoveContent(p, e)
                          \/ \E d \in Digest : ReadDiscard(p, d) \/ WritePublish(p, d)
        \/ \E d \in Digest, b \in {"flipped", "truncated"} : BitRot(d, b)
<1> SUFFICES ASSUME [Next]_vars PROVE Changed
  OBVIOUS
<1>1. ASSUME NEW p \in Proc, NEW o \in Options, StartRun(p, o) \/ StartPrune(p, o) \/ CommandStep(p) PROVE Changed
  BY <1>1 DEF CommandStep, StartRun, StartPrune, SkipMaintenance, Lease, OpenSession, CloseSession, EndRun, CollectBegin, disk
<1>2. ASSUME NEW p \in Proc, ObjectStep(p) PROVE Changed
  BY <1>2 DEF ObjectStep, WriteBegin, WriteFail, ReadFail, ReadOpen, ReadVerified, Reuse, Recall, Remember, disk
<1>3. ASSUME NEW p \in Proc, InstallStep(p) PROVE Changed
  BY <1>3 DEF InstallStep, Installed, InstallBegin, InstallLockedDone, InstallLockedStage, InstallStaged, InstallMark, InstallFail, disk
<1>4. ASSUME NEW p \in Proc, CollectStep(p) PROVE Changed
  BY <1>4 DEF CollectStep, SweepTemporaries, CollectDone, CollectEnd, RemoveMarker, disk
<1>5. CASE Environment
  BY <1>5 DEF Environment, Cancel, Crash, TornRemoval, IndexRot, Tick, Dies, disk
<1>6. CASE UNCHANGED vars
  BY <1>6 DEF vars, disk
<1>7. QED
  BY <1>1, <1>2, <1>3, <1>4, <1>5, <1>6 DEF Next, Options

\* Which steps change an installation's files while nobody collects.
LEMMA FilesChanges ==
    exclusive = {} /\ [Next]_vars =>
        \/ files' = files
        \/ \E p \in Proc, q \in Plugin :
              InstallBegin(p, q) \/ InstallLockedStage(p, q) \/ InstallStaged(p, q) \/ InstallFail(p, q)
<1> DEFINE Changed ==
        \/ files' = files
        \/ \E p \in Proc, q \in Plugin :
              InstallBegin(p, q) \/ InstallLockedStage(p, q) \/ InstallStaged(p, q) \/ InstallFail(p, q)
<1> SUFFICES ASSUME exclusive = {}, [Next]_vars PROVE Changed
  OBVIOUS
<1>1. ASSUME NEW p \in Proc, NEW o \in Options, StartRun(p, o) \/ StartPrune(p, o) \/ CommandStep(p) PROVE Changed
  BY <1>1 DEF CommandStep, StartRun, StartPrune, SkipMaintenance, Lease, OpenSession, CloseSession, EndRun, CollectBegin, disk, Collecting
<1>2. ASSUME NEW p \in Proc, ObjectStep(p) PROVE Changed
  BY <1>2 DEF ObjectStep, WriteBegin, WritePublish, WriteFail, ReadFail, ReadOpen, ReadVerified, ReadDiscard, Reuse, Recall, Remember, disk, Collecting
<1>3. ASSUME NEW p \in Proc, InstallStep(p) PROVE Changed
  BY <1>3 DEF InstallStep, Installed, InstallLockedDone, InstallMark, disk, Collecting
<1>4. ASSUME NEW p \in Proc, CollectStep(p) PROVE Changed
  BY <1>4 DEF CollectStep, SweepTemporaries, CollectDone, CollectEnd, RemoveContent, RemoveMarker, disk, Collecting
<1>5. CASE Environment
  BY <1>5 DEF Environment, Cancel, Crash, TornRemoval, BitRot, IndexRot, Tick, Dies, disk, Collecting
<1>6. CASE UNCHANGED vars
  BY <1>6 DEF vars, disk
<1>7. QED
  BY <1>1, <1>2, <1>3, <1>4, <1>5, <1>6 DEF Next, Options

(***************************************************************************)
(* The invariants and the action properties that follow from them.         *)
(***************************************************************************)
CasInv == TypeOK /\ LockInv /\ LiveWorkKept /\ StagingInv /\ ExecutingInv

\* The inductive invariant of the cache.
LEMMA CasInvariant == Spec => []CasInv
<1>1. Init => CasInv
  <2> SUFFICES ASSUME Init PROVE CasInv
    OBVIOUS
  <2>1. TypeOK
    BY InitType
  <2>2. LockInv
    BY DEF Init, LockInv, InCollection, Leased, InSession
  <2>3. LiveWorkKept /\ StagingInv /\ ExecutingInv
    BY DEF Init, LiveWorkKept, StagingInv, ExecutingInv, InSession
  <2>4. QED
    BY <2>1, <2>2, <2>3 DEF CasInv
<1>2. CasInv /\ [Next]_vars => CasInv'
  BY TypeStep, LockStep, WorkStep, StagingStep, ExecutingStep DEF CasInv
<1>3. QED
  BY <1>1, <1>2, PTL DEF Spec

\* maintenance.go:165: what the collector sweeps as abandoned belongs to no live
\* session or write.
THEOREM LiveWorkSafe == Spec => []LiveWorkKept
<1>1. CasInv => LiveWorkKept
  BY DEF CasInv
<1>2. QED
  BY <1>1, CasInvariant, PTL

\* run.go:15: an object obtained by a command outlives the command, whatever is
\* collected meanwhile, unless a reader finds it corrupt.
THEOREM LeasedContentSafe == Spec => LeasedContentKept
<1> DEFINE Kept == \A p \in Proc : \A d \in known[p] :
          pc[p] \in Leased /\ object[d] # "absent" /\ object'[d] = "absent" =>
              \E r \in Proc : pc[r] = "reading" /\ target[r] = {d} /\ seen[r] # "good"
<1>1. CasInv /\ [Next]_vars => [Kept]_vars
  <2> SUFFICES ASSUME CasInv, [Next]_vars,
                      NEW c \in Proc, NEW x \in known[c],
                      pc[c] \in Leased, object[x] # "absent", object'[x] = "absent"
               PROVE  \E r \in Proc : pc[r] = "reading" /\ target[r] = {x} /\ seen[r] # "good"
    OBVIOUS
  <2> x \in Digest
    BY DEF CasInv, TypeOK
  <2>1. exclusive = {}
    BY DEF CasInv, LockInv
  <2>2. ASSUME NEW p \in Proc, NEW e \in Entry, RemoveContent(p, e)
        PROVE  FALSE
    BY <2>1, <2>2 DEF RemoveContent, Collecting
  <2>3. ASSUME NEW p \in Proc, NEW d \in Digest, ReadDiscard(p, d)
        PROVE  pc[p] = "reading" /\ target[p] = {x} /\ seen[p] # "good"
    BY <2>3 DEF CasInv, TypeOK, ReadDiscard, Goto
  <2>4. ASSUME NEW p \in Proc, NEW d \in Digest, WritePublish(p, d)
        PROVE  FALSE
    BY <2>4 DEF CasInv, TypeOK, WritePublish
  <2>5. ASSUME NEW d \in Digest, NEW b \in {"flipped", "truncated"}, BitRot(d, b)
        PROVE  FALSE
    BY <2>5 DEF CasInv, TypeOK, BitRot
  <2>6. CASE object' = object
    BY <2>6
  <2>7. QED
    BY <2>2, <2>3, <2>4, <2>5, <2>6, ObjectChanges
<1>2. QED
  BY <1>1, CasInvariant, PTL DEF Spec, LeasedContentKept

\* install.go:28: a marker stands beside everything that was staged, through crashes
\* of installers and collectors, except for what a removal already took away.
THEOREM MarkersTruthful == Spec => []MarkerMeansStaged
<1>1. Init => MarkerMeansStaged
  BY DEF Init, MarkerMeansStaged
<1>2. CasInv /\ MarkerMeansStaged /\ [Next]_vars => MarkerMeansStaged'
  BY MarkerStep DEF CasInv
<1>3. QED
  BY <1>1, <1>2, CasInvariant, PTL DEF Spec

\* cas.go:44: an installation in use is changed by nobody, not even where a torn
\* removal has already damaged it.
THEOREM InstallationsStable == Spec => ExecutedInPlace
<1> DEFINE Stable == \A p \in Proc : \A q \in executing[p] :
          q \in executing'[p] => files'[q] = files[q] /\ complete'[q]
<1>1. CasInv /\ CasInv' /\ [Next]_vars => [Stable]_vars
  <2> SUFFICES ASSUME CasInv, CasInv', [Next]_vars,
                      NEW c \in Proc, NEW x \in executing[c], x \in executing'[c]
               PROVE  files'[x] = files[x] /\ complete'[x]
    OBVIOUS
  <2>1. x \in Plugin /\ complete[x] /\ complete'[x] /\ exclusive = {}
    BY DEF CasInv, TypeOK, ExecutingInv, LockInv, Leased, InSession
  <2>2. \A p \in Proc : pc[p] = "staging" => target[p] # {x}
    BY <2>1 DEF CasInv, StagingInv
  <2>3. \/ files' = files
        \/ \E p \in Proc, q \in Plugin :
              InstallBegin(p, q) \/ InstallLockedStage(p, q) \/ InstallStaged(p, q) \/ InstallFail(p, q)
    BY <2>1, FilesChanges
  <2>4. ASSUME NEW p \in Proc, NEW q \in Plugin,
               InstallBegin(p, q) \/ InstallLockedStage(p, q) \/ InstallStaged(p, q) \/ InstallFail(p, q)
        PROVE  files'[x] = files[x]
    <3>1. q # x
      BY <2>1, <2>2, <2>4 DEF InstallBegin, InstallLockedStage, InstallStaged, InstallFail, Goto
    <3>2. QED
      BY <2>1, <2>4, <3>1 DEF CasInv, TypeOK, InstallBegin, InstallLockedStage, InstallStaged, InstallFail
  <2>5. QED
    BY <2>1, <2>3, <2>4
<1>2. QED
  BY <1>1, CasInvariant, PTL DEF Spec, ExecutedInPlace

(***************************************************************************)
(* What a collection takes and leaves.                                     *)
(***************************************************************************)
\* An invalid entry that the collection still has to remove: it is on a list, it
\* became unreadable after the inventory, or it names the object being removed.
Due(e) ==
    \/ e \in sweep \cup cascade
    \/ e \in Key /\ indexState[e] = "garbage"
    \/ e \in Key /\ indexState[e] = "stored" /\ victim \cap indexObjects[e] # {}

\* While c collects, its list is what the directory holds, but for the entry it is
\* removing; it sweeps no object that is there; and every invalid entry is due.
Accurate(c) ==
    /\ \A e \in Entry \ victim : e \in listed <=> Present(e) \/ uses[e] # 0
    /\ \A e \in victim : ~Present(e)
    /\ sweep \subseteq listed /\ cascade \subseteq listed \cap Key
    /\ opts[c] = "all" => listed \subseteq sweep
    /\ opts[c] # "all" => \A d \in sweep \cap Digest : ~HasDigest(d)
    /\ Evicts(c) => \A e \in listed \ victim : Invalid(e) => Due(e)
CollectorInv == \A c \in Proc : pc[c] = "collecting" /\ opts[c] # "dry" => Accurate(c)

\* The state a step leaves to a collection that it takes no part in.
Quiet(c) ==
    /\ UNCHANGED <<object, indexState, indexObjects, files, complete, uses, listed, sweep, cascade, victim, now>>
    /\ pc'[c] = pc[c] /\ opts'[c] = opts[c] /\ failedRecency'[c] = failedRecency[c]
    /\ NoTemporaries => NoTemporaries'

\* While c holds the exclusive lock, c removes, the disk decays, or nothing that
\* concerns the collection happens.
LEMMA CollectorSteps ==
    ASSUME TypeOK, LockInv, [Next]_vars, NEW c \in Proc, pc'[c] \in InCollection
    PROVE  \/ \E to \in {"leasing", "idle"} : CollectBegin(c, to)
           \/ /\ pc[c] \in InCollection
              /\ \/ SweepTemporaries(c) \/ CollectDone(c)
                 \/ \E e \in Entry : RemoveContent(c, e) \/ RemoveMarker(c, e)
                 \/ \E d \in Digest, b \in {"flipped", "truncated"} : BitRot(d, b)
                 \/ \E k \in Key : IndexRot(k)
                 \/ Quiet(c)
<1> DEFINE Goal == \/ \E to \in {"leasing", "idle"} : CollectBegin(c, to)
                   \/ /\ pc[c] \in InCollection
                      /\ \/ SweepTemporaries(c) \/ CollectDone(c)
                         \/ \E e \in Entry : RemoveContent(c, e) \/ RemoveMarker(c, e)
                         \/ \E d \in Digest, b \in {"flipped", "truncated"} : BitRot(d, b)
                         \/ \E k \in Key : IndexRot(k)
                         \/ Quiet(c)
<1> SUFFICES Goal
  OBVIOUS
<1>0. \A p \in Proc : /\ c \in exclusive => pc[p] \notin Leased
                      /\ c \in exclusive /\ p \in exclusive => p = c
                      /\ p \in exclusive <=> pc[p] \in InCollection
  BY DEF LockInv
<1>a. \A p \in Proc : pc[p] \in Leased => \/ p # c /\ pc'[c] # pc[c]
                                          \/ p = c /\ pc'[c] \notin Leased \cup {"closing"}
  BY <1>0 DEF Leased, InSession, InCollection
<1> HIDE DEF Goal
<1>1. ASSUME NEW p \in Proc, NEW o \in Options, StartRun(p, o) \/ StartPrune(p, o)
      PROVE  Goal
  <2>1. p # c /\ pc'[c] = pc[c]
    BY <1>1 DEF TypeOK, StartRun, StartPrune, Goto, InCollection
  <2>2. Quiet(c)
    BY <1>1, <2>1 DEF TypeOK, Quiet, StartRun, StartPrune, disk, collector, NoTemporaries
  <2>3. QED
    BY <2>1, <2>2 DEF Goal
<1>2. ASSUME NEW p \in Proc, SkipMaintenance(p)
      PROVE  Goal
  <2>1. p # c /\ pc'[c] = pc[c]
    BY <1>2 DEF TypeOK, SkipMaintenance, Goto, InCollection
  <2>2. Quiet(c)
    BY <1>2, <2>1 DEF Quiet, SkipMaintenance, disk, collector, NoTemporaries
  <2>3. QED
    BY <2>1, <2>2 DEF Goal
<1>3. ASSUME NEW p \in Proc, NEW to \in {"leasing", "idle"}, CollectBegin(p, to)
      PROVE  Goal
  <2>1. CASE p = c
    BY <1>3, <2>1 DEF Goal
  <2>2. CASE p # c
    BY <1>0, <1>3, <2>2 DEF TypeOK, CollectBegin, CanCollect, Goto
  <2>3. QED
    BY <2>1, <2>2
<1>4. ASSUME NEW p \in Proc, Lease(p)
      PROVE  Goal
  BY <1>0, <1>4 DEF TypeOK, Lease, CanLease, Goto, InCollection
<1>5. ASSUME NEW p \in Proc, OpenSession(p) \/ CloseSession(p) \/ EndRun(p)
      PROVE  Goal
  BY <1>a, <1>5 DEF TypeOK, OpenSession, CloseSession, EndRun, Goto, Leased, InSession
<1>6. ASSUME NEW p \in Proc, NEW E \in {{}} \cup {{d} : d \in Digest}, WriteBegin(p, E) \/ WriteFail(p) \/ ReadFail(p)
      PROVE  Goal
  BY <1>a, <1>6 DEF TypeOK, WriteBegin, WriteFail, ReadFail, Goto, Leased, InSession
<1>7. ASSUME NEW p \in Proc, NEW d \in Digest,
             WritePublish(p, d) \/ ReadOpen(p, d) \/ ReadVerified(p, d) \/ ReadDiscard(p, d) \/ Reuse(p, d)
      PROVE  Goal
  BY <1>a, <1>7 DEF TypeOK, WritePublish, ReadOpen, ReadVerified, ReadDiscard, Reuse, Goto, Leased, InSession
<1>8. ASSUME NEW p \in Proc, NEW k \in Key, Recall(p, k) \/ \E D \in SUBSET Digest : Remember(p, k, D)
      PROVE  Goal
  BY <1>a, <1>8 DEF Recall, Remember, Leased, InSession
<1>9. ASSUME NEW p \in Proc, InstallStep(p)
      PROVE  Goal
  <2>1. PICK q \in Plugin : \/ Installed(p, q) \/ InstallBegin(p, q) \/ InstallLockedDone(p, q)
                             \/ InstallLockedStage(p, q) \/ InstallStaged(p, q) \/ InstallMark(p, q)
                             \/ InstallFail(p, q)
    BY <1>9 DEF InstallStep
  <2>2. CASE Installed(p, q) \/ InstallStaged(p, q)
    BY <1>a, <2>2 DEF Installed, InstallStaged, command, Leased, InSession
  <2>3. CASE InstallBegin(p, q)
    BY <1>a, <2>3 DEF TypeOK, InstallBegin, Goto, Leased, InSession
  <2>4. CASE InstallLockedDone(p, q) \/ InstallLockedStage(p, q)
    BY <1>a, <2>4 DEF TypeOK, InstallLockedDone, InstallLockedStage, Goto, Leased, InSession
  <2>5. CASE InstallMark(p, q) \/ InstallFail(p, q)
    BY <1>a, <2>5 DEF TypeOK, InstallMark, InstallFail, Goto, Leased, InSession
  <2>6. QED
    BY <2>1, <2>2, <2>3, <2>4, <2>5
<1>10. ASSUME NEW p \in Proc, p \in exclusive, p # c, pc'[c] = pc[c]
       PROVE  FALSE
  BY <1>0, <1>10
<1>11. ASSUME NEW p \in Proc, CollectStep(p)
       PROVE  Goal
  <2>1. p \in exclusive
    BY <1>0, <1>11 DEF CollectStep, SweepTemporaries, CollectDone, CollectEnd, RemoveContent, RemoveMarker, Collecting,
          Goto, InCollection
  <2>2. p = c
    BY <1>10, <1>11, <2>1 DEF TypeOK, CollectStep, SweepTemporaries, CollectDone, CollectEnd, RemoveContent, RemoveMarker,
          Goto, command
  <2>3. ~CollectEnd(c)
    BY DEF TypeOK, CollectEnd, Goto, InCollection
  <2>4. QED
    BY <1>0, <1>11, <2>1, <2>2, <2>3 DEF Goal, CollectStep
<1>12. ASSUME NEW p \in Proc, Cancel(p)
       PROVE  Goal
  <2>1. CASE Goto(p, "leasing", "idle") \/ Goto(p, "pruning", "idle")
    <3>1. p # c /\ pc'[c] = pc[c] /\ p \notin exclusive
      BY <1>0, <2>1 DEF TypeOK, Goto, InCollection
    <3>2. UNCHANGED <<listed, sweep, cascade, victim>>
      BY <1>0, <1>12, <2>1, <3>1 DEF Cancel, Goto, Collecting
    <3>3. Quiet(c)
      BY <1>12, <3>1, <3>2 DEF Quiet, Cancel, disk, NoTemporaries
    <3>4. QED
      BY <3>1, <3>3 DEF Goal
  <2>2. CASE Goto(p, "locking", "session")
    BY <1>a, <2>2 DEF TypeOK, Goto, Leased, InSession
  <2>3. CASE Collecting(p) /\ pc' = [pc EXCEPT ![p] = back[p]]
    <3>1. p # c
      BY <2>3 DEF TypeOK, InCollection
    <3>2. QED
      BY <1>10, <2>3, <3>1 DEF TypeOK, Collecting
  <2>4. QED
    BY <1>12, <2>1, <2>2, <2>3 DEF Cancel
<1>13. ASSUME NEW p \in Proc, Dies(p)
       PROVE  p # c /\ pc'[c] = pc[c] /\ p \notin exclusive /\ (NoTemporaries => NoTemporaries')
  <2>1. p # c /\ pc'[c] = pc[c]
    BY <1>13 DEF TypeOK, Dies, InCollection
  <2>2. p \notin exclusive
    BY <1>10, <2>1
  <2>3. NoTemporaries => NoTemporaries'
    BY <1>13 DEF TypeOK, Dies, NoTemporaries
  <2>4. QED
    BY <2>1, <2>2, <2>3
<1>14. ASSUME NEW p \in Proc, Crash(p)
       PROVE  Goal
  <2>1. p # c /\ pc'[c] = pc[c] /\ p \notin exclusive /\ (NoTemporaries => NoTemporaries')
    BY <1>13, <1>14 DEF Crash
  <2>2. Quiet(c)
    BY <1>14, <2>1 DEF Quiet, Crash, Dies
  <2>3. QED
    BY <2>1, <2>2 DEF Goal
<1>15. ASSUME NEW p \in Proc, NEW q \in Plugin, TornRemoval(p, q)
       PROVE  Goal
  BY <1>13, <1>15 DEF TornRemoval, Collecting
<1>16. CASE \/ \E d \in Digest : \E b \in {"flipped", "truncated"} : BitRot(d, b)
            \/ \E k \in Key : IndexRot(k)
  <2>1. pc' = pc
    BY <1>16 DEF BitRot, IndexRot, command
  <2>2. QED
    BY <1>16, <2>1 DEF Goal
<1>17. CASE Tick
  BY <1>0, <1>17 DEF Tick, command
<1>18. CASE UNCHANGED vars
  BY <1>18 DEF Goal, vars, Quiet, disk, command, collector, NoTemporaries
<1>19. QED
  <2>1. ASSUME NEW p \in Proc, CommandStep(p) PROVE Goal
    BY <1>2, <1>3, <1>4, <1>5, <2>1 DEF CommandStep
  <2>2. ASSUME NEW p \in Proc, ObjectStep(p) PROVE Goal
    BY <1>6, <1>7, <1>8, <2>2 DEF ObjectStep
  <2>3. CASE Environment
    BY <1>12, <1>14, <1>15, <1>16, <1>17, <2>3 DEF Environment
  <2>4. QED
    BY <1>1, <1>9, <1>11, <1>18, <2>1, <2>2, <2>3 DEF Next, Options

\* A damaged file is still there.
LEMMA RotPresent ==
    ASSUME TypeOK, ConstantsAssumption,
           \/ \E d \in Digest, b \in {"flipped", "truncated"} : BitRot(d, b)
           \/ \E k \in Key : IndexRot(k)
    PROVE  /\ \A d \in Digest : HasDigest(d)' <=> HasDigest(d)
           /\ \A e \in Entry : Present(e)' <=> Present(e)
           /\ UNCHANGED <<uses, complete, indexObjects, locks, command, collector, now, partial, orphan>>
<1>1. CASE \E d \in Digest, b \in {"flipped", "truncated"} : BitRot(d, b)
  BY <1>1 DEF TypeOK, BitRot, HasDigest, Present
<1>2. CASE \E k \in Key : IndexRot(k)
  BY <1>2 DEF TypeOK, IndexRot, HasDigest, Present
<1>3. QED
  BY <1>1, <1>2

\* Every step keeps the list of a collection accurate.
LEMMA AccurateStep ==
    ASSUME ConstantsAssumption, TypeOK, LockInv, CollectorInv, [Next]_vars,
           NEW c \in Proc, pc'[c] = "collecting", opts'[c] # "dry"
    PROVE  Accurate(c)'
<1>0. \/ \E to \in {"leasing", "idle"} : CollectBegin(c, to)
      \/ /\ pc[c] \in InCollection
         /\ \/ SweepTemporaries(c) \/ CollectDone(c)
            \/ \E e \in Entry : RemoveContent(c, e) \/ RemoveMarker(c, e)
            \/ \E d \in Digest, b \in {"flipped", "truncated"} : BitRot(d, b)
            \/ \E k \in Key : IndexRot(k)
            \/ Quiet(c)
  BY CollectorSteps DEF InCollection
<1>a. ASSUME pc[c] = "collecting", opts[c] # "dry" PROVE Accurate(c)
  BY <1>a DEF CollectorInv
<1>1. ASSUME NEW to \in {"leasing", "idle"}, CollectBegin(c, to)
      PROVE  Accurate(c)'
  <2>1. /\ UNCHANGED <<object, indexState, indexObjects, files, complete, uses, opts, failedRecency>>
        /\ listed' = Inventory /\ cascade' = {} /\ victim' = {}
        /\ sweep' = IF opts[c] = "all" THEN Inventory
                    ELSE IF Evicts(c) THEN {e \in Inventory : Invalid(e)} ELSE {}
    BY <1>1 DEF CollectBegin, disk
  <2>2. (\A e \in Entry \ victim : e \in listed <=> Present(e) \/ uses[e] # 0)' /\ (\A e \in victim : ~Present(e))'
    BY <2>1 DEF Inventory, Present, HasDigest
  <2>3. sweep' \subseteq listed' /\ cascade' \subseteq listed' \cap Key
    BY <2>1
  <2>4. (opts[c] = "all" => listed \subseteq sweep)'
    BY <2>1
  <2>5. ASSUME opts'[c] # "all", NEW d \in sweep' \cap Digest PROVE ~HasDigest(d)'
    <3>1. Invalid(d)
      BY <2>1, <2>5
    <3>2. d \notin Key /\ d \notin Plugin
      BY DEF ConstantsAssumption
    <3>3. QED
      BY <2>1, <3>1, <3>2 DEF Invalid, Present, HasDigest
  <2>6. ASSUME Evicts(c)', NEW e \in listed' \ victim', Invalid(e)' PROVE Due(e)'
    <3>1. Evicts(c) /\ Invalid(e)
      BY <2>1, <2>6 DEF Evicts, Invalid, Present, IndexUsable, HasDigest
    <3>2. e \in sweep'
      BY <2>1, <3>1
    <3>3. QED
      BY <3>2 DEF Due
  <2>7. QED
    BY <2>2, <2>3, <2>4, <2>5, <2>6 DEF Accurate
<1>2. CASE CollectDone(c)
  BY <1>2 DEF TypeOK, CollectDone
<1>3. CASE SweepTemporaries(c) \/ Quiet(c)
  <2>1. /\ UNCHANGED <<object, indexState, indexObjects, files, complete, uses, listed, sweep, cascade, victim>>
        /\ pc'[c] = pc[c] /\ opts'[c] = opts[c] /\ failedRecency'[c] = failedRecency[c]
    BY <1>3 DEF SweepTemporaries, Quiet, command, collector
  <2>2. Accurate(c)
    BY <1>a, <2>1
  <2>3. QED
    BY <2>1, <2>2 DEF Accurate, Present, HasDigest, Evicts, Invalid, IndexUsable, Due
<1>4. ASSUME NEW x \in Entry, RemoveContent(c, x)
      PROVE  Accurate(c)'
  <2>1. /\ Accurate(c) /\ victim = {} /\ victim' = {x} /\ x \in NextVictims(c)
        /\ object' = [d \in Digest |-> IF d = x THEN "absent" ELSE object[d]]
        /\ indexState' = [k \in Key |-> IF k = x THEN "none" ELSE indexState[k]]
        /\ files' = [q \in Plugin |-> IF q = x THEN "none" ELSE files[q]]
        /\ complete' = [q \in Plugin |-> IF q = x THEN FALSE ELSE complete[q]]
        /\ UNCHANGED <<indexObjects, uses, listed, sweep, cascade, opts, failedRecency>>
    BY <1>4, <1>a DEF RemoveContent, Collecting, command
  <2>2. ~Present(x)'
    BY <2>1 DEF Present, HasDigest
  <2>3. \A e \in Entry \ {x} : Present(e)' <=> Present(e)
    BY <2>1 DEF Present, HasDigest
  <2>4. \A d \in Digest : HasDigest(d)' <=> HasDigest(d) /\ d # x
    BY <2>1 DEF HasDigest
  <2>5. (\A e \in Entry \ victim : e \in listed <=> Present(e) \/ uses[e] # 0)' /\ (\A e \in victim : ~Present(e))'
    BY <2>1, <2>2, <2>3 DEF Accurate
  <2>6. /\ sweep' \subseteq listed' /\ cascade' \subseteq listed' \cap Key
        /\ (opts[c] = "all" => listed \subseteq sweep)'
    BY <2>1 DEF Accurate
  <2>7. (opts[c] # "all" => \A d \in sweep \cap Digest : ~HasDigest(d))'
    BY <2>1, <2>4 DEF Accurate
  <2>8. ASSUME Evicts(c)', NEW e \in listed' \ victim', Invalid(e)' PROVE Due(e)'
    <3>1. e # x /\ e \in listed \ victim /\ e \in Entry /\ Evicts(c)
      BY <2>1, <2>8 DEF TypeOK, Evicts
    <3>2. CASE Invalid(e)
      <4>1. Due(e)
        BY <2>1, <3>1, <3>2 DEF Accurate
      <4>2. QED
        BY <2>1, <3>1, <4>1 DEF Due
    <3>3. CASE ~Invalid(e)
      <4>1. e \in Key /\ IndexUsable(e) /\ ~IndexUsable(e)'
        BY <2>1, <2>3, <2>8, <3>1, <3>3 DEF Invalid
      <4>2. indexState'[e] = "stored" /\ x \in indexObjects[e]
        BY <2>1, <2>4, <3>1, <4>1 DEF TypeOK, IndexUsable
      <4>3. QED
        BY <2>1, <4>1, <4>2 DEF Due
    <3>4. QED
      BY <3>2, <3>3
  <2>9. QED
    BY <2>5, <2>6, <2>7, <2>8 DEF Accurate
<1>5. ASSUME NEW x \in Entry, RemoveMarker(c, x)
      PROVE  Accurate(c)'
  <2>1. /\ Accurate(c) /\ victim = {x} /\ victim' = {}
        /\ uses' = [uses EXCEPT ![x] = 0]
        /\ listed' = listed \ {x} /\ sweep' = sweep \ {x}
        /\ cascade' = (cascade \cup Dependents(x)) \ {x}
        /\ UNCHANGED <<object, indexState, indexObjects, files, complete, opts, failedRecency>>
    BY <1>5, <1>a DEF RemoveMarker, Collecting, command
  <2>2. \A e \in Entry : Present(e)' <=> Present(e)
    BY <2>1 DEF Present, HasDigest
  <2>3. ~Present(x) /\ uses'[x] = 0 /\ \A e \in Entry \ {x} : uses'[e] = uses[e]
    BY <2>1 DEF Accurate, TypeOK
  <2>4. (\A e \in Entry \ victim : e \in listed <=> Present(e) \/ uses[e] # 0)' /\ (\A e \in victim : ~Present(e))'
    BY <2>1, <2>2, <2>3 DEF Accurate
  <2>5. sweep' \subseteq listed' /\ (opts[c] = "all" => listed \subseteq sweep)'
    BY <2>1 DEF Accurate
  <2>6. cascade' \subseteq listed' \cap Key
    BY <2>1 DEF Accurate, Dependents
  <2>7. (opts[c] # "all" => \A d \in sweep \cap Digest : ~HasDigest(d))'
    BY <2>1 DEF Accurate, HasDigest
  <2>8. ASSUME Evicts(c)', NEW e \in listed' \ victim', Invalid(e)' PROVE Due(e)'
    <3>1. e # x /\ e \in listed /\ e \in Entry /\ Evicts(c) /\ Invalid(e)
      BY <2>1, <2>8 DEF TypeOK, Evicts, Invalid, Present, IndexUsable, HasDigest
    <3>2. Due(e)
      BY <2>1, <3>1 DEF Accurate
    <3>3. CASE e \in Key /\ indexState[e] = "stored" /\ x \in indexObjects[e]
      <4>1. x \in Digest
        BY <3>3 DEF TypeOK
      <4>2. e \in cascade'
        BY <2>1, <3>1, <3>3, <4>1 DEF Dependents
      <4>3. QED
        BY <4>2 DEF Due
    <3>4. QED
      BY <2>1, <3>1, <3>2, <3>3 DEF Due
  <2>9. QED
    BY <2>4, <2>5, <2>6, <2>7, <2>8 DEF Accurate
<1>6. CASE \/ \E d \in Digest, b \in {"flipped", "truncated"} : BitRot(d, b)
           \/ \E k \in Key : IndexRot(k)
  <2>1. /\ \A d \in Digest : HasDigest(d)' <=> HasDigest(d)
        /\ \A e \in Entry : Present(e)' <=> Present(e)
        /\ UNCHANGED <<uses, complete, indexObjects, command, collector>>
    BY <1>6, RotPresent
  <2>2. /\ UNCHANGED <<uses, complete, indexObjects, opts, failedRecency, listed, sweep, cascade, victim>>
        /\ pc' = pc
    BY <2>1 DEF command, collector
  <2>3. Accurate(c)
    BY <1>a, <2>2
  <2>4. /\ \A k \in Key : indexState'[k] = indexState[k] \/ indexState'[k] = "garbage"
    BY <1>6 DEF TypeOK, BitRot, IndexRot
  <2>5. (\A e \in Entry \ victim : e \in listed <=> Present(e) \/ uses[e] # 0)' /\ (\A e \in victim : ~Present(e))'
    BY <2>1, <2>2, <2>3 DEF Accurate, TypeOK
  <2>6. /\ sweep' \subseteq listed' /\ cascade' \subseteq listed' \cap Key
        /\ (opts[c] = "all" => listed \subseteq sweep)'
    BY <2>2, <2>3 DEF Accurate
  <2>7. (opts[c] # "all" => \A d \in sweep \cap Digest : ~HasDigest(d))'
    BY <2>1, <2>2, <2>3 DEF Accurate
  <2>8. ASSUME Evicts(c)', NEW e \in listed' \ victim', Invalid(e)' PROVE Due(e)'
    <3>1. e \in listed \ victim /\ e \in Entry /\ Evicts(c)
      BY <2>2, <2>8 DEF TypeOK, Evicts
    <3>2. CASE e \in Key /\ indexState'[e] = "garbage"
      BY <3>2 DEF Due
    <3>3. CASE e \in Key => indexState'[e] = indexState[e]
      <4>1. e \in Key => (IndexUsable(e)' <=> IndexUsable(e))
        BY <2>1, <2>2, <3>3 DEF IndexUsable, TypeOK
      <4>2. Invalid(e)
        BY <2>1, <2>2, <2>8, <3>1, <4>1 DEF Invalid
      <4>3. Due(e)
        BY <2>3, <3>1, <4>2 DEF Accurate
      <4>4. QED
        BY <2>2, <3>3, <4>3 DEF Due
    <3>4. QED
      BY <2>4, <3>2, <3>3
  <2>9. QED
    BY <2>5, <2>6, <2>7, <2>8 DEF Accurate
<1>7. QED
  BY <1>0, <1>1, <1>2, <1>3, <1>4, <1>5, <1>6

\* Among some entries, one was used least recently.
LEMMA OldestExists ==
    ASSUME uses \in [Entry -> Nat], NEW S \in SUBSET Entry, S # {}
    PROVE  \E e \in S : \A f \in S : uses[e] <= uses[f]
<1> DEFINE R == OpToRel(<, Nat)
<1>1. IsWellFoundedOn(R, Nat)
  BY NatLessThanWellFounded
<1>2. \A y, x \in Nat : y < x => <<y, x>> \in R
  BY DEF OpToRel
<1> DEFINE T == {uses[e] : e \in S}
<1>3. T \subseteq Nat /\ T # {}
  OBVIOUS
<1> HIDE DEF R
<1>4. PICK x \in T : \A y \in T : ~ (<<y, x>> \in R)
  BY <1>1, <1>3, WFMin
<1>5. PICK e \in S : x = uses[e]
  BY <1>4
<1>6. ASSUME NEW f \in S PROVE uses[e] <= uses[f]
  <2>1. uses[f] \in Nat /\ uses[e] \in Nat /\ <<uses[f], uses[e]>> \notin R
    BY <1>4, <1>5
  <2>2. ~ (uses[f] < uses[e])
    BY <1>2, <2>1
  <2>3. QED
    BY <2>1, <2>2
<1>7. QED
  BY <1>6

\* A collection that has nothing left to remove left the directory as it promises.
LEMMA DoneSound ==
    ASSUME ConstantsAssumption, TypeOK, NEW c \in Proc, CollectDone(c), opts[c] # "dry", Accurate(c)
    PROVE  /\ NoTemporaries
           /\ opts[c] = "all" => Inventory \cap (Digest \cup Plugin) = {}
           /\ Evicts(c) =>
                /\ \A e \in Inventory : Invalid(e) => e \in Key /\ indexState[e] = "garbage"
                /\ ~OverBudget(Inventory) \/ \A e \in Inventory : uses[e] >= now - Grace
<1>1. victim = {} /\ NextVictims(c) = {} /\ NoTemporaries
  BY DEF CollectDone
<1>2. cascade = {} /\ sweep = {}
  BY <1>1 DEF NextVictims
<1>3. listed = Inventory
  BY <1>1 DEF Accurate, Inventory, TypeOK
<1>4. opts[c] = "all" => Inventory = {}
  BY <1>2, <1>3 DEF Accurate
<1>5. ASSUME Evicts(c), NEW e \in Inventory, Invalid(e) PROVE e \in Key /\ indexState[e] = "garbage"
  BY <1>1, <1>2, <1>3, <1>5 DEF Accurate, Due
<1>6. ASSUME Evicts(c), OverBudget(Inventory), NEW e \in Inventory PROVE uses[e] >= now - Grace
  <2>1. Evictable(c) = {}
    <3>1. Evictable(c) \in SUBSET Entry
      BY DEF Evictable, TypeOK
    <3>2. {x \in Evictable(c) : \A f \in Evictable(c) : uses[x] <= uses[f]} = {}
      BY <1>1, <1>2 DEF NextVictims
    <3>3. ASSUME Evictable(c) # {} PROVE FALSE
      <4>1. uses \in [Entry -> Nat]
        BY DEF TypeOK
      <4>2. \E x \in Evictable(c) : \A f \in Evictable(c) : uses[x] <= uses[f]
        BY <3>1, <3>3, <4>1, OldestExists
      <4>3. QED
        BY <3>2, <4>2
    <3>4. QED
      BY <3>3
  <2>2. opts[c] # "all"
    BY <1>4, <1>6
  <2>3. ~(uses[e] < now - Grace)
    BY <1>1, <1>3, <1>6, <2>1, <2>2 DEF Evictable
  <2>4. uses[e] \in Nat /\ now \in Nat /\ Grace \in Nat
    BY DEF TypeOK, Inventory, ConstantsAssumption
  <2>5. QED
    BY <2>3, <2>4
<1>7. QED
  BY <1>1, <1>4, <1>5, <1>6

\* Every step keeps what a finished collection promises until the lock is closed.
LEMMA CollectedStep ==
    ConstantsAssumption /\ TypeOK /\ LockInv /\ CollectorInv /\ CollectedSound /\ [Next]_vars => CollectedSound'
<1> DEFINE Sound(c) ==
        /\ NoTemporaries
        /\ opts[c] = "all" => Inventory \cap (Digest \cup Plugin) = {}
        /\ Evicts(c) =>
             /\ \A e \in Inventory : Invalid(e) => e \in Key /\ indexState[e] = "garbage"
             /\ \/ ~OverBudget(Inventory)
                \/ \A e \in Inventory : uses[e] >= now - Grace
<1> SUFFICES ASSUME ConstantsAssumption, TypeOK, LockInv, CollectorInv, CollectedSound, [Next]_vars,
                    NEW c \in Proc, pc'[c] = "collected", opts'[c] # "dry"
             PROVE  Sound(c)'
  BY DEF CollectedSound
<1>0. \/ \E to \in {"leasing", "idle"} : CollectBegin(c, to)
      \/ /\ pc[c] \in InCollection
         /\ \/ SweepTemporaries(c) \/ CollectDone(c)
            \/ \E e \in Entry : RemoveContent(c, e) \/ RemoveMarker(c, e)
            \/ \E d \in Digest, b \in {"flipped", "truncated"} : BitRot(d, b)
            \/ \E k \in Key : IndexRot(k)
            \/ Quiet(c)
  BY CollectorSteps DEF InCollection
<1>a. ASSUME pc[c] = "collected", opts[c] # "dry" PROVE Sound(c)
  BY <1>a DEF CollectedSound
<1>1. ~\E to \in {"leasing", "idle"} : CollectBegin(c, to)
  BY DEF TypeOK, CollectBegin, Goto
<1>2. ~SweepTemporaries(c) /\ ~\E e \in Entry : RemoveContent(c, e) \/ RemoveMarker(c, e)
  BY DEF SweepTemporaries, RemoveContent, RemoveMarker, Collecting, command
<1>3. CASE CollectDone(c)
  <2>1. /\ UNCHANGED <<object, indexState, indexObjects, files, complete, uses, partial, orphan, opts, failedRecency, now>>
        /\ opts[c] # "dry" /\ pc[c] = "collecting"
    BY <1>3 DEF CollectDone, Collecting, disk
  <2>2. Sound(c)
    BY <1>3, <2>1, DoneSound DEF CollectorInv
  <2>3. Inventory' = Inventory /\ (NoTemporaries' <=> NoTemporaries)
    BY <2>1 DEF Inventory, Present, HasDigest, NoTemporaries
  <2>4. \A e : Invalid(e)' <=> Invalid(e)
    BY <2>1 DEF Invalid, Present, IndexUsable, HasDigest
  <2>5. (OverBudget(Inventory)' <=> OverBudget(Inventory)) /\ (Evicts(c)' <=> Evicts(c))
    BY <2>1, <2>3 DEF OverBudget, Evicts
  <2>6. QED
    BY <2>1, <2>2, <2>3, <2>4, <2>5
<1>4. CASE Quiet(c)
  <2>1. /\ UNCHANGED <<object, indexState, indexObjects, files, complete, uses, now>>
        /\ pc'[c] = pc[c] /\ opts'[c] = opts[c] /\ failedRecency'[c] = failedRecency[c]
        /\ NoTemporaries => NoTemporaries'
    BY <1>4 DEF Quiet
  <2>2. Sound(c)
    BY <1>a, <2>1
  <2>3. Inventory' = Inventory
    BY <2>1 DEF Inventory, Present, HasDigest
  <2>4. \A e : Invalid(e)' <=> Invalid(e)
    BY <2>1 DEF Invalid, Present, IndexUsable, HasDigest
  <2>5. (OverBudget(Inventory)' <=> OverBudget(Inventory)) /\ (Evicts(c)' <=> Evicts(c))
    BY <2>1, <2>3 DEF OverBudget, Evicts
  <2>6. QED
    BY <2>1, <2>2, <2>3, <2>4, <2>5
<1>5. CASE \/ \E d \in Digest, b \in {"flipped", "truncated"} : BitRot(d, b)
           \/ \E k \in Key : IndexRot(k)
  <2>1. /\ \A d \in Digest : HasDigest(d)' <=> HasDigest(d)
        /\ \A e \in Entry : Present(e)' <=> Present(e)
        /\ UNCHANGED <<uses, complete, indexObjects, pc, opts, failedRecency, now, partial, orphan>>
    BY <1>5, RotPresent DEF command
  <2>2. Sound(c)
    BY <1>a, <2>1
  <2>3. Inventory' = Inventory /\ (NoTemporaries' <=> NoTemporaries)
    BY <2>1 DEF Inventory, NoTemporaries
  <2>4. \A k \in Key : indexState'[k] = indexState[k] \/ indexState'[k] = "garbage"
    BY <1>5 DEF TypeOK, BitRot, IndexRot
  <2>5. ASSUME NEW e \in Inventory, Invalid(e)', Evicts(c) PROVE e \in Key /\ indexState'[e] = "garbage"
    <3>1. CASE e \in Key /\ indexState'[e] = "garbage"
      BY <3>1
    <3>2. CASE e \in Key => indexState'[e] = indexState[e]
      <4>1. e \in Key => (IndexUsable(e)' <=> IndexUsable(e))
        BY <2>1, <3>2 DEF IndexUsable, TypeOK
      <4>2. Invalid(e)
        BY <2>1, <2>5, <4>1 DEF Invalid, Inventory
      <4>3. QED
        BY <2>2, <2>5, <3>2, <4>2
    <3>3. QED
      BY <2>4, <3>1, <3>2
  <2>6. (OverBudget(Inventory)' <=> OverBudget(Inventory)) /\ (Evicts(c)' <=> Evicts(c))
    BY <2>1, <2>3 DEF OverBudget, Evicts
  <2>7. QED
    BY <2>1, <2>2, <2>3, <2>5, <2>6
<1>6. QED
  BY <1>0, <1>1, <1>2, <1>3, <1>4, <1>5

\* Every step keeps the collector's list accurate and its promise.
LEMMA CollectInvariant == Spec => [](CasInv /\ CollectorInv /\ CollectedSound)
<1> DEFINE Inv == CasInv /\ CollectorInv /\ CollectedSound
<1>1. Init => CollectorInv /\ CollectedSound
  BY DEF Init, CollectorInv, CollectedSound
<1>2. Inv /\ [Next]_vars => CollectorInv' /\ CollectedSound'
  <2> SUFFICES ASSUME Inv, [Next]_vars PROVE CollectorInv' /\ CollectedSound'
    OBVIOUS
  <2>1. TypeOK /\ LockInv
    BY DEF CasInv
  <2>2. \A c \in Proc : pc'[c] = "collecting" /\ opts'[c] # "dry" => Accurate(c)'
    BY <2>1, AccurateStep, ConstantsAssumption
  <2>3. CollectedSound'
    BY <2>1, CollectedStep, ConstantsAssumption
  <2>4. QED
    BY <2>2, <2>3 DEF CollectorInv
<1> HIDE DEF Inv
<1>3. Spec => []CasInv
  BY CasInvariant
<1>4. CasInv /\ CollectorInv /\ CollectedSound <=> Inv
  BY DEF Inv
<1>5. QED
  BY <1>1, <1>2, <1>3, <1>4, PTL DEF Spec

\* Only the removal of an entry makes it the victim.
LEMMA VictimChanges ==
    [Next]_vars => \/ victim' = victim \/ victim' = {}
                   \/ \E p \in Proc, e \in Entry : RemoveContent(p, e)
<1> DEFINE Changed == \/ victim' = victim \/ victim' = {}
                      \/ \E p \in Proc, e \in Entry : RemoveContent(p, e)
<1> SUFFICES ASSUME [Next]_vars PROVE Changed
  OBVIOUS
<1>1. ASSUME NEW p \in Proc, NEW o \in Options, StartRun(p, o) \/ StartPrune(p, o) \/ CommandStep(p) PROVE Changed
  BY <1>1 DEF CommandStep, StartRun, StartPrune, SkipMaintenance, Lease, OpenSession, CloseSession, EndRun, CollectBegin, collector
<1>2. ASSUME NEW p \in Proc, ObjectStep(p) PROVE Changed
  BY <1>2 DEF ObjectStep, WriteBegin, WritePublish, WriteFail, ReadFail, ReadOpen, ReadVerified, ReadDiscard, Reuse, Recall, Remember, collector
<1>3. ASSUME NEW p \in Proc, InstallStep(p) PROVE Changed
  BY <1>3 DEF InstallStep, Installed, InstallBegin, InstallLockedDone, InstallLockedStage, InstallStaged, InstallMark, InstallFail, collector
<1>4. ASSUME NEW p \in Proc, CollectStep(p) PROVE Changed
  BY <1>4 DEF CollectStep, SweepTemporaries, CollectDone, CollectEnd, RemoveMarker, collector
<1>5. CASE Environment
  BY <1>5 DEF Environment, Cancel, Crash, TornRemoval, BitRot, IndexRot, Tick, Dies, collector
<1>6. CASE UNCHANGED vars
  BY <1>6 DEF vars, collector
<1>7. QED
  BY <1>1, <1>2, <1>3, <1>4, <1>5, <1>6 DEF Next, Options

\* Maintenance takes nothing its own command used, unless a recorded use has aged.
LEMMA OwnStep ==
    ASSUME ConstantsAssumption, CasInv, CollectorInv, [Next]_vars,
           NEW p \in Proc, NEW d \in known[p], p \in exclusive, HasDigest(d), victim = {}, victim' = {d},
           opts[p] \in {"online", "offline"}
    PROVE  ~failedRecency[p] /\ uses[d] < now - Grace
<1>1. d \in Digest /\ d \notin Key
  BY DEF CasInv, TypeOK, ConstantsAssumption
<1>2. PICK c \in Proc, e \in Entry : RemoveContent(c, e)
  BY VictimChanges
<1>3. c = p /\ e = d
  <2>1. c \in exclusive /\ {e} = {d}
    BY <1>2 DEF RemoveContent, Collecting
  <2>2. QED
    BY <2>1 DEF CasInv, LockInv
<1>4. d \in NextVictims(p) /\ Accurate(p)
  BY <1>2, <1>3 DEF RemoveContent, Collecting, CollectorInv
<1>5. d \notin cascade /\ d \notin sweep
  BY <1>1, <1>4 DEF Accurate
<1>6. d \in Evictable(p)
  BY <1>4, <1>5 DEF NextVictims
<1>7. QED
  BY <1>6 DEF Evictable, Evicts

\* maintenance.go:137-190, run.go:30: whoever dies, decays or waits meanwhile, a
\* collection that ran to its end leaves no index that names a missing object, no
\* marker without content and no abandoned file, stays in its budget or keeps only
\* recent entries, and takes nothing that the command it follows used.
THEOREM CollectionSafe == Spec => CollectionSound
<1> DEFINE Inv == CasInv /\ CollectorInv /\ CollectedSound
           Own == \A p \in Proc : \A d \in known[p] :
              p \in exclusive /\ HasDigest(d) /\ victim = {} /\ victim' = {d} /\ opts[p] \in {"online", "offline"}
                  => ~failedRecency[p] /\ uses[d] < now - Grace
<1>1. Inv /\ [Next]_vars => [Own]_vars
  BY OwnStep, ConstantsAssumption
<1> HIDE DEF Inv, Own
<1>2. Spec => []Inv
  BY CollectInvariant DEF Inv
<1>3. Inv => CollectedSound
  BY DEF Inv
<1>4. Spec => [][Own]_vars
  BY <1>1, <1>2, PTL DEF Spec
<1>5. Spec => [][CollectedSound']_vars
  BY <1>2, <1>3, PTL DEF Spec
<1>6. Spec => OwnContentKept
  BY <1>4 DEF OwnContentKept, Own
<1>7. QED
  BY <1>5, <1>6 DEF CollectionSound
=============================================================================
