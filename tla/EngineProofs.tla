---------------------------- MODULE EngineProofs ----------------------------
(***************************************************************************)
(* Theorems about Engine, for every set of processes, resources,           *)
(* publications, declarations and contents.                                *)
(***************************************************************************)
EXTENDS Engine, TLAPS

Held == {"run", "save", "close"}

\* project.lock has at most one holder.
Alone == \A p, q \in holder : p = q

\* A command that has not begun has done nothing.
Fresh(p) ==
    pc[p] \in {"idle", "locking"} =>
        /\ \A r \in Res : prep[p][r] = "none" /\ reported[p][r] = 0
        /\ \A q \in Publication : pub[p][q] = "none"
        /\ \A d \in Decl : seen[p][d] = None

\* What was selected is declared; without selectors it is all that is declared.
Loaded(p) ==
    /\ pc[p] # "idle" => method[p] \in {"update", "apply"}
    /\ pc[p] # "idle" /\ whole[p] => roots[p] = Declared(cfg[p])
    /\ pc[p] \in Held => selected(p) \subseteq Declared(cfg[p])
    /\ pc[p] = "save" => method[p] = "update"

\* A prepared resource is selected, its producers are prepared, and its staged
\* entry is the reviewed one (apply) or the observation of its declaration (update).
Staged(p) ==
    /\ \A r \in Res : prep[p][r] # "none" => r \in selected(p)
    /\ \A r \in Res : prep[p][r] = "ready" =>
        /\ \A s \in Producers[r] : prep[p][s] = "ready"
        /\ method[p] = "apply" => staged[p][r] = old[p][r] /\ old[p][r].decl = cfg[p][r]
        /\ method[p] = "update" =>
              /\ seen[p][cfg[p][r]] # None
              /\ staged[p][r] = [decl |-> cfg[p][r], content |-> seen[p][cfg[p][r]]]

\* The lock documents are those the command read, or those it writes.
Locked(p) ==
    /\ pc[p] = "run" => lock = old[p]
    /\ pc[p] = "save" => \A r \in Res : lock[r] = old[p][r] \/ lock[r] = Target(p)[r]

\* A resource waits for its unsettled publications, and is reported when it failed
\* or waits for none.
Waiting(p) ==
    pc[p] \in Held => \A r \in Res :
        /\ prep[p][r] # "failed" =>
              pending[p][r] = {q \in Publication : method[p] = "apply" /\ q[1] = r /\ r \in selected(p) /\ pub[p][q] = "none"}
        /\ prep[p][r] = "none" => reported[p][r] = 0 /\ \A q \in Publication : q[1] = r => pub[p][q] = "none"
        /\ prep[p][r] = "failed" => reported[p][r] = 1
        /\ prep[p][r] = "ready" => reported[p][r] = IF pending[p][r] = {} THEN 1 ELSE 0

At(p) == Fresh(p) /\ Loaded(p) /\ Staged(p) /\ Locked(p) /\ Waiting(p)

EngineInv == TypeOK /\ Alone /\ \A p \in Proc : At(p)

\* A publication is one of a resource.
LEMMA PublicationType ==
    ASSUME NEW q \in Publication
    PROVE  q[1] \in Res
BY ConstantsAssumption

\* The closure of a set is in every closed set around it, and contains it.
LEMMA ClosureLeast ==
    ASSUME NEW S \in SUBSET Res, NEW T \in SUBSET Res, S \subseteq T,
           \A t \in T : Producers[t] \subseteq T
    PROVE  /\ Closure(S) \subseteq T /\ S \subseteq Closure(S) /\ Closure(S) \subseteq Res
BY DEF Closure

\* An entry that answers a declaration names content.
LEMMA EntryContent ==
    ASSUME NEW e \in Entry, e.decl # None
    PROVE  e.decl \in Decl /\ e.content \in Content
BY DEF Entry, NoEntry

\* None is neither a declaration nor a content.
LEMMA NoneApart == None \notin Decl /\ None \notin Content
BY ConstantsAssumption

\* NoEntry has no declaration, and every entry of a declaration is an entry.
LEMMA EntryMembers ==
    /\ NoEntry \in Entry /\ Nothing \in [Res -> Entry]
    /\ \A d \in Decl, c \in Content : [decl |-> d, content |-> c] \in Entry
BY DEF Entry, NoEntry, Nothing

\* One more report.
LEMMA CompleteType ==
    ASSUME TypeOK, NEW p \in Proc, NEW r \in Res, Complete(p, r)
    PROVE  /\ reported' \in [Proc -> [Res -> Nat]]
           /\ reported'[p] = [reported[p] EXCEPT ![r] = reported[p][r] + 1]
           /\ \A x \in Proc : x # p => reported'[x] = reported[x]
<1>1. reported' = [reported EXCEPT ![p] = [reported[p] EXCEPT ![r] = reported[p][r] + 1]]
  BY DEF Complete
<1>2. [reported[p] EXCEPT ![r] = reported[p][r] + 1] \in [Res -> Nat]
  BY DEF TypeOK
<1>3. QED
  BY <1>1, <1>2 DEF TypeOK

\* One publication less.
LEMMA SettleType ==
    ASSUME TypeOK, NEW p \in Proc, NEW q \in Publication, Settle(p, q)
    PROVE  /\ reported' \in [Proc -> [Res -> Nat]]
           /\ pending' \in [Proc -> [Res -> SUBSET Publication]]
           /\ pending'[p] = [pending[p] EXCEPT ![q[1]] = pending[p][q[1]] \ {q}]
           /\ reported'[p] = IF pending[p][q[1]] = {q}
                             THEN [reported[p] EXCEPT ![q[1]] = reported[p][q[1]] + 1] ELSE reported[p]
           /\ \A x \in Proc : x # p => reported'[x] = reported[x] /\ pending'[x] = pending[x]
<1>0. q[1] \in Res
  BY PublicationType
<1>1. pending' = [pending EXCEPT ![p] = [pending[p] EXCEPT ![q[1]] = pending[p][q[1]] \ {q}]]
  BY DEF Settle
<1>2. [pending[p] EXCEPT ![q[1]] = pending[p][q[1]] \ {q}] \in [Res -> SUBSET Publication]
  BY <1>0 DEF TypeOK
<1>3. /\ pending' \in [Proc -> [Res -> SUBSET Publication]]
      /\ pending'[p] = [pending[p] EXCEPT ![q[1]] = pending[p][q[1]] \ {q}]
      /\ \A x \in Proc : x # p => pending'[x] = pending[x]
  BY <1>1, <1>2 DEF TypeOK
<1>4. CASE pending[p][q[1]] = {q}
  <2>1. Complete(p, q[1])
    BY <1>4 DEF Settle
  <2>2. /\ reported' \in [Proc -> [Res -> Nat]]
        /\ reported'[p] = [reported[p] EXCEPT ![q[1]] = reported[p][q[1]] + 1]
        /\ \A x \in Proc : x # p => reported'[x] = reported[x]
    BY <1>0, <2>1, CompleteType
  <2>3. QED
    BY <1>3, <1>4, <2>2
<1>5. CASE pending[p][q[1]] # {q}
  BY <1>3, <1>5 DEF Settle, TypeOK
<1>6. QED
  BY <1>4, <1>5

\* What is acquired for a prepared resource is an entry with content.
LEMMA AcquiredType ==
    ASSUME EngineInv, NEW p \in Proc, NEW r \in Res, CanPrepare(p, r), Answers(p, r)
    PROVE  /\ Acquired(p, r) \in Entry /\ Acquired(p, r).content \in Content
           /\ cfg[p][r] \in Decl /\ Acquired(p, r).decl = cfg[p][r]
<1>1. cfg[p][r] \in Decl
  BY DEF EngineInv, TypeOK, At, Loaded, Held, CanPrepare, Declared
<1>2. CASE method[p] = "update"
  BY <1>1, <1>2, EntryMembers, NoneApart DEF Acquired, EngineInv, TypeOK
<1>3. CASE method[p] # "update"
  <2>1. method[p] = "apply"
    BY <1>3 DEF EngineInv, At, Loaded, CanPrepare
  <2>2. old[p][r] \in Entry /\ old[p][r].decl = cfg[p][r]
    BY <2>1 DEF Answers, EngineInv, TypeOK
  <2>3. QED
    BY <1>1, <1>3, <2>2, EntryContent, NoneApart DEF Acquired
<1>4. QED
  BY <1>2, <1>3

\* An observation is added where there was none; what was observed stays.
LEMMA ObservesOnce ==
    ASSUME EngineInv, NEW p \in Proc, NEW r \in Res, CanPrepare(p, r), Observes(p, r) \/ UNCHANGED seen
    PROVE  /\ seen' \in [Proc -> [Decl -> Content \cup {None}]]
           /\ \A x \in Proc : x # p => seen'[x] = seen[x]
           /\ \/ seen' = seen
              \/ /\ method[p] = "update" /\ cfg[p][r] \in Decl /\ seen[p][cfg[p][r]] = None
                 /\ seen'[p] = [seen[p] EXCEPT ![cfg[p][r]] = upstream[cfg[p][r]]]
<1> DEFINE d == cfg[p][r]
<1>0. seen \in [Proc -> [Decl -> Content \cup {None}]] /\ upstream \in [Decl -> Content]
  BY DEF EngineInv, TypeOK
<1>1. d \in Decl
  BY DEF EngineInv, TypeOK, At, Loaded, Held, CanPrepare, Declared
<1>2. CASE seen' = seen
  BY <1>0, <1>2
<1>3. CASE seen' # seen
  <2>1. method[p] = "update" /\ seen' = [seen EXCEPT ![p] = [seen[p] EXCEPT ![d] = Acquired(p, r).content]]
    BY <1>3 DEF Observes
  <2>2. seen[p] \in [Decl -> Content \cup {None}] /\ seen[p][d] = None
    <3>1. CASE seen[p][d] # None
      <4>1. Acquired(p, r).content = seen[p][d]
        BY <2>1, <3>1 DEF Acquired
      <4>2. [seen[p] EXCEPT ![d] = seen[p][d]] = seen[p] /\ [seen EXCEPT ![p] = seen[p]] = seen
        BY <1>0
      <4>3. QED
        BY <1>3, <2>1, <4>1, <4>2
    <3>2. QED
      BY <1>0, <3>1
  <2>3. Acquired(p, r).content = upstream[d]
    BY <2>1, <2>2 DEF Acquired
  <2>4. [seen[p] EXCEPT ![d] = upstream[d]] \in [Decl -> Content \cup {None}]
    BY <1>0, <1>1, <2>2
  <2>5. QED
    BY <1>0, <1>1, <2>1, <2>2, <2>3, <2>4
<1>4. QED
  BY <1>2, <1>3

\* What a prepared resource is built from is prepared.
LEMMA ClosureReady ==
    ASSUME EngineInv, NEW p \in Proc, NEW r \in Res, prep[p][r] = "ready"
    PROVE  /\ \A s \in Closure({r}) : s \in Res /\ prep[p][s] = "ready"
<1> DEFINE T == {s \in Res : prep[p][s] = "ready"}
<1>1. {r} \subseteq T /\ T \in SUBSET Res /\ {r} \in SUBSET Res
  OBVIOUS
<1>0. Staged(p)
  BY DEF EngineInv, At
<1>2. \A t \in T : Producers[t] \subseteq T
  BY <1>0, ConstantsAssumption DEF Staged
<1>3. Closure({r}) \subseteq T
  BY <1>1, <1>2, ClosureLeast
<1>4. QED
  BY <1>3

\* An apply's staged entries are those of the lock documents, for the declarations it loaded.
LEMMA StagedReviewed ==
    ASSUME EngineInv, NEW p \in Proc, pc[p] = "run", method[p] = "apply",
           NEW s \in Res, prep[p][s] = "ready"
    PROVE  /\ staged[p][s] = lock[s] /\ lock[s].decl = cfg[p][s]
           /\ staged[p][s].content \in Content
<1>0. Staged(p) /\ Locked(p) /\ Loaded(p)
  BY DEF EngineInv, At
<1>1. staged[p][s] = lock[s] /\ lock[s].decl = cfg[p][s]
  BY <1>0 DEF Staged, Locked
<1>2. cfg[p][s] # None
  BY <1>0 DEF Staged, Loaded, Held, Declared
<1>3. lock[s] \in Entry
  BY DEF EngineInv, TypeOK
<1>4. QED
  BY <1>1, <1>2, <1>3, EntryContent

\* A payload is made of resources and contents.
LEMMA PayloadType ==
    ASSUME EngineInv, NEW p \in Proc, pc[p] = "run", method[p] = "apply",
           NEW r \in Res, prep[p][r] = "ready"
    PROVE  Payload(p, r) \in SUBSET (Res \X Content)
BY ClosureReady, StagedReviewed DEF Payload

\* Every step keeps the type of every variable.
LEMMA TypeStep ==
    ASSUME EngineInv, [Next]_vars
    PROVE  TypeOK'
<1> USE DEF EngineInv
<1>1. ASSUME NEW p \in Proc, NEW m \in {"update", "apply"}, NEW S \in SUBSET Res, NEW w \in BOOLEAN, Start(p, m, S, w) PROVE TypeOK'
  <2>1. env' \in Nat /\ UNCHANGED <<declared, upstream, lock, remote, holder, progress, faults>>
    BY <1>1 DEF TypeOK, Start
  <2>2. /\ pc' = [pc EXCEPT ![p] = "locking"] /\ pc[p] = "idle" /\ method' = [method EXCEPT ![p] = m]
        /\ roots' = [roots EXCEPT ![p] = S] /\ whole' = [whole EXCEPT ![p] = w] /\ cfg' = [cfg EXCEPT ![p] = declared]
    BY <1>1 DEF Start, Goto
  <2>3. QED
    BY <2>1, <2>2 DEF TypeOK, progress
<1>2. ASSUME NEW p \in Proc, Begin(p) PROVE TypeOK'
  <2>1. pending' \in [Proc -> [Res -> SUBSET Publication]]
    BY <1>2 DEF TypeOK, Begin, Publications
  <2>2. QED
    BY <1>2, <2>1 DEF TypeOK, Begin, Goto, CanLock, world, command, progress
<1>3. ASSUME NEW p \in Proc, BeginFails(p) PROVE TypeOK'
  BY <1>3, EntryMembers, ConstantsAssumption DEF TypeOK, BeginFails, Goto, CanLock, Idle, world, command, progress
<1>4. ASSUME NEW p \in Proc, NEW r \in Res, Prepare(p, r) PROVE TypeOK'
  <2>1. Acquired(p, r) \in Entry /\ Acquired(p, r).content \in Content /\ cfg[p][r] \in Decl
    BY <1>4, AcquiredType DEF Prepare
  <2>2. staged' \in [Proc -> [Res -> Entry]] /\ seen' \in [Proc -> [Decl -> Content \cup {None}]]
    BY <1>4, <2>1 DEF TypeOK, Prepare, Observes
  <2>3. prep' \in [Proc -> [Res -> {"none", "ready", "failed"}]] /\ reported' \in [Proc -> [Res -> Nat]]
    <3>1. reported' \in [Proc -> [Res -> Nat]]
      BY <1>4, CompleteType DEF TypeOK, Prepare
    <3>2. QED
      BY <1>4, <3>1 DEF TypeOK, Prepare
  <2>4. QED
    BY <1>4, <2>2, <2>3 DEF TypeOK, Prepare, Observes, world, command, progress
<1>5. ASSUME NEW p \in Proc, NEW r \in Res, PrepareFails(p, r) PROVE TypeOK'
  <2>1. prep' \in [Proc -> [Res -> {"none", "ready", "failed"}]] /\ reported' \in [Proc -> [Res -> Nat]] /\ faults' \in Nat /\ seen' \in [Proc -> [Decl -> Content \cup {None}]]
    <3>1. seen' \in [Proc -> [Decl -> Content \cup {None}]]
      BY <1>5, ObservesOnce DEF PrepareFails
    <3>2. faults' \in Nat
      BY <1>5 DEF TypeOK, PrepareFails, Fault
    <3>3. reported' \in [Proc -> [Res -> Nat]]
      BY <1>5, CompleteType DEF PrepareFails
    <3>4. prep' \in [Proc -> [Res -> {"none", "ready", "failed"}]]
      BY <1>5 DEF TypeOK, PrepareFails
    <3>5. QED
      BY <3>1, <3>2, <3>3, <3>4
  <2>2. QED
    BY <1>5, <2>1 DEF TypeOK, PrepareFails, world, command, progress
<1>6. ASSUME NEW p \in Proc, NEW q \in Publication, Reconcile(p, q) PROVE TypeOK'
  <2>0. q[1] \in Res
    BY PublicationType
  <2>1. Payload(p, q[1]) \in SUBSET (Res \X Content)
    BY <1>6, <2>0, PayloadType DEF Reconcile, CanReconcile
  <2>2. remote' \in [Publication -> SUBSET (Res \X Content)]
    BY <1>6, <2>1 DEF TypeOK, Reconcile
  <2>3. /\ pub' \in [Proc -> [Publication -> {"none", "ok", "failed"}]] /\ faults' \in Nat
        /\ pending' \in [Proc -> [Res -> SUBSET Publication]] /\ reported' \in [Proc -> [Res -> Nat]]
    <3>1. Settle(p, q)
      BY <1>6 DEF Reconcile
    <3>2. faults' \in Nat
      BY <1>6 DEF TypeOK, Reconcile
    <3>3. pub' \in [Proc -> [Publication -> {"none", "ok", "failed"}]]
      BY <1>6 DEF TypeOK, Reconcile
    <3>4. QED
      BY <3>1, <3>2, <3>3, SettleType
  <2>4. QED
    BY <1>6, <2>2, <2>3 DEF TypeOK, Reconcile, world, command, progress
<1>7. ASSUME NEW p \in Proc, NEW q \in Publication, ReconcileUnready(p, q) PROVE TypeOK'
  BY <1>7 DEF TypeOK, ReconcileUnready, CanReconcile, world, command, progress
<1>8. ASSUME NEW p \in Proc, NEW q \in Publication, ReconcileFails(p, q) PROVE TypeOK'
  <2>0. q[1] \in Res
    BY PublicationType
  <2>1. Payload(p, q[1]) \in SUBSET (Res \X Content)
    BY <1>8, <2>0, PayloadType DEF ReconcileFails, CanReconcile
  <2>2. remote' \in [Publication -> SUBSET (Res \X Content)]
    BY <1>8, <2>1 DEF TypeOK, ReconcileFails
  <2>3. /\ pub' \in [Proc -> [Publication -> {"none", "ok", "failed"}]] /\ faults' \in Nat
        /\ pending' \in [Proc -> [Res -> SUBSET Publication]] /\ reported' \in [Proc -> [Res -> Nat]]
    <3>1. Settle(p, q)
      BY <1>8 DEF ReconcileFails
    <3>2. faults' \in Nat
      BY <1>8 DEF TypeOK, ReconcileFails, Fault
    <3>3. pub' \in [Proc -> [Publication -> {"none", "ok", "failed"}]]
      BY <1>8 DEF TypeOK, ReconcileFails
    <3>4. QED
      BY <3>1, <3>2, <3>3, SettleType
  <2>4. QED
    BY <1>8, <2>2, <2>3 DEF TypeOK, ReconcileFails, world, command, progress
<1>9. ASSUME NEW p \in Proc, Commit(p) PROVE TypeOK'
  BY <1>9 DEF TypeOK, Commit, Goto, world, command, progress
<1>10. ASSUME NEW p \in Proc, NEW r \in Res, SaveDocument(p, r) PROVE TypeOK'
  <2>1. Target(p) \in [Res -> Entry]
    BY EntryMembers DEF TypeOK, Target
  <2>2. lock' \in [Res -> Entry]
    BY <1>10, <2>1 DEF TypeOK, SaveDocument
  <2>3. QED
    BY <1>10, <2>2 DEF TypeOK, SaveDocument, world, command, progress
<1>11. ASSUME NEW p \in Proc, Saved(p) PROVE TypeOK'
  BY <1>11 DEF TypeOK, Saved, Goto, world, command, progress
<1>12. ASSUME NEW p \in Proc, Close(p) PROVE TypeOK'
  BY <1>12, EntryMembers, ConstantsAssumption DEF TypeOK, Close, Goto, Idle, world, command, progress
<1>13. ASSUME NEW p \in Proc, Interrupt(p) PROVE TypeOK'
  BY <1>13, EntryMembers, ConstantsAssumption DEF TypeOK, Interrupt, Fault, Idle, world, command, progress
<1>14. ASSUME NEW r \in Res, Edit(r) PROVE TypeOK'
  BY <1>14 DEF TypeOK, Edit, world, command, progress
<1>15. ASSUME NEW d \in Decl, Release(d) PROVE TypeOK'
  BY <1>15 DEF TypeOK, Release, world, command, progress
<1>16. CASE UNCHANGED vars
  BY <1>16 DEF TypeOK, vars, world, command, progress
<1>17. QED
  BY <1>1, <1>2, <1>3, <1>4, <1>5, <1>6, <1>7, <1>8, <1>9, <1>10, <1>11, <1>12, <1>13, <1>14, <1>15, <1>16 DEF Next, Step

\* Every step leaves at most one command with the lock.
LEMMA AloneStep ==
    ASSUME EngineInv, [Next]_vars
    PROVE  Alone'
<1> USE DEF EngineInv
<1>1. ASSUME NEW p \in Proc, NEW m \in {"update", "apply"}, NEW S \in SUBSET Res, NEW w \in BOOLEAN, Start(p, m, S, w) PROVE Alone'
  BY <1>1 DEF Alone, Start, Goto, world, command, progress
<1>2. ASSUME NEW p \in Proc, Begin(p) PROVE Alone'
  BY <1>2 DEF Alone, Begin, Goto, CanLock, world, command, progress
<1>3. ASSUME NEW p \in Proc, BeginFails(p) PROVE Alone'
  BY <1>3 DEF Alone, BeginFails, Goto, CanLock, Idle, world, command, progress
<1>4. ASSUME NEW p \in Proc, NEW r \in Res, Prepare(p, r) PROVE Alone'
  BY <1>4 DEF Alone, Prepare, Observes, CanPrepare, Complete, world, command, progress
<1>5. ASSUME NEW p \in Proc, NEW r \in Res, PrepareFails(p, r) PROVE Alone'
  BY <1>5 DEF Alone, PrepareFails, Observes, CanPrepare, Complete, Fault, world, command, progress
<1>6. ASSUME NEW p \in Proc, NEW q \in Publication, Reconcile(p, q) PROVE Alone'
  BY <1>6 DEF Alone, Reconcile, CanReconcile, Settle, Complete, world, command, progress
<1>7. ASSUME NEW p \in Proc, NEW q \in Publication, ReconcileUnready(p, q) PROVE Alone'
  BY <1>7 DEF Alone, ReconcileUnready, CanReconcile, world, command, progress
<1>8. ASSUME NEW p \in Proc, NEW q \in Publication, ReconcileFails(p, q) PROVE Alone'
  BY <1>8 DEF Alone, ReconcileFails, CanReconcile, Settle, Complete, Fault, world, command, progress
<1>9. ASSUME NEW p \in Proc, Commit(p) PROVE Alone'
  BY <1>9 DEF Alone, Commit, Goto, world, command, progress
<1>10. ASSUME NEW p \in Proc, NEW r \in Res, SaveDocument(p, r) PROVE Alone'
  BY <1>10 DEF Alone, SaveDocument, world, command, progress
<1>11. ASSUME NEW p \in Proc, Saved(p) PROVE Alone'
  BY <1>11 DEF Alone, Saved, Goto, world, command, progress
<1>12. ASSUME NEW p \in Proc, Close(p) PROVE Alone'
  BY <1>12 DEF Alone, Close, Goto, Idle, world, command, progress
<1>13. ASSUME NEW p \in Proc, Interrupt(p) PROVE Alone'
  BY <1>13 DEF Alone, Interrupt, Fault, Idle, world, command, progress
<1>14. ASSUME NEW r \in Res, Edit(r) PROVE Alone'
  BY <1>14 DEF Alone, Edit, world, command, progress
<1>15. ASSUME NEW d \in Decl, Release(d) PROVE Alone'
  BY <1>15 DEF Alone, Release, world, command, progress
<1>16. CASE UNCHANGED vars
  BY <1>16 DEF Alone, vars
<1>17. QED
  BY <1>1, <1>2, <1>3, <1>4, <1>5, <1>6, <1>7, <1>8, <1>9, <1>10, <1>11, <1>12, <1>13, <1>14, <1>15, <1>16 DEF Next, Step

\* Nothing that belongs to one process changes.
Same(x) ==
    /\ pc'[x] = pc[x] /\ method'[x] = method[x] /\ roots'[x] = roots[x] /\ whole'[x] = whole[x] /\ cfg'[x] = cfg[x]
    /\ old'[x] = old[x] /\ seen'[x] = seen[x] /\ staged'[x] = staged[x] /\ prep'[x] = prep[x] /\ pub'[x] = pub[x]
    /\ pending'[x] = pending[x] /\ reported'[x] = reported[x]

\* Then what holds of it still holds, when the documents it relies on stay.
LEMMA SameAt ==
    ASSUME NEW x \in Proc, At(x), Same(x), lock' = lock \/ pc[x] \notin {"run", "save"}
    PROVE  At(x)'
<1>1. Fresh(x)'
  BY DEF At, Same, Fresh
<1>2. Loaded(x)'
  BY DEF At, Same, Loaded, selected
<1>3. Staged(x)'
  BY DEF At, Same, Staged, selected
<1>4. Target(x)' = Target(x)
  BY DEF Same, Target, selected
<1>5. Locked(x)'
  BY <1>4 DEF At, Same, Locked
<1>6. Waiting(x)'
  BY DEF At, Same, Waiting, selected
<1>7. QED
  BY <1>1, <1>2, <1>3, <1>5, <1>6 DEF At

\* A command that ends leaves nothing behind.
LEMMA IdleAt ==
    ASSUME TypeOK, NEW p \in Proc, Idle(p), pc' = [pc EXCEPT ![p] = "idle"]
    PROVE  At(p)' /\ \A x \in Proc : x # p => Same(x)
<1>1. /\ pc'[p] = "idle"
      /\ prep'[p] = [r \in Res |-> "none"] /\ reported'[p] = [r \in Res |-> 0]
      /\ pub'[p] = [q \in Publication |-> "none"] /\ seen'[p] = [d \in Decl |-> None]
  BY DEF Idle, TypeOK
<1>2. Fresh(p)' /\ Staged(p)'
  BY <1>1 DEF Fresh, Staged
<1>3. Loaded(p)' /\ Locked(p)' /\ Waiting(p)'
  BY <1>1 DEF Loaded, Locked, Waiting, Held
<1>4. \A x \in Proc : x # p => Same(x)
  BY DEF Same, Idle, TypeOK
<1>5. QED
  BY <1>2, <1>3, <1>4 DEF At

\* While one command holds the lock no other relies on the documents.
LEMMA HolderAlone ==
    ASSUME TypeOK, Alone, NEW p \in Proc, pc[p] \in Held, NEW x \in Proc, x # p
    PROVE  pc[x] \notin Held
BY DEF TypeOK, Alone, Held

\* A publication that is settled leaves its resource waiting for the others.
LEMMA SettledAt ==
    ASSUME EngineInv, NEW p \in Proc, NEW q \in Publication, Settle(p, q), q[1] \in Res,
           pc[p] = "run", method[p] = "apply", q[1] \in selected(p), prep[p][q[1]] = "ready", pub[p][q] = "none",
           NEW o \in {"ok", "failed"}, pub'[p] = [pub[p] EXCEPT ![q] = o],
           UNCHANGED <<pc, lock, command, old, seen, staged, prep>>
    PROVE  At(p)'
<1> DEFINE r == q[1]
<1>1. selected(p)' = selected(p) /\ cfg' = cfg /\ method' = method /\ roots' = roots /\ whole' = whole
  BY DEF selected, command
<1>2. Target(p)' = Target(p)
  BY <1>1 DEF Target
<1>3. Fresh(p)' /\ Loaded(p)' /\ Staged(p)' /\ Locked(p)'
  BY <1>1, <1>2 DEF EngineInv, At, Fresh, Loaded, Staged, Locked
<1>4. Waiting(p) /\ pc[p] \in Held /\ TypeOK
  BY DEF EngineInv, At, Held
<1>5. /\ pending'[p] = [pending[p] EXCEPT ![r] = pending[p][r] \ {q}]
      /\ reported'[p] = IF pending[p][r] = {q} THEN [reported[p] EXCEPT ![r] = reported[p][r] + 1] ELSE reported[p]
  BY <1>4, SettleType
<1>6. q \in pending[p][r] /\ reported[p][r] = 0
  <2>1. pending[p][r] = {x \in Publication : method[p] = "apply" /\ x[1] = r /\ r \in selected(p) /\ pub[p][x] = "none"}
    BY <1>4 DEF Waiting
  <2>2. q \in pending[p][r]
    BY <2>1
  <2>3. QED
    BY <1>4, <2>2 DEF Waiting
<1>7. \A x \in Publication : pub'[p][x] = IF x = q THEN o ELSE pub[p][x]
  BY <1>4 DEF TypeOK
<1>8. ASSUME NEW s \in Res, s # r
      PROVE  /\ pending'[p][s] = pending[p][s] /\ reported'[p][s] = reported[p][s]
             /\ \A x \in Publication : x[1] = s => pub'[p][x] = pub[p][x]
  BY <1>4, <1>5, <1>7, <1>8 DEF TypeOK
<1>9. pending'[p][r] = {x \in Publication : method[p] = "apply" /\ x[1] = r /\ r \in selected(p) /\ pub'[p][x] = "none"}
  <2>1. pending'[p][r] = pending[p][r] \ {q}
    BY <1>4, <1>5 DEF TypeOK
  <2>2. pending[p][r] = {x \in Publication : method[p] = "apply" /\ x[1] = r /\ r \in selected(p) /\ pub[p][x] = "none"}
    BY <1>4 DEF Waiting
  <2>3. QED
    BY <1>7, <2>1, <2>2
<1>10. reported'[p][r] = IF pending'[p][r] = {} THEN 1 ELSE 0
  <2>1. pending'[p][r] = pending[p][r] \ {q}
    BY <1>4, <1>5 DEF TypeOK
  <2>2. pending'[p][r] = {} <=> pending[p][r] = {q}
    BY <1>6, <2>1
  <2>3. QED
    BY <1>4, <1>5, <1>6, <2>2 DEF TypeOK
<1>11. ASSUME NEW s \in Res
       PROVE  /\ prep'[p][s] # "failed" =>
                    pending'[p][s] = {x \in Publication : method'[p] = "apply" /\ x[1] = s /\ s \in selected(p)' /\ pub'[p][x] = "none"}
              /\ prep'[p][s] = "none" => reported'[p][s] = 0 /\ \A x \in Publication : x[1] = s => pub'[p][x] = "none"
              /\ prep'[p][s] = "failed" => reported'[p][s] = 1
              /\ prep'[p][s] = "ready" => reported'[p][s] = IF pending'[p][s] = {} THEN 1 ELSE 0
  <2>1. CASE s = r
    BY <1>1, <1>9, <1>10, <2>1
  <2>2. CASE s # r
    BY <1>1, <1>4, <1>8, <2>2 DEF Waiting
  <2>3. QED
    BY <2>1, <2>2
<1>12. Waiting(p)'
  BY <1>11 DEF Waiting
<1>13. QED
  BY <1>3, <1>12 DEF At

\* Every step keeps what each command relies on.
LEMMA AtStep ==
    ASSUME EngineInv, [Next]_vars
    PROVE  \A x \in Proc : At(x)'
<1>0. TypeOK /\ Alone /\ \A x \in Proc : At(x)
  BY DEF EngineInv
<1> USE <1>0
<1>1. ASSUME NEW p \in Proc, NEW m \in {"update", "apply"}, NEW S \in SUBSET Res, NEW w \in BOOLEAN, Start(p, m, S, w) PROVE \A x \in Proc : At(x)'
  <2>1. ASSUME NEW x \in Proc, x # p PROVE At(x)'
    <3>1. Same(x) /\ lock' = lock
      BY <1>1, <2>1 DEF Same, TypeOK, Start, Goto, world, command, progress
    <3>2. QED
      BY <3>1, SameAt
  <2>2. At(p)'
    <3>1. /\ pc'[p] = "locking" /\ pc[p] = "idle" /\ method'[p] = m /\ whole'[p] = w /\ roots'[p] = S /\ cfg'[p] = declared
          /\ UNCHANGED <<prep, reported, pub, seen>>
      BY <1>1 DEF TypeOK, Start, Goto, progress
    <3>2. Fresh(p)' /\ Staged(p)'
      BY <3>1 DEF EngineInv, At, Fresh, Staged
    <3>3. Loaded(p)'
      BY <1>1, <3>1 DEF Start, Loaded, Held
    <3>4. Locked(p)' /\ Waiting(p)'
      BY <3>1 DEF Locked, Waiting, Held
    <3>5. QED
      BY <3>2, <3>3, <3>4 DEF At
  <2>3. QED
    BY <2>1, <2>2
<1>2. ASSUME NEW p \in Proc, Begin(p) PROVE \A x \in Proc : At(x)'
  <2>1. ASSUME NEW x \in Proc, x # p PROVE At(x)'
    <3>1. Same(x) /\ lock' = lock
      BY <1>2, <2>1 DEF Same, TypeOK, Begin, Goto, world, command, progress
    <3>2. QED
      BY <3>1, SameAt
  <2>2. At(p)'
    <3>1. /\ pc'[p] = "run" /\ pc[p] = "locking" /\ old'[p] = lock /\ lock' = lock
          /\ pending'[p] = [r \in Res |-> IF method[p] = "apply" THEN Publications(selected(p) \cap {r}) ELSE {}]
          /\ UNCHANGED <<prep, reported, pub, seen, command>>
      BY <1>2 DEF TypeOK, Begin, Goto
    <3>2. /\ \A r \in Res : prep'[p][r] = "none" /\ reported'[p][r] = 0
          /\ \A q \in Publication : pub'[p][q] = "none"
      BY <3>1 DEF EngineInv, At, Fresh
    <3>3. Fresh(p)' /\ Staged(p)' /\ Locked(p)'
      BY <3>1, <3>2 DEF Fresh, Staged, Locked
    <3>4. Loaded(p)'
      BY <1>2, <3>1 DEF Begin, Begins, Discovers, EngineInv, At, Loaded, selected, command
    <3>5. selected(p)' = selected(p) /\ method'[p] = method[p]
      BY <3>1 DEF selected, command
    <3>6. ASSUME NEW r \in Res
          PROVE  pending'[p][r] = {q \in Publication : method'[p] = "apply" /\ q[1] = r /\ r \in selected(p)' /\ pub'[p][q] = "none"}
      BY <3>1, <3>2, <3>5 DEF Publications
    <3>7. Waiting(p)'
      BY <3>2, <3>6 DEF Waiting
    <3>8. QED
      BY <3>3, <3>4, <3>7 DEF At
  <2>3. QED
    BY <2>1, <2>2
<1>3. ASSUME NEW p \in Proc, BeginFails(p) PROVE \A x \in Proc : At(x)'
  <2>1. Idle(p) /\ pc' = [pc EXCEPT ![p] = "idle"] /\ lock' = lock
    BY <1>3 DEF BeginFails, Goto
  <2>2. At(p)' /\ \A x \in Proc : x # p => Same(x)
    BY <2>1, IdleAt
  <2>3. QED
    BY <2>1, <2>2, SameAt
<1>4. ASSUME NEW p \in Proc, NEW r \in Res, Prepare(p, r) PROVE \A x \in Proc : At(x)'
  <2>1. ASSUME NEW x \in Proc, x # p PROVE At(x)'
    <3>1. reported'[x] = reported[x] /\ lock' = lock
      BY <1>4, <2>1, CompleteType DEF Prepare
    <3>2. Same(x)
      BY <1>4, <2>1, <3>1 DEF Same, TypeOK, Prepare, Observes, command
    <3>3. QED
      BY <3>1, <3>2, SameAt
  <2>2. At(p)'
    <3>1. /\ pc[p] = "run" /\ pc'[p] = "run" /\ lock' = lock /\ prep'[p] = [prep[p] EXCEPT ![r] = "ready"]
          /\ staged'[p] = [staged[p] EXCEPT ![r] = Acquired(p, r)] /\ r \in selected(p) /\ prep[p][r] = "none"
          /\ seen'[p] = IF method[p] = "update" THEN [seen[p] EXCEPT ![cfg[p][r]] = Acquired(p, r).content] ELSE seen[p]
          /\ UNCHANGED <<command, old, pub, pending>>
      BY <1>4 DEF TypeOK, Prepare, Observes, CanPrepare
    <3>2. selected(p)' = selected(p) /\ cfg' = cfg /\ method' = method /\ roots' = roots /\ whole' = whole
      BY <3>1 DEF selected, command
    <3>3. Fresh(p)' /\ Loaded(p)' /\ Locked(p)'
      BY <3>1, <3>2 DEF EngineInv, At, Fresh, Loaded, Locked
    <3>4. Staged(p)'
      <4>1. Staged(p) /\ Loaded(p)
        BY DEF EngineInv, At
      <4>2. \A s \in Producers[r] : s \in Res /\ s # r /\ prep[p][s] = "ready"
        BY <1>4, ConstantsAssumption DEF Prepare, Observes, CanPrepare, Blocked
      <4>3. Acquired(p, r).decl = cfg[p][r] /\ Acquired(p, r).content \in Content /\ cfg[p][r] \in Decl
        BY <1>4, AcquiredType DEF Prepare
      <4>4. prep'[p][r] = "ready" /\ staged'[p][r] = Acquired(p, r) /\ \A s \in Res \ {r} : prep'[p][s] = prep[p][s] /\ staged'[p][s] = staged[p][s]
        BY <3>1 DEF TypeOK
      <4>5. ASSUME method[p] = "update", NEW s \in Res, prep'[p][s] = "ready"
            PROVE  seen'[p][cfg[p][s]] # None /\ staged'[p][s] = [decl |-> cfg[p][s], content |-> seen'[p][cfg[p][s]]]
        <5>1. seen'[p][cfg[p][r]] = Acquired(p, r).content
          BY <3>1, <4>3, <4>5 DEF TypeOK
        <5>2. Acquired(p, r) = [decl |-> cfg[p][r], content |-> Acquired(p, r).content]
          BY <4>5 DEF Acquired
        <5>3. CASE s = r
          BY <4>3, <4>4, <5>1, <5>2, <5>3, NoneApart
        <5>4. CASE s # r
          <6>1. seen[p][cfg[p][s]] # None /\ staged[p][s] = [decl |-> cfg[p][s], content |-> seen[p][cfg[p][s]]]
            BY <4>1, <4>4, <4>5, <5>4 DEF Staged
          <6>2. seen'[p][cfg[p][s]] = seen[p][cfg[p][s]]
            <7>1. CASE cfg[p][s] = cfg[p][r]
              BY <4>5, <5>1, <6>1, <7>1 DEF Acquired
            <7>2. CASE cfg[p][s] # cfg[p][r]
              <8>1. s \in selected(p)
                BY <4>1, <4>4, <4>5, <5>4 DEF Staged
              <8>2. cfg[p][s] \in Decl
                BY <3>1, <4>1, <8>1 DEF Loaded, Held, Declared, TypeOK
              <8>3. QED
                BY <3>1, <4>3, <4>5, <7>2, <8>2 DEF TypeOK
            <7>3. QED
              BY <7>1, <7>2
          <6>3. QED
            BY <4>4, <5>4, <6>1, <6>2
        <5>5. QED
          BY <5>3, <5>4
      <4>6. ASSUME method[p] = "apply", NEW s \in Res, prep'[p][s] = "ready"
            PROVE  staged'[p][s] = old[p][s] /\ old[p][s].decl = cfg[p][s]
        <5>1. CASE s = r
          BY <1>4, <4>4, <4>6, <5>1 DEF Prepare, Acquired, Answers
        <5>2. CASE s # r
          BY <4>1, <4>4, <4>6, <5>2 DEF Staged
        <5>3. QED
          BY <5>1, <5>2
      <4>7. ASSUME NEW s \in Res, prep'[p][s] = "ready", NEW t \in Producers[s]
            PROVE  prep'[p][t] = "ready"
        <5>1. t \in Res
          BY ConstantsAssumption
        <5>2. CASE s = r
          BY <4>2, <4>4, <5>2
        <5>3. CASE s # r
          BY <4>1, <4>4, <4>7, <5>1, <5>3 DEF Staged
        <5>4. QED
          BY <5>2, <5>3
      <4>8. \A s \in Res : prep'[p][s] # "none" => s \in selected(p)'
        BY <3>1, <3>2, <4>1, <4>4 DEF Staged
      <4>9. old' = old
        BY <3>1
      <4>10. QED
        BY <3>2, <4>5, <4>6, <4>7, <4>8, <4>9 DEF Staged
    <3>5. Waiting(p)'
      <4>1. Waiting(p)
        BY DEF EngineInv, At
      <4>2. /\ pending[p][r] = {} => reported'[p] = [reported[p] EXCEPT ![r] = reported[p][r] + 1]
            /\ pending[p][r] # {} => reported'[p] = reported[p]
        BY <1>4, CompleteType DEF Prepare
      <4>3. reported[p][r] = 0
        BY <3>1, <4>1 DEF Waiting, Held
      <4>4. reported'[p][r] = (IF pending[p][r] = {} THEN 1 ELSE 0) /\ \A s \in Res \ {r} : reported'[p][s] = reported[p][s]
        BY <4>2, <4>3 DEF TypeOK
      <4>5. prep'[p][r] = "ready" /\ \A s \in Res \ {r} : prep'[p][s] = prep[p][s]
        BY <3>1 DEF TypeOK
      <4>6. pending' = pending /\ pub' = pub /\ pc[p] \in Held
        BY <3>1 DEF Held
      <4>7. QED
        BY <3>1, <3>2, <4>1, <4>4, <4>5, <4>6 DEF Waiting
    <3>6. QED
      BY <3>3, <3>4, <3>5 DEF At
  <2>3. QED
    BY <2>1, <2>2
<1>5. ASSUME NEW p \in Proc, NEW r \in Res, PrepareFails(p, r) PROVE \A x \in Proc : At(x)'
  <2>1. ASSUME NEW x \in Proc, x # p PROVE At(x)'
    <3>1. reported'[x] = reported[x] /\ seen'[x] = seen[x] /\ lock' = lock
      BY <1>5, <2>1, CompleteType, ObservesOnce DEF PrepareFails
    <3>2. Same(x)
      BY <1>5, <2>1, <3>1 DEF Same, TypeOK, PrepareFails, command
    <3>3. QED
      BY <3>1, <3>2, SameAt
  <2>2. At(p)'
    <3>1. /\ pc[p] = "run" /\ pc'[p] = "run" /\ lock' = lock /\ prep'[p] = [prep[p] EXCEPT ![r] = "failed"]
          /\ r \in selected(p) /\ prep[p][r] = "none"
          /\ UNCHANGED <<command, old, staged, pub, pending>>
      BY <1>5 DEF TypeOK, PrepareFails, CanPrepare
    <3>2. selected(p)' = selected(p) /\ cfg' = cfg /\ method' = method /\ roots' = roots /\ whole' = whole
      BY <3>1 DEF selected, command
    <3>3. Fresh(p)' /\ Loaded(p)' /\ Locked(p)'
      BY <3>1, <3>2 DEF EngineInv, At, Fresh, Loaded, Locked
    <3>4. prep'[p][r] = "failed" /\ \A s \in Res \ {r} : prep'[p][s] = prep[p][s]
      BY <3>1 DEF TypeOK
    <3>5. Staged(p)'
      <4>1. Staged(p)
        BY DEF EngineInv, At
      <4>2. \A s \in Res : prep[p][s] = "ready" => prep'[p][s] = "ready"
        BY <3>1, <3>4
      <4>3. \A s \in Res : prep'[p][s] = "ready" => prep[p][s] = "ready"
        BY <3>4
      <4>4. \A s \in Res : Producers[s] \subseteq Res
        BY ConstantsAssumption
      <4>5. \A s \in Res : prep'[p][s] # "none" => s \in selected(p)'
        BY <3>1, <3>2, <3>4, <4>1 DEF Staged
      <4>6. ASSUME NEW s \in Res, prep[p][s] = "ready", method[p] = "update"
            PROVE  seen'[p][cfg[p][s]] = seen[p][cfg[p][s]]
        <5>1. seen[p][cfg[p][s]] # None /\ s \in selected(p)
          BY <4>1, <4>6 DEF Staged
        <5>2. cfg[p][s] \in Decl /\ seen \in [Proc -> [Decl -> Content \cup {None}]]
          BY <3>1, <5>1 DEF EngineInv, At, Loaded, Held, Declared, TypeOK
        <5>3. \/ seen' = seen
              \/ cfg[p][r] \in Decl /\ seen[p][cfg[p][r]] = None /\ seen'[p] = [seen[p] EXCEPT ![cfg[p][r]] = upstream[cfg[p][r]]]
          BY <1>5, ObservesOnce DEF PrepareFails
        <5>4. QED
          BY <5>1, <5>2, <5>3
      <4>7. ASSUME NEW s \in Res, prep'[p][s] = "ready"
            PROVE  /\ \A t \in Producers[s] : prep'[p][t] = "ready"
                   /\ method[p] = "apply" => staged[p][s] = old[p][s] /\ old[p][s].decl = cfg[p][s]
                   /\ method[p] = "update" =>
                        /\ seen'[p][cfg[p][s]] # None
                        /\ staged[p][s] = [decl |-> cfg[p][s], content |-> seen'[p][cfg[p][s]]]
        BY <4>1, <4>2, <4>3, <4>4, <4>6, <4>7 DEF Staged
      <4>8. staged' = staged /\ old' = old
        BY <3>1
      <4>9. QED
        BY <3>2, <4>5, <4>7, <4>8 DEF Staged
    <3>6. Waiting(p)'
      <4>1. Waiting(p) /\ pc[p] \in Held
        BY <3>1 DEF EngineInv, At, Held
      <4>2. reported'[p] = [reported[p] EXCEPT ![r] = reported[p][r] + 1]
        BY <1>5, CompleteType DEF PrepareFails
      <4>3. reported'[p][r] = 1 /\ \A s \in Res \ {r} : reported'[p][s] = reported[p][s]
        BY <3>1, <4>1, <4>2 DEF Waiting, TypeOK
      <4>4. QED
        BY <3>1, <3>2, <3>4, <4>1, <4>3 DEF Waiting
    <3>7. QED
      BY <3>3, <3>5, <3>6 DEF At
  <2>3. QED
    BY <2>1, <2>2
<1>6. ASSUME NEW p \in Proc, NEW q \in Publication, Reconcile(p, q) PROVE \A x \in Proc : At(x)'
  <2>1. ASSUME NEW x \in Proc, x # p PROVE At(x)'
    <3>1. Settle(p, q) /\ lock' = lock
      BY <1>6 DEF Reconcile
    <3>2. reported'[x] = reported[x] /\ pending'[x] = pending[x]
      BY <2>1, <3>1, SettleType
    <3>3. Same(x)
      BY <1>6, <2>1, <3>2 DEF Same, TypeOK, Reconcile, command
    <3>4. QED
      BY <3>1, <3>3, SameAt
  <2>2. At(p)'
    <3>0. q[1] \in Res
      BY PublicationType
    <3>1. /\ pc[p] = "run" /\ method[p] = "apply" /\ q[1] \in selected(p) /\ prep[p][q[1]] = "ready" /\ pub[p][q] = "none"
          /\ pub'[p] = [pub[p] EXCEPT ![q] = "ok"] /\ Settle(p, q)
          /\ UNCHANGED <<pc, lock, command, old, seen, staged, prep>>
      BY <1>6 DEF TypeOK, Reconcile, CanReconcile
    <3>2. QED
      BY <3>0, <3>1, SettledAt
  <2>3. QED
    BY <2>1, <2>2
<1>7. ASSUME NEW p \in Proc, NEW q \in Publication, ReconcileUnready(p, q) PROVE \A x \in Proc : At(x)'
  <2>1. ASSUME NEW x \in Proc, x # p PROVE At(x)'
    <3>1. Same(x) /\ lock' = lock
      BY <1>7, <2>1 DEF Same, TypeOK, ReconcileUnready, Goto, world, command, progress
    <3>2. QED
      BY <3>1, SameAt
  <2>2. At(p)'
    <3>0. q[1] \in Res
      BY PublicationType
    <3>1. /\ pc[p] = "run" /\ prep[p][q[1]] = "failed" /\ pub'[p] = [pub[p] EXCEPT ![q] = "failed"]
          /\ UNCHANGED <<pc, lock, command, old, seen, staged, prep, pending, reported>>
      BY <1>7, <3>0 DEF TypeOK, ReconcileUnready, CanReconcile
    <3>2. selected(p)' = selected(p) /\ cfg' = cfg /\ method' = method /\ roots' = roots /\ whole' = whole
      BY <3>1 DEF selected, command
    <3>3. Target(p)' = Target(p)
      BY <3>1, <3>2 DEF Target
    <3>4. Fresh(p)' /\ Loaded(p)' /\ Staged(p)' /\ Locked(p)'
      BY <3>1, <3>2, <3>3 DEF EngineInv, At, Fresh, Loaded, Staged, Locked
    <3>5. \A x \in Publication : x[1] # q[1] => pub'[p][x] = pub[p][x]
      BY <3>1 DEF TypeOK
    <3>6. Waiting(p)'
      <4>1. Waiting(p)
        BY DEF EngineInv, At
      <4>2. \A r \in Res : prep[p][r] # "failed" => r # q[1]
        BY <3>1
      <4>3. QED
        BY <3>1, <3>2, <3>5, <4>1, <4>2 DEF Waiting
    <3>7. QED
      BY <3>4, <3>6 DEF At
  <2>3. QED
    BY <2>1, <2>2
<1>8. ASSUME NEW p \in Proc, NEW q \in Publication, ReconcileFails(p, q) PROVE \A x \in Proc : At(x)'
  <2>1. ASSUME NEW x \in Proc, x # p PROVE At(x)'
    <3>1. Settle(p, q) /\ lock' = lock
      BY <1>8 DEF ReconcileFails
    <3>2. reported'[x] = reported[x] /\ pending'[x] = pending[x]
      BY <2>1, <3>1, SettleType
    <3>3. Same(x)
      BY <1>8, <2>1, <3>2 DEF Same, TypeOK, ReconcileFails, command
    <3>4. QED
      BY <3>1, <3>3, SameAt
  <2>2. At(p)'
    <3>0. q[1] \in Res
      BY PublicationType
    <3>1. /\ pc[p] = "run" /\ method[p] = "apply" /\ q[1] \in selected(p) /\ prep[p][q[1]] = "ready" /\ pub[p][q] = "none"
          /\ pub'[p] = [pub[p] EXCEPT ![q] = "failed"] /\ Settle(p, q)
          /\ UNCHANGED <<pc, lock, command, old, seen, staged, prep>>
      BY <1>8 DEF TypeOK, ReconcileFails, CanReconcile
    <3>2. QED
      BY <3>0, <3>1, SettledAt
  <2>3. QED
    BY <2>1, <2>2
<1>9. ASSUME NEW p \in Proc, Commit(p) PROVE \A x \in Proc : At(x)'
  <2>1. ASSUME NEW x \in Proc, x # p PROVE At(x)'
    <3>1. Same(x) /\ lock' = lock
      BY <1>9, <2>1 DEF Same, TypeOK, Commit, Goto, world, command, progress
    <3>2. QED
      BY <3>1, SameAt
  <2>2. At(p)'
    <3>1. /\ pc[p] = "run" /\ pc'[p] = (IF method[p] = "update" THEN "save" ELSE "close")
          /\ UNCHANGED <<lock, command, progress>>
      BY <1>9 DEF TypeOK, Commit, Goto
    <3>2. selected(p)' = selected(p) /\ cfg' = cfg /\ method' = method /\ roots' = roots /\ whole' = whole
      BY <3>1 DEF selected, command
    <3>3. Fresh(p)' /\ Loaded(p)' /\ Staged(p)' /\ Locked(p)'
      BY <3>1, <3>2 DEF EngineInv, At, Fresh, Loaded, Staged, Locked, Held, progress
    <3>4. Waiting(p)'
      BY <3>1, <3>2 DEF EngineInv, At, Waiting, Held, progress
    <3>5. QED
      BY <3>3, <3>4 DEF At
  <2>3. QED
    BY <2>1, <2>2
<1>10. ASSUME NEW p \in Proc, NEW r \in Res, SaveDocument(p, r) PROVE \A x \in Proc : At(x)'
  <2>1. ASSUME NEW x \in Proc, x # p PROVE At(x)'
    <3>1. Same(x)
      BY <1>10, <2>1 DEF Same, SaveDocument, world, command, progress
    <3>2. pc[x] \notin {"run", "save"}
      BY <1>10, <2>1, HolderAlone DEF SaveDocument, Held
    <3>3. QED
      BY <3>1, <3>2, SameAt
  <2>2. At(p)'
    <3>1. pc[p] = "save" /\ lock' = [lock EXCEPT ![r] = Target(p)[r]] /\ UNCHANGED <<pc, command, progress>>
      BY <1>10 DEF SaveDocument
    <3>2. selected(p)' = selected(p) /\ cfg' = cfg /\ method' = method /\ roots' = roots /\ whole' = whole
      BY <3>1 DEF selected, command
    <3>3. Target(p)' = Target(p)
      BY <3>1, <3>2 DEF Target, progress
    <3>4. Fresh(p)' /\ Loaded(p)' /\ Staged(p)' /\ Waiting(p)'
      BY <3>1, <3>2 DEF EngineInv, At, Fresh, Loaded, Staged, Waiting, progress
    <3>5. Locked(p)'
      BY <3>1, <3>3 DEF EngineInv, At, Locked, TypeOK, progress
    <3>6. QED
      BY <3>4, <3>5 DEF At
  <2>3. QED
    BY <2>1, <2>2
<1>11. ASSUME NEW p \in Proc, Saved(p) PROVE \A x \in Proc : At(x)'
  <2>1. ASSUME NEW x \in Proc, x # p PROVE At(x)'
    <3>1. Same(x) /\ lock' = lock
      BY <1>11, <2>1 DEF Same, TypeOK, Saved, Goto, world, command, progress
    <3>2. QED
      BY <3>1, SameAt
  <2>2. At(p)'
    <3>1. pc[p] = "save" /\ pc'[p] = "close" /\ UNCHANGED <<lock, command, progress>>
      BY <1>11 DEF TypeOK, Saved, Goto
    <3>2. selected(p)' = selected(p) /\ cfg' = cfg /\ method' = method /\ roots' = roots /\ whole' = whole
      BY <3>1 DEF selected, command
    <3>3. Fresh(p)' /\ Loaded(p)' /\ Staged(p)' /\ Locked(p)'
      BY <3>1, <3>2 DEF EngineInv, At, Fresh, Loaded, Staged, Locked, Held, progress
    <3>4. Waiting(p)'
      BY <3>1, <3>2 DEF EngineInv, At, Waiting, Held, progress
    <3>5. QED
      BY <3>3, <3>4 DEF At
  <2>3. QED
    BY <2>1, <2>2
<1>12. ASSUME NEW p \in Proc, Close(p) PROVE \A x \in Proc : At(x)'
  <2>1. Idle(p) /\ pc' = [pc EXCEPT ![p] = "idle"] /\ lock' = lock
    BY <1>12 DEF Close, Goto
  <2>2. At(p)' /\ \A x \in Proc : x # p => Same(x)
    BY <2>1, IdleAt
  <2>3. QED
    BY <2>1, <2>2, SameAt
<1>13. ASSUME NEW p \in Proc, Interrupt(p) PROVE \A x \in Proc : At(x)'
  <2>1. Idle(p) /\ pc' = [pc EXCEPT ![p] = "idle"] /\ lock' = lock
    BY <1>13 DEF Interrupt
  <2>2. At(p)' /\ \A x \in Proc : x # p => Same(x)
    BY <2>1, IdleAt
  <2>3. QED
    BY <2>1, <2>2, SameAt
<1>14. ASSUME NEW r \in Res, Edit(r) PROVE \A x \in Proc : At(x)'
  <2>1. lock' = lock /\ \A x \in Proc : Same(x)
    BY <1>14 DEF Same, Edit, world, command, progress
  <2>2. QED
    BY <2>1, SameAt
<1>15. ASSUME NEW d \in Decl, Release(d) PROVE \A x \in Proc : At(x)'
  <2>1. lock' = lock /\ \A x \in Proc : Same(x)
    BY <1>15 DEF Same, Release, world, command, progress
  <2>2. QED
    BY <2>1, SameAt
<1>16. CASE UNCHANGED vars
  <2>1. lock' = lock /\ \A x \in Proc : Same(x)
    BY <1>16 DEF Same, vars, world, command, progress
  <2>2. QED
    BY <2>1, SameAt
<1>17. QED
  BY <1>1, <1>2, <1>3, <1>4, <1>5, <1>6, <1>7, <1>8, <1>9, <1>10, <1>11, <1>12, <1>13, <1>14, <1>15, <1>16 DEF Next, Step

\* The project before its first command satisfies the invariant.
LEMMA InvInit == Init => EngineInv
<1> SUFFICES ASSUME Init PROVE EngineInv
  OBVIOUS
<1>1. TypeOK
  BY EntryMembers, ConstantsAssumption DEF Init, TypeOK
<1>2. Alone
  BY DEF Init, Alone
<1>3. ASSUME NEW p \in Proc PROVE At(p)
  <2>1. Fresh(p) /\ Staged(p)
    BY DEF Init, Fresh, Staged
  <2>2. Loaded(p) /\ Locked(p) /\ Waiting(p)
    BY DEF Init, Loaded, Locked, Waiting, Held
  <2>3. QED
    BY <2>1, <2>2 DEF At
<1>4. QED
  BY <1>1, <1>2, <1>3 DEF EngineInv

\* The inductive invariant of the commands.
LEMMA EngineInvariant == Spec => []EngineInv
<1>1. EngineInv /\ [Next]_vars => EngineInv'
  BY TypeStep, AloneStep, AtStep DEF EngineInv
<1>2. QED
  BY <1>1, InvInit, PTL DEF Spec

\* The type invariant, with the project lock held exactly by the commands past it.
THEOREM TypeCorrect == Spec => []TypeOK
<1>1. EngineInv => TypeOK
  BY DEF EngineInv
<1>2. QED
  BY <1>1, EngineInvariant, PTL

\* lockfile.go:314: resources with one declaration take one observation, whenever
\* the source moves.
THEOREM ObservationShared == Spec => []OneObservation
<1>1. EngineInv => OneObservation
  <2> SUFFICES ASSUME EngineInv, NEW p \in Proc, NEW r \in Res, NEW s \in Res, method[p] = "update",
                      prep[p][r] = "ready", prep[p][s] = "ready", cfg[p][r] = cfg[p][s]
               PROVE  staged[p][r] = staged[p][s]
    BY DEF OneObservation
  <2>1. Staged(p)
    BY DEF EngineInv, At
  <2>2. QED
    BY <2>1 DEF Staged
<1>2. QED
  BY <1>1, EngineInvariant, PTL

\* run.go:58: each resource of a finished run has been reported once, whatever mix
\* of preparations, peers and destinations failed.
THEOREM ResultsReported == Spec => []ReportedOnce
<1>1. EngineInv => ReportedOnce
  <2> SUFFICES ASSUME EngineInv, NEW p \in Proc, NEW r \in Res
               PROVE  /\ reported[p][r] <= 1
                      /\ pc[p] = "run" /\ Finished(p) /\ r \in selected(p) => reported[p][r] = 1
    BY DEF ReportedOnce
  <2>1. TypeOK /\ Fresh(p) /\ Waiting(p)
    BY DEF EngineInv, At
  <2>2. prep[p][r] \in {"none", "ready", "failed"} /\ pc[p] \in {"idle", "locking"} \cup Held
    BY <2>1 DEF TypeOK, Held
  <2>3. reported[p][r] \in {0, 1}
    BY <2>1, <2>2 DEF Fresh, Waiting
  <2>4. ASSUME pc[p] = "run", Finished(p), r \in selected(p) PROVE reported[p][r] = 1
    <3>1. prep[p][r] # "none" /\ pc[p] \in Held
      BY <2>4 DEF Finished, Held
    <3>2. ASSUME prep[p][r] = "ready" PROVE pending[p][r] = {}
      <4>1. \A q \in Publication : method[p] = "apply" /\ q[1] = r => pub[p][q] # "none"
        BY <2>4 DEF Finished, Publications
      <4>2. pending[p][r] = {q \in Publication : method[p] = "apply" /\ q[1] = r /\ r \in selected(p) /\ pub[p][q] = "none"}
        BY <2>1, <3>1, <3>2 DEF Waiting
      <4>3. QED
        BY <4>1, <4>2
    <3>3. QED
      BY <2>1, <2>2, <3>1, <3>2 DEF Waiting
  <2>5. QED
    BY <2>3, <2>4
<1>2. QED
  BY <1>1, EngineInvariant, PTL

\* Which steps publish, and what.
LEMMA Publishes ==
    ASSUME EngineInv, [Next]_vars, NEW q \in Publication, remote'[q] # remote[q]
    PROVE  \E p \in Proc :
              /\ pc[p] = "run" /\ method[p] = "apply" /\ q[1] \in selected(p) /\ prep[p][q[1]] = "ready"
              /\ CanReconcile(p, q) /\ ~RequirementFailed(p, q) /\ remote'[q] = Payload(p, q[1])
<1> DEFINE Goal == \E p \in Proc :
              /\ pc[p] = "run" /\ method[p] = "apply" /\ q[1] \in selected(p) /\ prep[p][q[1]] = "ready"
              /\ CanReconcile(p, q) /\ ~RequirementFailed(p, q) /\ remote'[q] = Payload(p, q[1])
<1>1. remote \in [Publication -> SUBSET (Res \X Content)]
  BY DEF EngineInv, TypeOK
<1>2. ASSUME NEW p \in Proc, NEW x \in Publication, Reconcile(p, x) PROVE Goal
  BY <1>1, <1>2 DEF Reconcile, CanReconcile
<1>3. ASSUME NEW p \in Proc, NEW x \in Publication, ReconcileFails(p, x) PROVE Goal
  BY <1>1, <1>3 DEF ReconcileFails, CanReconcile
<1>4. ASSUME NEW p \in Proc, NEW m \in {"update", "apply"}, NEW S \in SUBSET Res, NEW w \in BOOLEAN, Start(p, m, S, w) PROVE FALSE
  BY <1>4 DEF Start
<1>5. ASSUME NEW p \in Proc,
             \/ Begin(p) \/ BeginFails(p) \/ Commit(p) \/ Saved(p) \/ Close(p) \/ Interrupt(p)
             \/ \E r \in Res : Prepare(p, r) \/ PrepareFails(p, r) \/ SaveDocument(p, r)
             \/ \E x \in Publication : ReconcileUnready(p, x)
      PROVE  FALSE
  BY <1>5 DEF Begin, BeginFails, Commit, Saved, Close, Interrupt, Prepare, PrepareFails, SaveDocument, ReconcileUnready
<1>6. ASSUME (\E r \in Res : Edit(r)) \/ (\E d \in Decl : Release(d)) \/ UNCHANGED vars PROVE FALSE
  BY <1>6 DEF Edit, Release, vars
<1>7. QED
  BY <1>2, <1>3, <1>4, <1>5, <1>6 DEF Next, Step

\* docs/content/reconcile.md:150: for every number of processes and resources, what
\* is published is what the lock documents say at that moment.
THEOREM PublicationReviewed == Spec => PublishedAsLocked
<1> DEFINE A == \A q \in Publication : remote'[q] # remote[q] =>
        \A x \in remote'[q] :
            /\ lock[x[1]].content = x[2]
            /\ \E p \in Proc : pc[p] = "run" /\ cfg[p][x[1]] = lock[x[1]].decl
<1>1. EngineInv /\ [Next]_vars => A
  <2> SUFFICES ASSUME EngineInv, [Next]_vars, NEW q \in Publication, remote'[q] # remote[q], NEW x \in remote'[q]
               PROVE  /\ lock[x[1]].content = x[2]
                      /\ \E p \in Proc : pc[p] = "run" /\ cfg[p][x[1]] = lock[x[1]].decl
    OBVIOUS
  <2>1. PICK p \in Proc : /\ pc[p] = "run" /\ method[p] = "apply" /\ prep[p][q[1]] = "ready"
                          /\ remote'[q] = Payload(p, q[1])
    BY Publishes
  <2>2. PICK s \in Closure({q[1]}) : x = <<s, staged[p][s].content>>
    BY <2>1 DEF Payload
  <2>3. s \in Res /\ prep[p][s] = "ready"
    BY <2>1, <2>2, PublicationType, ClosureReady
  <2>4. staged[p][s] = lock[s] /\ lock[s].decl = cfg[p][s]
    BY <2>1, <2>3, StagedReviewed
  <2>5. QED
    BY <2>1, <2>2, <2>4
<1>2. EngineInv /\ [Next]_vars => [A]_vars
  BY <1>1
<1>3. QED
  BY <1>2, EngineInvariant, PTL DEF Spec, PublishedAsLocked

\* docs/content/writing-plugins.md:362: peers are published and everything is
\* prepared before a publication that needs them.
THEOREM PeersReady == Spec => PeersFirst
<1> DEFINE A == \A q \in Publication : remote'[q] # remote[q] =>
        \E p \in Proc :
            /\ q[1] \in selected(p) /\ \A s \in Closure({q[1]}) : prep[p][s] = "ready"
            /\ \A x \in RequiredHere(p, q) : pub[p][x] = "ok"
<1>1. EngineInv /\ [Next]_vars => A
  <2> SUFFICES ASSUME EngineInv, [Next]_vars, NEW q \in Publication, remote'[q] # remote[q]
               PROVE  \E p \in Proc :
                        /\ q[1] \in selected(p) /\ \A s \in Closure({q[1]}) : prep[p][s] = "ready"
                        /\ \A x \in RequiredHere(p, q) : pub[p][x] = "ok"
    OBVIOUS
  <2>1. PICK p \in Proc : /\ q[1] \in selected(p) /\ prep[p][q[1]] = "ready"
                          /\ CanReconcile(p, q) /\ ~RequirementFailed(p, q)
    BY Publishes
  <2>2. \A s \in Closure({q[1]}) : prep[p][s] = "ready"
    BY <2>1, PublicationType, ClosureReady
  <2>3. ASSUME NEW x \in RequiredHere(p, q) PROVE pub[p][x] = "ok"
    <3>1. x \in Publication
      BY ConstantsAssumption DEF RequiredHere
    <3>2. pub[p][x] \in {"none", "ok", "failed"}
      BY <3>1 DEF EngineInv, TypeOK
    <3>3. QED
      BY <2>1, <3>2 DEF CanReconcile, RequirementFailed
  <2>4. QED
    BY <2>1, <2>2, <2>3
<1>2. EngineInv /\ [Next]_vars => [A]_vars
  BY <1>1
<1>3. QED
  BY <1>2, EngineInvariant, PTL DEF Spec, PeersFirst

\* Which steps write a lock document.
LEMMA Saves ==
    ASSUME EngineInv, [Next]_vars, NEW r \in Res, lock'[r] # lock[r]
    PROVE  \E p \in Proc : SaveDocument(p, r)
<1> DEFINE Goal == \E p \in Proc : SaveDocument(p, r)
<1>1. lock \in [Res -> Entry]
  BY DEF EngineInv, TypeOK
<1>2. ASSUME NEW p \in Proc, NEW s \in Res, SaveDocument(p, s) PROVE Goal
  <2>1. s = r
    BY <1>1, <1>2 DEF SaveDocument
  <2>2. QED
    BY <1>2, <2>1
<1>3. ASSUME NEW p \in Proc, NEW m \in {"update", "apply"}, NEW S \in SUBSET Res, NEW w \in BOOLEAN, Start(p, m, S, w) PROVE FALSE
  BY <1>3 DEF Start
<1>4. ASSUME NEW p \in Proc,
             \/ Begin(p) \/ BeginFails(p) \/ Commit(p) \/ Saved(p) \/ Close(p) \/ Interrupt(p)
             \/ \E s \in Res : Prepare(p, s) \/ PrepareFails(p, s)
             \/ \E x \in Publication : Reconcile(p, x) \/ ReconcileUnready(p, x) \/ ReconcileFails(p, x)
      PROVE  FALSE
  BY <1>4 DEF Begin, BeginFails, Commit, Saved, Close, Interrupt, Prepare, PrepareFails, Reconcile, ReconcileFails, ReconcileUnready
<1>5. ASSUME (\E s \in Res : Edit(s)) \/ (\E d \in Decl : Release(d)) \/ UNCHANGED vars PROVE FALSE
  BY <1>5 DEF Edit, Release, vars
<1>6. QED
  BY <1>2, <1>3, <1>4, <1>5 DEF Next, Step

\* docs/content/sources.md:296: whoever dies inside Save, a document changes only
\* for a resource that the writing command resolved or does not declare.
THEOREM ReviewKept == Spec => RejectedKept
<1> DEFINE A == \A r \in Res : lock'[r] # lock[r] =>
        \E p \in Proc :
            /\ pc[p] = "save" /\ method[p] = "update"
            /\ \/ prep[p][r] = "ready" /\ lock'[r] = staged[p][r]
               \/ cfg[p][r] = None /\ lock'[r] = NoEntry
<1>1. EngineInv /\ [Next]_vars => A
  <2> SUFFICES ASSUME EngineInv, [Next]_vars, NEW r \in Res, lock'[r] # lock[r]
               PROVE  \E p \in Proc :
                        /\ pc[p] = "save" /\ method[p] = "update"
                        /\ \/ prep[p][r] = "ready" /\ lock'[r] = staged[p][r]
                           \/ cfg[p][r] = None /\ lock'[r] = NoEntry
    OBVIOUS
  <2>1. PICK p \in Proc : SaveDocument(p, r)
    BY Saves
  <2>2. pc[p] = "save" /\ lock'[r] = Target(p)[r]
    BY <2>1 DEF SaveDocument, EngineInv, TypeOK
  <2>3. Loaded(p) /\ Locked(p) /\ TypeOK
    BY DEF EngineInv, At
  <2>4. method[p] = "update" /\ lock[r] = old[p][r] /\ Target(p)[r] # old[p][r]
    BY <2>2, <2>3 DEF Loaded, Locked
  <2>5. Target(p)[r] = IF r \in selected(p)
                       THEN IF prep[p][r] = "ready" THEN staged[p][r] ELSE old[p][r]
                       ELSE IF whole[p] THEN NoEntry ELSE old[p][r]
    BY DEF Target
  <2>6. CASE r \in selected(p)
    BY <2>2, <2>4, <2>5, <2>6
  <2>7. CASE r \notin selected(p)
    <3>1. whole[p] /\ Target(p)[r] = NoEntry
      BY <2>4, <2>5, <2>7
    <3>2. roots[p] = Declared(cfg[p])
      BY <2>2, <2>3, <3>1 DEF Loaded
    <3>3. roots[p] \subseteq selected(p)
      <4>1. roots[p] \in SUBSET Res
        BY <2>3 DEF TypeOK
      <4>2. QED
        BY <4>1, ClosureLeast, ConstantsAssumption DEF selected, Closure
    <3>4. cfg[p][r] = None
      BY <2>7, <3>2, <3>3 DEF Declared
    <3>5. QED
      BY <2>2, <2>4, <3>1, <3>4
  <2>8. QED
    BY <2>6, <2>7
<1>2. EngineInv /\ [Next]_vars => [A]_vars
  BY <1>1
<1>3. QED
  BY <1>2, EngineInvariant, PTL DEF Spec, RejectedKept

(***************************************************************************)
(* Engine implements ReviewedPublication.                                  *)
(***************************************************************************)
\* The session is that of the process that holds the project lock.
LEMMA SessionOf ==
    ASSUME Alone, NEW p \in holder
    PROVE  Session = [method |-> method[p], declared |-> cfg[p], read |-> old[p], observed |-> seen[p]]
<1>1. (CHOOSE x \in holder : TRUE) \in holder
  OBVIOUS
<1>2. (CHOOSE x \in holder : TRUE) = p
  BY <1>1 DEF Alone
<1>3. holder # {}
  OBVIOUS
<1>4. QED
  BY <1>2, <1>3 DEF Session

\* While the lock stays where it is and its holder's command goes on, so does the session.
LEMMA SessionKept ==
    ASSUME holder' = holder,
           \A x \in holder : method'[x] = method[x] /\ cfg'[x] = cfg[x] /\ old'[x] = old[x] /\ seen'[x] = seen[x]
    PROVE  Session' = Session
<1>1. CASE holder = {}
  BY <1>1 DEF Session
<1>2. CASE holder # {}
  <2>1. (CHOOSE x \in holder : TRUE) \in holder
    BY <1>2
  <2>2. (CHOOSE x \in holder' : TRUE) = (CHOOSE x \in holder : TRUE)
    OBVIOUS
  <2>3. QED
    BY <1>2, <2>1, <2>2 DEF Session
<1>3. QED
  BY <1>1, <1>2

\* A command that is not past its wait takes nothing from the session by ending.
LEMMA OthersSession ==
    ASSUME EngineInv, NEW p \in Proc, p \notin holder, Idle(p), holder' = holder
    PROVE  Session' = Session
<1>1. \A x \in holder : x \in Proc /\ x # p
  BY DEF EngineInv, TypeOK
<1>2. \A x \in holder : method'[x] = method[x] /\ cfg'[x] = cfg[x] /\ old'[x] = old[x] /\ seen'[x] = seen[x]
  BY <1>1 DEF Idle, EngineInv, TypeOK
<1>3. QED
  BY <1>2, SessionKept

\* A command that holds the lock ends the session when it ends.
LEMMA SessionEnds ==
    ASSUME EngineInv, NEW p \in holder, holder' = holder \ {p}, UNCHANGED <<upstream, lock, remote>>
    PROVE  Reviewed!End
<1>1. holder' = {}
  BY DEF EngineInv, Alone
<1>2. Session' = [method |-> "none"]
  BY <1>1 DEF Session
<1>3. QED
  BY <1>2 DEF Reviewed!End, Reviewed!Idle

\* A preparation observes at most what its session had not.
LEMMA PreparationObserves ==
    ASSUME EngineInv, NEW p \in Proc, NEW r \in Res, CanPrepare(p, r), Observes(p, r) \/ UNCHANGED seen,
           UNCHANGED <<upstream, lock, remote, holder, command, old>>
    PROVE  (\E d \in Decl : Reviewed!Observe(d)) \/ UNCHANGED Reviewed!vars
<1>1. p \in holder /\ Alone
  BY DEF EngineInv, TypeOK, CanPrepare
<1>2. method' = method /\ cfg' = cfg /\ old' = old
  BY DEF command
<1>3. CASE seen' = seen
  <2>1. Session' = Session
    BY <1>2, <1>3, SessionKept
  <2>2. QED
    BY <2>1 DEF Reviewed!vars
<1>4. CASE /\ method[p] = "update" /\ cfg[p][r] \in Decl /\ seen[p][cfg[p][r]] = None
           /\ seen'[p] = [seen[p] EXCEPT ![cfg[p][r]] = upstream[cfg[p][r]]]
  <2> DEFINE d == cfg[p][r]
  <2>1. Session = [method |-> method[p], declared |-> cfg[p], read |-> old[p], observed |-> seen[p]]
    BY <1>1, SessionOf
  <2>2. Session' = [method |-> method[p], declared |-> cfg[p], read |-> old[p], observed |-> seen'[p]]
    <3>1. p \in holder' /\ \A x, y \in holder' : x = y
      BY <1>1 DEF Alone
    <3>2. (CHOOSE x \in holder' : TRUE) \in holder'
      BY <3>1
    <3>3. (CHOOSE x \in holder' : TRUE) = p /\ holder' # {}
      BY <3>1, <3>2
    <3>4. QED
      BY <1>2, <3>3 DEF Session
  <2>3. Reviewed!Observe(d)
    BY <1>4, <2>1, <2>2 DEF Reviewed!Observe
  <2>4. QED
    BY <1>4, <2>3
<1>5. QED
  BY <1>3, <1>4, ObservesOnce

\* A payload that is published is built from the documents the session read.
LEMMA PublicationBuilt ==
    ASSUME EngineInv, NEW p \in Proc, NEW q \in Publication, CanReconcile(p, q), prep[p][q[1]] = "ready",
           remote' = [remote EXCEPT ![q] = Payload(p, q[1])],
           UNCHANGED <<upstream, lock, holder, command, old, seen>>
    PROVE  Reviewed!Publish(q)
<1> DEFINE parts == Closure({q[1]})
<1>1. pc[p] = "run" /\ method[p] = "apply" /\ p \in holder /\ Alone
  BY DEF EngineInv, TypeOK, CanReconcile
<1>2. Session' = Session
  BY SessionKept DEF command
<1>3. Session = [method |-> method[p], declared |-> cfg[p], read |-> old[p], observed |-> seen[p]]
  BY <1>1, SessionOf
<1>4. \A s \in parts : s \in Res /\ prep[p][s] = "ready"
  BY PublicationType, ClosureReady
<1>5. Staged(p) /\ Loaded(p)
  BY DEF EngineInv, At
<1>6. \A s \in parts : /\ staged[p][s] = old[p][s] /\ old[p][s].decl = cfg[p][s] /\ cfg[p][s] # None
  BY <1>1, <1>4, <1>5 DEF Staged, Loaded, Held, Declared
<1>7. Payload(p, q[1]) = {<<s, Session.read[s].content>> : s \in parts}
  BY <1>3, <1>6 DEF Payload
<1>8. \A s \in parts : Session.declared[s] # None /\ Session.read[s].decl = Session.declared[s]
  BY <1>3, <1>6
<1>9. Session.method = "apply"
  BY <1>1, <1>3
<1>10. [x \in Publication |-> Closure({x[1]})][q] = parts
  OBVIOUS
<1>11. QED
  BY <1>2, <1>7, <1>8, <1>9, <1>10 DEF Reviewed!Publish

\* A document that is saved is one the session may write.
LEMMA DocumentWritten ==
    ASSUME EngineInv, NEW p \in Proc, NEW r \in Res, SaveDocument(p, r)
    PROVE  Reviewed!Write(r)
<1>1. /\ pc[p] = "save" /\ lock[r] # Target(p)[r] /\ lock' = [lock EXCEPT ![r] = Target(p)[r]]
      /\ UNCHANGED <<upstream, remote, holder, command, old, seen>>
  BY DEF SaveDocument, world, progress
<1>2. p \in holder /\ Alone /\ TypeOK /\ Staged(p) /\ Loaded(p) /\ Locked(p)
  BY <1>1 DEF EngineInv, TypeOK, At
<1>3. Session' = Session
  BY <1>1, SessionKept DEF command
<1>4. Session = [method |-> method[p], declared |-> cfg[p], read |-> old[p], observed |-> seen[p]]
  BY <1>2, SessionOf
<1>5. method[p] = "update" /\ lock[r] = old[p][r] /\ Target(p)[r] # old[p][r]
  BY <1>1, <1>2 DEF Loaded, Locked
<1>6. Target(p)[r] = IF r \in selected(p)
                     THEN IF prep[p][r] = "ready" THEN staged[p][r] ELSE old[p][r]
                     ELSE IF whole[p] THEN NoEntry ELSE old[p][r]
  BY DEF Target
<1>7. CASE r \in selected(p)
  <2>1. prep[p][r] = "ready" /\ Target(p)[r] = staged[p][r]
    BY <1>5, <1>6, <1>7
  <2>2. cfg[p][r] # None
    BY <1>1, <1>2, <1>7 DEF Loaded, Held, Declared
  <2>3. seen[p][cfg[p][r]] # None /\ staged[p][r] = [decl |-> cfg[p][r], content |-> seen[p][cfg[p][r]]]
    BY <1>2, <1>5, <2>1 DEF Staged
  <2>4. QED
    BY <1>1, <1>3, <1>4, <1>5, <2>1, <2>2, <2>3 DEF Reviewed!Write, Reviewed!Written
<1>8. CASE r \notin selected(p)
  <2>1. whole[p] /\ Target(p)[r] = NoEntry
    BY <1>5, <1>6, <1>8
  <2>2. roots[p] = Declared(cfg[p])
    BY <1>1, <1>2, <2>1 DEF Loaded
  <2>3. roots[p] \subseteq selected(p)
    BY <1>2, ClosureLeast, ConstantsAssumption DEF TypeOK, selected, Closure
  <2>4. cfg[p][r] = None
    BY <1>8, <2>2, <2>3 DEF Declared
  <2>5. QED
    BY <1>1, <1>3, <1>4, <1>5, <2>1, <2>4 DEF Reviewed!Write, Reviewed!Written
<1>9. QED
  BY <1>7, <1>8

\* A command that begins opens a session on the documents as they are.
LEMMA SessionBegins ==
    ASSUME EngineInv, NEW p \in Proc, Begin(p)
    PROVE  Reviewed!Begin(method[p], cfg[p]) /\ method[p] \in {"update", "apply"} /\ cfg[p] \in [Res -> Decl \cup {None}]
<1>1. /\ pc[p] = "locking" /\ holder = {} /\ holder' = {p} /\ old'[p] = lock
      /\ UNCHANGED <<upstream, lock, remote, command, seen>>
  BY DEF Begin, Goto, CanLock, world, EngineInv, TypeOK
<1>2. Fresh(p) /\ Loaded(p) /\ TypeOK
  BY DEF EngineInv, At
<1>3. Session = [method |-> "none"]
  BY <1>1 DEF Session
<1>4. seen[p] = [d \in Decl |-> None]
  BY <1>1, <1>2 DEF Fresh, TypeOK
<1>5. Session' = [method |-> method[p], declared |-> cfg[p], read |-> lock, observed |-> [d \in Decl |-> None]]
  <2>1. (CHOOSE x \in holder' : TRUE) \in holder'
    BY <1>1
  <2>2. (CHOOSE x \in holder' : TRUE) = p /\ holder' # {}
    BY <1>1, <2>1
  <2>3. method'[p] = method[p] /\ cfg'[p] = cfg[p] /\ seen'[p] = seen[p]
    BY <1>1 DEF command
  <2>4. QED
    BY <1>1, <1>4, <2>2, <2>3 DEF Session
<1>6. method[p] \in {"update", "apply"} /\ cfg[p] \in [Res -> Decl \cup {None}]
  BY <1>1, <1>2 DEF Loaded, TypeOK
<1>7. QED
  BY <1>1, <1>3, <1>5, <1>6 DEF Reviewed!Begin, Reviewed!Idle

\* Every step is one of the session's, or changes nothing it is about.
LEMMA SessionStep ==
    ASSUME EngineInv, [Next]_vars
    PROVE  [Reviewed!Next]_Reviewed!vars
<1>0. TypeOK /\ Alone
  BY DEF EngineInv
<1>1. ASSUME NEW p \in Proc, NEW m \in {"update", "apply"}, NEW S \in SUBSET Res, NEW w \in BOOLEAN, Start(p, m, S, w)
      PROVE  UNCHANGED Reviewed!vars
  <2>1. pc[p] = "idle" /\ method' = [method EXCEPT ![p] = m] /\ cfg' = [cfg EXCEPT ![p] = declared]
        /\ UNCHANGED <<upstream, lock, remote, holder, old, seen>>
    BY <1>1 DEF Start, Goto, progress
  <2>2. \A x \in holder : x \in Proc /\ x # p
    BY <1>0, <2>1 DEF TypeOK
  <2>3. \A x \in holder : method'[x] = method[x] /\ cfg'[x] = cfg[x]
    BY <1>0, <2>1, <2>2 DEF TypeOK
  <2>4. Session' = Session
    BY <2>1, <2>3, SessionKept
  <2>5. QED
    BY <2>1, <2>4 DEF Reviewed!vars
<1>2. ASSUME NEW p \in Proc, Begin(p) PROVE Reviewed!Next
  BY <1>2, SessionBegins DEF Reviewed!Next
<1>3. ASSUME NEW p \in Proc, BeginFails(p) PROVE UNCHANGED Reviewed!vars
  <2>1. p \notin holder /\ Idle(p) /\ UNCHANGED <<upstream, lock, remote, holder>>
    BY <1>3 DEF BeginFails, CanLock, world
  <2>2. Session' = Session
    BY <2>1, OthersSession
  <2>3. QED
    BY <2>1, <2>2 DEF Reviewed!vars
<1>4. ASSUME NEW p \in Proc, NEW r \in Res, Prepare(p, r) PROVE [Reviewed!Next]_Reviewed!vars
  <2>1. CanPrepare(p, r) /\ Observes(p, r) /\ UNCHANGED <<upstream, lock, remote, holder, command, old>>
    BY <1>4 DEF Prepare, world
  <2>2. QED
    BY <2>1, PreparationObserves DEF Reviewed!Next
<1>5. ASSUME NEW p \in Proc, NEW r \in Res, PrepareFails(p, r) PROVE [Reviewed!Next]_Reviewed!vars
  <2>1. CanPrepare(p, r) /\ (Observes(p, r) \/ UNCHANGED seen) /\ UNCHANGED <<upstream, lock, remote, holder, command, old>>
    BY <1>5 DEF PrepareFails, world
  <2>2. QED
    BY <2>1, PreparationObserves DEF Reviewed!Next
<1>6. ASSUME NEW p \in Proc, NEW q \in Publication, Reconcile(p, q) PROVE Reviewed!Next
  <2>1. /\ CanReconcile(p, q) /\ prep[p][q[1]] = "ready" /\ remote' = [remote EXCEPT ![q] = Payload(p, q[1])]
        /\ UNCHANGED <<upstream, lock, holder, command, old, seen>>
    BY <1>6 DEF Reconcile, world
  <2>2. QED
    BY <2>1, PublicationBuilt DEF Reviewed!Next
<1>7. ASSUME NEW p \in Proc, NEW q \in Publication, ReconcileUnready(p, q) PROVE UNCHANGED Reviewed!vars
  <2>1. UNCHANGED <<upstream, lock, remote, holder, method, cfg, old, seen>>
    BY <1>7 DEF ReconcileUnready, world, command
  <2>2. Session' = Session
    BY <2>1, SessionKept
  <2>3. QED
    BY <2>1, <2>2 DEF Reviewed!vars
<1>8. ASSUME NEW p \in Proc, NEW q \in Publication, ReconcileFails(p, q) PROVE [Reviewed!Next]_Reviewed!vars
  <2>1. /\ CanReconcile(p, q) /\ prep[p][q[1]] = "ready"
        /\ remote' = remote \/ remote' = [remote EXCEPT ![q] = Payload(p, q[1])]
        /\ UNCHANGED <<upstream, lock, holder, command, old, seen>>
    BY <1>8 DEF ReconcileFails, world
  <2>2. CASE remote' = remote
    <3>1. Session' = Session
      BY <2>1, SessionKept DEF command
    <3>2. QED
      BY <2>1, <2>2, <3>1 DEF Reviewed!vars
  <2>3. CASE remote' = [remote EXCEPT ![q] = Payload(p, q[1])]
    BY <2>1, <2>3, PublicationBuilt DEF Reviewed!Next
  <2>4. QED
    BY <2>1, <2>2, <2>3
<1>9. ASSUME NEW p \in Proc, Commit(p) \/ Saved(p) PROVE UNCHANGED Reviewed!vars
  <2>1. UNCHANGED <<upstream, lock, remote, holder, method, cfg, old, seen>>
    BY <1>9 DEF Commit, Saved, world, command, progress
  <2>2. Session' = Session
    BY <2>1, SessionKept
  <2>3. QED
    BY <2>1, <2>2 DEF Reviewed!vars
<1>10. ASSUME NEW p \in Proc, NEW r \in Res, SaveDocument(p, r) PROVE Reviewed!Next
  BY <1>10, DocumentWritten DEF Reviewed!Next
<1>11. ASSUME NEW p \in Proc, Close(p) PROVE Reviewed!Next
  <2>1. p \in holder /\ holder' = holder \ {p} /\ UNCHANGED <<upstream, lock, remote>>
    BY <1>0, <1>11 DEF Close, Goto, TypeOK, world
  <2>2. QED
    BY <2>1, SessionEnds DEF Reviewed!Next
<1>12. ASSUME NEW p \in Proc, Interrupt(p) PROVE [Reviewed!Next]_Reviewed!vars
  <2>1. Idle(p) /\ holder' = holder \ {p} /\ UNCHANGED <<upstream, lock, remote>>
    BY <1>12 DEF Interrupt, world
  <2>2. CASE p \in holder
    BY <2>1, <2>2, SessionEnds DEF Reviewed!Next
  <2>3. CASE p \notin holder
    <3>1. holder' = holder
      BY <2>1, <2>3
    <3>2. Session' = Session
      BY <2>1, <2>3, <3>1, OthersSession
    <3>3. QED
      BY <2>1, <3>2 DEF Reviewed!vars
  <2>4. QED
    BY <2>2, <2>3
<1>13. ASSUME NEW r \in Res, Edit(r) PROVE UNCHANGED Reviewed!vars
  <2>1. UNCHANGED <<upstream, lock, remote, holder, method, cfg, old, seen>>
    BY <1>13 DEF Edit, command, progress
  <2>2. Session' = Session
    BY <2>1, SessionKept
  <2>3. QED
    BY <2>1, <2>2 DEF Reviewed!vars
<1>14. ASSUME NEW d \in Decl, Release(d) PROVE Reviewed!Next
  <2>1. UNCHANGED <<lock, remote, holder, method, cfg, old, seen>>
    BY <1>14 DEF Release, command, progress
  <2>2. Session' = Session
    BY <2>1, SessionKept
  <2>3. Reviewed!Release(d)
    BY <1>14, <2>1, <2>2 DEF Release, Reviewed!Release
  <2>4. QED
    BY <2>3 DEF Reviewed!Next
<1>15. CASE UNCHANGED vars
  <2>1. UNCHANGED <<upstream, lock, remote, holder, method, cfg, old, seen>>
    BY <1>15 DEF vars, world, command, progress
  <2>2. Session' = Session
    BY <2>1, SessionKept
  <2>3. QED
    BY <2>1, <2>2 DEF Reviewed!vars
<1>16. QED
  BY <1>1, <1>2, <1>3, <1>4, <1>5, <1>6, <1>7, <1>8, <1>9, <1>10, <1>11, <1>12, <1>13, <1>14, <1>15 DEF Next, Step

\* lockfile.go:73: for any number of processes, wherever they interleave, fail or die,
\* update and apply are sessions at work one at a time.
THEOREM SessionsSerialized == Spec => Serialized
<1>1. Init => Reviewed!Init
  BY ConstantsAssumption DEF Init, Reviewed!Init, Reviewed!Idle, Session, Nothing
<1>2. EngineInv /\ [Next]_vars => [Reviewed!Next]_Reviewed!vars
  BY SessionStep
<1>3. QED
  BY <1>1, <1>2, EngineInvariant, PTL DEF Spec, Serialized, Reviewed!Spec
=============================================================================
