------------------------------- MODULE Engine -------------------------------
(***************************************************************************)
(* Commands on one project (internal/engine, internal/lockfile): update     *)
(* observes the sources and writes the lock documents, apply builds what    *)
(* the lock documents say and publishes it.  Any number of processes run    *)
(* commands, serialized by the project lock, while people edit declarations *)
(* and vendors release.                                                     *)
(*                                                                         *)
(* Abstractions.  A resource has one input, locked by one entry: the        *)
(* declaration it answers and the content it names; a resource that is not  *)
(* declared has declaration None.  A payload is the set of contents it was  *)
(* built from.  The code walks the resources in dependency order; here any  *)
(* order that respects the dependencies may be taken.  The cache is Cas'    *)
(* subject and what a destination does with an apply MunkiRepo's and        *)
(* IntuneApp's.  Plugins, icons, suspended and profiled resources and the   *)
(* methods that neither write the lock nor publish are left out.            *)
(***************************************************************************)
EXTENDS Integers

CONSTANTS
    Proc,         \* processes
    Res,          \* resources
    Producers,    \* whose outputs each resource consumes
    Publication,  \* pairs of a resource and a destination
    Requires,     \* publications each publication refers to
    Local,        \* resources whose input is a local path
    Decl,         \* declarations of inputs
    Content,      \* contents a source may provide
    Projects,     \* declarations to start from
    Sources,      \* what the sources provide at the start
    MaxFaults,    \* bound: failures and interruptions
    MaxEnv        \* bound: edits, releases and commands with a selector

None == 0
NoEntry == [decl |-> None, content |-> None]
Entry == [decl : Decl, content : Content] \cup {NoEntry}

ASSUME ConstantsAssumption ==
    /\ Producers \in [Res -> SUBSET Res]
    /\ Publication \subseteq Res \X STRING
    /\ Requires \in [Publication -> SUBSET Publication]
    /\ Local \subseteq Res
    /\ Decl \subseteq Nat \ {None} /\ Content \subseteq Nat \ {None}
    /\ Projects \subseteq [Res -> Decl] /\ Sources \subseteq [Decl -> Content]
    /\ MaxFaults \in Nat /\ MaxEnv \in Nat

VARIABLES
    declared,  \* the project's documents
    upstream,  \* what the source of a declaration provides now
    lock,      \* the lock documents
    remote,    \* the payload each publication was given last
    holder,    \* the process that holds project.lock
    pc, method, roots,
    whole,     \* whether a command was given no selectors
    cfg,       \* the declarations a command loaded
    old,       \* the lock it loaded
    seen,      \* its observations, one for each declaration
    staged,    \* the entries it acquired
    prep,      \* what became of each resource's preparation
    pub,       \* and of each publication
    pending,   \* publications a resource still waits for
    reported,  \* how often ResourceDone was called for a resource
    faults, env

world == <<declared, upstream, env>>
command == <<method, roots, whole, cfg>>
progress == <<old, seen, staged, prep, pub, pending, reported>>
vars == <<world, lock, remote, holder, pc, command, progress, faults>>

(***************************************************************************)
(* Graphs.                                                                 *)
(***************************************************************************)
\* The resources of S and everything they consume.
Closure(S) ==
    {r \in Res : \A T \in SUBSET Res :
        S \subseteq T /\ (\A t \in T : Producers[t] \subseteq T) => r \in T}

\* Publications and everything they refer to.
References(Q) ==
    {q \in Publication : \A T \in SUBSET Publication :
        Q \subseteq T /\ (\A t \in T : Requires[t] \subseteq T) => q \in T}

Declared(d) == {r \in Res : d[r] # None}
selected(p) == Closure(roots[p])
Publications(S) == {q \in Publication : q[1] \in S}

\* What a command checks before anything is acquired: "unknown resource".
Discovers(d, S, m) ==
    /\ Closure(S) \subseteq Declared(d)
    /\ m = "apply" => {q[1] : q \in References(Publications(Closure(S)))} \subseteq Declared(d)

Nothing == [r \in Res |-> NoEntry]
Idle(p) ==
    /\ old' = [old EXCEPT ![p] = Nothing]
    /\ seen' = [seen EXCEPT ![p] = [d \in Decl |-> None]]
    /\ staged' = [staged EXCEPT ![p] = Nothing]
    /\ prep' = [prep EXCEPT ![p] = [r \in Res |-> "none"]]
    /\ pub' = [pub EXCEPT ![p] = [q \in Publication |-> "none"]]
    /\ pending' = [pending EXCEPT ![p] = [r \in Res |-> {}]]
    /\ reported' = [reported EXCEPT ![p] = [r \in Res |-> 0]]
    /\ method' = [method EXCEPT ![p] = "none"]
    /\ roots' = [roots EXCEPT ![p] = {}]
    /\ whole' = [whole EXCEPT ![p] = FALSE]
    /\ cfg' = [cfg EXCEPT ![p] = [r \in Res |-> None]]

Init ==
    /\ declared \in Projects /\ env = 0
    /\ upstream \in Sources
    /\ lock = Nothing
    /\ remote = [q \in Publication |-> {}]
    /\ holder = {} /\ faults = 0
    /\ pc = [p \in Proc |-> "idle"]
    /\ method = [p \in Proc |-> "none"]
    /\ roots = [p \in Proc |-> {}]
    /\ whole = [p \in Proc |-> FALSE]
    /\ cfg = [p \in Proc |-> [r \in Res |-> None]]
    /\ old = [p \in Proc |-> Nothing]
    /\ seen = [p \in Proc |-> [d \in Decl |-> None]]
    /\ staged = [p \in Proc |-> Nothing]
    /\ prep = [p \in Proc |-> [r \in Res |-> "none"]]
    /\ pub = [p \in Proc |-> [q \in Publication |-> "none"]]
    /\ pending = [p \in Proc |-> [r \in Res |-> {}]]
    /\ reported = [p \in Proc |-> [r \in Res |-> 0]]

(***************************************************************************)
(* The session: the project is loaded first, then locked.                  *)
(***************************************************************************)
Goto(p, from, to) == pc[p] = from /\ pc' = [pc EXCEPT ![p] = to]
Fault == faults < MaxFaults /\ faults' = faults + 1

\* config.Load(): all resources, or one selected by name.
Start(p, m, S, w) ==
    /\ Goto(p, "idle", "locking")
    /\ \/ w /\ S = Declared(declared) /\ UNCHANGED env
       \/ ~w /\ (\E r \in Declared(declared) : S = {r}) /\ env < MaxEnv /\ env' = env + 1
    /\ whole' = [whole EXCEPT ![p] = w]
    /\ method' = [method EXCEPT ![p] = m]
    /\ roots' = [roots EXCEPT ![p] = S]
    /\ cfg' = [cfg EXCEPT ![p] = declared]
    /\ UNCHANGED <<declared, upstream, lock, remote, holder, progress, faults>>

\* Mutant: the lock is not waited for.
CanLockAlways == TRUE

\* lockfile.Lock(): "serializes project operations and releases automatically
\* after a process crash".
CanLock == holder = {}

\* begin() checks everything before anything is acquired.
Begins(p) ==
    /\ Discovers(cfg[p], roots[p], method[p])
    /\ method[p] = "apply" =>
        /\ selected(p) # {} => lock # Nothing
        /\ whole[p] => \A r \in Res \ selected(p) : lock[r] = NoEntry

\* Under the project lock, the lock documents are read.
Begin(p) ==
    /\ Goto(p, "locking", "run") /\ CanLock /\ Begins(p)
    /\ holder' = holder \cup {p}
    /\ old' = [old EXCEPT ![p] = lock]
    /\ pending' = [pending EXCEPT ![p] =
          [r \in Res |-> IF method[p] = "apply" THEN Publications(selected(p) \cap {r}) ELSE {}]]
    /\ UNCHANGED <<world, lock, remote, command, seen, staged, prep, pub, reported, faults>>

BeginFails(p) ==
    /\ Goto(p, "locking", "idle") /\ CanLock /\ ~Begins(p)
    /\ Idle(p)
    /\ UNCHANGED <<world, lock, remote, holder, faults>>

(***************************************************************************)
(* Preparation.                                                            *)
(***************************************************************************)
CanPrepare(p, r) ==
    /\ pc[p] = "run" /\ r \in selected(p) /\ prep[p][r] = "none"
    /\ \A q \in Producers[r] : prep[p][q] # "none"

Blocked(p, r) == \E q \in Producers[r] : prep[p][q] # "ready"

\* Mutant: every input is observed for itself.
AcquiredEach(p, r) ==
    IF method[p] = "update"
    THEN [decl |-> cfg[p][r], content |-> upstream[cfg[p][r]]]
    ELSE old[p][r]

\* Acquire(): an update observes, "inputs sharing a declaration share one
\* observation"; every other command takes the reviewed entry.
Acquired(p, r) ==
    IF method[p] = "update"
    THEN [decl |-> cfg[p][r],
          content |-> IF seen[p][cfg[p][r]] # None THEN seen[p][cfg[p][r]] ELSE upstream[cfg[p][r]]]
    ELSE old[p][r]

\* The reviewed entry answers the declaration, and a local path still holds it.
Answers(p, r) ==
    method[p] = "apply" =>
        /\ old[p][r].decl = cfg[p][r]
        /\ r \in Local => upstream[cfg[p][r]] = old[p][r].content

\* Content that a source no longer provides is only there while it is cached.
Uncached(p, r) == method[p] = "apply" /\ upstream[cfg[p][r]] # old[p][r].content

\* complete(): the final result of a resource.
Complete(p, r) == reported' = [reported EXCEPT ![p][r] = @ + 1]

\* An update remembers what it observed.
Observes(p, r) ==
    seen' = IF method[p] = "update" THEN [seen EXCEPT ![p][cfg[p][r]] = Acquired(p, r).content] ELSE seen

Prepare(p, r) ==
    /\ CanPrepare(p, r) /\ ~Blocked(p, r) /\ Answers(p, r)
    /\ staged' = [staged EXCEPT ![p][r] = Acquired(p, r)]
    /\ Observes(p, r)
    /\ prep' = [prep EXCEPT ![p][r] = "ready"]
    /\ IF pending[p][r] = {} THEN Complete(p, r) ELSE UNCHANGED reported
    /\ UNCHANGED <<world, lock, remote, holder, pc, command, old, pub, pending, faults>>

\* A failure of the resource: blocked, stale, not to be had, or not to be built;
\* then the observation stays for the others.
PrepareFails(p, r) ==
    /\ CanPrepare(p, r)
    /\ \/ (Blocked(p, r) \/ ~Answers(p, r) \/ Uncached(p, r)) /\ UNCHANGED <<faults, seen>>
       \/ ~Blocked(p, r) /\ Fault /\ (UNCHANGED seen \/ Observes(p, r))
    /\ prep' = [prep EXCEPT ![p][r] = "failed"]
    /\ Complete(p, r)
    /\ UNCHANGED <<world, lock, remote, holder, pc, command, old, staged, pub, pending>>

(***************************************************************************)
(* Publication.                                                            *)
(***************************************************************************)
Payload(p, r) == {<<s, staged[p][s].content>> : s \in Closure({r})}

RequiredHere(p, q) == {x \in Requires[q] : x[1] \in selected(p)}

CanReconcile(p, q) ==
    /\ pc[p] = "run" /\ method[p] = "apply" /\ q[1] \in selected(p) /\ pub[p][q] = "none"
    /\ \A x \in RequiredHere(p, q) : pub[p][x] # "none"
    /\ prep[p][q[1]] # "none"

\* One publication less to wait for; with the last one the resource completes.
Settle(p, q) ==
    /\ pending' = [pending EXCEPT ![p][q[1]] = @ \ {q}]
    /\ IF pending[p][q[1]] = {q} THEN Complete(p, q[1]) ELSE UNCHANGED reported

\* Mutant: a resource that was not prepared settles its publications, too.
ReconcileUnreadySettles(p, q) ==
    /\ CanReconcile(p, q) /\ prep[p][q[1]] # "ready"
    /\ pub' = [pub EXCEPT ![p][q] = "failed"]
    /\ Settle(p, q)
    /\ UNCHANGED <<world, lock, remote, holder, pc, command, old, seen, staged, prep, faults>>

\* The failed preparation has completed the resource.
ReconcileUnready(p, q) ==
    /\ CanReconcile(p, q) /\ prep[p][q[1]] # "ready"
    /\ pub' = [pub EXCEPT ![p][q] = "failed"]
    /\ UNCHANGED <<world, lock, remote, holder, pc, command, old, seen, staged, prep, pending, reported, faults>>

\* Mutant: a publication goes ahead without what it refers to.
RequirementFailedNever(p, q) == FALSE

\* "required publication ... failed".
RequirementFailed(p, q) == \E x \in RequiredHere(p, q) : pub[p][x] = "failed"

Reconcile(p, q) ==
    /\ CanReconcile(p, q) /\ prep[p][q[1]] = "ready" /\ ~RequirementFailed(p, q)
    /\ remote' = [remote EXCEPT ![q] = Payload(p, q[1])]
    /\ pub' = [pub EXCEPT ![p][q] = "ok"]
    /\ Settle(p, q)
    /\ UNCHANGED <<world, lock, holder, pc, command, old, seen, staged, prep, faults>>

\* The destination's own failure comes before or after its writes.
ReconcileFails(p, q) ==
    /\ CanReconcile(p, q) /\ prep[p][q[1]] = "ready"
    /\ \/ RequirementFailed(p, q) /\ UNCHANGED <<remote, faults>>
       \/ /\ ~RequirementFailed(p, q) /\ Fault
          /\ \/ UNCHANGED remote
             \/ remote' = [remote EXCEPT ![q] = Payload(p, q[1])]
    /\ pub' = [pub EXCEPT ![p][q] = "failed"]
    /\ Settle(p, q)
    /\ UNCHANGED <<world, lock, holder, pc, command, old, seen, staged, prep>>

(***************************************************************************)
(* The end: commit() and Save().                                           *)
(***************************************************************************)
Finished(p) ==
    /\ \A r \in selected(p) : prep[p][r] # "none"
    /\ method[p] = "apply" => \A q \in Publications(selected(p)) : pub[p][q] # "none"

\* Mutant: a failed resource loses its reviewed entry.
TargetUnrejected(p) ==
    [r \in Res |-> IF r \in selected(p) THEN staged[p][r]
                   ELSE IF whole[p] THEN NoEntry ELSE old[p][r]]

\* Mutant: entries of resources that are no longer declared stay.
TargetUndeclared(p) ==
    [r \in Res |-> IF r \in selected(p) /\ prep[p][r] = "ready" THEN staged[p][r] ELSE old[p][r]]

\* Commit(): "Rejected resources retain their complete reviewed entries"; without a
\* selection, resources that are not declared lose theirs.
Target(p) ==
    [r \in Res |-> IF r \in selected(p)
                   THEN IF prep[p][r] = "ready" THEN staged[p][r] ELSE old[p][r]
                   ELSE IF whole[p] THEN NoEntry ELSE old[p][r]]

Commit(p) ==
    /\ Finished(p)
    /\ Goto(p, "run", IF method[p] = "update" THEN "save" ELSE "close")
    /\ UNCHANGED <<world, lock, remote, holder, command, progress, faults>>

\* Save(): documents that are gone are removed first, then each one that differs
\* is replaced.
SaveDocument(p, r) ==
    LET removed == {s \in Res : lock[s] # NoEntry /\ Target(p)[s] = NoEntry} IN
    /\ pc[p] = "save" /\ lock[r] # Target(p)[r]
    /\ removed # {} => r \in removed
    /\ lock' = [lock EXCEPT ![r] = Target(p)[r]]
    /\ UNCHANGED <<world, remote, holder, pc, command, progress, faults>>

Saved(p) ==
    /\ Goto(p, "save", "close") /\ lock = Target(p)
    /\ UNCHANGED <<world, lock, remote, holder, command, progress, faults>>

\* Mutant: the command ends with the lock held.
CloseLocked(p) ==
    /\ Goto(p, "close", "idle") /\ UNCHANGED holder
    /\ Idle(p)
    /\ UNCHANGED <<world, lock, remote, faults>>

\* close(): the project lock is released last.
Close(p) ==
    /\ Goto(p, "close", "idle") /\ holder' = holder \ {p}
    /\ Idle(p)
    /\ UNCHANGED <<world, lock, remote, faults>>

\* Cancelled or killed: the lock goes with the process.
Interrupt(p) ==
    /\ pc[p] # "idle" /\ pc' = [pc EXCEPT ![p] = "idle"]
    /\ Fault /\ holder' = holder \ {p}
    /\ Idle(p)
    /\ UNCHANGED <<world, lock, remote>>

(***************************************************************************)
(* People and vendors.                                                     *)
(***************************************************************************)
Edit(r) ==
    /\ env < MaxEnv /\ env' = env + 1
    /\ \E d \in (Decl \cup {None}) \ {declared[r]} : declared' = [declared EXCEPT ![r] = d]
    /\ UNCHANGED <<upstream, lock, remote, holder, pc, command, progress, faults>>

Release(d) ==
    /\ env < MaxEnv /\ env' = env + 1
    /\ \E c \in Content \ {upstream[d]} : upstream' = [upstream EXCEPT ![d] = c]
    /\ UNCHANGED <<declared, lock, remote, holder, pc, command, progress, faults>>

Step(p) ==
    \/ Begin(p) \/ BeginFails(p) \/ Commit(p) \/ Saved(p) \/ Close(p)
    \/ \E r \in Res : Prepare(p, r) \/ PrepareFails(p, r) \/ SaveDocument(p, r)
    \/ \E q \in Publication : Reconcile(p, q) \/ ReconcileUnready(p, q) \/ ReconcileFails(p, q)

StartWhole(p, m) == Start(p, m, Declared(declared), TRUE)

Next ==
    \/ \E p \in Proc :
        \/ Step(p) \/ Interrupt(p)
        \/ \E m \in {"update", "apply"}, S \in SUBSET Res, w \in BOOLEAN : Start(p, m, S, w)
    \/ \E r \in Res : Edit(r)
    \/ \E d \in Decl : Release(d)

Spec == Init /\ [][Next]_vars

\* The command that holds the project lock goes on to its end, a free lock is taken
\* by one of those who poll for it, and update and apply without selectors are run
\* again and again.  A single process may poll for ever.
FairSpec ==
    /\ Spec
    /\ WF_vars(\E p \in Proc : Step(p))
    /\ \A m \in {"update", "apply"} : SF_vars(\E p \in Proc : StartWhole(p, m))

(***************************************************************************)
(* Properties.                                                             *)
(***************************************************************************)
\* Every variable keeps its type, and a command past its wait holds the lock.
TypeOK ==
    /\ declared \in [Res -> Decl \cup {None}] /\ upstream \in [Decl -> Content]
    /\ lock \in [Res -> Entry]
    /\ remote \in [Publication -> SUBSET (Res \X Content)]
    /\ holder \subseteq Proc /\ faults \in Nat /\ env \in Nat
    /\ pc \in [Proc -> {"idle", "locking", "run", "save", "close"}]
    /\ method \in [Proc -> {"none", "update", "apply"}] /\ roots \in [Proc -> SUBSET Res]
    /\ whole \in [Proc -> BOOLEAN]
    /\ cfg \in [Proc -> [Res -> Decl \cup {None}]]
    /\ old \in [Proc -> [Res -> Entry]] /\ staged \in [Proc -> [Res -> Entry]]
    /\ seen \in [Proc -> [Decl -> Content \cup {None}]]
    /\ prep \in [Proc -> [Res -> {"none", "ready", "failed"}]]
    /\ pub \in [Proc -> [Publication -> {"none", "ok", "failed"}]]
    /\ pending \in [Proc -> [Res -> SUBSET Publication]]
    /\ reported \in [Proc -> [Res -> Nat]]
    /\ \A p \in Proc : pc[p] \in {"run", "save", "close"} <=> p \in holder

\* "the reviewed lock determines which content publication may use"
\* (docs/content/reconcile.md:150): whatever runs beside it, an apply publishes what
\* the lock documents say at that moment, for declarations they were made for.
PublishedAsLocked ==
    [][\A q \in Publication : remote'[q] # remote[q] =>
        \A x \in remote'[q] :
            /\ lock[x[1]].content = x[2]
            /\ \E p \in Proc : pc[p] = "run" /\ cfg[p][x[1]] = lock[x[1]].decl]_vars

\* The command that holds the project lock, as a session of ReviewedPublication.
Session ==
    IF holder = {} THEN [method |-> "none"]
    ELSE LET p == CHOOSE x \in holder : TRUE IN
         [method |-> method[p], declared |-> cfg[p], read |-> old[p], observed |-> seen[p]]

Reviewed == INSTANCE ReviewedPublication
    WITH Parts <- [q \in Publication |-> Closure({q[1]})], session <- Session

\* "serializes project operations" (lockfile.go:73): whatever processes interleave,
\* fail or die, project and destinations change as if one session at a time was at
\* work on one reading of the documents, an update with one observation of each
\* declaration, an apply with the documents only.
Serialized == Reviewed!Spec

\* "Acquisition or preparation failures leave that resource's complete reviewed lock
\* entries unchanged" (docs/content/sources.md:296): a document changes only when its
\* resource was resolved by the very command that writes it, or was not declared
\* to it.
RejectedKept ==
    [][\A r \in Res : lock'[r] # lock[r] =>
        \E p \in Proc :
            /\ pc[p] = "save" /\ method[p] = "update"
            /\ \/ prep[p][r] = "ready" /\ lock'[r] = staged[p][r]
               \/ cfg[p][r] = None /\ lock'[r] = NoEntry]_vars

\* "Inputs sharing a declaration share one observation" (lockfile.go:314): a release
\* in the middle of an update does not split resources that declare the same.
OneObservation ==
    \A p \in Proc : \A r, s \in Res :
        method[p] = "update" /\ prep[p][r] = "ready" /\ prep[p][s] = "ready" /\ cfg[p][r] = cfg[p][s]
            => staged[p][r] = staged[p][s]

\* "ResourceDone receives each final resource result, including failures"
\* (run.go:58): once the work is done, every resource was reported once, and none
\* twice.
ReportedOnce ==
    \A p \in Proc : \A r \in Res :
        /\ reported[p][r] <= 1
        /\ pc[p] = "run" /\ Finished(p) /\ r \in selected(p) => reported[p][r] = 1

\* "reconciles selected peers first" (docs/content/writing-plugins.md:362): nothing is
\* published while a selected publication that it refers to is not, or while
\* something it is built from was not prepared.
PeersFirst ==
    [][\A q \in Publication : remote'[q] # remote[q] =>
        \E p \in Proc :
            /\ q[1] \in selected(p) /\ \A s \in Closure({q[1]}) : prep[p][s] = "ready"
            /\ \A x \in RequiredHere(p, q) : pub[p][x] = "ok"]_vars

\* Once edits, releases and failures stop, a project that is valid ends with a lock
\* of exactly what its sources provide and every publication built from it.
Converges ==
    <>[](Discovers(declared, Declared(declared), "apply") =>
        /\ \A r \in Res : lock[r] = IF declared[r] = None THEN NoEntry
                                    ELSE [decl |-> declared[r], content |-> upstream[declared[r]]]
        /\ \A q \in Publications(Declared(declared)) :
            remote[q] = {<<s, upstream[declared[s]]>> : s \in Closure({q[1]})})
=============================================================================
