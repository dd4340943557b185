-------------------------------- MODULE Cas --------------------------------
(***************************************************************************)
(* The disposable cache of internal/cas: content-addressed objects, the     *)
(* source and derivation indexes that name them, plugin installations, the  *)
(* recency markers of uses/, and the collector.  Every stemma command is a  *)
(* process that                                                            *)
(*                                                                         *)
(*     maintains (tries once for the exclusive lock) -> leases (shared)     *)
(*       -> opens sessions, each with a nested lease and a work directory   *)
(*       -> releases -> maintains again,                                    *)
(*                                                                         *)
(* or that runs `stemma cache prune`.  Processes share nothing but the      *)
(* directory and its flock.  A crash may come between any two steps; the    *)
(* operating system then drops the locks and leaves the files.              *)
(*                                                                         *)
(* Abstractions.  Bytes are "good" (they hash to the file's name),          *)
(* "flipped" (same length) or "truncated".  sources/ and derivations/ are   *)
(* one set of index keys.  An object, its materialized copy and its uses/   *)
(* marker are one entry, as inventory() groups them; the copy is never read *)
(* back and is not state here.  Time is a clock of ticks.  Sizes count      *)
(* content only.  Ties in eviction order are broken either way.             *)
(***************************************************************************)
EXTENDS Integers, FiniteSets, FiniteSetsExt

CONSTANTS
    Proc,       \* stemma processes sharing one cache directory
    Digest,     \* names of objects
    Key,        \* names of source and derivation indexes
    Plugin,     \* names of plugin installations
    Size,       \* retained size of each entry
    MaxSize,    \* Policy.MaxSize; 0 disables eviction
    Grace,      \* ticks for which a recorded use protects an entry
    MaxNow,     \* bound: the clock stops here
    MaxRuns,    \* bound: commands each process starts
    MaxFaults,  \* bound: faults of the environment
    Faults      \* the kinds of faults the environment may inject

Entry == Digest \cup Key \cup Plugin

ASSUME ConstantsAssumption ==
    /\ Digest \cap Key = {} /\ Digest \cap Plugin = {} /\ Key \cap Plugin = {}
    /\ Size \in [Entry -> Nat]
    /\ MaxSize \in Nat /\ Grace \in Nat /\ MaxNow \in Nat \ {0}
    /\ MaxRuns \in Nat /\ MaxFaults \in Nat
    /\ Faults \subseteq {"crash", "cancel", "bitrot", "touch", "torn"}

VARIABLES
    \* the directory
    object, indexState, indexObjects, files, complete, uses, partial, orphan,
    \* locks: shared and exclusive holders of cache.lock, holders of plugins/*/lock
    shared, exclusive, keyLock,
    \* one command of each process
    pc, opts, runs, failedRecency, target, seen, known, executing,
    \* the collector that holds the exclusive lock
    back, listed, sweep, cascade, victim,
    \* the environment
    now, faults

disk == <<object, indexState, indexObjects, files, complete, uses, partial, orphan>>
locks == <<shared, exclusive, keyLock>>
command == <<pc, opts, runs, failedRecency, target, seen, known, executing>>
collector == <<back, listed, sweep, cascade, victim>>
vars == <<disk, locks, command, collector, now, faults>>

Bytes == {"good", "flipped", "truncated"}
Options == {"online", "offline", "prune", "all", "dry"}
PC == {"idle", "opening", "leasing", "running", "session", "writing", "reading",
       "locking", "staging", "closing", "pruning", "collecting", "collected"}

(***************************************************************************)
(* What the directory holds.                                               *)
(***************************************************************************)
\* HasDigest: availability, not integrity.
HasDigest(d) == object[d] # "absent"

\* Content other than the uses/ marker exists for an entry.
Present(e) ==
    \/ e \in Digest /\ HasDigest(e)
    \/ e \in Key /\ indexState[e] # "none"
    \/ e \in Plugin /\ files[e] # "none"

\* An index whose data parses and whose objects are all available.
IndexUsable(k) == indexState[k] = "stored" /\ \A d \in indexObjects[k] : HasDigest(d)

\* inventory(): the groups found, and those it marks invalid.
Inventory == {e \in Entry : Present(e) \/ uses[e] # 0}
Invalid(e) ==
    \/ ~Present(e)
    \/ e \in Key /\ ~IndexUsable(e)
    \/ e \in Plugin /\ ~complete[e]

Retained(S) == MapThenSumSet(LAMBDA e : Size[e], S)
OverBudget(S) == MaxSize # 0 /\ Retained(S) > MaxSize

\* Mutant of Dependents: collect() forgets the indexes of a removed object.
NoDependents(e) == {}

\* Entries that collect() removes with a digest.
Dependents(e) == {k \in Key \cap listed : e \in Digest /\ indexState[k] = "stored" /\ e \in indexObjects[k]}

(***************************************************************************)
(* The lock file.  Polling never queues, so a waiting pruner does not keep  *)
(* a new shared holder out.                                                *)
(***************************************************************************)
CanLease == exclusive = {}
\* Mutant of CanCollect: the collector's lock is not exclusive against leases.
CanCollectAmongLeases == exclusive = {}

CanCollect == exclusive = {} /\ \A q \in Proc : shared[q] = 0

\* Mutant of Evicts: a failed recency write does not suspend eviction.
EvictsUnrecorded(p) == opts[p] # "offline"

\* A collection with these options may evict; otherwise only temporaries go.
Evicts(p) == opts[p] # "offline" /\ ~failedRecency[p]

\* touch(): a use is recorded, or the failure is remembered.
Touch(p, e) ==
    \/ uses' = [uses EXCEPT ![e] = now] /\ UNCHANGED <<failedRecency, faults>>
    \/ /\ "touch" \in Faults /\ faults < MaxFaults
       /\ faults' = faults + 1
       /\ failedRecency' = [failedRecency EXCEPT ![p] = TRUE]
       /\ UNCHANGED uses

Goto(p, from, to) == pc[p] = from /\ pc' = [pc EXCEPT ![p] = to]

Init ==
    /\ object = [d \in Digest |-> "absent"]
    /\ indexState = [k \in Key |-> "none"]
    /\ indexObjects = [k \in Key |-> {}]
    /\ files = [q \in Plugin |-> "none"]
    /\ complete = [q \in Plugin |-> FALSE]
    /\ uses = [e \in Entry |-> 0]
    /\ partial = [p \in Proc |-> {}]
    /\ orphan = FALSE
    /\ shared = [p \in Proc |-> 0]
    /\ exclusive = {}
    /\ keyLock = [q \in Plugin |-> {}]
    /\ pc = [p \in Proc |-> "idle"]
    /\ opts = [p \in Proc |-> "online"]
    /\ runs = [p \in Proc |-> 0]
    /\ failedRecency = [p \in Proc |-> FALSE]
    /\ target = [p \in Proc |-> {}]
    /\ seen = [p \in Proc |-> "good"]
    /\ known = [p \in Proc |-> {}]
    /\ executing = [p \in Proc |-> {}]
    /\ back = [p \in Proc |-> "idle"]
    /\ listed = {} /\ sweep = {} /\ cascade = {} /\ victim = {}
    /\ now = 1
    /\ faults = 0

(***************************************************************************)
(* Commands: Run() and run(), Prune(), session open and close.             *)
(***************************************************************************)
StartRun(p, o) ==
    /\ Goto(p, "idle", "opening")
    /\ runs[p] < MaxRuns /\ runs' = [runs EXCEPT ![p] = @ + 1]
    /\ opts' = [opts EXCEPT ![p] = o]
    /\ failedRecency' = [failedRecency EXCEPT ![p] = FALSE]
    /\ known' = [known EXCEPT ![p] = {}]
    /\ UNCHANGED <<disk, locks, target, seen, executing, collector, now, faults>>

StartPrune(p, o) ==
    /\ Goto(p, "idle", "pruning")
    /\ runs[p] < MaxRuns /\ runs' = [runs EXCEPT ![p] = @ + 1]
    /\ opts' = [opts EXCEPT ![p] = o]
    /\ failedRecency' = [failedRecency EXCEPT ![p] = FALSE]
    /\ known' = [known EXCEPT ![p] = {}]
    /\ UNCHANGED <<disk, locks, target, seen, executing, collector, now, faults>>

\* maintain(): one try for the exclusive lock; a busy cache is left alone.
SkipMaintenance(p) ==
    /\ ~CanCollect
    /\ Goto(p, "opening", "leasing") \/ Goto(p, "closing", "idle")
    /\ UNCHANGED <<disk, locks, opts, runs, failedRecency, target, seen, known, executing, collector, now, faults>>

\* collect(): with the lock held, inventory the directory.  Prune waits for the lock.
CollectBegin(p, to) ==
    /\ CanCollect
    /\ \/ Goto(p, "opening", "collecting") /\ to = "leasing"
       \/ Goto(p, "closing", "collecting") /\ to = "idle"
       \/ Goto(p, "pruning", "collecting") /\ to = "idle"
    /\ exclusive' = {p}
    /\ back' = [back EXCEPT ![p] = to]
    /\ listed' = Inventory
    /\ sweep' = IF opts[p] = "all" THEN Inventory
                ELSE IF Evicts(p) THEN {e \in Inventory : Invalid(e)} ELSE {}
    /\ cascade' = {} /\ victim' = {}
    /\ UNCHANGED <<disk, shared, keyLock, opts, runs, failedRecency, target, seen, known, executing, now, faults>>

\* Lease(): shared, waiting only for a collector.
Lease(p) ==
    /\ CanLease
    /\ Goto(p, "leasing", "running")
    /\ shared' = [shared EXCEPT ![p] = 1]
    /\ UNCHANGED <<disk, exclusive, keyLock, opts, runs, failedRecency, target, seen, known, executing, collector, now, faults>>

\* session.open(): a second shared lease of the same process, and a work directory.
OpenSession(p) ==
    /\ CanLease
    /\ Goto(p, "running", "session")
    /\ shared' = [shared EXCEPT ![p] = 2]
    /\ partial' = [partial EXCEPT ![p] = {"work"}]
    /\ UNCHANGED <<object, indexState, indexObjects, files, complete, uses, orphan, exclusive, keyLock,
                   opts, runs, failedRecency, target, seen, known, executing, collector, now, faults>>

\* session.close(): closers run backward, so the work directory goes before the lease.
CloseSession(p) ==
    /\ Goto(p, "session", "running")
    /\ partial' = [partial EXCEPT ![p] = {}]
    /\ shared' = [shared EXCEPT ![p] = 1]
    /\ executing' = [executing EXCEPT ![p] = {}]
    /\ UNCHANGED <<object, indexState, indexObjects, files, complete, uses, orphan, exclusive, keyLock,
                   opts, runs, failedRecency, target, seen, known, collector, now, faults>>

\* The command's body is done: the lease is released, never upgraded.
EndRun(p) ==
    /\ Goto(p, "running", "closing")
    /\ shared' = [shared EXCEPT ![p] = 0]
    /\ UNCHANGED <<disk, exclusive, keyLock, opts, runs, failedRecency, target, seen, known, executing, collector, now, faults>>

(***************************************************************************)
(* Objects: Write and Read.                                                *)
(***************************************************************************)
\* Write() creates a private .import- file; expected is empty or one digest.
WriteBegin(p, expected) ==
    /\ Goto(p, "session", "writing")
    /\ partial' = [partial EXCEPT ![p] = @ \cup {"import"}]
    /\ target' = [target EXCEPT ![p] = expected]
    /\ UNCHANGED <<object, indexState, indexObjects, files, complete, uses, orphan, locks,
                   opts, runs, failedRecency, seen, known, executing, collector, now, faults>>

\* The bytes hash to d, as expected if anything was: rename publishes them.
WritePublish(p, d) ==
    /\ Goto(p, "writing", "session")
    /\ target[p] = {} \/ target[p] = {d}
    /\ "import" \in partial[p]
    /\ object' = [object EXCEPT ![d] = "good"]
    /\ partial' = [partial EXCEPT ![p] = @ \ {"import"}]
    /\ known' = [known EXCEPT ![p] = @ \cup {d}]
    /\ Touch(p, d)
    /\ UNCHANGED <<indexState, indexObjects, files, complete, orphan, locks,
                   opts, runs, target, seen, executing, collector, now>>

\* A failed producer, a cancellation or a digest mismatch publishes nothing.
WriteFail(p) ==
    /\ Goto(p, "writing", "session")
    /\ partial' = [partial EXCEPT ![p] = @ \ {"import"}]
    /\ UNCHANGED <<object, indexState, indexObjects, files, complete, uses, orphan, locks,
                   opts, runs, failedRecency, target, seen, known, executing, collector, now, faults>>

\* Mutant of ReadOpen: a missing file is not an error.
ReadOpenMissing(p, d) ==
    /\ Goto(p, "session", "reading")
    /\ target' = [target EXCEPT ![p] = {d}]
    /\ seen' = [seen EXCEPT ![p] = object[d]]
    /\ UNCHANGED <<disk, locks, opts, runs, failedRecency, known, executing, collector, now, faults>>

\* Read() opens the file: what it hashes is that inode, whatever the name means later.
ReadOpen(p, d) ==
    /\ HasDigest(d)
    /\ Goto(p, "session", "reading")
    /\ target' = [target EXCEPT ![p] = {d}]
    /\ seen' = [seen EXCEPT ![p] = object[d]]
    /\ UNCHANGED <<disk, locks, opts, runs, failedRecency, known, executing, collector, now, faults>>

\* The stream hashed to its name.
ReadVerified(p, d) ==
    /\ Goto(p, "reading", "session")
    /\ target[p] = {d} /\ seen[p] = "good"
    /\ known' = [known EXCEPT ![p] = @ \cup {d}]
    /\ Touch(p, d)
    /\ UNCHANGED <<object, indexState, indexObjects, files, complete, partial, orphan, locks,
                   opts, runs, target, seen, executing, collector, now>>

\* The stream did not: the NAME is removed, an already missing one is fine.
ReadDiscard(p, d) ==
    /\ Goto(p, "reading", "session")
    /\ target[p] = {d} /\ seen[p] # "good"
    /\ object' = [object EXCEPT ![d] = "absent"]
    /\ UNCHANGED <<indexState, indexObjects, files, complete, uses, partial, orphan, locks,
                   opts, runs, failedRecency, target, seen, known, executing, collector, now, faults>>

\* A consumer error or a cancellation says nothing about the bytes.
ReadFail(p) ==
    /\ Goto(p, "reading", "session")
    /\ UNCHANGED <<disk, locks, opts, runs, failedRecency, target, seen, known, executing, collector, now, faults>>

\* Reuse(): metadata-only use of an available object.
Reuse(p, d) ==
    /\ pc[p] = "session" /\ HasDigest(d)
    /\ known' = [known EXCEPT ![p] = @ \cup {d}]
    /\ Touch(p, d)
    /\ UNCHANGED <<object, indexState, indexObjects, files, complete, partial, orphan, locks,
                   pc, opts, runs, target, seen, executing, collector, now>>

(***************************************************************************)
(* Indexes: remember and recall.                                           *)
(***************************************************************************)
\* remember(): the index is replaced atomically (fileio.Write).  Callers name
\* objects they obtained in this command; nothing checks they still exist.
Remember(p, k, D) ==
    /\ pc[p] = "session" /\ D \subseteq known[p]
    /\ indexState' = [indexState EXCEPT ![k] = "stored"]
    /\ indexObjects' = [indexObjects EXCEPT ![k] = D]
    /\ Touch(p, k)
    /\ UNCHANGED <<object, files, complete, partial, orphan, locks,
                   pc, opts, runs, target, seen, known, executing, collector, now>>

\* recall(): a hit records the use of the index only; the objects it names count
\* as used when the caller goes on to Read or Reuse them.
Recall(p, k) ==
    /\ pc[p] = "session" /\ IndexUsable(k)
    /\ Touch(p, k)
    /\ UNCHANGED <<object, indexState, indexObjects, files, complete, partial, orphan, locks,
                   pc, opts, runs, target, seen, known, executing, collector, now>>

(***************************************************************************)
(* Plugin installations: Installed and Install.                            *)
(***************************************************************************)
\* A marker is trusted: the files are executed in place from here on.
Installed(p, q) ==
    /\ pc[p] = "session" /\ complete[q]
    /\ executing' = [executing EXCEPT ![p] = @ \cup {q}]
    /\ Touch(p, q)
    /\ UNCHANGED <<object, indexState, indexObjects, files, complete, partial, orphan, locks,
                   pc, opts, runs, target, seen, known, collector, now>>

\* No marker: make the directory and wait for the key's own lock.
InstallBegin(p, q) ==
    /\ ~complete[q]
    /\ Goto(p, "session", "locking")
    /\ target' = [target EXCEPT ![p] = {q}]
    /\ files' = [files EXCEPT ![q] = IF @ = "none" THEN "empty" ELSE @]
    /\ UNCHANGED <<object, indexState, indexObjects, complete, uses, partial, orphan, locks,
                   opts, runs, failedRecency, seen, known, executing, collector, now, faults>>

\* The lock is ours, and the marker is looked for again: another may have finished.
InstallLockedDone(p, q) ==
    /\ target[p] = {q} /\ keyLock[q] = {} /\ complete[q]
    /\ Goto(p, "locking", "session")
    /\ executing' = [executing EXCEPT ![p] = @ \cup {q}]
    /\ Touch(p, q)
    /\ UNCHANGED <<object, indexState, indexObjects, files, complete, partial, orphan, locks,
                   opts, runs, target, seen, known, collector, now>>

\* Still no marker: what an interrupted install left is removed and staging starts.
InstallLockedStage(p, q) ==
    /\ target[p] = {q} /\ keyLock[q] = {} /\ ~complete[q]
    /\ Goto(p, "locking", "staging")
    /\ keyLock' = [keyLock EXCEPT ![q] = {p}]
    /\ files' = [files EXCEPT ![q] = "partial"]
    /\ UNCHANGED <<object, indexState, indexObjects, complete, uses, partial, orphan, shared, exclusive,
                   opts, runs, failedRecency, target, seen, known, executing, collector, now, faults>>

\* Staging writes the last file; the marker comes in a step of its own.
InstallStaged(p, q) ==
    /\ pc[p] = "staging" /\ target[p] = {q} /\ files[q] = "partial"
    /\ files' = [files EXCEPT ![q] = "full"]
    /\ UNCHANGED <<object, indexState, indexObjects, complete, uses, partial, orphan, locks,
                   command, collector, now, faults>>

\* Mutant of InstallMark: the marker may come before the files.
InstallMarkEarly(p, q) ==
    /\ target[p] = {q}
    /\ Goto(p, "staging", "session")
    /\ complete' = [complete EXCEPT ![q] = TRUE]
    /\ keyLock' = [keyLock EXCEPT ![q] = {}]
    /\ executing' = [executing EXCEPT ![p] = @ \cup {q}]
    /\ Touch(p, q)
    /\ UNCHANGED <<object, indexState, indexObjects, files, partial, orphan, shared, exclusive,
                   opts, runs, target, seen, known, collector, now>>

InstallMark(p, q) ==
    /\ target[p] = {q} /\ files[q] = "full"
    /\ Goto(p, "staging", "session")
    /\ complete' = [complete EXCEPT ![q] = TRUE]
    /\ keyLock' = [keyLock EXCEPT ![q] = {}]
    /\ executing' = [executing EXCEPT ![p] = @ \cup {q}]
    /\ Touch(p, q)
    /\ UNCHANGED <<object, indexState, indexObjects, files, partial, orphan, shared, exclusive,
                   opts, runs, target, seen, known, collector, now>>

\* stage failed: its files go, the directory stays.  When only the marker could
\* not be written the files stay too, unmarked.
InstallFail(p, q) ==
    /\ target[p] = {q}
    /\ Goto(p, "staging", "session")
    /\ files' = [files EXCEPT ![q] = IF @ = "partial" THEN "empty" ELSE @]
    /\ keyLock' = [keyLock EXCEPT ![q] = {}]
    /\ UNCHANGED <<object, indexState, indexObjects, complete, uses, partial, orphan, shared, exclusive,
                   opts, runs, failedRecency, target, seen, known, executing, collector, now, faults>>

(***************************************************************************)
(* The collector.  remove() takes an entry's paths one by one, content      *)
(* before the uses/ marker, then the indexes that name a removed object.    *)
(***************************************************************************)
Collecting(p) == pc[p] = "collecting" /\ p \in exclusive

NoTemporaries == ~orphan /\ \A q \in Proc : partial[q] = {}

\* .import-, .stemma- and work entries are abandoned: their owners hold no lease.
SweepTemporaries(p) ==
    /\ Collecting(p) /\ victim = {} /\ cascade = {} /\ opts[p] # "dry"
    /\ ~NoTemporaries
    /\ orphan' = FALSE
    /\ partial' = [q \in Proc |-> {}]
    /\ UNCHANGED <<object, indexState, indexObjects, files, complete, uses, locks, command, collector, now, faults>>

\* The entries collect() may remove next: a cascade first, then the sweep, then
\* the least recently used past Grace while the budget is exceeded.
Evictable(p) ==
    {e \in listed : /\ Evicts(p) /\ opts[p] # "all"
                    /\ NoTemporaries \/ opts[p] = "dry"
                    /\ OverBudget(listed)
                    /\ uses[e] < now - Grace}
NextVictims(p) ==
    IF cascade # {} THEN cascade
    ELSE IF sweep # {} THEN sweep
    ELSE {e \in Evictable(p) : \A f \in Evictable(p) : uses[e] <= uses[f]}

\* The content goes.  A plugin tree goes with its marker (see TornRemoval).
RemoveContent(p, e) ==
    /\ Collecting(p) /\ victim = {} /\ e \in NextVictims(p)
    /\ victim' = {e}
    /\ IF opts[p] = "dry" THEN UNCHANGED <<object, indexState, files, complete>>
       ELSE /\ object' = [d \in Digest |-> IF d = e THEN "absent" ELSE object[d]]
            /\ indexState' = [k \in Key |-> IF k = e THEN "none" ELSE indexState[k]]
            /\ files' = [q \in Plugin |-> IF q = e THEN "none" ELSE files[q]]
            /\ complete' = [q \in Plugin |-> IF q = e THEN FALSE ELSE complete[q]]
    /\ UNCHANGED <<indexObjects, uses, partial, orphan, locks, command, back, listed, sweep, cascade, now, faults>>

\* Then its recency marker, and its dependents are due.
RemoveMarker(p, e) ==
    /\ Collecting(p) /\ victim = {e}
    /\ uses' = IF opts[p] = "dry" THEN uses ELSE [uses EXCEPT ![e] = 0]
    /\ listed' = listed \ {e}
    /\ sweep' = sweep \ {e}
    /\ cascade' = (cascade \cup Dependents(e)) \ {e}
    /\ victim' = {}
    /\ UNCHANGED <<object, indexState, indexObjects, files, complete, partial, orphan, locks, command, back, now, faults>>

\* Nothing is left to do.
CollectDone(p) ==
    /\ Collecting(p) /\ victim = {} /\ NextVictims(p) = {}
    /\ NoTemporaries \/ opts[p] = "dry"
    /\ pc' = [pc EXCEPT ![p] = "collected"]
    /\ UNCHANGED <<disk, locks, opts, runs, failedRecency, target, seen, known, executing, collector, now, faults>>

\* Mutant of CollectEnd: the lock file stays open.
CollectEndLocked(p) ==
    /\ Goto(p, "collected", back[p])
    /\ listed' = {} /\ sweep' = {} /\ cascade' = {} /\ victim' = {}
    /\ UNCHANGED <<disk, locks, opts, runs, failedRecency, target, seen, known, executing, back, now, faults>>

\* The lock file is closed.
CollectEnd(p) ==
    /\ Goto(p, "collected", back[p])
    /\ exclusive' = {}
    /\ listed' = {} /\ sweep' = {} /\ cascade' = {} /\ victim' = {}
    /\ UNCHANGED <<disk, shared, keyLock, opts, runs, failedRecency, target, seen, known, executing, back, now, faults>>

(***************************************************************************)
(* The environment.                                                        *)
(***************************************************************************)
Fault(kind) == kind \in Faults /\ faults < MaxFaults /\ faults' = faults + 1

\* Cancellation while waiting for a lock, or between two removals of a collection.
Cancel(p) ==
    /\ Fault("cancel")
    /\ \/ /\ Goto(p, "leasing", "idle") \/ Goto(p, "pruning", "idle")
          /\ UNCHANGED <<exclusive, listed, sweep, cascade, victim>>
       \/ /\ Goto(p, "locking", "session")
          /\ UNCHANGED <<exclusive, listed, sweep, cascade, victim>>
       \/ /\ Collecting(p) /\ victim = {}
          /\ pc' = [pc EXCEPT ![p] = back[p]]
          /\ exclusive' = {}
          /\ listed' = {} /\ sweep' = {} /\ cascade' = {} /\ victim' = {}
    /\ UNCHANGED <<disk, shared, keyLock, opts, runs, failedRecency, target, seen, known, executing, back, now>>

\* What a dead process leaves: its files stay, its locks do not.
Dies(p) ==
    /\ pc' = [pc EXCEPT ![p] = "idle"]
    /\ orphan' = (orphan \/ partial[p] # {})
    /\ partial' = [partial EXCEPT ![p] = {}]
    /\ shared' = [shared EXCEPT ![p] = 0]
    /\ exclusive' = exclusive \ {p}
    /\ keyLock' = [q \in Plugin |-> keyLock[q] \ {p}]
    /\ known' = [known EXCEPT ![p] = {}]
    /\ executing' = [executing EXCEPT ![p] = {}]
    /\ IF p \in exclusive
       THEN listed' = {} /\ sweep' = {} /\ cascade' = {} /\ victim' = {}
       ELSE UNCHANGED <<listed, sweep, cascade, victim>>
    /\ UNCHANGED <<object, indexState, indexObjects, uses, opts, runs, failedRecency, target, seen, back, now>>

Crash(p) ==
    /\ pc[p] # "idle"
    /\ Fault("crash")
    /\ Dies(p)
    /\ UNCHANGED <<files, complete>>

\* os.RemoveAll of an installation removes its children in directory order: a
\* process that dies inside it may leave the marker beside fewer files.
TornRemoval(p, q) ==
    /\ Collecting(p) /\ victim = {} /\ q \in NextVictims(p) /\ opts[p] # "dry"
    /\ Fault("torn")
    /\ files' = [files EXCEPT ![q] = "torn"]
    /\ complete' \in {complete, [complete EXCEPT ![q] = FALSE]}
    /\ Dies(p)

\* The disk damages a stored object or an index.
BitRot(d, b) ==
    /\ HasDigest(d)
    /\ Fault("bitrot")
    /\ object' = [object EXCEPT ![d] = b]
    /\ UNCHANGED <<indexState, indexObjects, files, complete, uses, partial, orphan, locks, command, collector, now>>

IndexRot(k) ==
    /\ indexState[k] = "stored"
    /\ Fault("bitrot")
    /\ indexState' = [indexState EXCEPT ![k] = "garbage"]
    /\ UNCHANGED <<object, indexObjects, files, complete, uses, partial, orphan, locks, command, collector, now>>

\* A tick is long against a collection, which reads the clock once.
Tick ==
    /\ now < MaxNow /\ exclusive = {}
    /\ now' = now + 1
    /\ UNCHANGED <<disk, locks, command, collector, faults>>

CommandStep(p) ==
    \/ SkipMaintenance(p) \/ Lease(p) \/ OpenSession(p) \/ CloseSession(p) \/ EndRun(p)
    \/ \E to \in {"leasing", "idle"} : CollectBegin(p, to)

ObjectStep(p) ==
    \/ \E E \in {{}} \cup {{d} : d \in Digest} : WriteBegin(p, E)
    \/ WriteFail(p) \/ ReadFail(p)
    \/ \E d \in Digest : WritePublish(p, d) \/ ReadOpen(p, d) \/ ReadVerified(p, d) \/ ReadDiscard(p, d) \/ Reuse(p, d)
    \/ \E k \in Key : Recall(p, k) \/ \E D \in SUBSET Digest : Remember(p, k, D)

InstallStep(p) ==
    \E q \in Plugin : \/ Installed(p, q) \/ InstallBegin(p, q) \/ InstallLockedDone(p, q)
                      \/ InstallLockedStage(p, q) \/ InstallStaged(p, q) \/ InstallMark(p, q)
                      \/ InstallFail(p, q)

CollectStep(p) ==
    \/ SweepTemporaries(p) \/ CollectDone(p) \/ CollectEnd(p)
    \/ \E e \in Entry : RemoveContent(p, e) \/ RemoveMarker(p, e)

Environment ==
    \/ \E p \in Proc : Cancel(p) \/ Crash(p) \/ \E q \in Plugin : TornRemoval(p, q)
    \/ \E d \in Digest : \E b \in {"flipped", "truncated"} : BitRot(d, b)
    \/ \E k \in Key : IndexRot(k)
    \/ Tick

Next ==
    \/ \E p \in Proc : \/ \E o \in {"online", "offline"} : StartRun(p, o)
                       \/ \E o \in {"prune", "all", "dry"} : StartPrune(p, o)
                       \/ CommandStep(p) \/ ObjectStep(p) \/ InstallStep(p) \/ CollectStep(p)
    \/ Environment

Spec == Init /\ [][Next]_vars

\* The scheduler runs every live process; a command's body is finite, so the
\* session it opened closes and the command ends however many steps it takes.
Fairness ==
    \A p \in Proc :
        /\ WF_vars(SkipMaintenance(p)) /\ WF_vars(Lease(p)) /\ WF_vars(CollectStep(p))
        /\ WF_vars(\E to \in {"leasing", "idle"} : CollectBegin(p, to))
        /\ WF_vars(WriteFail(p)) /\ WF_vars(ReadFail(p))
        /\ WF_vars(\E q \in Plugin : InstallLockedDone(p, q) \/ InstallLockedStage(p, q))
        /\ WF_vars(\E q \in Plugin : InstallMark(p, q) \/ InstallFail(p, q))
        /\ SF_vars(CloseSession(p)) /\ SF_vars(EndRun(p))
FairSpec == Spec /\ Fairness

(***************************************************************************)
(* Properties.                                                             *)
(***************************************************************************)
InSession == {"session", "writing", "reading", "locking", "staging"}
Leased == InSession \cup {"running"}
InCollection == {"collecting", "collected"}

\* Every variable keeps its type.
TypeOK ==
    /\ object \in [Digest -> Bytes \cup {"absent"}]
    /\ indexState \in [Key -> {"none", "stored", "garbage"}]
    /\ indexObjects \in [Key -> SUBSET Digest]
    /\ files \in [Plugin -> {"none", "empty", "partial", "full", "torn"}]
    /\ complete \in [Plugin -> BOOLEAN]
    /\ uses \in [Entry -> Nat]
    /\ partial \in [Proc -> SUBSET {"work", "import"}]
    /\ orphan \in BOOLEAN
    /\ shared \in [Proc -> 0..2]
    /\ exclusive \in SUBSET Proc
    /\ keyLock \in [Plugin -> SUBSET Proc]
    /\ pc \in [Proc -> PC]
    /\ opts \in [Proc -> Options]
    /\ runs \in [Proc -> Nat]
    /\ failedRecency \in [Proc -> BOOLEAN]
    /\ target \in [Proc -> SUBSET Entry]
    /\ seen \in [Proc -> Bytes]
    /\ known \in [Proc -> SUBSET Digest]
    /\ executing \in [Proc -> SUBSET Plugin]
    /\ back \in [Proc -> {"leasing", "idle"}]
    /\ listed \in SUBSET Entry /\ sweep \in SUBSET Entry
    /\ cascade \in SUBSET Entry /\ victim \in SUBSET Entry
    /\ now \in Nat
    /\ faults \in Nat

\* "Exclusive ownership proves all remaining work and partial writes abandoned"
\* (maintenance.go:165): the work directory of an open session and the private
\* file of a running Write exist until their own process removes them.
LiveWorkKept ==
    \A p \in Proc :
        /\ pc[p] \in InSession => "work" \in partial[p]
        /\ pc[p] = "writing" => "import" \in partial[p]

\* "The outer lease prevents collection between those phases" (run.go:15): an
\* object a command has written, verified or reused stays for as long as the
\* command runs, across its sessions, unless some reader hashed a file of that
\* name and found it corrupt.
LeasedContentKept ==
    [][\A p \in Proc : \A d \in known[p] :
          pc[p] \in Leased /\ object[d] # "absent" /\ object'[d] = "absent" =>
              \E r \in Proc : pc[r] = "reading" /\ target[r] = {d} /\ seen[r] # "good"]_vars

\* run.go:31 passes evict only when every use was recorded: maintenance after a
\* command never evicts an object that command used, unless the use was recorded
\* and is older than Grace.
OwnContentKept ==
    [][\A p \in Proc : \A d \in known[p] :
          p \in exclusive /\ HasDigest(d) /\ victim = {} /\ victim' = {d} /\ opts[p] \in {"online", "offline"}
              => ~failedRecency[p] /\ uses[d] < now - Grace]_vars

\* A collection that ran to its end left no index that names a missing object,
\* no unmarked installation, no recency marker without content, no abandoned
\* file, and either is within the budget or holds only recently used entries.
CollectedSound ==
    \A p \in Proc : pc[p] = "collected" /\ opts[p] # "dry" =>
        /\ NoTemporaries
        /\ opts[p] = "all" => Inventory \cap (Digest \cup Plugin) = {}
        /\ Evicts(p) =>
             /\ \A e \in Inventory : Invalid(e) => e \in Key /\ indexState[e] = "garbage"
             /\ \/ ~OverBudget(Inventory)
                \/ \A e \in Inventory : uses[e] >= now - Grace

\* A collection leaves no dangling index and no marker without content, stays in its budget, and
\* takes nothing that the command it follows used (maintenance.go:137-190, run.go:30).
CollectionSound == [][CollectedSound']_vars /\ OwnContentKept

\* "a completion marker makes staged files available only after success"
\* (install.go:28): whoever dies while staging, waiting or collecting, a marker
\* stands beside everything that was staged, or beside what a collector that died
\* inside the removal of the installation left of it.
MarkerMeansStaged == \A q \in Plugin : complete[q] => files[q] \in {"full", "torn"}

\* "Plugin installations are executed in place" (cas.go:44): from the moment a
\* session is given an installation until the session closes, nobody changes it.
ExecutedInPlace ==
    [][\A p \in Proc : \A q \in executing[p] :
          q \in executing'[p] => files'[q] = files[q] /\ complete'[q]]_vars

\* "An object that fails integrity verification is discarded" (cas.go:162): bytes
\* that verify are removed by nobody but the collector.
DiscardsOnlyCorrupt ==
    [][\A d \in Digest : object[d] = "good" /\ object'[d] = "absent" => exclusive # {}]_vars

\* The locks a process holds follow from where it is in its command, and the
\* collector is alone (the inductive strengthening of LiveWorkKept).
LockInv ==
    /\ \A p \in Proc : p \in exclusive <=> pc[p] \in InCollection
    /\ \A p \in Proc : shared[p] # 0 <=> pc[p] \in Leased
    /\ exclusive # {} => \A q \in Proc : shared[q] = 0
    /\ \A p, q \in exclusive : p = q

\* A process that stages holds the key's lock and the key has no marker; what a
\* session executes carries the marker (the strengthening of MarkerMeansStaged
\* and ExecutedInPlace).
StagingInv ==
    \A p \in Proc : pc[p] = "staging" =>
        \E q \in Plugin : target[p] = {q} /\ keyLock[q] = {p} /\ ~complete[q]
ExecutingInv ==
    \A p \in Proc : \A q \in executing[p] : pc[p] \in InSession /\ complete[q]

\* Every command that starts ends: a lease waits only for a collection, a prune
\* only for leases, an install only for another install of its key.
CommandsEnd == \A p \in Proc : pc[p] # "idle" ~> pc[p] = "idle"
=============================================================================
