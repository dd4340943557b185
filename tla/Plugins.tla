------------------------------ MODULE Plugins ------------------------------
(***************************************************************************)
(* How a plugin's code is published, locked, installed and run               *)
(* (internal/plugins, and the commands of internal/engine/plugins.go).       *)
(*                                                                         *)
(* Content is a sequence: <<r>> is the release r of an image, <<a, b>> a       *)
(* local directory of two files with those versions.  A release is a layer,   *)
(* a manifest and an index, parts 1, 2 and 3, each naming the one before it.  *)
(* Files only go forward: no content comes back once it was changed.          *)
(***************************************************************************)
EXTENDS Naturals, Sequences
CONSTANTS
    Release, Runnable,   \* releases, and those whose bundle holds the entrypoint
    Declarations,        \* <<"tag", name>>, <<"digest", release>>, <<"path">>, or <<>> for none
    Job,                 \* loads that may run at a time
    Offline,             \* whether jobs may be told to stay offline
    MaxEdits, MaxJobs, MaxFaults
ConstantsAssumption ==
    /\ Release \subseteq Nat \ {0} /\ Runnable \subseteq Release /\ Offline \subseteq BOOLEAN
    /\ \A d \in Declarations : d # <<>> /\ d[1] = "digest" => d[2] \in Release
    /\ {MaxEdits, MaxJobs, MaxFaults} \subseteq Nat

VARIABLES
    registry, tag, pub,      \* how many parts of a release it holds, what the tag names, publishers
    declared, files, entry,  \* the project: its declaration, local files and lock entry
    cache, installs,         \* parts kept as good or bad bytes, installations by key
    jobs, edits, started, faults,
    tampered, onDisk, loaded \* keys changed by hand, contents the directory had, locks that loaded
vars == <<registry, tag, pub, declared, files, entry, cache, installs, jobs, edits, started, faults, tampered, onDisk, loaded>>
project == <<declared, files, entry, edits, onDisk>>
store == <<cache, installs, tampered>>
remote == <<registry, tag, pub>>

Part == Release \X (1..3)
Idle == [step |-> "idle"]
Init ==
    /\ registry = [r \in Release |-> 0] /\ tag = 0 /\ pub = [r \in Release |-> "idle"]
    /\ declared \in Declarations /\ files = <<1, 1>> /\ entry = <<>>
    /\ cache = [p \in Part |-> "absent"] /\ installs = <<>>
    /\ jobs = [j \in Job |-> Idle] /\ edits = 0 /\ started = 0 /\ faults = 0
    /\ tampered = {} /\ onDisk = {files} /\ loaded = {}

(***************************************************************************)
(* Publish: the bundles are checked, the tag is looked up, and the parts are  *)
(* pushed, each after what it names; the index comes with the tag.           *)
(***************************************************************************)
Publisher(r, at, to) == /\ pub[r] = at /\ pub' = [pub EXCEPT ![r] = to]
\* Mutant: the bundle is not tried.
CheckBundlesNot(r) == Publisher(r, "idle", "resolve")
CheckBundles(r) == Publisher(r, "idle", IF r \in Runnable THEN "resolve" ELSE "refused")
LookUpTag(r) == Publisher(r, "resolve", IF tag = 0 THEN "push" ELSE IF tag = r THEN "tagged" ELSE "refused")
Push(r) == /\ Publisher(r, "push", "push") /\ registry[r] < 2 /\ registry' = [registry EXCEPT ![r] = @ + 1]
\* Mutant: the index does not wait for what it names.
TagIndexEarly(r) == /\ Publisher(r, "push", "tagged") /\ registry[r] < 3 /\ registry' = [registry EXCEPT ![r] = IF @ = 2 THEN 3 ELSE @] /\ tag' = r
TagIndex(r) == /\ Publisher(r, "push", "tagged") /\ registry[r] = 2 /\ registry' = [registry EXCEPT ![r] = 3] /\ tag' = r
Abandon(r) == /\ faults < MaxFaults /\ faults' = faults + 1 /\ pub[r] \in {"resolve", "push"} /\ Publisher(r, pub[r], "idle")
Publish ==
    /\ \E r \in Release :
        \/ (CheckBundles(r) \/ LookUpTag(r)) /\ UNCHANGED <<registry, tag, faults>>
        \/ Push(r) /\ UNCHANGED <<tag, faults>>
        \/ TagIndex(r) /\ UNCHANGED faults
        \/ Abandon(r) /\ UNCHANGED <<registry, tag>>
    /\ UNCHANGED <<project, store, jobs, started, loaded>>

(***************************************************************************)
(* Loading.                                                                *)
(***************************************************************************)
\* Pin and Load: an entry answers the declaration it was made for, no other.
AnswersAny(e, declaration) == e # <<>>
Answers(e, declaration) == e # <<>> /\ e[1].declaration = declaration
Pin(declaration, e) ==
    IF declaration # <<>> /\ declaration[1] = "digest" THEN <<declaration[2]>> ELSE IF Answers(e, declaration) THEN e[1].digest ELSE <<>>

\* A run loads what is locked; lock resolves what the lock does not answer; update resolves anew.
Kind == {"run", "verify", "lock", "update"}
Resolves(x) == x.kind \in {"lock", "update"}
Start(j) ==
    /\ jobs[j] = Idle /\ started < MaxJobs /\ started' = started + 1 /\ declared # <<>>
    /\ \E kind \in Kind, offline \in Offline :
        /\ (kind = "update" => ~offline)
        \* lockfile.Lock: one job at a time may change the lock
        /\ kind \in {"lock", "update"} => \A i \in Job : jobs[i].step # "idle" => ~Resolves(jobs[i])
        /\ LET previous == IF kind = "update" THEN <<>> ELSE entry IN
           jobs' = [jobs EXCEPT ![j] =
               [step |-> IF declared[1] = "path" THEN "hashA" ELSE "select", kind |-> kind, offline |-> offline,
                declaration |-> declared, locked |-> entry, pin |-> Pin(declared, previous),
                key |-> <<>>, staged |-> <<>>, ran |-> <<>>]]
    /\ UNCHANGED <<remote, project, store, faults, loaded>>

Goto(j, to) == jobs' = [jobs EXCEPT ![j].step = to]
At(j, step) == jobs[j].step = step
Give(j, to, field, value) == jobs' = [jobs EXCEPT ![j] = [@ EXCEPT !.step = to, ![field] = value]]
quiet == <<remote, project, started, faults, loaded>>

\* Resolve: only a job that resolves asks the registry what the tag names.
Select(j) ==
    /\ At(j, "select")
    /\ IF jobs[j].pin # <<>> THEN Give(j, "index", "key", jobs[j].pin)
       ELSE IF Resolves(jobs[j]) /\ ~jobs[j].offline /\ tag # 0 THEN Give(j, "index", "key", <<tag>>)
       ELSE Goto(j, "failed")
    /\ UNCHANGED <<quiet, store>>
\* Fetch: verified bytes of the cache, or the registry's.
Fetch(j, at, part, to) ==
    /\ At(j, at)
    /\ LET p == <<jobs[j].key[1], part>>
           has == cache[p] = "good"
           gets == ~jobs[j].offline /\ registry[p[1]] >= part
       IN  /\ Goto(j, IF has \/ gets THEN to ELSE "failed")
           /\ cache' = IF ~has /\ gets THEN [cache EXCEPT ![p] = "good"] ELSE cache
    /\ UNCHANGED <<quiet, installs, tampered>>
\* install: a complete installation is trusted, except by verify.
\* Mutant: what is installed is looked at only with the manifest.
InstalledLater(j) == FALSE
Installed(j) == jobs[j].key \in DOMAIN installs /\ jobs[j].kind # "verify"
Install(j) ==
    /\ At(j, "install")
    /\ Goto(j, IF Installed(j) THEN "describe" ELSE IF jobs[j].declaration[1] = "path" THEN "copyA" ELSE "manifest")
    /\ UNCHANGED <<quiet, store>>
Extract(j) ==
    /\ At(j, "extract")
    /\ IF jobs[j].key[1] \in Runnable THEN Give(j, "place", "staged", jobs[j].key) ELSE Goto(j, "failed")
    /\ UNCHANGED <<quiet, store>>
\* Load of a local path hashes it, compares, and copies what it hashed.
HashA(j) == At(j, "hashA") /\ Give(j, "hashB", "key", <<files[1]>>) /\ UNCHANGED <<quiet, store>>
HashB(j) == At(j, "hashB") /\ Give(j, "compare", "key", Append(jobs[j].key, files[2])) /\ UNCHANGED <<quiet, store>>
Compare(j) ==
    /\ At(j, "compare") /\ Goto(j, IF Resolves(jobs[j]) \/ jobs[j].key = jobs[j].pin THEN "install" ELSE "failed")
    /\ UNCHANGED <<quiet, store>>
CopyA(j) == At(j, "copyA") /\ Give(j, "copyB", "staged", <<files[1]>>) /\ UNCHANGED <<quiet, store>>
\* Mutant: the copy is not compared with what was hashed.
CopyBUnchecked(j) == At(j, "copyB") /\ Give(j, "place", "staged", Append(jobs[j].staged, files[2])) /\ UNCHANGED <<quiet, store>>
CopyB(j) ==
    /\ At(j, "copyB")
    /\ LET copy == Append(jobs[j].staged, files[2]) IN
       IF copy = jobs[j].key THEN Give(j, "place", "staged", copy) ELSE Goto(j, "failed")
    /\ UNCHANGED <<quiet, store>>
\* verify compares an installation; without one the staged files become it.
Place(j) ==
    /\ At(j, "place")
    /\ LET key == jobs[j].key IN
       IF key \in DOMAIN installs
       THEN Goto(j, IF installs[key] = jobs[j].staged \/ jobs[j].kind # "verify" THEN "describe" ELSE "failed") /\ UNCHANGED installs
       ELSE Goto(j, "describe") /\ installs' = [k \in DOMAIN installs \cup {key} |-> IF k = key THEN jobs[j].staged ELSE installs[k]]
    /\ UNCHANGED <<quiet, cache, tampered>>
\* Describe runs the code; it may not answer, or collide with what is registered.
Describe(j) ==
    /\ At(j, "describe") /\ \E ok \in BOOLEAN : IF ok THEN Give(j, "loaded", "ran", installs[jobs[j].key]) ELSE Goto(j, "failed")
    /\ UNCHANGED <<quiet, store>>

EntryOf(x) == IF x.declaration[1] = "digest" THEN <<>> ELSE <<[declaration |-> x.declaration, digest |-> x.key]>>
\* UpdatePlugins and loadOperations: a plugin that does not load keeps its entry.
SavedAlways(x) == EntryOf(x)
Saved(x) == IF x.step = "loaded" THEN EntryOf(x) ELSE x.locked
End(j) ==
    /\ jobs[j].step \in {"loaded", "failed"} /\ jobs' = [jobs EXCEPT ![j] = Idle]
    /\ entry' = IF Resolves(jobs[j]) THEN Saved(jobs[j]) ELSE entry
    /\ loaded' = IF jobs[j].step = "loaded" THEN loaded \cup {EntryOf(jobs[j])} ELSE loaded
    /\ UNCHANGED <<remote, store, declared, files, edits, onDisk, started, faults>>
Interrupt(j) ==
    /\ faults < MaxFaults /\ faults' = faults + 1 /\ jobs[j] # Idle /\ jobs' = [jobs EXCEPT ![j] = Idle]
    /\ UNCHANGED <<remote, project, store, started, loaded>>
Load == \E j \in Job :
    \/ Start(j) \/ Select(j) \/ Fetch(j, "index", 3, "install") \/ Install(j)
    \/ Fetch(j, "manifest", 2, "layer") \/ Fetch(j, "layer", 1, "extract") \/ Extract(j)
    \/ HashA(j) \/ HashB(j) \/ Compare(j) \/ CopyA(j) \/ CopyB(j)
    \/ Place(j) \/ Describe(j) \/ End(j) \/ Interrupt(j)

\* People edit the project; the bytes of an idle cache may go or change.
Edit ==
    /\ edits < MaxEdits /\ edits' = edits + 1
    /\ \/ \E d \in Declarations \ {declared} : declared' = d /\ UNCHANGED <<files, entry>>
       \/ \E i \in 1..2 : <<"path">> \in Declarations /\ files' = [files EXCEPT ![i] = @ + 1] /\ UNCHANGED <<declared, entry>>
    /\ onDisk' = onDisk \cup {files'}
    /\ UNCHANGED <<remote, store, jobs, started, faults, loaded>>
\* plugins update removes the entry of a plugin that is no longer declared.
Forget ==
    /\ declared = <<>> /\ entry # <<>> /\ \A j \in Job : jobs[j] = Idle
    /\ entry' = <<>> /\ UNCHANGED <<remote, declared, files, edits, onDisk, store, jobs, started, faults, loaded>>
Decay ==
    /\ faults < MaxFaults /\ faults' = faults + 1 /\ \A j \in Job : jobs[j] = Idle
    /\ \/ \E p \in Part : cache[p] = "good" /\ cache' = [cache EXCEPT ![p] = "bad"] /\ UNCHANGED <<installs, tampered>>
       \/ \E k \in DOMAIN installs : installs' = [installs EXCEPT ![k] = <<0>>] /\ tampered' = tampered \cup {k} /\ UNCHANGED cache
       \/ cache' = [p \in Part |-> "absent"] /\ UNCHANGED <<installs, tampered>>
       \/ installs' = <<>> /\ UNCHANGED <<cache, tampered>>
    /\ UNCHANGED <<remote, project, jobs, started, loaded>>

Next == Publish \/ Load \/ Edit \/ Forget \/ Decay
Spec == Init /\ [][Next]_vars

(***************************************************************************)
(* Properties.                                                             *)
(***************************************************************************)
\* What a tag names can be installed and run, whichever publication was cut off or
\* raced with another ("a failed publication names no partial release", publish.go:36).
ReleaseWhole == tag # 0 => registry[tag] = 3 /\ tag \in Runnable
\* A job that resolves nothing executes exactly what its declaration, or the entry
\* made for it, pins: whatever the tag names now, whatever happened to the files. One
\* that resolves executes what it would lock. Only an installation changed by hand
\* escapes, and not under verify.
RunsPinned == \A j \in Job : At(j, "loaded") =>
    LET x == jobs[j]
        pinned == IF x.declaration[1] = "digest" THEN <<x.declaration[2]>>
                  ELSE IF x.locked # <<>> /\ x.locked[1].declaration = x.declaration THEN x.locked[1].digest ELSE <<>>
    IN  /\ (~Resolves(x) => x.key = pinned)
        /\ x.ran = x.key \/ (x.key \in tampered /\ x.kind # "verify")
\* An installation of local files holds what the directory held at one moment, though
\* hashing and copying read file after file while it is edited.
InstalledWasOnDisk == \A k \in DOMAIN installs : Len(k) = 2 => k \in onDisk /\ (installs[k] = k \/ k \in tampered)
\* Every entry of the lock once loaded: a failed update leaves the one that worked.
LockedLoaded == entry # <<>> => entry \in loaded
\* A load gives up for want of the registry only while it misses the index or the
\* installation: an installed, locked plugin runs offline.
InstalledSuffices == \A j \in Job :
    (jobs[j].step \in {"index", "manifest", "layer"} /\ jobs'[j].step = "failed") =>
        cache[<<jobs[j].key[1], 3>>] # "good" \/ jobs[j].key \notin DOMAIN installs \/ jobs[j].kind = "verify"
=============================================================================
