------------------------------- MODULE Jamf -------------------------------
(***************************************************************************)
(* The Jamf destination (internal/jamf): one software's package record, its *)
(* install policy, its association with a patch title, the title's policy,  *)
(* and retention, kept current by one run after another.  "It keeps no      *)
(* state between runs" (jamf.go:2): a marker in a package's notes and the   *)
(* names of policies are all a run finds again.  Jamf processes uploads in  *)
(* its own time, file names share one distribution point, and               *)
(* administrators edit, refer to packages and take names at any moment.     *)
(*                                                                         *)
(* Abstractions.  One run at a time.  Reads that decide nothing between     *)
(* them are one step; a write and its readback are one step.  A request     *)
(* that fails, or a reply that is lost, is the step without or with its     *)
(* effect followed by Interrupt.  Declared policy settings are one flag,    *)
(* live: enablement and scope, which the code writes last.  Metadata is the *)
(* version whose metadata was written; admin stands for the fields nothing  *)
(* here manages.  Icons are left out; decoding and the documents' trees     *)
(* are in JamfMetadata.                                                    *)
(***************************************************************************)
EXTENDS Integers, Sequences, FiniteSets

CONSTANTS
    Version,    \* artifacts, in the order of their release
    FileOf,     \* the file name of each: a rebuild keeps the name
    Keep,       \* retention.keep, 0 when it is not declared
    MaxId,      \* bound: package records ever created
    MaxFaults,  \* bound: interrupted runs and rejected uploads
    MaxEnv      \* bound: releases, definitions and edits by administrators

NoBytes == 0
Foreign == -1
File == {FileOf[v] : v \in Version}
Id == 1..MaxId
NoId == 0

ConstantsAssumption ==
    /\ 1 \in Version /\ Version \subseteq Nat \ {0} /\ DOMAIN FileOf = Version
    /\ Keep \in Nat /\ MaxId \in Nat \ {0} /\ MaxFaults \in Nat /\ MaxEnv \in Nat

Content == Version \cup {NoBytes, Foreign}
Package == [file : File, mark : {"none", "ours", "other"}, bytes : Content,
            state : {"NONE", "PENDING", "READY", "FAILED"},
            meta : Version \cup {0}, admin : Nat]
Gone == [file |-> "gone"]
Policy == [pkgs : SUBSET Id, live : BOOLEAN]
Patch == [target : Version \cup {0}, live : BOOLEAN]
None == [live |-> "none"]

VARIABLES
    pkgs,      \* package records by ID; an ID is never used again
    uploads,   \* transfers in progress: file name and bytes
    policy,    \* the policy of the declared name
    links,     \* the title's associations: version and package
    defined,   \* the versions the title defines
    patch,     \* the title's policy of the declared name
    others,    \* packages that other policies install
    stages,    \* packages in PreStages
    art,       \* the artifact to publish now
    pin,       \* declared package_id, or NoId
    pc,        \* the run
    goal,      \* the artifact it publishes
    id, cur,   \* the record it publishes into, and as it last read it
    retiring,  \* family members beyond retention
    waiting,   \* the title does not define the version
    read,      \* the associations as it read them
    refs,      \* references found
    planned,   \* what a plan of this run reports as deletions
    deleted,   \* what the run deleted
    quiet,     \* nobody else changed anything since it began
    late,      \* packages referred to since it began to read references
    taken,     \* file names taken by others under a run or a transfer
    faults, env

remote == <<pkgs, uploads, policy, links, defined, patch, others, stages>>
run == <<pc, goal, id, cur, retiring, waiting, read, refs, planned, deleted>>
history == <<quiet, late, taken, faults, env>>
vars == <<remote, art, pin, run, history>>

Live == {p \in DOMAIN pkgs : pkgs[p] # Gone}

\* The packages whose notes carry the marker as a line.
Family == {p \in Live : pkgs[p].mark = "ours"}
Holders(f) == {p \in Live : pkgs[p].file = f}

\* contentDigestMatches().
Matches(r) == r.state = "READY" /\ r.bytes = goal

\* Mutant: the current record is counted with the others.
RetiredAny(family, current) ==
    {p \in family : Keep > 0 /\ Cardinality({q \in family : q > p}) >= Keep - 1}

\* retired(): beyond the current record and the Keep - 1 newest others.
Retired(family, current) ==
    {p \in family \ {current} :
        Keep > 0 /\ Cardinality({q \in family \ {current} : q > p}) >= Keep - 1}

\* What the three enumerations of references() find now.
ByPolicies == others \cup (IF policy = None THEN {} ELSE policy.pkgs)
ByTitles == {l[2] : l \in links}

\* Mutant: a plan does not wait for the title to define the version.
ProjectedAlways(v) == others \cup stages \cup {l[2] : l \in {m \in links : m[1] # v}}

\* The same as a plan projects it: the policy moves to the current record, and so
\* does the association, unless it waits for the title.
Projected(v) ==
    others \cup stages \cup {l[2] : l \in {m \in links : v \notin defined \/ m[1] # v}}

Init ==
    /\ pin \in {NoId, 1}
    /\ \/ pin = NoId /\ pkgs = <<>>
       \/ \E m \in {"none", "other"}, f \in File :
              pkgs = <<[file |-> f, mark |-> m, bytes |-> Foreign, state |-> "READY", meta |-> 0, admin |-> 0]>>
    /\ uploads = {} /\ policy = None /\ links = {} /\ patch = None /\ others = {} /\ stages = {}
    /\ art = 1 /\ defined = {1}
    /\ pc = "idle" /\ goal = 1 /\ id = NoId /\ cur = Gone /\ retiring = {} /\ waiting = FALSE
    /\ read = {} /\ refs = {} /\ planned = {} /\ deleted = {}
    /\ quiet = TRUE /\ late = {} /\ taken = {} /\ faults = 0 /\ env = 0

(***************************************************************************)
(* A run: Handle() with the method apply.                                  *)
(***************************************************************************)
Goto(from, to) == pc = from /\ pc' = to
outside == <<art, pin, faults, env, taken>>

\* Payload, names and title resolve before anything is written.
Begin ==
    /\ Goto("idle", "locate") /\ goal' = art /\ quiet' = TRUE
    /\ id' = NoId /\ cur' = Gone /\ retiring' = {} /\ waiting' = FALSE /\ read' = {}
    /\ refs' = {} /\ planned' = {} /\ deleted' = {}
    /\ UNCHANGED <<remote, outside, late>>

\* The record locate() chooses: the pin, or the member holding the file name.
Chosen(p) ==
    IF pin # NoId THEN p = pin
    ELSE LET same == {q \in Family : pkgs[q].file = FileOf[goal]} IN
         IF same = {} THEN p = NoId ELSE same = {p}

\* Mutant: a file name held by another record is taken over.
LocateUnchecked ==
    \E p \in Live \cup {NoId} :
        /\ pc = "locate" /\ Chosen(p)
        /\ id' = p /\ cur' = IF p = NoId THEN Gone ELSE pkgs[p]
        /\ pc' = "plan"
        /\ UNCHANGED <<remote, outside, goal, retiring, waiting, read, refs, planned, deleted, quiet, late>>

\* Mutant: a record of an interrupted run is not looked for.
LocateNew ==
    /\ pin = NoId /\ id' = NoId /\ cur' = Gone
    /\ Goto("locate", "plan")
    /\ UNCHANGED <<remote, outside, goal, retiring, waiting, read, refs, planned, deleted, quiet, late>>

\* locate(): several members of that name, a missing pin, a pin marked for other
\* software and a name that another record holds are errors.
Locate ==
    \E p \in Live \cup {NoId} :
        /\ pc = "locate" /\ Chosen(p)
        /\ p # NoId => pkgs[p].mark # "other"
        /\ p = NoId \/ pkgs[p].file # FileOf[goal] => Holders(FileOf[goal]) \subseteq {p}
        /\ id' = p /\ cur' = IF p = NoId THEN Gone ELSE pkgs[p]
        /\ pc' = "plan"
        /\ UNCHANGED <<remote, outside, goal, retiring, waiting, read, refs, planned, deleted, quiet, late>>

Located == ENABLED Locate

\* Mutant: an upload is begun over the one in progress.
AfterPlanImpatient == IF id = NoId THEN "create" ELSE "claim"

\* Mutant: a failed transfer is waited for.
AfterPlanStuck ==
    IF id = NoId THEN "create"
    ELSE IF cur.file = FileOf[goal] /\ ~Matches(cur) /\ cur.state # "NONE" THEN "earlier" ELSE "claim"

\* publishPackage(): "A failed transfer must be uploaded again."
AfterPlan ==
    IF id = NoId THEN "create"
    ELSE IF cur.file = FileOf[goal] /\ ~Matches(cur) /\ cur.state \in {"PENDING", "READY"}
         THEN "earlier" ELSE "claim"

\* planPatch() and the selection of retired(): two associations of one version are an
\* error, a version the title does not define is waited for.
Plan ==
    /\ Cardinality({l \in links : l[1] = goal}) <= 1 \/ goal \notin defined
    /\ waiting' = (goal \notin defined)
    /\ retiring' = Retired(Family, id)
    /\ planned' = Retired(Family, id) \ Projected(goal)
    /\ Goto("plan", AfterPlan)
    /\ UNCHANGED <<remote, outside, goal, id, cur, read, refs, deleted, quiet, late>>

New(f, m, b, s) == [file |-> f, mark |-> m, bytes |-> b, state |-> s, meta |-> 0, admin |-> 0]

\* create(): "It carries the marker from creation, so an interrupted run leaves a
\* record the next one finds"; after a lost reply the marker finds it at once.
Create ==
    /\ pc = "create" /\ Len(pkgs) < MaxId
    /\ pkgs' = Append(pkgs, New(FileOf[goal], "ours", NoBytes, "NONE"))
    /\ id' = Len(pkgs) + 1 /\ cur' = pkgs'[id']
    /\ pc' = "claim"
    /\ UNCHANGED <<uploads, policy, links, defined, patch, others, stages, outside,
                   goal, retiring, waiting, read, refs, planned, deleted, quiet, late>>

local == <<goal, retiring, waiting, read, refs, planned, deleted, quiet, late>>

\* awaitContent(): a transfer of an earlier run under this name ends first.
AwaitEarlier ==
    /\ Goto("earlier", "claim")
    /\ pkgs[id].state = "READY" /\ cur' = pkgs[id]
    /\ UNCHANGED <<remote, outside, id, local>>

\* merge(): the claim is the file name and the marker, then the declared metadata.
Wanted(stage, r) ==
    [r EXCEPT !.file = FileOf[goal], !.mark = "ours", !.meta = IF stage = "meta" THEN goal ELSE @]

\* Mutant: the policy moves before the package is published.
AfterMergeEager(stage, r) == IF stage = "claim" THEN "policy" ELSE "idle"

AfterMerge(stage, r) ==
    IF stage = "claim" THEN "upload" ELSE IF Matches(r) THEN "policy" ELSE "idle"

MergeRead(stage) ==
    /\ pc = stage
    /\ IF cur = Wanted(stage, cur) THEN cur' = cur /\ pc' = AfterMerge(stage, cur)
       ELSE /\ cur' = pkgs[id]
            /\ pc' = IF cur' = Wanted(stage, cur') THEN AfterMerge(stage, cur')
                     ELSE IF stage = "claim" THEN "claimPut" ELSE "metaPut"
    /\ UNCHANGED <<remote, outside, id, local>>

Editable(r) == [file |-> r.file, mark |-> r.mark, meta |-> r.meta, admin |-> r.admin]

\* Mutant: the update does not depend on the ETag.
MergePutBlind(stage) ==
    /\ pc = IF stage = "claim" THEN "claimPut" ELSE "metaPut"
    /\ pkgs' = [pkgs EXCEPT ![id] = [Wanted(stage, cur) EXCEPT !.bytes = pkgs[id].bytes, !.state = pkgs[id].state]]
    /\ cur' = pkgs'[id] /\ pc' = AfterMerge(stage, cur')
    /\ UNCHANGED <<uploads, policy, links, defined, patch, others, stages, outside, id, local>>

\* The whole object is replaced under If-Match, and read back.
MergePut(stage) ==
    /\ pc = IF stage = "claim" THEN "claimPut" ELSE "metaPut"
    /\ pkgs' = IF Editable(pkgs[id]) = Editable(cur)
               THEN [pkgs EXCEPT ![id] = Wanted(stage, @)] ELSE pkgs
    /\ cur' = pkgs'[id]
    /\ pc' = IF cur' = Wanted(stage, cur') THEN AfterMerge(stage, cur') ELSE "idle"
    /\ UNCHANGED <<uploads, policy, links, defined, patch, others, stages, outside, id, local>>

Upload ==
    /\ pc = "upload"
    /\ IF Matches(cur)
       THEN pc' = "meta" /\ UNCHANGED <<pkgs, uploads>>
       ELSE /\ uploads' = uploads \cup {<<FileOf[goal], goal>>}
            /\ pkgs' = [pkgs EXCEPT ![id].state = "PENDING"]
            /\ pc' = "await"
    /\ UNCHANGED <<policy, links, defined, patch, others, stages, outside, id, cur, local>>

\* "Declared metadata follows verified content".
Await ==
    /\ pc = "await"
    /\ pkgs[id].state = "READY" /\ cur' = pkgs[id]
    /\ pc' = IF Matches(cur') /\ cur'.file = FileOf[goal] THEN "meta" ELSE "idle"
    /\ UNCHANGED <<remote, outside, id, local>>

(***************************************************************************)
(* Policies.  Created disabled and unscoped, so "never live before it is    *)
(* complete"; what is declared follows as an update of the document read.   *)
(***************************************************************************)
installs == <<pkgs, uploads, defined, others, stages, outside,
              goal, id, cur, retiring, waiting, refs, planned, deleted, quiet, late>>

ApplyPolicy ==
    /\ pc = "policy"
    /\ policy' = IF policy = None THEN [pkgs |-> {id}, live |-> FALSE] ELSE policy
    /\ pc' = IF policy' = [pkgs |-> {id}, live |-> TRUE] THEN "title" ELSE "policyPut"
    /\ UNCHANGED <<installs, links, patch, read>>

\* The readback fails when the policy was deleted meanwhile.
UpdatePolicy ==
    /\ Goto("policyPut", "title")
    /\ policy # None
    /\ policy' = [pkgs |-> {id}, live |-> TRUE]
    /\ UNCHANGED <<installs, links, patch, read>>

\* applyPatch(): the association of the version, unless the title does not define it.
ApplyLink ==
    /\ pc = "title"
    /\ waiting \/ Cardinality({l \in links : l[1] = goal}) <= 1
    /\ read' = links
    /\ pc' = IF waiting \/ <<goal, id>> \in links THEN "patch" ELSE "titlePut"
    /\ UNCHANGED <<installs, links, patch, policy>>

\* setTitlePackages(): the list as read, with this version's association replaced.
PutLinks ==
    /\ Goto("titlePut", "patch")
    /\ links' = {l \in read : l[1] # goal} \cup {<<goal, id>>}
    /\ UNCHANGED <<installs, policy, patch, read>>

AfterPatch == IF retiring = {} THEN "done" ELSE "refs1"
ApplyPatchPolicy ==
    /\ pc = "patch"
    /\ patch' = IF patch # None THEN patch
                ELSE IF waiting THEN None ELSE [target |-> goal, live |-> FALSE]
    /\ pc' = IF patch' = None THEN AfterPatch ELSE "patchPut"
    /\ UNCHANGED <<installs, policy, links, read>>

\* The target waits while the title lacks the version; other settings apply.
UpdatePatchPolicy ==
    /\ pc = "patchPut" /\ pc' = AfterPatch
    /\ patch' = [target |-> IF waiting THEN patch.target ELSE goal, live |-> TRUE]
    /\ UNCHANGED <<installs, policy, links, read>>

(***************************************************************************)
(* Retention: prune().  "deletion uses the current references".             *)
(***************************************************************************)
pruning == <<policy, links, defined, patch, others, stages, outside,
             goal, id, cur, waiting, read, planned, quiet>>

\* Mutant: only policies are asked.
ReadStagesNever == Goto("refs2", "delete") /\ UNCHANGED <<pruning, pkgs, uploads, retiring, deleted, late, refs>>

ReadPolicies ==
    /\ Goto("refs1", "refs2") /\ refs' = ByPolicies /\ late' = {}
    /\ UNCHANGED <<pruning, pkgs, uploads, retiring, deleted>>
ReadStages ==
    /\ Goto("refs2", "refs3") /\ refs' = refs \cup stages
    /\ UNCHANGED <<pruning, pkgs, uploads, retiring, deleted, late>>
ReadTitles ==
    /\ Goto("refs3", "delete") /\ refs' = refs \cup ByTitles
    /\ UNCHANGED <<pruning, pkgs, uploads, retiring, deleted, late>>

\* One request per package, newest first; one already gone is no error.  A file that
\* is deleted is transferred no more.
Delete ==
    /\ pc = "delete" /\ retiring # {}
    /\ LET p == CHOOSE q \in retiring : \A r \in retiring : r <= q IN
       /\ retiring' = retiring \ {p}
       /\ pkgs' = IF p \in refs THEN pkgs ELSE [pkgs EXCEPT ![p] = Gone]
       /\ uploads' = IF p \in refs THEN uploads ELSE {u \in uploads : u[1] # pkgs[p].file}
       /\ deleted' = IF p \in refs THEN deleted ELSE deleted \cup {p}
    /\ UNCHANGED <<pruning, pc, refs, late>>
Pruned ==
    /\ Goto("delete", "done") /\ retiring = {}
    /\ UNCHANGED <<pruning, pkgs, uploads, retiring, deleted, refs, late>>

Finish == Goto("done", "idle") /\ UNCHANGED <<remote, outside, id, cur, local>>

\* A step whose precondition fails ends the run with an error.
Refused ==
    /\ \/ pc = "locate" /\ ~Located
       \/ pc = "plan" /\ goal \in defined /\ Cardinality({l \in links : l[1] = goal}) > 1
       \/ pc \in {"earlier", "await"} /\ pkgs[id].state = "FAILED"
       \/ pc = "policyPut" /\ policy = None
       \/ pc = "title" /\ ~waiting /\ Cardinality({l \in links : l[1] = goal}) > 1
    /\ pc' = "idle"
    /\ UNCHANGED <<remote, outside, id, cur, local>>

(***************************************************************************)
(* Faults, Jamf, and everybody else.                                       *)
(***************************************************************************)
Interrupt ==
    /\ pc \notin {"idle", "done"} /\ faults < MaxFaults
    /\ faults' = faults + 1 /\ pc' = "idle"
    /\ UNCHANGED <<remote, art, pin, env, taken, id, cur, local>>

\* A transfer ends; every record of that name shows the file.
Process(u) ==
    /\ uploads' = uploads \ {u}
    /\ pkgs' = [p \in DOMAIN pkgs |->
                   IF p \in Holders(u[1]) THEN [pkgs[p] EXCEPT !.bytes = u[2], !.state = "READY"] ELSE pkgs[p]]
    /\ UNCHANGED <<policy, links, defined, patch, others, stages, art, pin, run, history>>
Reject(u) ==
    /\ faults < MaxFaults /\ faults' = faults + 1
    /\ uploads' = uploads \ {u}
    /\ pkgs' = [p \in DOMAIN pkgs |->
                   IF p \in Holders(u[1]) THEN [pkgs[p] EXCEPT !.state = "FAILED"] ELSE pkgs[p]]
    /\ UNCHANGED <<policy, links, defined, patch, others, stages, art, pin, run, quiet, late, taken, env>>

Moves == env < MaxEnv /\ env' = env + 1 /\ quiet' = FALSE
Release(v) ==
    /\ Moves /\ v # art /\ art' = v
    /\ UNCHANGED <<remote, pin, run, late, taken, faults>>
Define(v) ==
    /\ Moves /\ v \notin defined /\ defined' = defined \cup {v}
    /\ UNCHANGED <<pkgs, uploads, policy, links, patch, others, stages, art, pin, run, late, taken, faults>>

\* Administrators upload a package of their own under a free name,
AdminCreates(f) ==
    /\ Moves /\ Len(pkgs) < MaxId /\ Holders(f) = {}
    /\ pkgs' = Append(pkgs, New(f, "none", Foreign, "READY"))
    /\ taken' = IF pc # "idle" \/ \E u \in uploads : u[1] = f THEN taken \cup {f} ELSE taken
    /\ UNCHANGED <<uploads, policy, links, defined, patch, others, stages, art, pin, run, late, faults>>
\* edit a field that nothing here manages,
AdminEdits(p) ==
    /\ Moves /\ pkgs' = [pkgs EXCEPT ![p].admin = @ + 1]
    /\ UNCHANGED <<uploads, policy, links, defined, patch, others, stages, art, pin, run, late, taken, faults>>
\* and deploy a package that has content by a policy, a PreStage or the title.
AdminRefers(p) ==
    /\ Moves /\ pkgs[p].bytes # NoBytes /\ late' = late \cup {p}
    /\ \/ others' = others \cup {p} /\ UNCHANGED <<stages, policy, links>>
       \/ stages' = stages \cup {p} /\ UNCHANGED <<others, policy, links>>
       \/ policy' = [pkgs |-> {p}, live |-> TRUE] /\ UNCHANGED <<others, stages, links>>
       \/ \E v \in Version : links' = links \cup {<<v, p>>} /\ UNCHANGED <<others, stages, policy>>
    /\ UNCHANGED <<pkgs, uploads, defined, patch, art, pin, run, taken, faults>>
AdminForgets ==
    /\ Moves
    /\ \/ policy # None /\ policy' = None /\ UNCHANGED <<others, stages>>
       \/ others # {} /\ others' = {} /\ UNCHANGED <<policy, stages>>
       \/ stages # {} /\ stages' = {} /\ UNCHANGED <<policy, others>>
    /\ UNCHANGED <<pkgs, uploads, links, defined, patch, art, pin, run, late, taken, faults>>

Run ==
    \/ Begin \/ Locate \/ Plan \/ Create \/ AwaitEarlier \/ Upload \/ Await
    \/ \E s \in {"claim", "meta"} : MergeRead(s) \/ MergePut(s)
    \/ ApplyPolicy \/ UpdatePolicy \/ ApplyLink \/ PutLinks \/ ApplyPatchPolicy \/ UpdatePatchPolicy
    \/ ReadPolicies \/ ReadStages \/ ReadTitles \/ Delete \/ Pruned \/ Finish \/ Refused
JamfStep == \E u \in uploads : Process(u)
Admin ==
    \/ \E v \in Version : Release(v) \/ Define(v)
    \/ \E f \in File : AdminCreates(f)
    \/ \E p \in Live : AdminEdits(p) \/ AdminRefers(p)
    \/ AdminForgets
Next == Run \/ Interrupt \/ JamfStep \/ (\E u \in uploads : Reject(u)) \/ Admin

Spec == Init /\ [][Next]_vars
FairSpec == Spec /\ WF_vars(Run) /\ WF_vars(JamfStep)

(***************************************************************************)
(* Properties.                                                             *)
(***************************************************************************)
\* Every variable keeps its type, and the record in hand exists.
TypeOK ==
    /\ \A p \in DOMAIN pkgs : pkgs[p] = Gone \/ pkgs[p] \in Package
    /\ uploads \subseteq File \X Version
    /\ policy \in Policy \cup {None} /\ patch \in Patch \cup {None}
    /\ links \subseteq Version \X Id /\ others \cup stages \subseteq Id
    /\ id \in Id \cup {NoId} /\ retiring \cup refs \cup planned \cup deleted \subseteq Id
    /\ id # NoId => id \in Live

\* "an interrupted run leaves a record the next one finds" (package.go:57): however
\* runs end, the software never has two records for one file name, which would
\* stop every later run (package.go:213).
OneRecordPerFile == \A p, q \in Family : pkgs[p].file = pkgs[q].file => p = q

\* "a policy is never live before it is complete" (policy.go:424): a live policy never
\* offers a record that has not held content.
LivePolicyHasContent ==
    policy # None /\ policy.live => \A p \in policy.pkgs \cap Live : pkgs[p].bytes # NoBytes

\* "Only an existing record for this filename can hold an earlier upload"
\* (package.go:420): two transfers to one file never overlap, so which bytes it ends
\* with does not depend on Jamf's order.  A pinned record may change its name and
\* take it back while the first transfer lasts.
OneTransferPerFile == pin = NoId => \A u, w \in uploads : u[1] = w[1] => u = w

\* "plan reports the same deletions" (retention.go:39): when nobody else changes
\* anything, an apply deletes exactly what its plan reported.
PlanHonest == pc = "done" /\ quiet => deleted = planned

\* "a package missing from a partial read may still be deployed" (retention.go:72):
\* retention deletes only what nothing referred to when it read the references.
KeepsReferenced ==
    \A p \in Live : pkgs'[p] = Gone => p \notin (others \cup stages \cup ByPolicies \cup ByTitles) \ late
ReferencedKept == [][KeepsReferenced]_vars

\* "taking a name another record holds would replace that package's content"
\* (package.go:228): the bytes of records without the marker do not change, unless
\* their name was taken under a run or a transfer.
KeepsOthersBytes ==
    \A p \in Live : pkgs[p].mark # "ours" /\ pkgs[p].file \notin taken
                        => pkgs'[p] # Gone /\ pkgs'[p].bytes = pkgs[p].bytes
OthersBytesKept == [][KeepsOthersBytes]_vars

\* "a whole-object update preserves the fields nothing here manages"
\* (package.go:31), also those edited between its read and its write.
KeepsAdminEdits == \A p \in Live : pkgs'[p] # Gone => pkgs'[p].admin >= pkgs[p].admin
AdminEditsKept == [][KeepsAdminEdits]_vars

\* Once faults and edits stop, the artifact is deployed and retention has been done,
\* unless the code refuses for a reason that an administrator must remove.
Deployed ==
    \E p \in Family :
        /\ pkgs[p] = [pkgs[p] EXCEPT !.file = FileOf[art], !.bytes = art, !.state = "READY", !.meta = art]
        /\ policy = [pkgs |-> {p}, live |-> TRUE]
        /\ art \in defined => <<art, p>> \in links /\ patch = [target |-> art, live |-> TRUE]
        /\ Retired(Family, p) \subseteq others \cup stages \cup ByTitles
Blocked ==
    \/ Len(pkgs) = MaxId
    \/ pin # NoId /\ pkgs[pin].mark = "other"
    \/ pin # NoId /\ ~(Holders(FileOf[art]) \subseteq {pin})
    \/ pin = NoId /\ \E p \in Holders(FileOf[art]) : pkgs[p].mark # "ours"
    \/ art \in defined /\ Cardinality({l \in links : l[1] = art}) > 1
Converges == <>[](Deployed \/ Blocked)
=============================================================================
