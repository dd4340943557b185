----------------------------- MODULE Reconcile -----------------------------
(***************************************************************************)
(* `stemma reconcile` (internal/reconcile): one scheduled run after another *)
(* applies the reviewed branch and keeps one proposal branch, with a pull   *)
(* request, per lock change.  People push, merge, close and delete at any   *)
(* moment, sources move, calls to the host fail and runs die: the run works *)
(* on what it fetched and listed earlier.                                   *)
(*                                                                         *)
(* Abstractions.  A resource's lock entries are one entry: its content and  *)
(* the rest (observation, filename, declaration).  A proposal commit is its *)
(* parent on the reviewed branch, the lock it holds and whether it is still *)
(* the single commit by the configured identity that managed() accepts.     *)
(* The reviewed branch only grows.  Applying and planning are one step with *)
(* an outcome (the engine has its own modules); titles, bodies and reports  *)
(* are left out.  Resolution fails for any set of resources the sources     *)
(* break, which covers the blocked consumers of a failed producer.          *)
(***************************************************************************)
EXTENDS Integers, Sequences, FiniteSets

CONSTANTS
    Res,        \* resource keys, numbered in the order slices.Sorted gives them
    BranchOf,   \* branchName: the branch of a resource
    Content,    \* contents a source can have
    Meta,       \* everything else an entry records
    MaxHead,    \* bound: commits on the reviewed branch
    MaxEnv,     \* bound: moves of people and sources
    MaxFaults,  \* bound: failed calls, failed applies and plans, dead runs
    Moves       \* the kinds of moves people and sources make

Entry == [c : Content, m : Meta]
Refresh == 0    \* the lock refresh: the set's identity and its branch
NoEntry == [c |-> 0, m |-> 0]
Lock == [Res -> Entry \cup {NoEntry}]
Mode == [Res -> {"active", "suspended", "undeclared"}]
Commit == [lock : Lock, mode : Mode, loads : BOOLEAN]
SetId == Res \cup {Refresh}
Branch == {BranchOf[r] : r \in Res} \cup {Refresh}
Tip == [parent : Nat, lock : Lock, own : BOOLEAN, id : Nat]
NoTip == [parent |-> 0, lock |-> [r \in Res |-> NoEntry], own |-> TRUE, id |-> 0]

ASSUME ConstantsAssumption ==
    /\ Res \subseteq Nat \ {Refresh} /\ IsFiniteSet(Res)
    /\ BranchOf \in [Res -> Nat \ {Refresh}]
    /\ Content \subseteq Nat \ {0} /\ Meta \subseteq Nat \ {0}
    /\ MaxHead \in Nat \ {0} /\ MaxEnv \in Nat /\ MaxFaults \in Nat

VARIABLES
    \* origin and the host
    base,        \* the reviewed branch, oldest first
    contained,   \* proposal commits the reviewed branch's history contains
    origin,      \* tip of each managed branch, or NoTip
    open,        \* branches with an open pull request
    closed,      \* per branch, the closed pull requests
    planned,     \* proposal commits whose stemma/plan status is success
    applyStatus, \* stemma/apply status per reviewed commit
    \* sources, destinations, state directory
    upstream, broken, dest, marker,
    \* the run: what it fetched, resolved and listed
    pc, head, fetched, fetchedContained, cand, errs, pulls, todo, doomed,
    \* the proposal in hand
    cur, commit, expected, planOK, applyOK,
    env, faults

hostVars == <<base, contained, origin, open, closed, planned, applyStatus>>
sourceVars == <<upstream, broken>>
runVars == <<head, fetched, fetchedContained, cand, errs, pulls, todo, doomed>>
propVars == <<cur, commit, expected, planOK>>
vars == <<hostVars, sourceVars, dest, marker, pc, runVars, propVars, applyOK, env, faults>>

(***************************************************************************)
(* changes.go: what differs from the reviewed lock, and on which branch.    *)
(***************************************************************************)
Reviewed == base[head]
BranchName(s) == IF s = Refresh THEN Refresh ELSE BranchOf[s]

After(rev, got, r) == IF rev.mode[r] = "undeclared" THEN NoEntry ELSE got[r]

\* diff(): resolved entries that differ, and locked resources no longer declared.
Changed(rev, got, failed) ==
    {r \in Res : \/ rev.mode[r] = "active" /\ r \notin failed /\ got[r] # rev.lock[r]
                 \/ rev.mode[r] = "undeclared" /\ rev.lock[r] # NoEntry}

\* change.refresh(): the content stays as reviewed, or the resource is gone.
LeavesContent(rev, got, r) == rev.mode[r] = "undeclared" \/ got[r].c = rev.lock[r].c

\* changesets(): the resources a set changes; a set without any does not exist.
Members(rev, got, failed, s) ==
    {r \in Changed(rev, got, failed) :
        IF s = Refresh THEN LeavesContent(rev, got, r) ELSE r = s /\ ~LeavesContent(rev, got, r)}
Changesets(rev, got, failed) == {s \in SetId : Members(rev, got, failed, s) # {}}

\* The reviewed lock with the set's entries put in.
ProposedLock(rev, got, failed, s) ==
    [r \in Res |-> IF r \in Members(rev, got, failed, s) THEN After(rev, got, r) ELSE rev.lock[r]]

\* proposes(): published documents already record every change of the set.
Proposes(t, rev, got, failed, s) ==
    \A r \in Members(rev, got, failed, s) : t.lock[r] = After(rev, got, r)

(***************************************************************************)
(* proposal.go: who owns a branch, and what became of its pull request.     *)
(***************************************************************************)
\* managed(): merged into what was fetched, or one commit by the identity.
Managed(t, merged) == t \in merged \/ t.own

\* declined(): the pull request at exactly this tip was closed and not merged.
DeclinedAt(b, t) == \E c \in closed[b] : c.tip = t /\ ~c.merged

\* Mutant of KeptByErrors: the lock refresh is not kept.
KeptOwnOnly(failed) == {BranchOf[r] : r \in failed}

\* Branches an unresolved resource keeps from being retired.
KeptByErrors(failed) == IF failed = {} THEN {} ELSE {BranchOf[r] : r \in failed} \cup {Refresh}

\* The host closes a pull request: its record keeps the branch's tip.
ClosedWith(b, merged, who) == [closed EXCEPT ![b] = @ \cup {[tip |-> origin[b], merged |-> merged, by |-> who]}]

\* An identity that no commit still referred to has.
Referred == {origin[b] : b \in Branch} \cup {fetched[b] : b \in Branch} \cup planned \cup contained
            \cup {c.tip : c \in UNION {closed[b] : b \in Branch}}
FreshId == CHOOSE n \in 1..(Cardinality(Referred) + 1) : \A t \in Referred : t.id # n

Init ==
    /\ \E e \in Entry :
          /\ base = <<[lock |-> [r \in Res |-> e], mode |-> [r \in Res |-> "active"], loads |-> TRUE]>>
          /\ upstream = [r \in Res |-> e]
    /\ contained = {} /\ origin = [b \in Branch |-> NoTip]
    /\ open = {} /\ closed = [b \in Branch |-> {}] /\ planned = {}
    /\ applyStatus = [h \in 1..MaxHead |-> "none"]
    /\ broken = {} /\ dest = 0 /\ marker = 0
    /\ pc = "idle" /\ head = 1
    /\ fetched = [b \in Branch |-> NoTip] /\ fetchedContained = {}
    /\ cand = upstream /\ errs = {} /\ pulls = {} /\ todo = {} /\ doomed = {}
    /\ cur = Refresh /\ commit = NoTip /\ expected = NoTip /\ planOK = TRUE /\ applyOK = FALSE
    /\ env = 0 /\ faults = 0

\* A call fails before it took effect or after it, the reply being lost.
Fails == faults < MaxFaults /\ faults' = faults + 1
Works == UNCHANGED faults

(***************************************************************************)
(* reconcile.go: the run and its apply phase.                              *)
(***************************************************************************)
\* Mutant of Sync: the reviewed tip is the commit below it.
SyncBehind ==
    /\ pc = "idle" /\ pc' = "load"
    /\ head' = Len(base) - 1
    /\ fetched' = origin /\ fetchedContained' = contained
    /\ UNCHANGED <<hostVars, sourceVars, dest, marker, cand, errs, pulls, todo, doomed, propVars, applyOK, env, faults>>

\* sync(): one fetch of the reviewed branch and of every stemma/ branch, pruning.
Sync ==
    /\ pc = "idle" /\ pc' = "load"
    /\ head' = Len(base)
    /\ fetched' = origin /\ fetchedContained' = contained
    /\ UNCHANGED <<hostVars, sourceVars, dest, marker, cand, errs, pulls, todo, doomed, propVars, applyOK, env, faults>>

Load ==
    /\ pc = "load" /\ Reviewed.loads /\ pc' = "apply"
    /\ UNCHANGED <<hostVars, sourceVars, dest, marker, runVars, propVars, applyOK, env, faults>>

\* reject(): a commit that does not load gets a failed status unless it applied before.
Reject ==
    /\ pc = "load" /\ ~Reviewed.loads /\ pc' = "idle"
    /\ \/ Works /\ marker # head /\ applyStatus' = [applyStatus EXCEPT ![head] = "failure"]
       \/ Works /\ marker = head /\ UNCHANGED applyStatus
       \/ Fails /\ UNCHANGED applyStatus
    /\ UNCHANGED <<base, contained, origin, open, closed, planned, sourceVars, dest, marker, runVars, propVars, applyOK, env>>

ApplySkip ==
    /\ pc = "apply" /\ marker = head /\ pc' = "resolve"
    /\ UNCHANGED <<hostVars, sourceVars, dest, marker, runVars, propVars, applyOK, env, faults>>

\* engine.Run("apply"): destinations hold the commit, or a mix of it and what they had.
ApplyRun ==
    /\ pc = "apply" /\ marker # head /\ pc' = "status"
    /\ \/ Works /\ applyOK' = TRUE /\ dest' = head
       \/ Fails /\ applyOK' = FALSE /\ dest' = 0
    /\ UNCHANGED <<hostVars, sourceVars, marker, runVars, propVars, env>>

\* Mutant of ApplyStatus: the marker moves although the status was not recorded.
ApplyStatusLost ==
    /\ pc = "status"
    /\ LET recorded == [applyStatus EXCEPT ![head] = IF applyOK THEN "success" ELSE "failure"] IN
       /\ \/ Works /\ applyStatus' = recorded
          \/ Fails /\ applyStatus' \in {applyStatus, recorded}
       /\ pc' = IF applyOK THEN "mark" ELSE "resolve"
    /\ UNCHANGED <<base, contained, origin, open, closed, planned, sourceVars, dest, marker, runVars, propVars, applyOK, env>>

\* The outcome becomes the stemma/apply status; only success of both leads on to the marker.
ApplyStatus ==
    /\ pc = "status"
    /\ LET recorded == [applyStatus EXCEPT ![head] = IF applyOK THEN "success" ELSE "failure"] IN
       \/ Works /\ applyStatus' = recorded /\ pc' = IF applyOK THEN "mark" ELSE "resolve"
       \/ Fails /\ applyStatus' \in {applyStatus, recorded} /\ pc' = "resolve"
    /\ UNCHANGED <<base, contained, origin, open, closed, planned, sourceVars, dest, marker, runVars, propVars, applyOK, env>>

\* Mutant of WriteMarker: the marker does not outlast the run.
WriteMarkerInVain ==
    /\ pc = "mark" /\ pc' = "resolve" /\ Works
    /\ UNCHANGED <<hostVars, sourceVars, dest, marker, runVars, propVars, applyOK, env>>

WriteMarker ==
    /\ pc = "mark" /\ pc' = "resolve"
    /\ \/ Works /\ marker' = head
       \/ Fails /\ UNCHANGED marker
    /\ UNCHANGED <<hostVars, sourceVars, dest, runVars, propVars, applyOK, env>>

(***************************************************************************)
(* proposal.go: the update phase.                                          *)
(***************************************************************************)
\* engine.Resolve(): every active source is observed once.  A failure of the
\* resolution itself ends the phase.
Resolve ==
    /\ pc = "resolve"
    /\ \/ /\ Works /\ pc' = "list"
          /\ cand' = upstream
          /\ errs' = {r \in broken : Reviewed.mode[r] = "active"}
       \/ Fails /\ pc' = "idle" /\ UNCHANGED <<cand, errs>>
    /\ UNCHANGED <<hostVars, sourceVars, dest, marker, head, fetched, fetchedContained, pulls, todo, doomed, propVars, applyOK, env>>

\* The open pull requests are listed once; then the work is laid out: every
\* set, and every fetched branch that no set and no failed resource keeps.
List ==
    /\ pc = "list"
    /\ \/ /\ Works /\ pc' = "next"
          /\ pulls' = open
          /\ todo' = Changesets(Reviewed, cand, errs)
          /\ doomed' = {b \in Branch : /\ fetched[b] # NoTip
                                       /\ b \notin KeptByErrors(errs)
                                       /\ \A s \in Changesets(Reviewed, cand, errs) : b # BranchName(s)}
       \/ Fails /\ pc' = "idle" /\ UNCHANGED <<pulls, todo, doomed>>
    /\ UNCHANGED <<hostVars, sourceVars, dest, marker, head, fetched, fetchedContained, cand, errs, propVars, applyOK, env>>

\* Mutant of Declines: closed pull requests are not looked at.
DeclinesNothing(s) == FALSE

\* The set would propose again exactly what a closed pull request proposed.
Declines(s) ==
    LET b == BranchName(s) IN
    /\ b \notin pulls /\ DeclinedAt(b, fetched[b])
    /\ Proposes(fetched[b], Reviewed, cand, errs, s)

\* The set considered now: resources in the order of their keys, the lock refresh last.
Turn(s) ==
    /\ pc = "next" /\ s \in todo
    /\ IF s = Refresh THEN todo = {Refresh} ELSE \A q \in todo \ {Refresh} : s <= q

\* propose() leaves the branch alone: a person touched it, the proposal was
\* declined as it stands, it is current, or asking the host failed.
ProposeNothing(s) ==
    LET b == BranchName(s)  t == fetched[b]
        same == t.parent = head /\ t.lock = ProposedLock(Reviewed, cand, errs, s)
    IN
    /\ Turn(s)
    /\ \/ /\ Works /\ t # NoTip
          /\ \/ ~Managed(t, fetchedContained)
             \/ Declines(s)
             \/ same /\ t \in planned /\ b \in pulls
       \/ Fails
    /\ todo' = todo \ {s}
    /\ UNCHANGED <<hostVars, sourceVars, dest, marker, pc, head, fetched, fetchedContained, cand, errs, pulls, doomed, propVars, applyOK, env>>

\* propose() goes on to publish(): the tip as it is ("retried", no push) or a
\* new commit on the reviewed head, planned first.
ProposeCommit(s) ==
    LET b == BranchName(s)  t == fetched[b]
        lock == ProposedLock(Reviewed, cand, errs, s)
        same == t # NoTip /\ t.parent = head /\ t.lock = lock
    IN
    /\ Turn(s)
    /\ t # NoTip => /\ Managed(t, fetchedContained)
                    /\ ~Declines(s)
                    /\ ~(same /\ t \in planned /\ b \in pulls)
    /\ cur' = b /\ expected' = t
    /\ \/ Works /\ planOK' = TRUE
       \/ Fails /\ planOK' = FALSE
    /\ IF same THEN commit' = t /\ pc' = "pull"
       ELSE commit' = [parent |-> head, lock |-> lock, own |-> TRUE, id |-> FreshId] /\ pc' = "push"
    /\ todo' = todo \ {s}
    /\ UNCHANGED <<hostVars, sourceVars, dest, marker, head, fetched, fetchedContained, cand, errs, pulls, doomed, applyOK, env>>

\* Mutant of CanPush: no lease.
CanPushAlways(b) == TRUE

\* Worktree.Push(): origin moves only while it still has the tip the run observed.
CanPush(b) == origin[b] = expected

Push ==
    /\ pc = "push"
    /\ \/ /\ CanPush(cur) /\ Works /\ pc' = "pull"
          /\ origin' = [origin EXCEPT ![cur] = commit]
       \/ ~CanPush(cur) /\ Works /\ pc' = "next" /\ UNCHANGED origin
       \/ /\ Fails /\ pc' = "next"
          /\ origin' = origin \/ (CanPush(cur) /\ origin' = [origin EXCEPT ![cur] = commit])
    /\ UNCHANGED <<base, contained, open, closed, planned, applyStatus, sourceVars, dest, marker, runVars, propVars, applyOK, env>>

\* The pull request that was open when listed is updated, closed or not by now;
\* otherwise one is created, which the host refuses when one is open or when
\* the branch is gone or has nothing beyond the reviewed branch.
CanCreate(b) == b \notin open /\ origin[b] # NoTip /\ origin[b] \notin contained

Pull ==
    /\ pc = "pull"
    /\ \/ cur \in pulls /\ Works /\ pc' = "plan" /\ UNCHANGED open
       \/ cur \notin pulls /\ CanCreate(cur) /\ Works /\ pc' = "plan" /\ open' = open \cup {cur}
       \/ cur \notin pulls /\ ~CanCreate(cur) /\ Works /\ pc' = "next" /\ UNCHANGED open
       \/ /\ Fails /\ pc' = "next"
          /\ UNCHANGED open \/ (cur \notin pulls /\ CanCreate(cur) /\ open' = open \cup {cur})
    /\ UNCHANGED <<base, contained, origin, closed, planned, applyStatus, sourceVars, dest, marker, runVars, propVars, applyOK, env>>

\* The plan's outcome becomes the commit's stemma/plan status.  Statuses of
\* commits no branch has any more are forgotten: nothing reads them.
PlanStatus ==
    /\ pc = "plan" /\ pc' = "next"
    /\ LET read == {t \in planned : \E b \in Branch : t = origin[b]} \ {commit}
           recorded == IF planOK THEN read \cup {commit} ELSE read
       IN
       \/ Works /\ planned' = recorded
       \/ Fails /\ planned' \in {planned, recorded}
    /\ UNCHANGED <<base, contained, origin, open, closed, applyStatus, sourceVars, dest, marker, runVars, propVars, applyOK, env>>

\* retire(): a managed branch nobody keeps; its listed pull request is closed first.
RetireSkip(b) ==
    /\ pc = "next" /\ todo = {} /\ b \in doomed
    /\ \/ ~Managed(fetched[b], fetchedContained) /\ Works
       \/ Managed(fetched[b], fetchedContained) /\ Fails
    /\ doomed' = doomed \ {b}
    /\ UNCHANGED <<hostVars, sourceVars, dest, marker, pc, head, fetched, fetchedContained, cand, errs, pulls, todo, propVars, applyOK, env>>

RetireClose(b) ==
    /\ pc = "next" /\ todo = {} /\ b \in doomed
    /\ Managed(fetched[b], fetchedContained)
    /\ cur' = b /\ expected' = fetched[b] /\ doomed' = doomed \ {b}
    /\ IF b \in pulls /\ b \in open
       THEN open' = open \ {b} /\ closed' = ClosedWith(b, FALSE, "stemma")
       ELSE UNCHANGED <<open, closed>>
    /\ \/ Works /\ pc' = "delete"
       \/ Fails /\ pc' = "next"
    /\ UNCHANGED <<base, contained, origin, planned, applyStatus, sourceVars, dest, marker,
                   head, fetched, fetchedContained, cand, errs, pulls, todo, commit, planOK, applyOK, env>>

\* DeleteBranch(): only while origin still has the tip the run observed.  The
\* host closes a pull request whose branch goes.
RetireDelete ==
    /\ pc = "delete" /\ pc' = "next"
    /\ Works \/ Fails
    /\ \/ /\ CanPush(cur)
          /\ origin' = [origin EXCEPT ![cur] = NoTip]
          /\ open' = open \ {cur}
          /\ closed' = IF cur \in open THEN ClosedWith(cur, FALSE, "stemma") ELSE closed
       \/ ~CanPush(cur) /\ UNCHANGED <<origin, open, closed>>
       \/ faults' # faults /\ UNCHANGED <<origin, open, closed>>
    /\ UNCHANGED <<base, contained, planned, applyStatus, sourceVars, dest, marker,
                   runVars, propVars, applyOK, env>>

Finish ==
    /\ pc = "next" /\ todo = {} /\ doomed = {} /\ pc' = "idle"
    /\ UNCHANGED <<hostVars, sourceVars, dest, marker, runVars, propVars, applyOK, env, faults>>

\* The run dies or is interrupted; only the state directory and the host remain.
Crash ==
    /\ pc # "idle" /\ pc' = "idle" /\ Fails
    /\ dest' \in IF pc = "apply" /\ marker # head THEN {dest, 0} ELSE {dest}
    /\ UNCHANGED <<hostVars, sourceVars, marker, runVars, propVars, applyOK, env>>

(***************************************************************************)
(* People and sources.                                                     *)
(***************************************************************************)
Moving(kind) == kind \in Moves /\ env < MaxEnv /\ env' = env + 1
still == <<pc, runVars, propVars, applyOK, dest, marker, faults>>

\* A person's own commit, on top of the proposal or in place of it.
PersonPush(b) ==
    /\ Moving("push") /\ origin[b] # NoTip /\ origin[b].own
    /\ origin' = [origin EXCEPT ![b] = [@ EXCEPT !.own = FALSE]]
    /\ UNCHANGED <<base, contained, open, closed, planned, applyStatus, sourceVars, still>>

PersonClose(b) ==
    /\ Moving("close") /\ b \in open
    /\ open' = open \ {b} /\ closed' = ClosedWith(b, FALSE, "person")
    /\ UNCHANGED <<base, contained, origin, planned, applyStatus, sourceVars, still>>

PersonDelete(b) ==
    /\ Moving("delete") /\ origin[b] # NoTip
    /\ origin' = [origin EXCEPT ![b] = NoTip]
    /\ open' = open \ {b}
    /\ closed' = IF b \in open THEN ClosedWith(b, FALSE, "host") ELSE closed
    /\ UNCHANGED <<base, contained, planned, applyStatus, sourceVars, still>>

\* A merge applies what the proposal changed to the reviewed branch; the host
\* refuses a conflict.  A squash leaves the commit outside the history.
PersonMerge(b, squash) ==
    LET t == origin[b]  from == base[t.parent].lock  rev == base[Len(base)]
        touched == {r \in Res : t.lock[r] # from[r]}
    IN
    /\ Moving("merge") /\ b \in open /\ Len(base) < MaxHead
    /\ \A r \in touched : rev.lock[r] = from[r]
    /\ base' = Append(base, [rev EXCEPT !.lock = [r \in Res |-> IF r \in touched THEN t.lock[r] ELSE @[r]]])
    /\ contained' = IF squash THEN contained ELSE contained \cup {t}
    /\ open' = open \ {b} /\ closed' = ClosedWith(b, TRUE, "person")
    /\ UNCHANGED <<origin, planned, applyStatus, sourceVars, still>>

\* A commit of a person's on the reviewed branch: a resource's declaration
\* changes, or the project breaks or is repaired.
PersonCommit ==
    LET rev == base[Len(base)] IN
    /\ Moving("commit") /\ Len(base) < MaxHead
    /\ \/ \E r \in Res, m \in {"active", "suspended", "undeclared"} :
             m # rev.mode[r] /\ base' = Append(base, [rev EXCEPT !.mode[r] = m])
       \/ base' = Append(base, [rev EXCEPT !.loads = ~@])
    /\ UNCHANGED <<contained, origin, open, closed, planned, applyStatus, sourceVars, still>>

\* A source publishes something else, becomes unreachable or returns.
SourceMoves ==
    /\ Moving("source")
    /\ \/ \E r \in Res, e \in Entry : e # upstream[r] /\ upstream' = [upstream EXCEPT ![r] = e] /\ UNCHANGED broken
       \/ \E r \in Res : broken' = (broken \ {r}) \cup ({r} \ broken) /\ UNCHANGED upstream
    /\ UNCHANGED <<hostVars, still>>

ApplyPhase == Sync \/ Load \/ Reject \/ ApplySkip \/ ApplyRun \/ ApplyStatus \/ WriteMarker
UpdatePhase ==
    \/ Resolve \/ List \/ Push \/ Pull \/ PlanStatus \/ RetireDelete \/ Finish
    \/ \E s \in SetId : ProposeNothing(s) \/ ProposeCommit(s)
    \/ \E b \in Branch : RetireSkip(b) \/ RetireClose(b)
Runner == ApplyPhase \/ UpdatePhase
People ==
    \/ \E b \in Branch : \/ PersonPush(b) \/ PersonClose(b) \/ PersonDelete(b)
                         \/ \E squash \in BOOLEAN : PersonMerge(b, squash)
    \/ PersonCommit \/ SourceMoves

Next == Runner \/ Crash \/ People

Spec == Init /\ [][Next]_vars

\* "A scheduler invokes it" (docs/content/reconcile.md:5): runs start again and
\* again, and each goes on until it ends, fails or dies.
FairSpec == Spec /\ WF_vars(Runner)

(***************************************************************************)
(* Properties.                                                             *)
(***************************************************************************)
PullRecord == [tip : Tip, merged : BOOLEAN, by : {"person", "stemma", "host"}]

\* Every variable keeps its type.
TypeOK ==
    /\ \A h \in 1..Len(base) : base[h] \in Commit /\ Len(base) \in 1..MaxHead
    /\ contained \in SUBSET Tip /\ origin \in [Branch -> Tip] /\ open \in SUBSET Branch
    /\ closed \in [Branch -> SUBSET PullRecord] /\ planned \in SUBSET Tip
    /\ applyStatus \in [1..MaxHead -> {"none", "success", "failure"}]
    /\ upstream \in [Res -> Entry] /\ broken \in SUBSET Res
    /\ dest \in 0..MaxHead /\ marker \in 0..MaxHead
    /\ pc \in {"idle", "load", "apply", "status", "mark", "resolve", "list", "next", "push", "pull", "plan", "delete"}
    /\ head \in 1..Len(base)
    /\ fetched \in [Branch -> Tip] /\ fetchedContained \in SUBSET Tip
    /\ cand \in [Res -> Entry] /\ errs \in SUBSET Res
    /\ pulls \in SUBSET Branch /\ todo \in SUBSET SetId /\ doomed \in SUBSET Branch
    /\ cur \in Branch /\ commit \in Tip /\ expected \in Tip
    /\ planOK \in BOOLEAN /\ applyOK \in BOOLEAN
    /\ env \in Nat /\ faults \in Nat

\* What is on a branch is a person's: not the reconciler's single commit, and
\* not merged.
TakenOver(b) == origin[b] # NoTip /\ ~Managed(origin[b], contained)

\* "Push your own commit to take a proposal over: the command never rewrites ...
\* or deletes it afterwards" (docs/content/reconcile.md:102-104), whenever in a
\* run the push comes.  Only people (who move env) change such a branch.
PersonWorkKept ==
    [][\A b \in Branch : TakenOver(b) /\ origin'[b] # origin[b] => env' # env]_vars

\* The same sentence promises the command never closes it.
TakenOverNotClosed ==
    [][\A b \in Branch : TakenOver(b) /\ b \in open /\ b \notin open' => env' # env]_vars

\* "marker records the last reviewed commit whose apply completed in full"
\* (marker.go:12): the commit it names has a successful status, and while that
\* commit is the reviewed head, which later runs therefore skip, destinations
\* hold exactly that commit.
MarkerTruthful ==
    marker # 0 => applyStatus[marker] = "success" /\ (marker = Len(base) => dest = marker)

\* "An unresolved resource may be what a branch proposes: its own stays as it is
\* and the lock refresh is not retired" (proposal.go:62).
UnresolvedKept ==
    [][(pc \in {"next", "push", "pull", "plan", "delete"} /\ env' = env) =>
         /\ \A r \in errs : /\ origin'[BranchOf[r]] = origin[BranchOf[r]]
                            /\ (BranchOf[r] \in open => BranchOf[r] \in open')
         /\ ((errs # {} /\ origin[Refresh] # NoTip) => (origin'[Refresh] # NoTip))
      ]_vars

\* A closed proposal stays declined (proposal.go:180): while a branch still has
\* the commit the run publishes, no pull request is opened for a commit whose
\* pull request was closed without a merge, in whatever order people close,
\* the run retries and calls fail.
NoReopenAtTip ==
    [][\A b \in open' \ open : origin[b] = commit => ~DeclinedAt(b, commit)]_vars

\* "A proposal a person closed without merging stays declined until an entry it
\* proposes changes" (docs/content/reconcile.md:84).
DeclineHonoured ==
    [][\A b \in open' \ open : \A c \in closed[b] :
          env' = env /\ c.by = "person" /\ ~c.merged =>
              \E r \in Res : c.tip.lock[r] # origin[b].lock[r]]_vars

\* Once people and sources are quiet and calls succeed, the host reaches what
\* the reviewed branch and the sources call for and stays there: the head is
\* applied and marked; every changeset has its branch, regenerated on the head
\* with its own entries, planned and with an open pull request, unless it was
\* declined or taken over; no managed branch is left that proposes nothing.
Settled ==
    LET h == Len(base)  rev == base[h]
        failed == {r \in broken : rev.mode[r] = "active"}
        sets == Changesets(rev, upstream, failed)
    IN rev.loads =>
        /\ marker = h
        /\ \A s \in sets : LET b == BranchName(s)  t == origin[b] IN
              \/ TakenOver(b)
              \/ b \notin open /\ DeclinedAt(b, t) /\ Proposes(t, rev, upstream, failed, s)
              \/ /\ t.parent = h /\ t.lock = ProposedLock(rev, upstream, failed, s)
                 /\ t \in planned /\ b \in open
        /\ \A b \in Branch \ KeptByErrors(failed) :
              (\A s \in sets : BranchName(s) # b) => origin[b] = NoTip \/ TakenOver(b)
Converges == <>[]Settled
=============================================================================
