--------------------------- MODULE MCConvergence ---------------------------
(***************************************************************************)
(* One instance of each part that is run again and again until the world is *)
(* as declared: reconciliation, the refresh of sources, and the Intune, Munki *)
(* and Jamf destinations.                                                  *)
(* The initial state chooses the part; the variables of the others stay as   *)
(* they are.  The parts do not interact here, so the states of the run are   *)
(* those of the instances together.                                         *)
(***************************************************************************)
EXTENDS IntuneApp, FiniteSets

VARIABLES
    part,
    \* Reconcile
    base, contained, origin, open, closed, applyStatus, upstream, broken, dest, marker,
    head, fetched, fetchedContained, cand, errs, pulls, todo, doomed,
    commit, expected, planOK, applyOK,
    \* MunkiRepo
    info, catalogs, files, pins, names, lock, req, leased, old, wanted, due, victims, victim, vdoc,
    \* Jamf
    pkgs, uploads, policy, links, defined, patch, others, stages, art, pin,
    target, id, retiring, waiting, read, refs, deleted, quiet, late, taken,
    \* Sources
    at, page, scheme, objects, index, saved, shared, flight, locked, job, obs, got,
    during, vouched, answers, moved, again, disturbed, mishaps,
    \* of two of them
    step, changes, current, planned, failures

\* Variables of one part alone, and those that two parts have.
vReconcile == <<base, contained, origin, open, closed, applyStatus, upstream, broken, dest, marker,
    head, fetched, fetchedContained, cand, errs, pulls, todo, doomed, commit, expected, planOK, applyOK>>
vMunki == <<info, catalogs, files, pins, names, lock, req, leased, old, wanted, due, victims, victim, vdoc>>
vJamf == <<pkgs, uploads, policy, links, defined, patch, others, stages, art, pin,
    target, id, retiring, waiting, read, refs, deleted, quiet, late, taken>>
vSources == <<at, page, scheme, objects, index, saved, shared, flight, locked, job, obs, got,
    during, vouched, answers, moved, again, disturbed, mishaps>>
vTwo == <<step, changes, current, planned, failures>>
allVars == <<part, vReconcile, vMunki, vJamf, vSources, vTwo, vars>>

\* The variables of a part that is not chosen.
NoReconcile ==
    /\ base = 0 /\ contained = 0 /\ origin = 0 /\ open = 0 /\ closed = 0
    /\ applyStatus = 0 /\ upstream = 0 /\ broken = 0 /\ dest = 0 /\ marker = 0
    /\ head = 0 /\ fetched = 0 /\ fetchedContained = 0 /\ cand = 0 /\ errs = 0
    /\ pulls = 0 /\ todo = 0 /\ doomed = 0 /\ commit = 0 /\ expected = 0 /\ planOK = 0
    /\ applyOK = 0
NoMunki ==
    /\ info = 0 /\ catalogs = 0 /\ files = 0 /\ pins = 0 /\ names = 0 /\ lock = 0
    /\ req = 0 /\ leased = 0 /\ old = 0 /\ wanted = 0 /\ due = 0 /\ victims = 0 /\ victim = 0
    /\ vdoc = 0
NoJamf ==
    /\ pkgs = 0 /\ uploads = 0 /\ policy = 0 /\ links = 0 /\ defined = 0 /\ patch = 0
    /\ others = 0 /\ stages = 0 /\ art = 0 /\ pin = 0 /\ target = 0 /\ id = 0 /\ retiring = 0
    /\ waiting = 0 /\ read = 0 /\ refs = 0 /\ deleted = 0 /\ quiet = 0 /\ late = 0
    /\ taken = 0
\* Reconciliation of contents under three outside events, and of contents and metadata under two.
Rec == INSTANCE Reconcile WITH
    Res <- {1}, BranchOf <- [r \in {1} |-> r], Content <- {1, 2}, Meta <- {1},
    MaxHead <- 2, MaxEnv <- 3, MaxFaults <- 1, pc <- step, env <- changes, faults <- failures, cur <- current,
    Moves <- {"push", "close", "delete", "merge", "commit", "source"}
Refreshes == INSTANCE Reconcile WITH
    Res <- {1}, BranchOf <- [r \in {1} |-> r], Content <- {1, 2}, Meta <- {1, 2},
    MaxHead <- 2, MaxEnv <- 2, MaxFaults <- 1, pc <- step, env <- changes, faults <- failures, cur <- current,
    Moves <- {"push", "close", "delete", "merge", "commit", "source"}
\* One publication that keeps one other version, asked for again and again.
Request == {[item |-> <<"f", 3>>, cats |-> {1}, base |-> "b", hash |-> 1, keep |-> 2]}
Munki == INSTANCE MunkiRepo WITH
    Proc <- {"p"}, Family <- {"f"}, Version <- {1, 2, 3}, Catalog <- {1}, Testing <- 1,
    Base <- {"b"}, MaxCopies <- 2, Content <- {1, 2}, MaxFaults <- 1, MaxEnv <- 2,
    pc <- step, env <- changes, faults <- failures, want <- wanted
\* The second artifact is a rebuild under the name of the first.
Software == INSTANCE Jamf WITH
    Version <- {1, 2, 3}, FileOf <- <<"f1", "f1", "f2">>, Keep <- 1,
    MaxId <- 3, MaxFaults <- 1, MaxEnv <- 2,
    pc <- step, env <- changes, faults <- failures, cur <- current, goal <- target
ASSUME Software!ConstantsAssumption

(***************************************************************************)
(* Sources: a matched link under every kind of validator, two declarations   *)
(* that share a page, and a plain address.                                   *)
(***************************************************************************)
Link == INSTANCE Sources WITH Decl <- {1}, Kind <- <<"link">>,
    Schemes <- {"strong", "weak", "date", "none"}, Loose <- {<<1, 2>>}, MaxFile <- 3, MaxFaults <- 1,
    lock <- locked, faults <- mishaps
Pair == INSTANCE Sources WITH Decl <- {1, 2}, Kind <- <<"release", "digest">>,
    Schemes <- {"strong"}, Loose <- {}, MaxFile <- 2, MaxFaults <- 1,
    lock <- locked, faults <- mishaps
Plain == INSTANCE Sources WITH Decl <- {1}, Kind <- <<"direct">>,
    Schemes <- {"strong", "weak"}, Loose <- {<<1, 2>>}, MaxFile <- 3, MaxFaults <- 1,
    lock <- locked, faults <- mishaps
ASSUME Link!ConstantsAssumption /\ Pair!ConstantsAssumption /\ Plain!ConstantsAssumption
NoSources ==
    /\ at = 0 /\ page = 0 /\ scheme = 0 /\ objects = 0 /\ index = 0 /\ saved = 0 /\ shared = 0 /\ flight = 0
    /\ locked = 0 /\ job = 0 /\ obs = 0 /\ got = 0 /\ during = 0 /\ vouched = 0 /\ answers = 0 /\ moved = 0
    /\ again = 0 /\ disturbed = 0 /\ mishaps = 0

\* Two payloads Graph cannot tell apart, and an administrator's that it can.
SameShape == [p \in Payload \cup {Foreign} |-> IF p = Foreign THEN 0 ELSE 1]
\* Intune, before anything happened.
NoIntune == Init /\ ~pinned /\ want = 1
\* Of its faults and changes, three at most in one behaviour.
MaxTrouble == 3
NoTwo == step = 0 /\ changes = 0 /\ current = 0 /\ planned = 0 /\ failures = 0

\* What each declaration's job does in turn, and what the servers and runs do.
Works(d) ==
    \/ part = "link" /\ d = 1 /\ Link!Work(1)
    \/ part = "pair" /\ Pair!Work(d)
    \/ part = "plain" /\ d = 1 /\ Plain!Work(1)
Answers ==
    \/ part = "link" /\ Link!Answered
    \/ part = "pair" /\ Pair!Answered
    \/ part = "plain" /\ Plain!Answered
NewRuns ==
    \/ part = "link" /\ Link!NewRun
    \/ part = "pair" /\ Pair!NewRun
    \/ part = "plain" /\ Plain!NewRun

Begin ==
    \/ /\ \/ part = "reconcile" /\ Rec!Init
          \/ part = "refreshes" /\ Refreshes!Init
       /\ NoMunki /\ NoJamf /\ NoIntune /\ NoSources
    \/ part = "munki" /\ Munki!Init /\ NoReconcile /\ NoJamf /\ NoIntune /\ NoSources /\ current = 0 /\ planned = 0
    \/ part = "jamf" /\ Software!Init /\ NoReconcile /\ NoMunki /\ NoIntune /\ NoSources
    \/ part = "intune" /\ Init /\ NoReconcile /\ NoMunki /\ NoJamf /\ NoSources /\ NoTwo
    \/ /\ \/ part = "link" /\ Link!Init
          \/ part = "pair" /\ Pair!Init
          \/ part = "plain" /\ Plain!Init
       /\ NoReconcile /\ NoMunki /\ NoJamf /\ NoIntune /\ NoTwo
Steps ==
    /\ UNCHANGED part
    /\ \/ part = "reconcile" /\ Rec!Next /\ UNCHANGED <<vMunki, vJamf, vSources, vars>>
       \/ part = "refreshes" /\ Refreshes!Next /\ UNCHANGED <<vMunki, vJamf, vSources, vars>>
       \/ part = "munki" /\ Munki!Next /\ UNCHANGED <<vReconcile, vJamf, vSources, current, planned, vars>>
       \/ part = "jamf" /\ Software!Next /\ UNCHANGED <<vReconcile, vMunki, vSources, vars>>
       \/ part = "intune" /\ Next /\ faults' + env' <= MaxTrouble /\ UNCHANGED <<vReconcile, vMunki, vJamf, vSources, vTwo>>
       \/ part = "link" /\ Link!Next /\ UNCHANGED <<vReconcile, vMunki, vJamf, vTwo, vars>>
       \/ part = "pair" /\ Pair!Next /\ UNCHANGED <<vReconcile, vMunki, vJamf, vTwo, vars>>
       \/ part = "plain" /\ Plain!Next /\ UNCHANGED <<vReconcile, vMunki, vJamf, vTwo, vars>>

recVars == Rec!vars
munkiVars == Munki!vars
jamfVars == Software!vars

\* The fairness of each part's own specification.
PartsSpec ==
    /\ Begin /\ [][Steps]_allVars
    /\ WF_vars(part = "intune" /\ Run) /\ WF_vars(part = "intune" /\ Graph)
    /\ WF_recVars((part = "reconcile" /\ Rec!Runner) \/ (part = "refreshes" /\ Refreshes!Runner))
    /\ WF_munkiVars(part = "munki" /\ Munki!Step("p"))
    /\ WF_jamfVars(part = "jamf" /\ Software!Run) /\ WF_jamfVars(part = "jamf" /\ Software!JamfStep)
    /\ WF_vSources(Works(1)) /\ WF_vSources(Works(2)) /\ WF_vSources(Answers) /\ SF_vSources(NewRuns)

(***************************************************************************)
(* Properties: those of the parts, each in its part of the run.             *)
(***************************************************************************)
\* See Rec!Converges: the host settles as the reviewed branch and the sources say.
ReconcileConverges == <>[]((part = "reconcile" => Rec!Settled) /\ (part = "refreshes" => Refreshes!Settled))
\* See Converges of IntuneApp: the app serves what is declared, or the code gives up.
IntuneConverges == <>[](part = "intune" => Served \/ Unfinished)
\* See Munki!Converges: every publication asked for is there and stays.
MunkiConverges == <>[](part = "munki" => \A q \in Request : Munki!Holds(q))
\* See Software!Converges: the artifact is deployed and retention done, or the code refuses.
JamfConverges == <>[](part = "jamf" => Software!Deployed \/ Software!Blocked)

\* See Munki!RetiresSound: what retention removes was beyond keep and not referred to.
RetentionSound == [][part = "munki" => Munki!RetiresSound]_allVars

\* Types of Sources, among them the steps a job may be at.
SourcesTypeOK == (part = "link" => Link!TypeOK) /\ (part = "pair" => Pair!TypeOK) /\ (part = "plain" => Plain!TypeOK)
\* A refreshed input is a file that its address served meanwhile, or one the server confirmed (source.go, http.go).
Fresh == (part = "link" => Link!Fresh) /\ (part = "pair" => Pair!Fresh) /\ (part = "plain" => Plain!Fresh)
\* Two declarations that ask for one page at a time work from one answer (discovery_cache.go).
OneAnswerPerRun == part = "pair" => Pair!OneAnswerPerRun
\* A refresh does not transfer again what was transferred and recorded (source.go).
RefreshTransfersOnce == (part = "link" => Link!RefreshTransfersOnce) /\ (part = "plain" => Plain!RefreshTransfersOnce)
\* Once the publisher is quiet, every refresh comes to what is published (discovery_cache.go, http.go).
InputsCatchUp == <>[]((part = "link" => Link!Current) /\ (part = "pair" => Pair!Current) /\ (part = "plain" => Plain!Current))

\* Types of Jamf: its records and what a run knows of them.
JamfTypeOK == part = "jamf" => Software!TypeOK
\* A lost reply never leaves two records for one file name (jamf/package.go).
OneRecordPerFile == part = "jamf" => Software!OneRecordPerFile
\* A policy is live only with content behind its package (jamf/policy.go).
LivePolicyHasContent == part = "jamf" => Software!LivePolicyHasContent
\* Transfers to one file do not overlap (jamf/package.go).
OneTransferPerFile == part = "jamf" => Software!OneTransferPerFile
\* An apply deletes what its plan reported, if nobody else interferes (jamf/retention.go).
PlanHonest == part = "jamf" => Software!PlanHonest
\* Retention deletes nothing that was referred to when it looked (jamf/retention.go).
ReferencedKept == [][part = "jamf" => Software!KeepsReferenced]_allVars
\* The bytes of others' packages do not change (jamf/package.go).
OthersBytesKept == [][part = "jamf" => Software!KeepsOthersBytes]_allVars
\* A write of a whole record keeps what administrators edited meanwhile (jamf/package.go).
AdminEditsKept == [][part = "jamf" => Software!KeepsAdminEdits]_allVars

\* Types of IntuneApp and Jamf: what Graph and Jamf Pro hold, and what a run knows of them.
TypesOK == TypeOK /\ JamfTypeOK
\* What Jamf holds fits together, whatever was lost or interrupted: records, bytes, live policies and
\* the plan that announced them (jamf/package.go, policy.go, retention.go).
JamfConsistent == OneRecordPerFile /\ LivePolicyHasContent /\ OneTransferPerFile /\ PlanHonest
\* What is not the run's own to change survives it: kept or referenced versions, other packages' bytes,
\* administrators' edits (munkirepo/retention.go, jamf/retention.go, package.go, classic.go).
OthersWorkKept == RetentionSound /\ ReferencedKept /\ OthersBytesKept /\ AdminEditsKept
\* Repeated applies end with what is declared, or where the code refuses to go on (munkirepo/munki.go,
\* jamf/jamf.go, intune/intune.go).
DestinationsConverge == MunkiConverges /\ JamfConverges /\ IntuneConverges
\* Refreshed inputs are of one moment and cost one transfer (internal/source).
SourcesSound == SourcesTypeOK /\ Fresh /\ OneAnswerPerRun /\ RefreshTransfersOnce
=============================================================================
