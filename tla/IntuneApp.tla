----------------------------- MODULE IntuneApp -----------------------------
(***************************************************************************)
(* The Intune destination (internal/intune): one app of a tenant, created,  *)
(* given content and kept current by one run after another.  Graph has no   *)
(* transactions and no digest of what it stores; the line stemma keeps in   *)
(* the app's notes, the marker, is the only record of what a content        *)
(* version holds.  A run can end between any two requests, with the effect  *)
(* of the last one unknown to it; Graph processes uploads and publications  *)
(* in its own time and may reject them; the declared payload changes and    *)
(* administrators edit, publish and delete.                                 *)
(*                                                                         *)
(* Abstractions.  One run at a time (docs/content/reconcile.md:170).  A     *)
(* request and its reply are one step: a reply that is lost is the step     *)
(* followed by Interrupt.  The first call, which only asks the engine for   *)
(* the bytes, writes nothing and is left out.  Metadata other than the      *)
(* marker, icons, assignments, categories and relationships are left out.   *)
(* A payload has a Shape: the name and sizes Graph shows of a file.         *)
(***************************************************************************)
EXTENDS Integers, Sequences

CONSTANTS
    Payload,      \* identities of artifacts
    Shape,        \* name and sizes of each, and of the file of an administrator
    MaxVersions,  \* bound: content versions of an app
    MaxFaults,    \* bound: interrupted runs, rejected and expired uploads
    MaxEnv        \* bound: changes of the declaration and by administrators

Foreign == 0      \* a payload that is not stemma's, or none
NoVersion == 0
Version == 1..MaxVersions

ASSUME ConstantsAssumption ==
    /\ Payload \subseteq Nat \ {Foreign}
    /\ Shape \in [Payload \cup {Foreign} -> Nat]
    /\ \A p \in Payload : Shape[p] # Shape[Foreign]
    /\ MaxVersions \in Nat \ {0} /\ MaxFaults \in Nat /\ MaxEnv \in Nat

Marker == [id : BOOLEAN, payload : Payload \cup {Foreign}, content : Version \cup {NoVersion}]
NoMarker == [id |-> FALSE, payload |-> Foreign, content |-> NoVersion]
FileState == {"none", "requested", "ready", "expiring", "committing", "committed", "failed"}
File == [of : Payload \cup {Foreign}, state : FileState, blob : Payload \cup {Foreign}]
NoFile == [of |-> Foreign, state |-> "none", blob |-> Foreign]
App == [exists : BOOLEAN, marker : Marker, committed : Version \cup {NoVersion},
        state : {"notPublished", "processing", "published"}]
NoApp == [exists |-> FALSE, marker |-> NoMarker, committed |-> NoVersion, state |-> "notPublished"]

VARIABLES
    app,        \* the app that app_id or the marker identifies
    versions,   \* its content versions, each with at most one file
    pinned,     \* whether app_id is declared
    want,       \* the payload declared now
    pc,         \* the run: its next request
    goal,       \* the payload it publishes
    cur,        \* the app as it last read it
    ver,        \* the content version it works on
    resuming,   \* whether the marker named that version
    activated,  \* the version it activated
    edited,     \* whether an administrator ever changed the marker
    faults, env

run == <<pc, goal, cur, ver, resuming, activated>>
vars == <<app, versions, pinned, want, run, edited, faults, env>>

file == versions[ver]
SetFile(f) == versions' = [versions EXCEPT ![ver] = f]

(***************************************************************************)
(* What the run derives from the app it read.                              *)
(***************************************************************************)
\* publication.active(): the payload the marker vouches for.
Active(a) ==
    IF a.marker.content # NoVersion /\ a.marker.content = a.committed THEN a.marker.payload ELSE Foreign

First == cur.committed = NoVersion

\* The version recorded for this very payload.
Pending == IF cur.marker.payload = goal THEN cur.marker.content ELSE NoVersion

\* Mutant: what an interrupted first upload left is not looked for.
ListedNever == FALSE

\* An unrecorded version of this payload is found by listing.
Listed ==
    Pending = NoVersion /\ (First \/ (cur.marker.content = NoVersion /\ cur.marker.payload = goal))

\* Mutant: the sizes of a file found are not compared.
MatchesAny == TRUE

\* A file already there is the one this payload began.
Matches == file.state = "none" \/ (cur.marker.payload = goal /\ Shape[file.of] = Shape[goal])

Init ==
    /\ \/ pinned = FALSE /\ app = NoApp /\ versions = <<>>
       \/ /\ pinned = TRUE
          /\ app = [exists |-> TRUE, marker |-> NoMarker, committed |-> 1, state |-> "published"]
          /\ versions = <<[of |-> Foreign, state |-> "committed", blob |-> Foreign]>>
    /\ want \in Payload /\ goal = want
    /\ pc = "idle" /\ cur = NoApp /\ ver = NoVersion /\ resuming = FALSE /\ activated = NoVersion
    /\ edited = FALSE /\ faults = 0 /\ env = 0

(***************************************************************************)
(* The run: handle().                                                      *)
(***************************************************************************)
Goto(from, to) == pc = from /\ pc' = to
tenant == <<app, versions, pinned, want, edited, faults, env>>

\* observe(): by app_id or marker.  What follows depends on what was read.
Observe ==
    LET found == app.exists /\ (pinned \/ app.marker.id) IN
    /\ pc = "idle" /\ goal' = want
    /\ pinned => found
    /\ cur' = IF found THEN app ELSE NoApp
    /\ pc' = IF ~found THEN "create"
             ELSE IF Active(app) # want THEN "choose"
             ELSE IF app.state = "published" THEN "idle" ELSE "wait"
    /\ ver' = IF found /\ Active(app) = want THEN app.marker.content ELSE NoVersion
    /\ resuming' = FALSE /\ activated' = NoVersion
    /\ UNCHANGED tenant

\* create(): "the app records its first payload when it is created".  An app that
\* lost its marker is nobody's from here on.
Create ==
    /\ Goto("create", "choose")
    /\ app' = [exists |-> TRUE, marker |-> [id |-> TRUE, payload |-> goal, content |-> NoVersion],
               committed |-> NoVersion, state |-> "notPublished"]
    /\ versions' = <<>> /\ cur' = app'
    /\ UNCHANGED <<pinned, want, goal, ver, resuming, activated, edited, faults, env>>

\* Mutant: the versions listed are not counted.
ChooseUncounted ==
    /\ First => cur.marker.payload = goal
    /\ \/ Pending # NoVersion /\ ver' = Pending /\ resuming' = TRUE
       \/ Listed /\ ver' = 1 /\ resuming' = FALSE
    /\ Goto("choose", "check")
    /\ UNCHANGED <<tenant, goal, cur, activated>>

\* upload(): the version recorded for the payload, or the only one there is.
ChooseKnown ==
    /\ First => cur.marker.payload = goal
    /\ \/ Pending # NoVersion /\ ver' = Pending /\ resuming' = TRUE
       \/ Listed /\ Len(versions) = 1 /\ ver' = 1 /\ resuming' = FALSE
    /\ Goto("choose", "check")
    /\ UNCHANGED <<tenant, goal, cur, activated>>

\* Otherwise a new one.
NewVersion ==
    /\ \/ /\ Goto("choose", "check")
          /\ First => cur.marker.payload = goal
          /\ Pending = NoVersion /\ (Listed => Len(versions) = 0)
       \/ Goto("again", "check")
    /\ Len(versions) < MaxVersions
    /\ versions' = Append(versions, NoFile)
    /\ ver' = Len(versions) + 1 /\ resuming' = FALSE
    /\ UNCHANGED <<app, pinned, want, goal, cur, activated, edited, faults, env>>

\* Errors before anything is written: another payload's first upload, or several
\* versions and no record of which is whose.
Refuse ==
    /\ \/ First /\ cur.marker.payload # goal
       \/ Listed /\ Len(versions) > 1
    /\ Goto("choose", "idle")
    /\ UNCHANGED <<tenant, goal, cur, ver, resuming, activated>>

\* The version's files: at most one, begun for this payload.  "Graph refuses every
\* other change to an app before its first publication", so a first upload is not
\* recorded.
CheckFiles ==
    /\ \/ Goto("check", "idle") /\ ~Matches
       \/ Goto("check", IF First \/ resuming THEN "file" ELSE "record") /\ Matches
    /\ UNCHANGED <<tenant, goal, cur, ver, resuming, activated>>

\* "upload records the payload's version before sending content": the notes are
\* read again and written with the marker.
Record ==
    /\ Goto("record", "file")
    /\ app' = [app EXCEPT !.marker = [id |-> TRUE, payload |-> goal, content |-> ver]]
    /\ cur' = app
    /\ UNCHANGED <<versions, pinned, want, goal, ver, resuming, activated, edited, faults, env>>

\* uploadFile(): create the file, or go on from where it stands.
CreateFile ==
    /\ Goto("file", "uri") /\ file.state = "none"
    /\ SetFile([of |-> goal, state |-> "requested", blob |-> Foreign])
    /\ UNCHANGED <<app, pinned, want, goal, cur, ver, resuming, activated, edited, faults, env>>

ResumeFile ==
    /\ pc = "file" /\ file.state # "none"
    /\ Goto("file", IF file.state = "committed" THEN "activate"
                    ELSE IF file.state = "committing" THEN "commitWait" ELSE "uri")
    /\ UNCHANGED <<tenant, goal, cur, ver, resuming, activated>>

\* waitFile() for the upload address, which is renewed when it is about to expire.
WaitAddress ==
    /\ Goto("uri", "blob") /\ file.state = "ready"
    /\ UNCHANGED <<tenant, goal, cur, ver, resuming, activated>>

RenewAddress ==
    /\ pc = "uri" /\ file.state = "expiring"
    /\ SetFile([file EXCEPT !.state = "requested"])
    /\ UNCHANGED <<app, pinned, want, run, edited, faults, env>>

\* uploadBlob(): blocks, then the block list.  An address that expired meanwhile
\* fails the run.
UploadBlob ==
    /\ \/ /\ Goto("blob", "commit") /\ file.state = "ready"
          /\ SetFile([file EXCEPT !.blob = goal])
       \/ Goto("blob", "idle") /\ file.state # "ready" /\ UNCHANGED versions
    /\ UNCHANGED <<app, pinned, want, goal, cur, ver, resuming, activated, edited, faults, env>>

CommitFile ==
    /\ Goto("commit", "commitWait")
    /\ SetFile([file EXCEPT !.state = "committing"])
    /\ UNCHANGED <<app, pinned, want, goal, cur, ver, resuming, activated, edited, faults, env>>

WaitCommit ==
    /\ Goto("commitWait", "activate") /\ file.state = "committed"
    /\ UNCHANGED <<tenant, goal, cur, ver, resuming, activated>>

\* Mutant: a rejected upload is never replaced.
RejectedForGood ==
    /\ pc \in {"uri", "commitWait"} /\ file.state = "failed" /\ pc' = "idle"
    /\ UNCHANGED <<tenant, goal, cur, ver, resuming, activated>>

\* uploadStateError: a recorded upload is given up for a fresh version, once; a
\* first one ends the run ("delete the app to publish again").
Rejected ==
    /\ pc \in {"uri", "commitWait"} /\ file.state = "failed"
    /\ pc' = IF resuming /\ ~First THEN "again" ELSE "idle"
    /\ UNCHANGED <<tenant, goal, cur, ver, resuming, activated>>

\* activate(): the version goes live; Graph publishes it in its own time.
Activate ==
    /\ Goto("activate", "wait")
    /\ app' = [app EXCEPT !.committed = ver, !.state = "processing"]
    /\ activated' = ver
    /\ UNCHANGED <<versions, pinned, want, goal, cur, ver, resuming, edited, faults, env>>

\* waitPublished(): polls the app; an activation that somebody replaced never shows.
WaitPublished ==
    /\ app.state = "published"
    /\ \/ activated \in {NoVersion, app.committed} /\ Goto("wait", "metadata")
       \/ activated \notin {NoVersion, app.committed} /\ Goto("wait", "idle")
    /\ cur' = app
    /\ UNCHANGED <<tenant, goal, ver, resuming, activated>>

\* applyMetadata(): the marker of what is published now, where it differs.
ApplyMetadata ==
    /\ Goto("metadata", "idle")
    /\ app' = [app EXCEPT !.marker = [id |-> TRUE, payload |-> goal, content |-> ver]]
    /\ UNCHANGED <<versions, pinned, want, goal, cur, ver, resuming, activated, edited, faults, env>>

\* A request for an app, a version or a file that is gone.
NotFound ==
    /\ pc \notin {"idle", "create"} /\ ~app.exists /\ pc' = "idle"
    /\ UNCHANGED <<tenant, goal, cur, ver, resuming, activated>>

(***************************************************************************)
(* Graph, the declaration and administrators.                              *)
(***************************************************************************)
Interrupt ==
    /\ pc # "idle" /\ pc' = "idle"
    /\ faults < MaxFaults /\ faults' = faults + 1
    /\ UNCHANGED <<app, versions, pinned, want, goal, cur, ver, resuming, activated, edited, env>>

\* Graph grants an upload address, commits a file, publishes an app.
GraphFile(v) ==
    /\ \/ versions[v].state = "requested" /\ versions' = [versions EXCEPT ![v].state = "ready"]
       \/ versions[v].state = "committing" /\ versions' = [versions EXCEPT ![v].state = "committed"]
    /\ UNCHANGED <<app, pinned, want, run, edited, faults, env>>

GraphPublish ==
    /\ app.exists /\ app.state = "processing"
    /\ app' = [app EXCEPT !.state = "published"]
    /\ UNCHANGED <<versions, pinned, want, run, edited, faults, env>>

\* An upload fails or times out; an address runs out.
GraphRejects(v) ==
    /\ faults < MaxFaults /\ faults' = faults + 1
    /\ \/ /\ versions[v].state \in {"requested", "committing"}
          /\ versions' = [versions EXCEPT ![v].state = "failed"]
       \/ versions[v].state = "ready" /\ versions' = [versions EXCEPT ![v].state = "expiring"]
    /\ UNCHANGED <<app, pinned, want, run, edited, env>>

Edits == env < MaxEnv /\ env' = env + 1

NewRelease ==
    /\ Edits
    /\ \E p \in Payload \ {want} : want' = p
    /\ UNCHANGED <<app, versions, pinned, run, edited, faults>>

\* The marker line is removed or its payload edited (refused before publication).
AdminEditsNotes ==
    /\ Edits /\ app.exists /\ app.committed # NoVersion
    /\ \E m \in {NoMarker, [app.marker EXCEPT !.payload = Foreign]} : app' = [app EXCEPT !.marker = m]
    /\ edited' = TRUE
    /\ UNCHANGED <<versions, pinned, want, run, faults>>

\* Content published from the portal, in a version of its own.
AdminPublishes ==
    /\ Edits /\ app.exists /\ Len(versions) < MaxVersions
    /\ versions' = Append(versions, [of |-> Foreign, state |-> "committed", blob |-> Foreign])
    /\ app' = [app EXCEPT !.committed = Len(versions) + 1, !.state = "processing"]
    /\ UNCHANGED <<pinned, want, run, edited, faults>>

AdminDeletes ==
    /\ Edits /\ app.exists /\ ~pinned
    /\ app' = NoApp /\ versions' = <<>>
    /\ UNCHANGED <<pinned, want, run, edited, faults>>

Requests ==
    \/ ChooseKnown \/ NewVersion \/ Refuse \/ CheckFiles \/ Record
    \/ CreateFile \/ ResumeFile \/ WaitAddress \/ RenewAddress \/ UploadBlob
    \/ CommitFile \/ WaitCommit \/ Rejected \/ Activate \/ WaitPublished \/ ApplyMetadata
Run == Observe \/ Create \/ NotFound \/ (app.exists /\ Requests)
Graph == GraphPublish \/ \E v \in DOMAIN versions : GraphFile(v)
Admin == NewRelease \/ AdminEditsNotes \/ AdminPublishes \/ AdminDeletes
Next == Run \/ Interrupt \/ Graph \/ Admin \/ \E v \in DOMAIN versions : GraphRejects(v)

Spec == Init /\ [][Next]_vars

\* "A scheduler invokes it" (docs/content/reconcile.md:5): an apply that did not
\* complete is repeated, each run goes on to its end, and Graph answers.
FairSpec == Spec /\ WF_vars(Run) /\ WF_vars(Graph)

(***************************************************************************)
(* Properties.                                                             *)
(***************************************************************************)
Uploading == {"check", "record", "file", "uri", "blob", "commit", "commitWait", "again", "activate"}

\* Every variable keeps its type, and the version in hand is one of the app's.
TypeOK ==
    /\ app \in App /\ versions \in Seq(File) /\ Len(versions) <= MaxVersions
    /\ pinned \in BOOLEAN /\ want \in Payload
    /\ pc \in {"idle", "create", "choose", "wait", "metadata"} \cup Uploading
    /\ goal \in Payload /\ cur \in App /\ ver \in Version \cup {NoVersion}
    /\ resuming \in BOOLEAN /\ activated \in Version \cup {NoVersion}
    /\ edited \in BOOLEAN /\ faults \in Nat /\ env \in Nat
    /\ app.exists /\ pc \in Uploading => ver \in DOMAIN versions

\* "it is the only record of the payload a content version holds" (intune.go:24):
\* when the marker vouches for the active version, devices are given exactly the
\* payload it names, whoever interrupted, published or edited.
MarkerTruthful == app.exists /\ Active(app) # Foreign => versions[app.committed].blob = Active(app)

\* "Re-running ... must find existing objects and skip completed uploads"
\* (docs/content/writing-plugins.md:351): no payload is uploaded to completion a
\* second time unless another payload's version came in between, or somebody
\* changed the marker.
SkipsCompleted ==
    ~edited =>
        \A v, w \in DOMAIN versions :
            v < w /\ versions[v].state = "committed" /\ versions[w].state = "committed"
                  /\ versions[v].blob \in Payload /\ versions[v].blob = versions[w].blob
                => \E u \in v..w : versions[u].of # versions[v].blob

\* "After an interruption, the next run finds the remote object and uploads content
\* if needed" (docs/content/publishing.md:476): once interruptions and edits stop,
\* the app serves the declared payload and says so, except where the code gives
\* up: the first upload of an app was for another payload or was rejected, or an
\* unrecorded version cannot be told from others.
Served ==
    /\ app.exists /\ app.state = "published" /\ app.committed # NoVersion
    /\ app.marker = [id |-> TRUE, payload |-> want, content |-> app.committed]
    /\ versions[app.committed].blob = want
Unfinished ==
    /\ app.exists /\ app.marker.content = NoVersion
    /\ \/ app.committed = NoVersion /\ app.marker.payload # want
       \/ app.committed = NoVersion /\ \E v \in DOMAIN versions : versions[v].state = "failed"
       \/ app.marker.payload = want /\ Len(versions) > 1
       \/ app.marker.payload = want /\ Len(versions) = 1 /\ versions[1].state # "none" /\ versions[1].of = Foreign
Converges == <>[](Served \/ Unfinished)
=============================================================================
