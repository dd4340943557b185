---------------------------- MODULE IntuneProofs ----------------------------
(***************************************************************************)
(* Proofs about IntuneApp, for any payloads, shapes, number of versions,    *)
(* interruptions and changes.  The types alone are not inductive: that a    *)
(* run's version is one of the app's follows from what the marker it read   *)
(* says.  TruthInv relates the marker, the files and what the run read      *)
(* since; MarkerTruthful and the types follow.  SkipInv adds, while nobody  *)
(* edited the marker, which file for a payload is the last and that the     *)
(* marker leads to it; SkipsCompleted follows.                              *)
(***************************************************************************)
EXTENDS IntuneApp, TLAPS

(***************************************************************************)
(* What holds between two requests of a run.                               *)
(***************************************************************************)
\* Without an app there is nothing of it.
Absent == ~app.exists => app = NoApp /\ versions = <<>>

\* Committed bytes are those the file was begun for; before a file there is nothing.
FilesSound ==
    \A v \in DOMAIN versions :
        /\ versions[v].state = "none" => versions[v].of = Foreign
        /\ versions[v].state \in {"committing", "committed"} => versions[v].blob = versions[v].of

\* The active version is there and complete; nothing is recorded before the first activation.
ActiveSound ==
    /\ app.committed # NoVersion => app.committed \in DOMAIN versions /\ versions[app.committed].state = "committed"
    /\ app.committed = NoVersion => app.marker.content = NoVersion

\* The recorded version was begun for the recorded payload, or not begun.  A marker
\* without a version stands for the first one: nothing else was begun.
Vouches(m) ==
    /\ m.content # NoVersion => m.content \in DOMAIN versions
    /\ m.content # NoVersion /\ m.payload # Foreign =>
          versions[m.content].state = "none" \/ versions[m.content].of = m.payload
    /\ m.content = NoVersion /\ m.payload # Foreign =>
          \A v \in DOMAIN versions : versions[v].of = Foreign \/ (v = 1 /\ versions[v].of = m.payload)

\* The marker is as the run read it, or an administrator took its payload away.
Overwritten == edited /\ app.marker.payload = Foreign
AsRead == app.marker = cur.marker \/ Overwritten

\* The run's version is the recorded one, or the first of an app that records none.
Recorded(m) == m.payload = goal /\ m.content = ver
FirstMark(m) == m.payload = goal /\ m.content = NoVersion /\ ver = 1

\* Choosing: what was read is still sound.
Choosing ==
    pc = "choose" =>
        AsRead /\ Vouches(cur.marker) /\ (cur.committed = NoVersion => cur.marker.content = NoVersion)

\* Between the choice and the record: the version was found by the marker, by listing, or is new and
\* nothing was begun after it.
Chosen ==
    pc \in {"check", "record"} =>
        /\ AsRead
        /\ resuming => Recorded(cur.marker) /\ pc = "check"
        /\ cur.committed = NoVersion => FirstMark(cur.marker) /\ pc = "check"
        /\ file.state # "none" /\ resuming => file.of = goal
        /\ file.state # "none" /\ ~resuming => FirstMark(cur.marker) /\ file.of \in {goal, Foreign}
        /\ pc = "record" => file.state = "none" \/ file.of = goal
        /\ ~resuming => \A v \in DOMAIN versions : v > ver => versions[v].of = Foreign

\* From there on the file is the run's, and the marker says so unless it was overwritten.
Transferring ==
    pc \in {"file", "uri", "blob", "commit", "commitWait", "activate", "wait", "metadata", "again"} =>
        /\ ver \in DOMAIN versions
        /\ Overwritten \/ Recorded(app.marker) \/ FirstMark(app.marker)
        /\ (pc = "file" /\ file.state = "none") \/ file.of = goal
        /\ pc \in {"blob", "commit"} => file.state \in {"ready", "expiring"}
        /\ pc = "commit" => file.blob = goal
        /\ pc \in {"activate", "wait", "metadata"} => file.state = "committed"
        /\ resuming => AsRead /\ (Overwritten \/ Recorded(app.marker))
        /\ pc = "again" => file.state = "failed" /\ resuming /\ cur.committed # NoVersion

\* An app that the run saw active, or activated, stays active.
StillActive ==
    /\ pc \notin {"idle", "create"} /\ cur.committed # NoVersion => app.committed # NoVersion
    /\ pc \in {"wait", "metadata"} => app.committed # NoVersion

RunSound == app.exists => Choosing /\ Chosen /\ Transferring /\ StillActive

TruthInv == TypeOK /\ Absent /\ FilesSound /\ ActiveSound /\ Vouches(app.marker) /\ RunSound

(***************************************************************************)
(* Nothing is uploaded twice.                                              *)
(***************************************************************************)
Viable(v) == versions[v].state \notin {"none", "failed"}
\* Begun for p and not given up, with only files for p up to w.
Line(v, w, p) == Viable(v) /\ versions[v].of = p /\ \A u \in v..w : versions[u].of = p

\* Two files for one payload that are not given up are separated by another payload's.
Separated ==
    \A p \in Payload, v, w \in DOMAIN versions : v < w /\ Viable(w) => ~Line(v, w, p)

\* The last file that is not given up is the one the marker leads to.
LastKnown ==
    \A p \in Payload, v \in DOMAIN versions :
        Line(v, Len(versions), p) =>
            app.marker.payload = p /\ (app.marker.content = v \/ (app.marker.content = NoVersion /\ v = 1))

\* Nothing for p leads up to a version that is to get a file for p, and nothing was begun after it.
New(w, p) ==
    \A v \in DOMAIN versions : (v < w => ~Line(v, w - 1, p)) /\ (v > w => versions[v].of = Foreign)
RecordedNew ==
    LET c == app.marker.content IN
    c # NoVersion /\ app.marker.payload # Foreign /\ versions[c].state = "none" => New(c, app.marker.payload)
WorkedNew == app.exists /\ pc \in {"check", "record", "file"} /\ file.state = "none" => New(ver, goal)

SkipInv == ~edited => Separated /\ LastKnown /\ RecordedNew /\ WorkedNew

(***************************************************************************)
(* How requests change the versions.                                       *)
(***************************************************************************)
\* One version's file is replaced.
Put(v, f) ==
    /\ versions' \in Seq(File) /\ Len(versions') = Len(versions) /\ DOMAIN versions' = DOMAIN versions
    /\ v \in DOMAIN versions /\ f \in File
    /\ \A u \in DOMAIN versions : versions'[u] = IF u = v THEN f ELSE versions[u]
\* A version is added.
Added(f) ==
    /\ versions' \in Seq(File) /\ Len(versions') = Len(versions) + 1
    /\ DOMAIN versions' = DOMAIN versions \cup {Len(versions) + 1} /\ Len(versions) + 1 \notin DOMAIN versions
    /\ \A u \in DOMAIN versions : versions'[u] = versions[u]
    /\ versions'[Len(versions) + 1] = f /\ f \in File
In(f, s) == [of |-> f.of, state |-> s, blob |-> f.blob]

\* A file replaced, point by point.
LEMMA PutFile ==
    ASSUME TypeOK, NEW v \in DOMAIN versions, NEW f \in File, versions' = [versions EXCEPT ![v] = f]
    PROVE  Put(v, f)
BY DEF TypeOK, Put

\* A version appended, point by point.
LEMMA AddFile ==
    ASSUME TypeOK, NEW f \in File, versions' = Append(versions, f)
    PROVE  Added(f)
BY DEF TypeOK, Added

\* A file of which only the state changes.
LEMMA InState ==
    ASSUME NEW f \in File, NEW s \in FileState
    PROVE  [f EXCEPT !.state = s] = In(f, s) /\ In(f, s) \in File
BY DEF File, In

\* A version of which only the file's state changes.
LEMMA PutState ==
    ASSUME TypeOK, NEW v \in DOMAIN versions, NEW s \in FileState, versions' = [versions EXCEPT ![v].state = s]
    PROVE  Put(v, In(versions[v], s))
<1>1. versions[v] \in File BY DEF TypeOK
<1>2. [versions[v] EXCEPT !.state = s] = In(versions[v], s) /\ In(versions[v], s) \in File BY <1>1, InState
<1> QED BY <1>2, PutFile

\* The requests about a file.
LEMMA FileEffect ==
    ASSUME TypeOK, app.exists
    PROVE  /\ RenewAddress => /\ pc = "uri" /\ file.state = "expiring" /\ Put(ver, In(file, "requested"))
                              /\ UNCHANGED <<app, pinned, want, run, edited, faults, env>>
           /\ CreateFile => /\ pc = "file" /\ pc' = "uri" /\ file.state = "none"
                            /\ Put(ver, [of |-> goal, state |-> "requested", blob |-> Foreign])
                            /\ UNCHANGED <<app, pinned, want, goal, cur, ver, resuming, activated, edited, faults, env>>
           /\ UploadBlob => /\ pc = "blob"
                            /\ \/ pc' = "idle" /\ versions' = versions
                               \/ /\ pc' = "commit" /\ file.state = "ready"
                                  /\ Put(ver, [of |-> file.of, state |-> "ready", blob |-> goal])
                            /\ UNCHANGED <<app, pinned, want, goal, cur, ver, resuming, activated, edited, faults, env>>
           /\ CommitFile => /\ pc = "commit" /\ pc' = "commitWait" /\ Put(ver, In(file, "committing"))
                            /\ UNCHANGED <<app, pinned, want, goal, cur, ver, resuming, activated, edited, faults, env>>
<1>1. pc \in Uploading => ver \in DOMAIN versions /\ file \in File BY DEF TypeOK, file
<1>2. ASSUME RenewAddress PROVE Put(ver, In(file, "requested"))
  <2>1. versions' = [versions EXCEPT ![ver] = [file EXCEPT !.state = "requested"]] /\ pc \in Uploading
    BY <1>2 DEF RenewAddress, SetFile, Uploading
  <2> QED BY <2>1, <1>1, InState, PutFile DEF FileState
<1>3. ASSUME CreateFile PROVE Put(ver, [of |-> goal, state |-> "requested", blob |-> Foreign])
  <2>1. pc \in Uploading BY <1>3 DEF CreateFile, Goto, Uploading
  <2>2. [of |-> goal, state |-> "requested", blob |-> Foreign] \in File BY DEF File, FileState, TypeOK
  <2> QED BY <2>1, <2>2, <1>1, <1>3, PutFile DEF CreateFile, SetFile
<1>4. ASSUME UploadBlob, pc' # "idle"
      PROVE  pc' = "commit" /\ file.state = "ready" /\ Put(ver, [of |-> file.of, state |-> "ready", blob |-> goal])
  <2>1. /\ pc \in Uploading /\ pc' = "commit" /\ file.state = "ready"
        /\ versions' = [versions EXCEPT ![ver] = [file EXCEPT !.blob = goal]]
    BY <1>4 DEF UploadBlob, Goto, Uploading, SetFile
  <2>2. [file EXCEPT !.blob = goal] = [of |-> file.of, state |-> "ready", blob |-> goal]
    BY <1>1, <2>1 DEF File
  <2>3. [of |-> file.of, state |-> "ready", blob |-> goal] \in File BY <1>1, <2>1 DEF File, FileState, TypeOK
  <2> QED BY <2>1, <2>2, <2>3, <1>1, PutFile
<1>5. ASSUME UploadBlob, pc' = "idle" PROVE versions' = versions
  BY <1>5 DEF UploadBlob, Goto
<1>6. ASSUME CommitFile PROVE Put(ver, In(file, "committing"))
  <2>1. versions' = [versions EXCEPT ![ver] = [file EXCEPT !.state = "committing"]] /\ pc \in Uploading
    BY <1>6 DEF CommitFile, SetFile, Uploading, Goto
  <2> QED BY <2>1, <1>1, InState, PutFile DEF FileState
<1>7. RenewAddress => pc = "uri" /\ file.state = "expiring" /\ UNCHANGED <<app, pinned, want, run, edited, faults, env>>
  BY DEF RenewAddress
<1>8. CreateFile => /\ pc = "file" /\ pc' = "uri" /\ file.state = "none"
                    /\ UNCHANGED <<app, pinned, want, goal, cur, ver, resuming, activated, edited, faults, env>>
  BY DEF CreateFile, Goto
<1>9. UploadBlob => /\ pc = "blob"
                    /\ UNCHANGED <<app, pinned, want, goal, cur, ver, resuming, activated, edited, faults, env>>
  BY DEF UploadBlob, Goto
<1>10. CommitFile => /\ pc = "commit" /\ pc' = "commitWait"
                     /\ UNCHANGED <<app, pinned, want, goal, cur, ver, resuming, activated, edited, faults, env>>
  BY DEF CommitFile, Goto
<1> QED BY <1>2, <1>3, <1>4, <1>5, <1>6, <1>7, <1>8, <1>9, <1>10

\* What Graph does to a file.
LEMMA GraphEffect ==
    ASSUME TypeOK, NEW v \in DOMAIN versions, GraphFile(v) \/ GraphRejects(v)
    PROVE  /\ \/ versions[v].state = "requested" /\ Put(v, In(versions[v], "ready"))
              \/ versions[v].state = "committing" /\ Put(v, In(versions[v], "committed"))
              \/ versions[v].state \in {"requested", "committing"} /\ Put(v, In(versions[v], "failed"))
              \/ versions[v].state = "ready" /\ Put(v, In(versions[v], "expiring"))
           /\ UNCHANGED <<app, pinned, want, run, edited, env>> /\ faults' \in Nat
<1>1. CASE GraphFile(v)
  <2>1. \/ versions[v].state = "requested" /\ versions' = [versions EXCEPT ![v].state = "ready"]
        \/ versions[v].state = "committing" /\ versions' = [versions EXCEPT ![v].state = "committed"]
    BY <1>1 DEF GraphFile
  <2>2. UNCHANGED <<app, pinned, want, run, edited, env, faults>> BY <1>1 DEF GraphFile
  <2>3. faults' \in Nat BY <2>2 DEF TypeOK
  <2> QED BY <2>1, <2>2, <2>3, PutState DEF FileState
<1>2. CASE GraphRejects(v)
  <2>1. \/ versions[v].state \in {"requested", "committing"} /\ versions' = [versions EXCEPT ![v].state = "failed"]
        \/ versions[v].state = "ready" /\ versions' = [versions EXCEPT ![v].state = "expiring"]
    BY <1>2 DEF GraphRejects
  <2>2. UNCHANGED <<app, pinned, want, run, edited, env>> /\ faults' = faults + 1 BY <1>2 DEF GraphRejects
  <2>3. faults' \in Nat BY <2>2 DEF TypeOK
  <2> QED BY <2>1, <2>2, <2>3, PutState DEF FileState
<1> QED BY <1>1, <1>2

\* Versions that are added, by a run or by an administrator.
Foreigner == [of |-> Foreign, state |-> "committed", blob |-> Foreign]
LEMMA AddedEffect ==
    ASSUME TypeOK
    PROVE  /\ NewVersion => Added(NoFile) /\ ver' = Len(versions) + 1 /\ Len(versions) < MaxVersions
           /\ AdminPublishes => Added(Foreigner) /\ Len(versions) < MaxVersions
<1>1. NoFile \in File /\ Foreigner \in File
  BY DEF File, FileState, NoFile, Foreign, Foreigner
<1> QED BY <1>1, AddFile DEF NewVersion, AdminPublishes, Foreigner

\* What is written of the app, field by field.
AppIs(m, c, s) == app' = [exists |-> app.exists, marker |-> m, committed |-> c, state |-> s]
LEMMA AppEffect ==
    ASSUME TypeOK
    PROVE  /\ Record => AppIs([id |-> TRUE, payload |-> goal, content |-> ver], app.committed, app.state)
           /\ ApplyMetadata => AppIs([id |-> TRUE, payload |-> goal, content |-> ver], app.committed, app.state)
           /\ Activate => AppIs(app.marker, ver, "processing")
           /\ GraphPublish => AppIs(app.marker, app.committed, "published")
           /\ AdminPublishes => AppIs(app.marker, Len(versions) + 1, "processing")
           /\ AdminEditsNotes =>
                \E m \in {NoMarker, [id |-> app.marker.id, payload |-> Foreign, content |-> app.marker.content]} :
                   AppIs(m, app.committed, app.state)
<1> DEFINE R(m, c, s) == [exists |-> app.exists, marker |-> m, committed |-> c, state |-> s]
<1>1. app = R(app.marker, app.committed, app.state) /\ app.marker \in Marker
  BY DEF TypeOK, App
<1>2. [app.marker EXCEPT !.payload = Foreign]
      = [id |-> app.marker.id, payload |-> Foreign, content |-> app.marker.content]
  BY <1>1 DEF Marker
<1>3. ASSUME NEW m PROVE [app EXCEPT !.marker = m] = R(m, app.committed, app.state)
  BY DEF TypeOK, App
<1>4. ASSUME NEW c, NEW s PROVE [app EXCEPT !.committed = c, !.state = s] = R(app.marker, c, s)
  <2>1. [app EXCEPT !.committed = c] = R(app.marker, c, app.state) BY DEF TypeOK, App
  <2>2. [R(app.marker, c, app.state) EXCEPT !.state = s] = R(app.marker, c, s) OBVIOUS
  <2> QED BY <2>1, <2>2
<1>5. ASSUME NEW s PROVE [app EXCEPT !.state = s] = R(app.marker, app.committed, s)
  BY DEF TypeOK, App
<1>6. AdminEditsNotes => \E m \in {NoMarker, [app.marker EXCEPT !.payload = Foreign]} : app' = [app EXCEPT !.marker = m]
  BY DEF AdminEditsNotes
<1>7. Record \/ ApplyMetadata => app' = [app EXCEPT !.marker = [id |-> TRUE, payload |-> goal, content |-> ver]]
  BY DEF Record, ApplyMetadata
<1>8. Activate => app' = [app EXCEPT !.committed = ver, !.state = "processing"] BY DEF Activate
<1>9. GraphPublish => app' = [app EXCEPT !.state = "published"] BY DEF GraphPublish
<1>10. AdminPublishes => app' = [app EXCEPT !.committed = Len(versions) + 1, !.state = "processing"]
  BY DEF AdminPublishes
<1> QED BY <1>2, <1>3, <1>4, <1>5, <1>6, <1>7, <1>8, <1>9, <1>10 DEF AppIs

\* What the other requests and events leave alone.
LEMMA Frame ==
    /\ NewVersion => /\ pc \in {"choose", "again"} /\ pc' = "check" /\ resuming' = FALSE
                     /\ UNCHANGED <<app, pinned, want, goal, cur, activated, edited, faults, env>>
    /\ Record => /\ pc = "record" /\ pc' = "file" /\ cur' = app
                 /\ UNCHANGED <<versions, pinned, want, goal, ver, resuming, activated, edited, faults, env>>
    /\ ApplyMetadata => /\ pc = "metadata" /\ pc' = "idle"
                        /\ UNCHANGED <<versions, pinned, want, goal, cur, ver, resuming, activated, edited, faults, env>>
    /\ Activate => /\ pc = "activate" /\ pc' = "wait" /\ activated' = ver
                   /\ UNCHANGED <<versions, pinned, want, goal, cur, ver, resuming, edited, faults, env>>
    /\ GraphPublish => app.exists /\ UNCHANGED <<versions, pinned, want, run, edited, faults, env>>
    /\ AdminPublishes => app.exists /\ env' = env + 1 /\ UNCHANGED <<pinned, want, run, edited, faults>>
    /\ AdminEditsNotes => /\ app.exists /\ app.committed # NoVersion /\ env' = env + 1 /\ edited' = TRUE
                          /\ UNCHANGED <<versions, pinned, want, run, faults>>
BY DEF NewVersion, Record, ApplyMetadata, Activate, GraphPublish, AdminPublishes, AdminEditsNotes, Goto, Edits

(***************************************************************************)
(* What holds between two requests holds after each.                       *)
(***************************************************************************)

\* What is written of the app has its type.
LEMMA AppType ==
    ASSUME TypeOK, NEW m \in Marker, NEW c \in Version \cup {NoVersion},
           NEW s \in {"notPublished", "processing", "published"}, AppIs(m, c, s)
    PROVE  app' \in App /\ app'.exists = app.exists
<1>1. app.exists \in BOOLEAN BY DEF TypeOK, App
<1>2. [exists |-> app.exists, marker |-> m, committed |-> c, state |-> s] \in App BY <1>1 DEF App
<1> QED BY <1>2 DEF AppIs

\* Every step keeps the types.
LEMMA TypeStep == TruthInv /\ [Next]_vars => TypeOK'
<1> SUFFICES ASSUME TruthInv, [Next]_vars PROVE TypeOK' OBVIOUS
<1> USE ConstantsAssumption DEF Version, NoVersion, Foreign
<1>t. TypeOK BY DEF TruthInv
<1>1. ASSUME Observe PROVE TypeOK'
  BY <1>1, <1>t DEF Observe, TypeOK, App, Marker, NoApp, NoMarker, Uploading, Goto, Active, tenant
<1>2. ASSUME NotFound PROVE TypeOK'
  BY <1>2, <1>t DEF NotFound, TypeOK, App, Marker, NoApp, NoMarker, Uploading, Goto, tenant
<1>3. ASSUME app.exists, Refuse PROVE TypeOK'
  BY <1>3, <1>t DEF Refuse, TypeOK, App, Marker, NoApp, NoMarker, Uploading, Goto, tenant
<1>4. ASSUME app.exists, CheckFiles PROVE TypeOK'
  BY <1>4, <1>t DEF CheckFiles, TypeOK, App, Marker, NoApp, NoMarker, Uploading, Goto, tenant
<1>5. ASSUME app.exists, ResumeFile PROVE TypeOK'
  BY <1>5, <1>t DEF ResumeFile, TypeOK, App, Marker, NoApp, NoMarker, Uploading, Goto, tenant
<1>6. ASSUME app.exists, WaitAddress PROVE TypeOK'
  BY <1>6, <1>t DEF WaitAddress, TypeOK, App, Marker, NoApp, NoMarker, Uploading, Goto, tenant
<1>7. ASSUME app.exists, WaitCommit PROVE TypeOK'
  BY <1>7, <1>t DEF WaitCommit, TypeOK, App, Marker, NoApp, NoMarker, Uploading, Goto, tenant
<1>8. ASSUME app.exists, Rejected PROVE TypeOK'
  BY <1>8, <1>t DEF Rejected, TypeOK, App, Marker, NoApp, NoMarker, Uploading, Goto, tenant
<1>9. ASSUME app.exists, WaitPublished PROVE TypeOK'
  BY <1>9, <1>t DEF WaitPublished, TypeOK, App, Marker, NoApp, NoMarker, Uploading, Goto, tenant
<1>10. ASSUME Interrupt PROVE TypeOK'
  BY <1>10, <1>t DEF Interrupt, TypeOK, App, Marker, NoApp, NoMarker, Uploading, Goto
<1>11. ASSUME NewRelease PROVE TypeOK'
  BY <1>11, <1>t DEF NewRelease, TypeOK, App, Marker, NoApp, NoMarker, Uploading, Goto, run, Edits
<1>12. ASSUME app.exists, ChooseKnown PROVE TypeOK'
  <2>1. Vouches(cur.marker) BY <1>12 DEF ChooseKnown, Goto, TruthInv, RunSound, Choosing
  <2>2. ver' \in DOMAIN versions /\ ver' \in Version
    BY <1>12, <2>1, <1>t DEF ChooseKnown, TypeOK, Pending, Vouches
  <2> QED BY <1>12, <2>2, <1>t DEF ChooseKnown, TypeOK, Uploading, Goto, tenant
<1>13. ASSUME Create PROVE TypeOK'
  BY <1>13, <1>t DEF Create, TypeOK, App, Marker, NoApp, NoMarker, Uploading, Goto
<1>14. ASSUME AdminDeletes PROVE TypeOK'
  BY <1>14, <1>t DEF AdminDeletes, TypeOK, App, Marker, NoApp, NoMarker, Uploading, run, Edits
<1>15. ASSUME app.exists, NewVersion PROVE TypeOK'
  <2>1. Len(versions) \in Nat /\ Len(versions) + 1 \in Version BY <1>15, <1>t, AddedEffect DEF TypeOK
  <2>2. versions' \in Seq(File) /\ Len(versions') <= MaxVersions /\ ver' \in DOMAIN versions' /\ ver' \in Version
    BY <2>1, <1>15, <1>t, AddedEffect DEF Added, TypeOK
  <2> QED BY <1>15, <1>t, <2>2, Frame DEF TypeOK, Uploading
<1>16. ASSUME AdminPublishes PROVE TypeOK'
  BY <1>16, <1>t, AddedEffect, AppEffect, Frame DEF Added, AppIs, TypeOK, App, Marker, NoApp, NoMarker,
     Uploading, run
<1>17. ASSUME app.exists, RenewAddress \/ CreateFile \/ UploadBlob \/ CommitFile PROVE TypeOK'
  BY <1>17, <1>t, FileEffect DEF Put, TypeOK, App, Marker, NoApp, NoMarker, Uploading, run
<1>18. ASSUME NEW v \in DOMAIN versions, GraphFile(v) \/ GraphRejects(v) PROVE TypeOK'
  <2>1. /\ versions' \in Seq(File) /\ Len(versions') = Len(versions) /\ DOMAIN versions' = DOMAIN versions
        /\ UNCHANGED <<app, pinned, want, run, edited, env>> /\ faults' \in Nat
    BY <1>18, <1>t, GraphEffect DEF Put
  <2> QED BY <1>t, <2>1 DEF TypeOK, run
<1>19. ASSUME app.exists, Record \/ ApplyMetadata PROVE TypeOK'
  <2>1. [id |-> TRUE, payload |-> goal, content |-> ver] \in Marker BY <1>t DEF TypeOK, Marker
  <2>2. /\ app.committed \in Version \cup {NoVersion}
        /\ app.state \in {"notPublished", "processing", "published"}
    BY <1>t DEF TypeOK, App
  <2>3. AppIs([id |-> TRUE, payload |-> goal, content |-> ver], app.committed, app.state)
    BY <1>19, <1>t, AppEffect
  <2>4. app' \in App /\ app'.exists = app.exists BY <1>t, <2>1, <2>2, <2>3, AppType
  <2> QED BY <1>19, <1>t, <2>4, Frame DEF TypeOK, Uploading
<1>20. ASSUME app.exists, Activate PROVE TypeOK'
  <2>1. app' \in App /\ app'.exists = app.exists BY <1>20, <1>t, AppEffect, AppType DEF TypeOK, App
  <2> QED BY <1>20, <1>t, <2>1, Frame DEF TypeOK, Uploading
<1>21. ASSUME GraphPublish \/ AdminEditsNotes PROVE TypeOK'
  <2>1. app' \in App /\ app'.exists = app.exists
    <3>1. NoMarker \in Marker /\ [id |-> app.marker.id, payload |-> Foreign, content |-> app.marker.content] \in Marker
      BY <1>t DEF TypeOK, App, Marker, NoMarker
    <3>2. CASE GraphPublish BY <3>2, <1>t, AppEffect, AppType DEF TypeOK, App
    <3>3. CASE AdminEditsNotes BY <3>1, <3>3, <1>t, AppEffect, AppType DEF TypeOK, App
    <3> QED BY <1>21, <3>2, <3>3
  <2>2. CASE GraphPublish BY <2>1, <2>2, <1>t, Frame DEF TypeOK, Uploading, run
  <2>3. CASE AdminEditsNotes BY <2>1, <2>3, <1>t, Frame DEF TypeOK, Uploading, run
  <2> QED BY <1>21, <2>2, <2>3
<1>22. ASSUME UNCHANGED vars PROVE TypeOK'
  BY <1>22, <1>t DEF vars, run, TypeOK, App, Marker, NoApp, NoMarker, Uploading
<1> QED
  BY <1>1, <1>2, <1>3, <1>4, <1>5, <1>6, <1>7, <1>8, <1>9, <1>10, <1>11, <1>12, <1>13, <1>14, <1>15, <1>16,
     <1>17, <1>18, <1>19, <1>20, <1>21, <1>22 DEF Next, Run, Requests, Graph, Admin

\* Every step keeps what makes the marker true.
LEMMA TruthStep == TruthInv /\ [Next]_vars => TruthInv'
<1> SUFFICES ASSUME TruthInv, [Next]_vars PROVE TruthInv' OBVIOUS
<1> USE ConstantsAssumption DEF NoVersion, Foreign, file,
        Uploading, RunSound, Choosing, Chosen, Transferring, AsRead, Overwritten, Recorded, FirstMark,
        Vouches, StillActive
<1>t. TypeOK /\ TypeOK' BY TypeStep DEF TruthInv
<1>v. /\ app.exists /\ pc \in Uploading => ver \in DOMAIN versions
      /\ DOMAIN versions = 1..Len(versions) /\ Len(versions) \in Nat
  BY <1>t DEF TypeOK
<1>a. Absent /\ FilesSound /\ ActiveSound /\ Vouches(app.marker) /\ RunSound BY DEF TruthInv
<1>1. ASSUME Observe PROVE TruthInv'
  <2>1. UNCHANGED <<app, versions, edited>> BY <1>1 DEF Observe, tenant
  <2>2. RunSound' BY <1>1, <1>t, <1>a, <2>1 DEF Observe, Goto, Active, TypeOK, App, Marker, ActiveSound
  <2> QED BY <1>t, <1>a, <2>1, <2>2 DEF TruthInv, Absent, FilesSound, ActiveSound, Vouches
<1>2. ASSUME NotFound PROVE TruthInv'
  <2>1. UNCHANGED <<app, versions, edited>> BY <1>2 DEF NotFound, tenant
  <2>2. RunSound' BY <1>2, <1>t, <1>a, <2>1 DEF NotFound, Goto
  <2> QED BY <1>t, <1>a, <2>1, <2>2 DEF TruthInv, Absent, FilesSound, ActiveSound, Vouches
<1>3. ASSUME app.exists, Refuse PROVE TruthInv'
  <2>1. UNCHANGED <<app, versions, edited>> BY <1>3 DEF Refuse, tenant
  <2>2. RunSound' BY <1>3, <1>t, <1>a, <2>1 DEF Refuse, Goto
  <2> QED BY <1>t, <1>a, <2>1, <2>2 DEF TruthInv, Absent, FilesSound, ActiveSound, Vouches
<1>4. ASSUME app.exists, CheckFiles PROVE TruthInv'
  <2>1. UNCHANGED <<app, versions, edited>> BY <1>4 DEF CheckFiles, tenant
  <2>2. RunSound' BY <1>4, <1>t, <1>a, <2>1 DEF CheckFiles, Goto, Matches, First, TypeOK
  <2> QED BY <1>t, <1>a, <2>1, <2>2 DEF TruthInv, Absent, FilesSound, ActiveSound, Vouches
<1>5. ASSUME app.exists, ResumeFile PROVE TruthInv'
  <2>1. UNCHANGED <<app, versions, edited>> BY <1>5 DEF ResumeFile, tenant
  <2>2. RunSound' BY <1>5, <1>t, <1>a, <2>1 DEF ResumeFile, Goto
  <2> QED BY <1>t, <1>a, <2>1, <2>2 DEF TruthInv, Absent, FilesSound, ActiveSound, Vouches
<1>6. ASSUME app.exists, WaitAddress PROVE TruthInv'
  <2>1. UNCHANGED <<app, versions, edited>> BY <1>6 DEF WaitAddress, tenant
  <2>2. RunSound' BY <1>6, <1>t, <1>a, <2>1 DEF WaitAddress, Goto
  <2> QED BY <1>t, <1>a, <2>1, <2>2 DEF TruthInv, Absent, FilesSound, ActiveSound, Vouches
<1>7. ASSUME app.exists, WaitCommit PROVE TruthInv'
  <2>1. UNCHANGED <<app, versions, edited>> BY <1>7 DEF WaitCommit, tenant
  <2>2. RunSound' BY <1>7, <1>t, <1>a, <2>1 DEF WaitCommit, Goto
  <2> QED BY <1>t, <1>a, <2>1, <2>2 DEF TruthInv, Absent, FilesSound, ActiveSound, Vouches
<1>8. ASSUME app.exists, Rejected PROVE TruthInv'
  <2>1. UNCHANGED <<app, versions, edited>> BY <1>8 DEF Rejected, tenant
  <2>2. RunSound' BY <1>8, <1>t, <1>a, <2>1 DEF Rejected, Goto, First
  <2> QED BY <1>t, <1>a, <2>1, <2>2 DEF TruthInv, Absent, FilesSound, ActiveSound, Vouches
<1>9. ASSUME app.exists, WaitPublished PROVE TruthInv'
  <2>1. UNCHANGED <<app, versions, edited>> BY <1>9 DEF WaitPublished, tenant
  <2>2. RunSound' BY <1>9, <1>t, <1>a, <2>1 DEF WaitPublished, Goto
  <2> QED BY <1>t, <1>a, <2>1, <2>2 DEF TruthInv, Absent, FilesSound, ActiveSound, Vouches
<1>10. ASSUME app.exists, ChooseKnown PROVE TruthInv'
  <2>1. UNCHANGED <<app, versions, edited>> BY <1>10 DEF ChooseKnown, tenant
  <2>2. RunSound' BY <1>10, <1>t, <1>a, <2>1 DEF ChooseKnown, Goto, Pending, Listed, First, TypeOK
  <2> QED BY <1>t, <1>a, <2>1, <2>2 DEF TruthInv, Absent, FilesSound, ActiveSound, Vouches
<1>11. ASSUME Interrupt PROVE TruthInv'
  <2>1. UNCHANGED <<app, versions, edited>> BY <1>11 DEF Interrupt
  <2>2. RunSound' BY <1>11, <1>t, <1>a, <2>1 DEF Interrupt, Goto
  <2> QED BY <1>t, <1>a, <2>1, <2>2 DEF TruthInv, Absent, FilesSound, ActiveSound, Vouches
<1>12. ASSUME NewRelease PROVE TruthInv'
  <2>1. UNCHANGED <<app, versions, edited>> BY <1>12 DEF NewRelease, run
  <2>2. RunSound' BY <1>12, <1>t, <1>a, <2>1 DEF NewRelease, Goto, run
  <2> QED BY <1>t, <1>a, <2>1, <2>2 DEF TruthInv, Absent, FilesSound, ActiveSound, Vouches
<1>13. ASSUME Create PROVE TruthInv'
  <2>1. Absent' /\ FilesSound' /\ ActiveSound' /\ Vouches(app.marker)'
    BY <1>13 DEF Create, Goto, Absent, FilesSound, ActiveSound, Vouches
  <2>2. RunSound' BY <1>13 DEF Create, Goto
  <2> QED BY <1>t, <2>1, <2>2 DEF TruthInv
<1>14. ASSUME AdminDeletes PROVE TruthInv'
  <2>1. Absent' /\ FilesSound' /\ ActiveSound' /\ Vouches(app.marker)'
    BY <1>14 DEF AdminDeletes, NoApp, NoMarker, Absent, FilesSound, ActiveSound, Vouches
  <2>2. RunSound' BY <1>14 DEF AdminDeletes, NoApp, RunSound
  <2> QED BY <1>t, <2>1, <2>2 DEF TruthInv
<1>15. ASSUME app.exists, RenewAddress PROVE TruthInv'
  <2>e. /\ app.exists
        /\ pc = "uri"
        /\ file.state = "expiring"
        /\ Put(ver, In(file, "requested"))
        /\ UNCHANGED <<app, pinned, want, run, edited, faults, env>>
    BY <1>15, <1>a, <1>t, FileEffect DEF Absent
  <2>1. Absent' BY <2>e, <1>a, <1>t DEF Absent, Put, In, run
  <2>2. FilesSound' BY <2>e, <1>a, <1>t DEF FilesSound, Put, In, run
  <2>3. ActiveSound' BY <2>e, <1>a, <1>t DEF ActiveSound, Put, In, run
  <2>4. Vouches(app.marker)' BY <2>e, <1>a, <1>t DEF Put, In, run
  <2>5. app.exists => Choosing' BY <2>e, <1>a, <1>v DEF Put, In, run
  <2>6. app.exists => Chosen' BY <2>e, <1>a, <1>v DEF Put, In, run
  <2>7. app.exists => Transferring' BY <2>e, <1>a, <1>v DEF Put, In, run
  <2>8. app.exists => StillActive' BY <2>e, <1>a, <1>v DEF Put, In, run
  <2>9. app'.exists => app.exists BY <2>e, <1>a DEF Put, In, run
  <2> QED BY <1>t, <2>1, <2>2, <2>3, <2>4, <2>5, <2>6, <2>7, <2>8, <2>9 DEF TruthInv, RunSound
<1>16. ASSUME app.exists, CreateFile PROVE TruthInv'
  <2>e. /\ app.exists
        /\ pc = "file"
        /\ pc' = "uri"
        /\ file.state = "none"
        /\ Put(ver, [of |-> goal, state |-> "requested", blob |-> Foreign])
        /\ UNCHANGED <<app, pinned, want, goal, cur, ver, resuming, activated, edited, faults, env>>
    BY <1>16, <1>a, <1>t, FileEffect DEF Absent
  <2>1. Absent' BY <2>e, <1>a, <1>t DEF Absent, Put
  <2>2. FilesSound' BY <2>e, <1>a, <1>t DEF FilesSound, Put
  <2>3. ActiveSound' BY <2>e, <1>a, <1>t DEF ActiveSound, Put
  <2>4. Vouches(app.marker)' BY <2>e, <1>a, <1>t DEF Put
  <2>5. app.exists => Choosing' BY <2>e, <1>a, <1>v DEF Put
  <2>6. app.exists => Chosen' BY <2>e, <1>a, <1>v DEF Put
  <2>7. app.exists => Transferring' BY <2>e, <1>a, <1>v DEF Put
  <2>8. app.exists => StillActive' BY <2>e, <1>a, <1>v DEF Put
  <2>9. app'.exists => app.exists BY <2>e, <1>a DEF Put
  <2> QED BY <1>t, <2>1, <2>2, <2>3, <2>4, <2>5, <2>6, <2>7, <2>8, <2>9 DEF TruthInv, RunSound
<1>17. ASSUME app.exists, UploadBlob PROVE TruthInv'
  <2>1. CASE pc' = "idle"
    <3>e. pc' = "idle" /\ app.exists /\ UNCHANGED <<versions, app>> BY <1>17, <1>t, <2>1, FileEffect
    <3> QED BY <3>e, <1>a, <1>t DEF TruthInv, Absent, FilesSound, ActiveSound, Vouches
  <2>2. CASE pc' # "idle"
    <3>e. /\ app.exists
          /\ pc = "blob"
          /\ pc' = "commit"
          /\ file.state = "ready"
          /\ Put(ver, [of |-> file.of, state |-> "ready", blob |-> goal])
          /\ UNCHANGED <<app, pinned, want, goal, cur, ver, resuming, activated, edited, faults, env>>
      BY <1>17, <1>t, <2>2, FileEffect
    <3>1. Absent' BY <3>e, <1>a, <1>t DEF Absent, Put
    <3>2. FilesSound' BY <3>e, <1>a, <1>t DEF FilesSound, Put
    <3>3. ActiveSound' BY <3>e, <1>a, <1>t DEF ActiveSound, Put
    <3>4. Vouches(app.marker)' BY <3>e, <1>a, <1>t DEF Put
    <3>5. app.exists => Choosing' BY <3>e, <1>a, <1>v DEF Put
    <3>6. app.exists => Chosen' BY <3>e, <1>a, <1>v DEF Put
    <3>7. app.exists => Transferring' BY <3>e, <1>a, <1>v DEF Put
    <3>8. app.exists => StillActive' BY <3>e, <1>a, <1>v DEF Put
    <3>9. app'.exists => app.exists BY <3>e, <1>a DEF Put
    <3> QED BY <1>t, <3>1, <3>2, <3>3, <3>4, <3>5, <3>6, <3>7, <3>8, <3>9 DEF TruthInv, RunSound
  <2> QED BY <2>1, <2>2
<1>18. ASSUME app.exists, CommitFile PROVE TruthInv'
  <2>e. /\ app.exists
        /\ pc = "commit"
        /\ pc' = "commitWait"
        /\ Put(ver, In(file, "committing"))
        /\ UNCHANGED <<app, pinned, want, goal, cur, ver, resuming, activated, edited, faults, env>>
    BY <1>18, <1>a, <1>t, FileEffect DEF Absent
  <2>1. Absent' BY <2>e, <1>a, <1>t DEF Absent, Put, In
  <2>2. FilesSound' BY <2>e, <1>a, <1>t DEF FilesSound, Put, In
  <2>3. ActiveSound' BY <2>e, <1>a, <1>t DEF ActiveSound, Put, In
  <2>4. Vouches(app.marker)' BY <2>e, <1>a, <1>t DEF Put, In
  <2>5. app.exists => Choosing' BY <2>e, <1>a, <1>v DEF Put, In
  <2>6. app.exists => Chosen' BY <2>e, <1>a, <1>v DEF Put, In
  <2>7. app.exists => Transferring' BY <2>e, <1>a, <1>v DEF Put, In
  <2>8. app.exists => StillActive' BY <2>e, <1>a, <1>v DEF Put, In
  <2>9. app'.exists => app.exists BY <2>e, <1>a DEF Put, In
  <2> QED BY <1>t, <2>1, <2>2, <2>3, <2>4, <2>5, <2>6, <2>7, <2>8, <2>9 DEF TruthInv, RunSound
<1>19. ASSUME NEW v \in DOMAIN versions, GraphFile(v) \/ GraphRejects(v) PROVE TruthInv'
  <2>e. app.exists /\ UNCHANGED <<app, pinned, want, run, edited, env>>
    BY <1>19, <1>a, <1>t, GraphEffect DEF Absent
  <2>1. CASE versions[v].state = "requested" /\ Put(v, In(versions[v], "ready"))
    <3>1. Absent' BY <2>e, <2>1, <1>a, <1>t DEF Absent, Put, In, run
    <3>2. FilesSound' BY <2>e, <2>1, <1>a, <1>t DEF FilesSound, Put, In, run
    <3>3. ActiveSound' BY <2>e, <2>1, <1>a, <1>t DEF ActiveSound, Put, In, run
    <3>4. Vouches(app.marker)' BY <2>e, <2>1, <1>a, <1>t DEF Put, In, run
    <3>5. app.exists => Choosing' BY <2>e, <2>1, <1>a, <1>v DEF Put, In, run
    <3>6. app.exists => Chosen' BY <2>e, <2>1, <1>a, <1>v DEF Put, In, run
    <3>7. app.exists => Transferring' BY <2>e, <2>1, <1>a, <1>v DEF Put, In, run
    <3>8. app.exists => StillActive' BY <2>e, <2>1, <1>a, <1>v DEF Put, In, run
    <3>9. app'.exists => app.exists BY <2>e, <2>1, <1>a DEF Put, In, run
    <3> QED BY <1>t, <3>1, <3>2, <3>3, <3>4, <3>5, <3>6, <3>7, <3>8, <3>9 DEF TruthInv, RunSound
  <2>2. CASE versions[v].state = "committing" /\ Put(v, In(versions[v], "committed"))
    <3>1. Absent' BY <2>e, <2>2, <1>a, <1>t DEF Absent, Put, In, run
    <3>2. FilesSound' BY <2>e, <2>2, <1>a, <1>t DEF FilesSound, Put, In, run
    <3>3. ActiveSound' BY <2>e, <2>2, <1>a, <1>t DEF ActiveSound, Put, In, run
    <3>4. Vouches(app.marker)' BY <2>e, <2>2, <1>a, <1>t DEF Put, In, run
    <3>5. app.exists => Choosing' BY <2>e, <2>2, <1>a, <1>v DEF Put, In, run
    <3>6. app.exists => Chosen' BY <2>e, <2>2, <1>a, <1>v DEF Put, In, run
    <3>7. app.exists => Transferring' BY <2>e, <2>2, <1>a, <1>v DEF Put, In, run
    <3>8. app.exists => StillActive' BY <2>e, <2>2, <1>a, <1>v DEF Put, In, run
    <3>9. app'.exists => app.exists BY <2>e, <2>2, <1>a DEF Put, In, run
    <3> QED BY <1>t, <3>1, <3>2, <3>3, <3>4, <3>5, <3>6, <3>7, <3>8, <3>9 DEF TruthInv, RunSound
  <2>3. CASE versions[v].state \in {"requested", "committing"} /\ Put(v, In(versions[v], "failed"))
    <3>1. Absent' BY <2>e, <2>3, <1>a, <1>t DEF Absent, Put, In, run
    <3>2. FilesSound' BY <2>e, <2>3, <1>a, <1>t DEF FilesSound, Put, In, run
    <3>3. ActiveSound' BY <2>e, <2>3, <1>a, <1>t DEF ActiveSound, Put, In, run
    <3>4. Vouches(app.marker)' BY <2>e, <2>3, <1>a, <1>t DEF Put, In, run
    <3>5. app.exists => Choosing' BY <2>e, <2>3, <1>a, <1>v DEF Put, In, run
    <3>6. app.exists => Chosen' BY <2>e, <2>3, <1>a, <1>v DEF Put, In, run
    <3>7. app.exists => Transferring' BY <2>e, <2>3, <1>a, <1>v DEF Put, In, run
    <3>8. app.exists => StillActive' BY <2>e, <2>3, <1>a, <1>v DEF Put, In, run
    <3>9. app'.exists => app.exists BY <2>e, <2>3, <1>a DEF Put, In, run
    <3> QED BY <1>t, <3>1, <3>2, <3>3, <3>4, <3>5, <3>6, <3>7, <3>8, <3>9 DEF TruthInv, RunSound
  <2>4. CASE versions[v].state = "ready" /\ Put(v, In(versions[v], "expiring"))
    <3>1. Absent' BY <2>e, <2>4, <1>a, <1>t DEF Absent, Put, In, run
    <3>2. FilesSound' BY <2>e, <2>4, <1>a, <1>t DEF FilesSound, Put, In, run
    <3>3. ActiveSound' BY <2>e, <2>4, <1>a, <1>t DEF ActiveSound, Put, In, run
    <3>4. Vouches(app.marker)' BY <2>e, <2>4, <1>a, <1>t DEF Put, In, run
    <3>5. app.exists => Choosing' BY <2>e, <2>4, <1>a, <1>v DEF Put, In, run
    <3>6. app.exists => Chosen' BY <2>e, <2>4, <1>a, <1>v DEF Put, In, run
    <3>7. app.exists => Transferring' BY <2>e, <2>4, <1>a, <1>v DEF Put, In, run
    <3>8. app.exists => StillActive' BY <2>e, <2>4, <1>a, <1>v DEF Put, In, run
    <3>9. app'.exists => app.exists BY <2>e, <2>4, <1>a DEF Put, In, run
    <3> QED BY <1>t, <3>1, <3>2, <3>3, <3>4, <3>5, <3>6, <3>7, <3>8, <3>9 DEF TruthInv, RunSound
  <2> QED BY <2>1, <2>2, <2>3, <2>4, <1>19, <1>t, GraphEffect
<1>20. ASSUME app.exists, NewVersion PROVE TruthInv'
  <2>0. /\ Added(NoFile) /\ ver' = Len(versions) + 1 /\ pc' = "check" /\ resuming' = FALSE
        /\ UNCHANGED <<app, pinned, want, goal, cur, activated, edited, faults, env>>
    BY <1>20, <1>t, AddedEffect, Frame
  <2>e. /\ app.exists /\ Added(NoFile) /\ ver' = Len(versions) + 1 /\ pc' = "check" /\ resuming' = FALSE
        /\ UNCHANGED <<app, pinned, want, goal, cur, activated, edited, faults, env>>
        /\ \/ pc = "again"
           \/ pc = "choose" /\ (cur.committed = NoVersion => cur.marker.payload = goal /\ Len(versions) = 0)
    BY <1>20, <1>a, <2>0 DEF NewVersion, Goto, First, Listed, Pending, RunSound, Choosing
  <2>1. Absent' BY <2>e, <1>a, <1>t DEF Absent, Added, NoFile, TypeOK
  <2>2. FilesSound' BY <2>e, <1>a, <1>t DEF FilesSound, Added, NoFile, TypeOK
  <2>3. ActiveSound' BY <2>e, <1>a, <1>t DEF ActiveSound, Added, NoFile, TypeOK
  <2>4. Vouches(app.marker)' BY <2>e, <1>a, <1>t DEF Added, NoFile, TypeOK
  <2>5. app.exists => Choosing' BY <2>e, <1>a, <1>v DEF Added, NoFile, TypeOK
  <2>6. app.exists => Chosen' BY <2>e, <1>a, <1>v DEF Added, NoFile, TypeOK
  <2>7. app.exists => Transferring' BY <2>e, <1>a, <1>v DEF Added, NoFile, TypeOK
  <2>8. app.exists => StillActive' BY <2>e, <1>a, <1>v DEF Added, NoFile, TypeOK
  <2>9. app'.exists => app.exists BY <2>e, <1>a DEF Added, NoFile, TypeOK
  <2> QED BY <1>t, <2>1, <2>2, <2>3, <2>4, <2>5, <2>6, <2>7, <2>8, <2>9 DEF TruthInv, RunSound
<1>21. ASSUME AdminPublishes PROVE TruthInv'
  <2>e. /\ app.exists
        /\ Added(Foreigner)
        /\ AppIs(app.marker, Len(versions) + 1, "processing")
        /\ UNCHANGED <<pinned, want, run, edited, faults>>
    BY <1>21, <1>a, <1>t, AddedEffect, AppEffect, Frame DEF Absent
  <2>1. Absent' BY <2>e, <1>a, <1>t DEF Absent, Added, AppIs, Foreigner, run
  <2>2. FilesSound' BY <2>e, <1>a, <1>t DEF FilesSound, Added, AppIs, Foreigner, run
  <2>3. ActiveSound' BY <2>e, <1>a, <1>t DEF ActiveSound, Added, AppIs, Foreigner, run
  <2>4. Vouches(app.marker)' BY <2>e, <1>a, <1>t DEF Added, AppIs, Foreigner, run
  <2>5. app.exists => Choosing' BY <2>e, <1>a, <1>v DEF Added, AppIs, Foreigner, run
  <2>6. app.exists => Chosen' BY <2>e, <1>a, <1>v DEF Added, AppIs, Foreigner, run
  <2>7. app.exists => Transferring' BY <2>e, <1>a, <1>v DEF Added, AppIs, Foreigner, run
  <2>8. app.exists => StillActive' BY <2>e, <1>a, <1>v DEF Added, AppIs, Foreigner, run
  <2>9. app'.exists => app.exists BY <2>e, <1>a DEF Added, AppIs, Foreigner, run
  <2> QED BY <1>t, <2>1, <2>2, <2>3, <2>4, <2>5, <2>6, <2>7, <2>8, <2>9 DEF TruthInv, RunSound
<1>22. ASSUME app.exists, Record PROVE TruthInv'
  <2>e. /\ app.exists
        /\ AppIs([id |-> TRUE, payload |-> goal, content |-> ver], app.committed, app.state)
        /\ pc = "record"
        /\ pc' = "file"
        /\ cur' = app
        /\ UNCHANGED <<versions, pinned, want, goal, ver, resuming, activated, edited, faults, env>>
    BY <1>22, <1>a, <1>t, AppEffect, Frame DEF Absent
  <2>1. Absent' BY <2>e, <1>a, <1>t DEF Absent, AppIs, TypeOK
  <2>2. FilesSound' BY <2>e, <1>a, <1>t DEF FilesSound, AppIs, TypeOK
  <2>3. ActiveSound' BY <2>e, <1>a, <1>t DEF ActiveSound, AppIs, TypeOK
  <2>4. Vouches(app.marker)' BY <2>e, <1>a, <1>t DEF AppIs, TypeOK
  <2>5. app.exists => Choosing' BY <2>e, <1>a, <1>v DEF AppIs, TypeOK
  <2>6. app.exists => Chosen' BY <2>e, <1>a, <1>v DEF AppIs, TypeOK
  <2>7. app.exists => Transferring' BY <2>e, <1>a, <1>v DEF AppIs, TypeOK
  <2>8. app.exists => StillActive' BY <2>e, <1>a, <1>v DEF AppIs, TypeOK
  <2>9. app'.exists => app.exists BY <2>e, <1>a DEF AppIs, TypeOK
  <2> QED BY <1>t, <2>1, <2>2, <2>3, <2>4, <2>5, <2>6, <2>7, <2>8, <2>9 DEF TruthInv, RunSound
<1>23. ASSUME app.exists, ApplyMetadata PROVE TruthInv'
  <2>e. /\ app.exists
        /\ AppIs([id |-> TRUE, payload |-> goal, content |-> ver], app.committed, app.state)
        /\ pc = "metadata"
        /\ pc' = "idle"
        /\ UNCHANGED <<versions, pinned, want, goal, cur, ver, resuming, activated, edited, faults, env>>
    BY <1>23, <1>a, <1>t, AppEffect, Frame DEF Absent
  <2>1. Absent' BY <2>e, <1>a, <1>t DEF Absent, AppIs, TypeOK
  <2>2. FilesSound' BY <2>e, <1>a, <1>t DEF FilesSound, AppIs, TypeOK
  <2>3. ActiveSound' BY <2>e, <1>a, <1>t DEF ActiveSound, AppIs, TypeOK
  <2>4. Vouches(app.marker)' BY <2>e, <1>a, <1>t DEF AppIs, TypeOK
  <2>5. app.exists => Choosing' BY <2>e, <1>a, <1>v DEF AppIs, TypeOK
  <2>6. app.exists => Chosen' BY <2>e, <1>a, <1>v DEF AppIs, TypeOK
  <2>7. app.exists => Transferring' BY <2>e, <1>a, <1>v DEF AppIs, TypeOK
  <2>8. app.exists => StillActive' BY <2>e, <1>a, <1>v DEF AppIs, TypeOK
  <2>9. app'.exists => app.exists BY <2>e, <1>a DEF AppIs, TypeOK
  <2> QED BY <1>t, <2>1, <2>2, <2>3, <2>4, <2>5, <2>6, <2>7, <2>8, <2>9 DEF TruthInv, RunSound
<1>24. ASSUME app.exists, Activate PROVE TruthInv'
  <2>e. /\ app.exists
        /\ AppIs(app.marker, ver, "processing")
        /\ pc = "activate"
        /\ pc' = "wait"
        /\ activated' = ver
        /\ UNCHANGED <<versions, pinned, want, goal, cur, ver, resuming, edited, faults, env>>
    BY <1>24, <1>a, <1>t, AppEffect, Frame DEF Absent
  <2>1. Absent' BY <2>e, <1>a, <1>t DEF Absent, AppIs, TypeOK
  <2>2. FilesSound' BY <2>e, <1>a, <1>t DEF FilesSound, AppIs, TypeOK
  <2>3. ActiveSound' BY <2>e, <1>a, <1>t DEF ActiveSound, AppIs, TypeOK
  <2>4. Vouches(app.marker)' BY <2>e, <1>a, <1>t DEF AppIs, TypeOK
  <2>5. app.exists => Choosing' BY <2>e, <1>a, <1>v DEF AppIs, TypeOK
  <2>6. app.exists => Chosen' BY <2>e, <1>a, <1>v DEF AppIs, TypeOK
  <2>7. app.exists => Transferring' BY <2>e, <1>a, <1>v DEF AppIs, TypeOK
  <2>8. app.exists => StillActive' BY <2>e, <1>a, <1>v DEF AppIs, TypeOK
  <2>9. app'.exists => app.exists BY <2>e, <1>a DEF AppIs, TypeOK
  <2> QED BY <1>t, <2>1, <2>2, <2>3, <2>4, <2>5, <2>6, <2>7, <2>8, <2>9 DEF TruthInv, RunSound
<1>25. ASSUME GraphPublish PROVE TruthInv'
  <2>e. /\ app.exists
        /\ AppIs(app.marker, app.committed, "published")
        /\ UNCHANGED <<versions, pinned, want, run, edited, faults, env>>
    BY <1>25, <1>a, <1>t, AppEffect, Frame DEF Absent
  <2>1. Absent' BY <2>e, <1>a, <1>t DEF Absent, AppIs, run
  <2>2. FilesSound' BY <2>e, <1>a, <1>t DEF FilesSound, AppIs, run
  <2>3. ActiveSound' BY <2>e, <1>a, <1>t DEF ActiveSound, AppIs, run
  <2>4. Vouches(app.marker)' BY <2>e, <1>a, <1>t DEF AppIs, run
  <2>5. app.exists => Choosing' BY <2>e, <1>a, <1>v DEF AppIs, run
  <2>6. app.exists => Chosen' BY <2>e, <1>a, <1>v DEF AppIs, run
  <2>7. app.exists => Transferring' BY <2>e, <1>a, <1>v DEF AppIs, run
  <2>8. app.exists => StillActive' BY <2>e, <1>a, <1>v DEF AppIs, run
  <2>9. app'.exists => app.exists BY <2>e, <1>a DEF AppIs, run
  <2> QED BY <1>t, <2>1, <2>2, <2>3, <2>4, <2>5, <2>6, <2>7, <2>8, <2>9 DEF TruthInv, RunSound
<1>26. ASSUME AdminEditsNotes PROVE TruthInv'
  <2>e. /\ app.exists
        /\ edited' = TRUE
        /\ app.committed # NoVersion
        /\ \E m \in {NoMarker, [id |-> app.marker.id, payload |-> Foreign, content |-> app.marker.content]} :
              AppIs(m, app.committed, app.state)
        /\ UNCHANGED <<versions, pinned, want, run, faults>>
    BY <1>26, <1>a, <1>t, AppEffect, Frame DEF Absent
  <2>1. Absent' BY <2>e, <1>a, <1>t DEF Absent, AppIs, NoMarker, run
  <2>2. FilesSound' BY <2>e, <1>a, <1>t DEF FilesSound, AppIs, NoMarker, run
  <2>3. ActiveSound' BY <2>e, <1>a, <1>t DEF ActiveSound, AppIs, NoMarker, run
  <2>4. Vouches(app.marker)' BY <2>e, <1>a, <1>t DEF AppIs, NoMarker, run
  <2>5. app.exists => Choosing' BY <2>e, <1>a, <1>v DEF AppIs, NoMarker, run
  <2>6. app.exists => Chosen' BY <2>e, <1>a, <1>v DEF AppIs, NoMarker, run
  <2>7. app.exists => Transferring' BY <2>e, <1>a, <1>v DEF AppIs, NoMarker, run
  <2>8. app.exists => StillActive' BY <2>e, <1>a, <1>v DEF AppIs, NoMarker, run
  <2>9. app'.exists => app.exists BY <2>e, <1>a DEF AppIs, NoMarker, run
  <2> QED BY <1>t, <2>1, <2>2, <2>3, <2>4, <2>5, <2>6, <2>7, <2>8, <2>9 DEF TruthInv, RunSound
<1>27. ASSUME UNCHANGED vars PROVE TruthInv'
  BY <1>27, <1>t, <1>a DEF vars, run, TruthInv, Absent, FilesSound, ActiveSound
<1> QED
  BY <1>1, <1>2, <1>3, <1>4, <1>5, <1>6, <1>7, <1>8, <1>9, <1>10, <1>11, <1>12, <1>13, <1>14, <1>15, <1>16,
     <1>17, <1>18, <1>19, <1>20, <1>21, <1>22, <1>23, <1>24, <1>25, <1>26, <1>27 DEF Next, Run, Requests,
     Graph, Admin

\* The invariant holds when there is nothing yet, and for a pinned app of somebody else.
LEMMA InitTruth == Init => TruthInv
<1> SUFFICES ASSUME Init PROVE TruthInv OBVIOUS
<1> USE ConstantsAssumption DEF NoVersion, Foreign
<1>1. TypeOK
  <2>1. NoMarker \in Marker /\ NoApp \in App BY DEF NoMarker, Marker, NoApp, App
  <2>2. [exists |-> TRUE, marker |-> NoMarker, committed |-> 1, state |-> "published"] \in App
    BY <2>1 DEF App, Version
  <2>3. [of |-> Foreign, state |-> "committed", blob |-> Foreign] \in File BY DEF File, FileState
  <2>4. app \in App BY <2>1, <2>2 DEF Init
  <2>5. versions \in Seq(File) /\ Len(versions) <= MaxVersions
    <3>1. CASE versions = <<>> BY <3>1
    <3>2. CASE versions = <<[of |-> Foreign, state |-> "committed", blob |-> Foreign]>> BY <3>2, <2>3
    <3> QED BY <3>1, <3>2 DEF Init
  <2> QED BY <2>1, <2>4, <2>5 DEF Init, TypeOK, Uploading
<1>2. Absent /\ FilesSound /\ ActiveSound /\ Vouches(app.marker)
  BY DEF Init, Absent, FilesSound, ActiveSound, Vouches, NoApp, NoMarker
<1>3. RunSound BY DEF Init, RunSound, Choosing, Chosen, Transferring, StillActive
<1> QED BY <1>1, <1>2, <1>3 DEF TruthInv

\* A marker that vouches for the active version names what its file was begun for, and
\* committed bytes are those.
LEMMA TruthMeans == TruthInv => MarkerTruthful
<1> SUFFICES ASSUME TruthInv, app.exists, Active(app) # Foreign
             PROVE  versions[app.committed].blob = Active(app)
  BY DEF MarkerTruthful
<1>1. app.marker.content # NoVersion /\ app.marker.content = app.committed /\ Active(app) = app.marker.payload
  BY DEF Active
<1>2. app.committed \in DOMAIN versions /\ versions[app.committed].state = "committed"
  BY <1>1 DEF TruthInv, ActiveSound
<1>3. versions[app.committed].of = app.marker.payload
  BY <1>1, <1>2 DEF TruthInv, Vouches
<1> QED BY <1>1, <1>2, <1>3 DEF TruthInv, FilesSound

\* Every variable keeps its type, and a run's version is one of the app's.
THEOREM TypeCorrect == Spec => []TypeOK
<1>1. TruthInv => TypeOK BY DEF TruthInv
<1> QED BY <1>1, InitTruth, TruthStep, PTL DEF Spec

\* "it is the only record of the payload a content version holds" (intune.go:24): for any
\* payloads, shapes and bounds, when the marker vouches for the active version, devices are given
\* exactly the payload it names, whoever interrupted, rejected, published, edited or deleted.
THEOREM MarkerSafe == Spec => []MarkerTruthful
BY InitTruth, TruthStep, TruthMeans, PTL DEF Spec

(***************************************************************************)
(* Completed uploads are skipped.                                          *)
(***************************************************************************)
\* Where files only advance, nothing is begun.
LEMMA LinesShrink ==
    ASSUME TypeOK, DOMAIN versions' = DOMAIN versions, Len(versions') = Len(versions),
           \A u \in DOMAIN versions : versions'[u].of = versions[u].of /\ (Viable(u)' => Viable(u))
    PROVE  \A p, w : \A v \in DOMAIN versions : w <= Len(versions) /\ w \in Int /\ Line(v, w, p)' => Line(v, w, p)
<1> SUFFICES ASSUME NEW p, NEW w \in Int, NEW v \in DOMAIN versions, w <= Len(versions), Line(v, w, p)'
             PROVE  Line(v, w, p)
  OBVIOUS
<1>1. DOMAIN versions = 1..Len(versions) /\ Len(versions) \in Nat BY DEF TypeOK
<1>2. \A u \in v..w : u \in DOMAIN versions BY <1>1
<1> QED BY <1>1, <1>2 DEF Line

\* Where files only advance and the marker stays, the four parts stay.
LEMMA AdvanceKeeps ==
    ASSUME TypeOK, Separated, LastKnown, RecordedNew, TruthInv,
           DOMAIN versions' = DOMAIN versions, Len(versions') = Len(versions), app' = app,
           \A u \in DOMAIN versions : /\ versions'[u].of = versions[u].of /\ (Viable(u)' => Viable(u))
                                      /\ versions'[u].state = "none" <=> versions[u].state = "none"
    PROVE  /\ Separated' /\ LastKnown' /\ RecordedNew'
           /\ \A w \in DOMAIN versions, p \in Payload : New(w, p) => New(w, p)'
<1>1. \A p, w : \A v \in DOMAIN versions : w <= Len(versions) /\ w \in Int /\ Line(v, w, p)' => Line(v, w, p)
  BY LinesShrink
<1>2. DOMAIN versions = 1..Len(versions) /\ Len(versions) \in Nat BY DEF TypeOK
<1>3. Separated' BY <1>1, <1>2 DEF Separated
<1>4. LastKnown' BY <1>1, <1>2 DEF LastKnown
<1>5. ASSUME NEW w \in DOMAIN versions, NEW p \in Payload, New(w, p) PROVE New(w, p)'
  BY <1>1, <1>2, <1>5 DEF New
<1>6. RecordedNew'
  <2>1. app.marker.content # NoVersion => app.marker.content \in DOMAIN versions BY DEF TruthInv, Vouches
  <2>2. app.marker.payload # Foreign => app.marker.payload \in Payload BY DEF TypeOK, App, Marker
  <2> QED BY <1>5, <2>1, <2>2 DEF RecordedNew
<1> QED BY <1>3, <1>4, <1>5, <1>6

\* Only an administrator's edit of the marker is remembered, and for good.
LEMMA EditedStays == TruthInv /\ [Next]_vars /\ ~edited' => ~edited
<1>1. AdminEditsNotes => edited' BY DEF AdminEditsNotes
<1>2. Run \/ Interrupt \/ NewRelease \/ AdminPublishes \/ AdminDeletes => edited' = edited
  BY DEF Run, Requests, Observe, Create, NotFound, ChooseKnown, NewVersion, Refuse, CheckFiles, Record,
     CreateFile,
         ResumeFile, WaitAddress, RenewAddress, UploadBlob, CommitFile, WaitCommit, Rejected, Activate,
         WaitPublished, ApplyMetadata, Interrupt, NewRelease, AdminPublishes, AdminDeletes, tenant
<1>3. Graph \/ (\E v \in DOMAIN versions : GraphRejects(v)) => edited' = edited
  BY DEF Graph, GraphPublish, GraphFile, GraphRejects
<1> QED BY <1>1, <1>2, <1>3 DEF Next, Admin, vars

\* The parts that speak of the app and its versions alone.
Kept == Separated /\ LastKnown /\ RecordedNew

\* Where app and versions stay, only the choice of a version is new.
LEMMA StillKeeps ==
    ASSUME TypeOK, Kept, app' = app, versions' = versions
    PROVE  Kept' /\ \A w, p : New(w, p) => New(w, p)'
BY DEF Kept, Separated, LastKnown, RecordedNew, New, Line, Viable

\* A version is added behind all others and holds no payload.
LEMMA AddedKeeps ==
    ASSUME TruthInv, Kept, NEW f, Added(f), f.of = Foreign, app'.marker = app.marker
    PROVE  Kept' /\ \A w \in DOMAIN versions, p \in Payload : New(w, p) => New(w, p)'
<1> USE ConstantsAssumption DEF NoVersion, Foreign
<1>t. TypeOK /\ Vouches(app.marker) BY DEF TruthInv
<1>1. DOMAIN versions = 1..Len(versions) /\ Len(versions) \in Nat BY <1>t DEF TypeOK
<1>2. DOMAIN versions' = 1..(Len(versions) + 1) /\ Len(versions') = Len(versions) + 1
      /\ (\A u \in DOMAIN versions : versions'[u] = versions[u]) /\ versions'[Len(versions) + 1].of = Foreign
  BY <1>1 DEF Added
<1>3. ASSUME NEW v \in DOMAIN versions, NEW w \in DOMAIN versions, NEW p
      PROVE  (Viable(w)' <=> Viable(w)) /\ (Line(v, w, p)' <=> Line(v, w, p))
  BY <1>1, <1>2 DEF Line, Viable
<1>4. ASSUME NEW p \in Payload, NEW v \in DOMAIN versions', NEW w \in Nat, w = Len(versions) + 1
      PROVE  ~Line(v, w, p)'
  BY <1>1, <1>2, <1>4 DEF Line
<1>5. Separated'
  <2> SUFFICES ASSUME NEW p \in Payload, NEW v \in DOMAIN versions', NEW w \in DOMAIN versions',
                      v < w, Viable(w)'
               PROVE  ~Line(v, w, p)'
    BY DEF Separated
  <2>1. CASE w = Len(versions) + 1 BY <1>1, <1>4, <2>1
  <2>2. CASE w # Len(versions) + 1
    <3>1. v \in DOMAIN versions /\ w \in DOMAIN versions BY <1>1, <1>2, <2>2
    <3> QED BY <3>1, <1>3 DEF Kept, Separated
  <2> QED BY <2>1, <2>2
<1>6. LastKnown' BY <1>1, <1>2, <1>4 DEF LastKnown
<1>7. ASSUME NEW w \in DOMAIN versions, NEW p \in Payload, New(w, p) PROVE New(w, p)'
  <2> SUFFICES ASSUME NEW v \in DOMAIN versions'
               PROVE  (v < w => ~Line(v, w - 1, p)') /\ (v > w => versions'[v].of = Foreign)
    BY DEF New
  <2>1. CASE v = Len(versions) + 1 BY <1>1, <1>2, <2>1
  <2>2. CASE v \in DOMAIN versions
    <3>1. v < w => w - 1 \in DOMAIN versions BY <1>1, <2>2
    <3> QED BY <3>1, <2>2, <1>2, <1>3, <1>7 DEF New
  <2> QED BY <2>1, <2>2, <1>1, <1>2
<1>8. RecordedNew'
  <2>1. app.marker.content # NoVersion => app.marker.content \in DOMAIN versions BY <1>t DEF Vouches
  <2>2. app.marker.payload # Foreign => app.marker.payload \in Payload BY <1>t DEF TypeOK, App, Marker
  <2> QED BY <1>2, <1>7, <2>1, <2>2 DEF RecordedNew, Kept
<1> QED BY <1>5, <1>6, <1>7, <1>8 DEF Kept

\* The file a run begins is the first for its payload since another's, and the marker leads to it.
LEMMA CreateKeeps ==
    ASSUME TruthInv, Kept, ~edited, WorkedNew, app.exists, CreateFile
    PROVE  Kept'
<1> USE ConstantsAssumption DEF NoVersion, Foreign, file
<1>t. TypeOK /\ FilesSound /\ Vouches(app.marker) BY DEF TruthInv
<1>1. /\ pc = "file" /\ file.state = "none" /\ UNCHANGED <<app, ver, goal>>
      /\ Put(ver, [of |-> goal, state |-> "requested", blob |-> Foreign])
  BY <1>t, FileEffect
<1>2. DOMAIN versions = 1..Len(versions) /\ Len(versions) \in Nat /\ ver \in DOMAIN versions /\ goal \in Payload
  BY <1>1, <1>t DEF TypeOK, Put
<1>3. New(ver, goal) BY <1>1 DEF WorkedNew
<1>4. Recorded(app.marker) \/ FirstMark(app.marker)
  BY <1>1 DEF TruthInv, RunSound, Transferring, Overwritten
<1>5. DOMAIN versions' = DOMAIN versions /\ Len(versions') = Len(versions) /\ versions'[ver].of = goal
      /\ \A u \in DOMAIN versions : u # ver => versions'[u] = versions[u]
  BY <1>1 DEF Put
<1>6. ASSUME NEW v \in DOMAIN versions, NEW w \in DOMAIN versions, NEW p \in Payload, v < ver, ver <= w
      PROVE  ~Line(v, w, p)'
  <2> SUFFICES ASSUME Line(v, w, p)' PROVE FALSE OBVIOUS
  <2>1. p = goal BY <1>2, <1>5, <1>6 DEF Line
  <2>2. Line(v, ver - 1, goal) BY <1>2, <1>5, <1>6, <2>1 DEF Line, Viable
  <2> QED BY <1>3, <1>6, <2>2 DEF New
<1>7. ASSUME NEW w \in DOMAIN versions, NEW p \in Payload, ver < w PROVE ~Line(ver, w, p)'
  <2> SUFFICES ASSUME Line(ver, w, p)' PROVE FALSE OBVIOUS
  <2>1. versions'[ver].of = p /\ versions'[w].of = p BY <1>1, <1>2, <1>7 DEF Line
  <2>2. versions[w].of = Foreign BY <1>3, <1>7 DEF New
  <2> QED BY <2>1, <2>2, <1>2, <1>5, <1>7
<1>8. ASSUME NEW v \in DOMAIN versions, NEW w \in DOMAIN versions, NEW p, v <= w, w < ver \/ ver < v
      PROVE  Line(v, w, p)' => Line(v, w, p)
  <2>1. \A u \in v..w : u # ver => u \in DOMAIN versions /\ versions'[u] = versions[u] BY <1>2, <1>5
  <2>2. v # ver /\ ver \notin v..w BY <1>2, <1>8
  <2> QED BY <2>1, <2>2, <1>5 DEF Line, Viable
<1>9. \A u \in DOMAIN versions : u # ver => (Viable(u)' <=> Viable(u)) BY <1>5 DEF Viable
<1>10. Separated'
  <2> SUFFICES ASSUME NEW p \in Payload, NEW v \in DOMAIN versions, NEW w \in DOMAIN versions,
                      v < w, Viable(w)'
               PROVE  ~Line(v, w, p)'
    BY <1>5 DEF Separated
  <2>1. CASE w < ver \/ ver < v BY <1>2, <1>8, <1>9, <2>1 DEF Kept, Separated
  <2>2. CASE v < ver /\ ver <= w BY <1>6, <2>2
  <2>3. CASE v = ver BY <1>1, <1>7, <2>3
  <2> QED BY <1>2, <2>1, <2>2, <2>3
<1>11. LastKnown'
  <2> SUFFICES ASSUME NEW p \in Payload, NEW v \in DOMAIN versions, Line(v, Len(versions), p)'
               PROVE  app.marker.payload = p /\ (app.marker.content = v \/ (app.marker.content = NoVersion /\ v = 1))
    BY <1>1, <1>5 DEF LastKnown
  <2>1. Len(versions) \in DOMAIN versions /\ ver <= Len(versions) /\ Len(versions)' = Len(versions)
    BY <1>2, <1>5
  <2>2. CASE v = ver
    <3>1. p = goal BY <1>5, <2>1, <2>2, <1>2 DEF Line
    <3> QED BY <3>1, <2>2, <1>4 DEF Recorded, FirstMark
  <2>3. CASE v < ver BY <1>6, <2>1, <2>3
  <2>4. CASE ver < v BY <1>2, <1>8, <2>1, <2>4 DEF Kept, LastKnown
  <2> QED BY <1>2, <2>2, <2>3, <2>4
<1>12. RecordedNew'
  BY <1>1, <1>2, <1>4 DEF RecordedNew, Recorded, FirstMark, Put
<1> QED BY <1>10, <1>11, <1>12 DEF Kept

\* A marker is written for the last file there is, or the one to come.
LEMMA RecordKeeps ==
    ASSUME TruthInv, Kept, ~edited, WorkedNew, app.exists, Record \/ ApplyMetadata
    PROVE  Kept'
<1> USE ConstantsAssumption DEF NoVersion, Foreign, file
<1>t. TypeOK /\ FilesSound BY DEF TruthInv
<1>1. /\ UNCHANGED <<versions, goal, ver>>
      /\ app'.marker = [id |-> TRUE, payload |-> goal, content |-> ver]
  <2>1. AppIs([id |-> TRUE, payload |-> goal, content |-> ver], app.committed, app.state) BY <1>t, AppEffect
  <2>2. UNCHANGED <<versions, goal, ver>> BY Frame
  <2> QED BY <2>1, <2>2 DEF AppIs
<1>2. DOMAIN versions = 1..Len(versions) /\ Len(versions) \in Nat /\ ver \in DOMAIN versions /\ goal \in Payload
  <2>1. CASE Record BY <2>1, <1>t, Frame DEF TypeOK, Uploading
  <2>2. CASE ApplyMetadata BY <2>2, <1>t, Frame DEF TypeOK, TruthInv, RunSound, Transferring
  <2> QED BY <2>1, <2>2
<1>3. Separated'
  <2>1. versions' = versions BY <1>1
  <2> QED BY <2>1 DEF Kept, Separated, Line, Viable
<1>4. LastKnown'
  <2> SUFFICES ASSUME NEW p \in Payload, NEW v \in DOMAIN versions, Line(v, Len(versions), p)
               PROVE  p = goal /\ v = ver
    BY <1>1 DEF LastKnown, Line, Viable
  <2>1. app.marker.payload = p /\ (app.marker.content = v \/ (app.marker.content = NoVersion /\ v = 1))
    BY DEF Kept, LastKnown
  <2>2. CASE Record
    <3>1. pc = "record" BY <2>2, Frame
    <3>2. /\ ~resuming /\ app.marker = cur.marker
          /\ file.state # "none" => FirstMark(app.marker)
          /\ file.state = "none" \/ file.of = goal
          /\ \A u \in DOMAIN versions : u > ver => versions[u].of = Foreign
      BY <3>1, <1>t DEF TruthInv, RunSound, Chosen, AsRead, Overwritten
    <3>3. v <= ver BY <3>2, <1>2 DEF Line
    <3>4. file.of = p BY <3>3, <1>2 DEF Line
    <3>5. file.state # "none" BY <3>4, <1>2, <1>t DEF FilesSound
    <3> QED BY <3>2, <3>3, <3>4, <3>5, <1>2 DEF FirstMark
  <2>3. CASE ApplyMetadata
    <3>1. pc = "metadata" BY <2>3, Frame
    <3>2. Recorded(app.marker) \/ FirstMark(app.marker)
      BY <3>1 DEF TruthInv, RunSound, Transferring, Overwritten
    <3> QED BY <2>1, <3>2, <1>2 DEF Recorded, FirstMark
  <2> QED BY <2>2, <2>3
<1>5. RecordedNew'
  <2> SUFFICES ASSUME file.state = "none" PROVE New(ver, goal)'
    BY <1>1 DEF RecordedNew
  <2>1. ~ApplyMetadata BY Frame DEF TruthInv, RunSound, Transferring
  <2>2. New(ver, goal) BY <2>1, Frame DEF WorkedNew
  <2> QED BY <1>1, <2>2 DEF New, Line, Viable
<1> QED BY <1>3, <1>4, <1>5 DEF Kept

\* A version that the run turns to has nothing for its payload before it.
LEMMA ChoiceIsNew ==
    ASSUME TruthInv, Kept, ~edited, app.exists, pc = "choose"
    PROVE  /\ Pending # NoVersion /\ versions[Pending].state = "none" => New(Pending, goal)
           /\ Listed /\ Len(versions) = 1 => New(1, goal)
           /\ Pending = NoVersion /\ (Listed => Len(versions) = 0) =>
                \A v \in DOMAIN versions : ~Line(v, Len(versions), goal)
<1> USE ConstantsAssumption DEF NoVersion, Foreign
<1>1. app.marker = cur.marker BY DEF TruthInv, RunSound, Choosing, AsRead, Overwritten
<1>2. goal \in Payload /\ goal # Foreign /\ DOMAIN versions = 1..Len(versions) /\ Len(versions) \in Nat
  BY DEF TruthInv, TypeOK
<1>3. Pending # NoVersion => Pending = app.marker.content /\ app.marker.payload = goal BY <1>1 DEF Pending
<1>4. Pending # NoVersion /\ versions[Pending].state = "none" => New(Pending, goal)
  BY <1>2, <1>3 DEF Kept, RecordedNew
<1>5. Len(versions) = 1 => New(1, goal) BY <1>2 DEF New
<1>6. ASSUME Pending = NoVersion, Listed => Len(versions) = 0, NEW v \in DOMAIN versions
      PROVE  ~Line(v, Len(versions), goal)
  <2> SUFFICES ASSUME Line(v, Len(versions), goal) PROVE FALSE OBVIOUS
  <2>1. app.marker.payload = goal /\ (app.marker.content = v \/ app.marker.content = NoVersion)
    BY <1>2 DEF Kept, LastKnown
  <2>2. app.marker.content = NoVersion BY <1>1, <1>2, <1>6, <2>1 DEF Pending
  <2> QED BY <1>1, <1>2, <1>6, <2>1, <2>2 DEF Listed
<1> QED BY <1>4, <1>5, <1>6

\* Every step keeps the four parts while nobody edits the marker.
LEMMA SkipStep == TruthInv /\ SkipInv /\ [Next]_vars => SkipInv'
<1> SUFFICES ASSUME TruthInv, SkipInv, [Next]_vars, ~edited' PROVE Kept' /\ WorkedNew'
  BY DEF SkipInv, Kept
<1> USE ConstantsAssumption DEF NoVersion, Foreign, file
<1>e. ~edited /\ Kept /\ WorkedNew BY EditedStays DEF SkipInv, Kept
<1>t. TypeOK BY DEF TruthInv
<1>v. /\ app.exists /\ pc \in Uploading => ver \in DOMAIN versions
      /\ DOMAIN versions = 1..Len(versions) /\ Len(versions) \in Nat
      /\ goal \in Payload
  BY <1>t DEF TypeOK
<1>1. ASSUME UNCHANGED <<app, versions, goal, ver>>, pc' \notin {"check", "record", "file"} \/ pc' = pc
             \/ pc \in {"check", "record", "file"}
      PROVE  Kept' /\ WorkedNew'
  <2>1. Kept' /\ \A w, p : New(w, p) => New(w, p)' BY <1>1, <1>e, <1>t, StillKeeps
  <2>2. WorkedNew' BY <2>1, <1>1, <1>e DEF WorkedNew
  <2> QED BY <2>1, <2>2
<1>2. ASSUME UNCHANGED <<app, versions>>, pc' \notin {"check", "record", "file"}
      PROVE  Kept' /\ WorkedNew'
  <2>1. Kept' BY <1>2, <1>e, <1>t, StillKeeps
  <2> QED BY <2>1, <1>2 DEF WorkedNew
<1>3. CASE Observe \/ NotFound
  BY <1>2, <1>3 DEF Observe, NotFound, tenant
<1>4. CASE \/ Refuse \/ CheckFiles \/ ResumeFile \/ WaitAddress \/ WaitCommit
           \/ Rejected \/ WaitPublished \/ Interrupt \/ NewRelease
  BY <1>1, <1>4 DEF Refuse, CheckFiles, ResumeFile, WaitAddress, WaitCommit, Rejected, WaitPublished,
     Interrupt, NewRelease, Goto, tenant, run
<1>5. CASE app.exists /\ ChooseKnown
  <2>1. UNCHANGED <<app, versions, goal>> /\ pc = "choose" BY <1>5 DEF ChooseKnown, Goto, tenant
  <2>2. Kept' /\ \A w, p : New(w, p) => New(w, p)' BY <2>1, <1>e, <1>t, StillKeeps
  <2>3. (Pending # NoVersion /\ ver' = Pending) \/ (Listed /\ Len(versions) = 1 /\ ver' = 1)
    BY <1>5 DEF ChooseKnown
  <2>4. versions[ver'].state = "none" => New(ver', goal) BY <2>1, <2>3, <1>5, <1>e, ChoiceIsNew
  <2>5. ASSUME NEW w, w = ver', versions[w].state = "none" PROVE New(ver, goal)'
    BY <2>1, <2>2, <2>4, <2>5 DEF New, Line, Viable
  <2> QED BY <2>1, <2>2, <2>5 DEF WorkedNew
<1>6. CASE app.exists /\ NewVersion
  <2>1. /\ Added(NoFile) /\ ver' = Len(versions) + 1 /\ pc \in {"choose", "again"}
        /\ UNCHANGED <<app, goal>>
    BY <1>6, <1>t, AddedEffect, Frame
  <2>2. Kept' BY <2>1, <1>e, AddedKeeps DEF NoFile
  <2>3. \A v \in DOMAIN versions : ~Line(v, Len(versions), goal)
    <3>1. CASE pc = "choose"
      <4>1. Pending = NoVersion /\ (Listed => Len(versions) = 0) BY <3>1, <1>6 DEF NewVersion, Goto
      <4> QED BY <3>1, <4>1, <1>6, <1>e, ChoiceIsNew
    <3>2. CASE pc = "again"
      <4>1. app.marker.content = ver /\ file.state = "failed" /\ ver # 0
        BY <3>2, <1>6, <1>e, <1>v DEF TruthInv, RunSound, Transferring, Overwritten, Recorded
      <4> QED BY <4>1, <1>e, <1>v DEF Kept, LastKnown, Line, Viable
    <3> QED BY <2>1, <3>1, <3>2
  <2>4. New(ver, goal)'
    <3> SUFFICES ASSUME NEW v \in DOMAIN versions'
                 PROVE  (v < ver' => ~Line(v, ver - 1, goal)') /\ (v > ver' => versions'[v].of = Foreign)
      BY DEF New
    <3>1. v <= ver' /\ (v < ver' => v \in DOMAIN versions) BY <2>1, <1>v DEF Added
    <3>2. ASSUME v < ver' PROVE ~Line(v, ver - 1, goal)'
      <4>1. ver' - 1 = Len(versions) BY <2>1, <1>v
      <4>2. Line(v, ver - 1, goal)' => Line(v, Len(versions), goal)
        BY <3>1, <3>2, <4>1, <2>1, <1>v DEF Line, Viable, Added
      <4> QED BY <4>2, <2>3, <3>1, <3>2
    <3> QED BY <3>1, <3>2, <2>1, <1>v
  <2> QED BY <2>2, <2>4 DEF WorkedNew
<1>7. CASE AdminPublishes
  <2>1. Added(Foreigner) /\ AppIs(app.marker, Len(versions) + 1, "processing") /\ UNCHANGED run /\ app.exists
    BY <1>7, <1>t, AddedEffect, AppEffect, Frame
  <2>2. app'.marker = app.marker /\ UNCHANGED <<pc, goal, ver>> BY <2>1 DEF AppIs, run
  <2>3. Kept' /\ \A w \in DOMAIN versions, p \in Payload : New(w, p) => New(w, p)'
    BY <2>1, <2>2, <1>e, AddedKeeps DEF Foreigner
  <2>4. WorkedNew' BY <2>1, <2>2, <2>3, <1>e, <1>v DEF WorkedNew, Added, Uploading
  <2> QED BY <2>3, <2>4
<1>8. CASE app.exists /\ CreateFile
  <2>1. Kept' BY <1>8, <1>e, CreateKeeps
  <2> QED BY <2>1, <1>8 DEF WorkedNew, CreateFile, Goto
<1>9. CASE app.exists /\ (Record \/ ApplyMetadata)
  <2>1. Kept' BY <1>9, <1>e, RecordKeeps
  <2>2. WorkedNew' BY <1>9, <1>e, Frame DEF WorkedNew, New, Line, Viable
  <2> QED BY <2>1, <2>2
<1>10. CASE (app.exists /\ Activate) \/ GraphPublish
  <2>1. UNCHANGED <<versions, goal, ver>> /\ app'.marker = app.marker /\ app'.exists = app.exists
    BY <1>10, <1>t, AppEffect, Frame DEF AppIs, run
  <2>2. Kept' BY <2>1, <1>e DEF Kept, Separated, LastKnown, RecordedNew, New, Line, Viable
  <2>3. WorkedNew' BY <2>1, <1>10, <1>e, Frame DEF WorkedNew, New, Line, Viable, run
  <2> QED BY <2>2, <2>3
<1>11. CASE Create \/ AdminDeletes
  <2>1. DOMAIN versions' = {} /\ app'.marker.content = NoVersion
    BY <1>11 DEF Create, AdminDeletes, NoApp, NoMarker
  <2>2. Kept' BY <2>1 DEF Kept, Separated, LastKnown, RecordedNew
  <2>3. WorkedNew' BY <1>11 DEF WorkedNew, Create, AdminDeletes, NoApp, Goto
  <2> QED BY <2>2, <2>3
<1>12. ASSUME NEW u \in DOMAIN versions, NEW f, Put(u, f), app' = app, f.of = versions[u].of,
              f.state = "none" <=> versions[u].state = "none",
              f.state \notin {"none", "failed"} => Viable(u)
       PROVE  Kept' /\ \A w \in DOMAIN versions, p \in Payload : New(w, p) => New(w, p)'
  <2>1. /\ DOMAIN versions' = DOMAIN versions /\ Len(versions') = Len(versions)
        /\ \A x \in DOMAIN versions : /\ versions'[x].of = versions[x].of /\ (Viable(x)' => Viable(x))
                                      /\ versions'[x].state = "none" <=> versions[x].state = "none"
    BY <1>12 DEF Put, Viable
  <2> QED BY <2>1, <1>12, <1>e, <1>t, AdvanceKeeps DEF Kept
<1>13. CASE app.exists /\ (RenewAddress \/ UploadBlob \/ CommitFile)
  <2>1. CASE UploadBlob /\ pc' = "idle" BY <2>1, <1>2, <1>13, <1>t, FileEffect
  <2>2. CASE UploadBlob /\ pc' # "idle"
    <3>1. /\ file.state = "ready" /\ pc' = "commit" /\ pc \in Uploading /\ app' = app
          /\ Put(ver, [of |-> file.of, state |-> "ready", blob |-> goal])
      BY <2>2, <1>13, <1>t, FileEffect DEF Uploading
    <3>2. Kept' BY <3>1, <1>12, <1>13, <1>v DEF Viable
    <3> QED BY <3>1, <3>2 DEF WorkedNew
  <2>3. CASE RenewAddress
    <3>1. /\ file.state = "expiring" /\ pc = "uri" /\ pc' = pc /\ app' = app
          /\ Put(ver, In(file, "requested"))
      BY <2>3, <1>13, <1>t, FileEffect DEF run
    <3>2. Kept' BY <3>1, <1>12, <1>13, <1>v DEF Viable, In, Uploading
    <3> QED BY <3>1, <3>2 DEF WorkedNew
  <2>4. CASE CommitFile
    <3>1. pc = "commit" /\ pc' = "commitWait" /\ app' = app /\ Put(ver, In(file, "committing"))
      BY <2>4, <1>13, <1>t, FileEffect
    <3>2. file.state \in {"ready", "expiring"} BY <3>1, <1>13 DEF TruthInv, RunSound, Transferring
    <3>3. Kept' BY <3>1, <3>2, <1>12, <1>13, <1>v DEF Viable, In, Uploading
    <3> QED BY <3>1, <3>3 DEF WorkedNew
  <2> QED BY <1>13, <2>1, <2>2, <2>3, <2>4
<1>14. ASSUME NEW u \in DOMAIN versions, GraphFile(u) \/ GraphRejects(u) PROVE Kept' /\ WorkedNew'
  <2>1. UNCHANGED <<app, pc, goal, ver>> BY <1>14, <1>t, GraphEffect DEF run
  <2>2. PICK s \in FileState : /\ Put(u, In(versions[u], s)) /\ s # "none" /\ versions[u].state # "none"
                               /\ s # "failed" => versions[u].state # "failed"
    BY <1>14, <1>t, GraphEffect DEF FileState
  <2>3. Kept' /\ \A w \in DOMAIN versions, p \in Payload : New(w, p) => New(w, p)'
    BY <2>1, <2>2, <1>12 DEF In, Viable
  <2>4. WorkedNew' BY <2>1, <2>2, <2>3, <1>e, <1>v DEF WorkedNew, Put, In, Uploading
  <2> QED BY <2>3, <2>4
<1>15. CASE UNCHANGED vars BY <1>1, <1>15 DEF vars, run
<1>16. CASE AdminEditsNotes BY <1>16 DEF AdminEditsNotes
<1> QED BY <1>3, <1>4, <1>5, <1>6, <1>7, <1>8, <1>9, <1>10, <1>11, <1>13, <1>14, <1>15, <1>16
        DEF Next, Run, Requests, Graph, Admin

\* Committed files hold what they were begun for, and those are separated.
LEMMA SkipMeans == TruthInv /\ SkipInv => SkipsCompleted
<1> SUFFICES ASSUME TruthInv, SkipInv, ~edited, NEW v \in DOMAIN versions, NEW w \in DOMAIN versions,
                    v < w, versions[v].state = "committed", versions[w].state = "committed",
                    versions[v].blob \in Payload, versions[v].blob = versions[w].blob,
                    \A u \in v..w : versions[u].of = versions[v].blob
             PROVE  FALSE
  BY DEF SkipsCompleted
<1>1. versions[v].of = versions[v].blob BY DEF TruthInv, FilesSound
<1>2. Line(v, w, versions[v].blob) /\ Viable(w) BY <1>1 DEF Line, Viable
<1> QED BY <1>2 DEF SkipInv, Separated

\* "Re-running ... must find existing objects and skip completed uploads"
\* (docs/content/writing-plugins.md:351): no payload is uploaded to completion a second time unless
\* another's version came in between or somebody changed the marker, whatever runs are interrupted
\* or rejected, for any payloads and any number of versions.
THEOREM SkipsSafe == Spec => []SkipsCompleted
<1>1. Init => SkipInv
  <2> SUFFICES ASSUME Init PROVE SkipInv OBVIOUS
  <2> USE ConstantsAssumption DEF NoVersion, Foreign
  <2>1. app.marker.content = NoVersion /\ pc = "idle" BY DEF Init, NoApp, NoMarker
  <2>2. \A v \in DOMAIN versions : v = 1 /\ versions[v].of = Foreign BY DEF Init
  <2> QED BY <2>1, <2>2 DEF SkipInv, Separated, LastKnown, RecordedNew, WorkedNew, Line
<1> QED BY <1>1, InitTruth, TruthStep, SkipStep, SkipMeans, PTL DEF Spec
=============================================================================
