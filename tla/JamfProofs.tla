----------------------------- MODULE JamfProofs -----------------------------
(***************************************************************************)
(* Proofs about Jamf, for any artifacts and file names, any retention and   *)
(* any number of records, faults and changes.  The properties are not       *)
(* inductive: what a run still does rests on what it read before, while     *)
(* Jamf and administrators go on.  Inv says what of it still holds at each   *)
(* point of a run; its parts are kept by each step, and lemmas on what the  *)
(* steps do to the records come first.                                     *)
(***************************************************************************)
EXTENDS Jamf, TLAPS, FiniteSetTheorems, WellFoundedInduction

(***************************************************************************)
(* What holds between two requests of a run.                               *)
(***************************************************************************)

\* Types beyond those of TypeOK.
Shaped ==
    /\ pkgs \in Seq(Package \cup {Gone}) /\ Len(pkgs) <= MaxId
    /\ uploads \subseteq File \X Version /\ links \subseteq Version \X Id /\ IsFiniteSet(links)
    /\ policy \in Policy \cup {None} /\ patch \in Patch \cup {None}
    /\ others \cup stages \subseteq Id /\ pin \in {NoId, 1} /\ art \in Version /\ goal \in Version
    /\ id \in Id \cup {NoId} /\ retiring \cup refs \cup planned \cup deleted \subseteq Id
    /\ read \subseteq Version \X Id /\ IsFiniteSet(read)
    /\ waiting \in BOOLEAN /\ quiet \in BOOLEAN /\ faults \in Nat /\ env \in Nat

Started == {"plan", "create", "earlier", "claim", "claimPut", "upload", "await", "meta", "metaPut",
            "policy", "policyPut", "title", "titlePut", "patch", "patchPut", "refs1",
            "refs2", "refs3", "delete", "done"}

\* From the claim on.
Working == Started \ {"plan", "create"}
Claimed == Working \ {"earlier", "claim", "claimPut"}

\* What a run read of its record: only what Jamf and administrators change is stale.
InHand ==
    /\ pc \in {"idle", "locate"} \cup Started
    /\ id # NoId => id \in DOMAIN pkgs /\ id \in Live
    /\ pc \in Working => id # NoId
    /\ pc = "create" => id = NoId
    /\ pc = "patchPut" => patch # None
    /\ pc = "earlier" => pkgs[id].file = FileOf[goal]
    /\ pc \in Started /\ id # NoId =>
          /\ cur \in Package /\ cur.file = pkgs[id].file /\ cur.mark = pkgs[id].mark
          /\ cur.bytes # NoBytes => pkgs[id].bytes # NoBytes
    /\ pc \in Claimed => cur.file = FileOf[goal] /\ cur.mark = "ours"
    /\ pc \in {"claimPut"} => cur # Wanted("claim", cur)
    /\ pin # NoId => pin \in DOMAIN pkgs /\ (pc \in Started => id = pin)

\* No other record of the software has the name that the run publishes under.
NameFree ==
    /\ OneRecordPerFile
    /\ pin # NoId => Family \subseteq {pin}
    /\ pc \in Started => \A p \in Family : pkgs[p].file = FileOf[goal] => p = id
    /\ pc \in Started /\ pin = NoId /\ id # NoId => id \in Family /\ pkgs[id].file = FileOf[goal]

\* What is retired is of the software, and not the current record.
Retiring ==
    /\ pc = "locate" => retiring = {} /\ deleted = {}
    /\ pc \in Started => id \notin retiring /\ retiring \subseteq DOMAIN pkgs
    /\ pc \in Started => \A p \in retiring : p \in Live => pkgs[p].mark = "ours"

\* A live policy installs bytes, and its packages exist or existed.
Complete ==
    /\ LivePolicyHasContent
    /\ policy # None => policy.pkgs \subseteq DOMAIN pkgs
    /\ pc \in {"policy", "policyPut"} => pkgs[id].bytes # NoBytes

\* A transfer of an unpinned run shows at its record, and none is begun before the last has ended.
Transfers ==
    pin = NoId =>
        /\ OneTransferPerFile
        /\ \A u \in uploads : \E p \in Family : pkgs[p].file = u[1] /\ pkgs[p].state = "PENDING"
        /\ pc = "plan" /\ id # NoId /\ cur.state # "PENDING" => \A u \in uploads : u[1] # FileOf[goal]
        /\ pc \in {"create", "claim", "claimPut", "upload"} => \A u \in uploads : u[1] # FileOf[goal]

\* Where two records share a name, somebody took it under a run or a transfer.
Names ==
    /\ \A p, q \in Live : pkgs[p].file = pkgs[q].file => p = q \/ pkgs[p].file \in taken
    /\ \A u \in uploads : \A p \in Holders(u[1]) : pkgs[p].mark = "ours" \/ u[1] \in taken
    /\ pc \in Started => \A p \in Holders(FileOf[goal]) : p = id \/ FileOf[goal] \in taken

\* While it prunes, what a run has not read of the references is new.
Referred ==
    /\ pc \in {"refs2", "refs3", "delete"} => ByPolicies \subseteq refs \cup late
    /\ pc \in {"refs3", "delete"} => stages \subseteq refs \cup late
    /\ pc = "delete" => ByTitles \subseteq refs \cup late

\* While nobody else changes anything, what is still to be deleted is what the plan reported.
Deploying == {"create", "earlier", "claim", "claimPut", "upload", "await", "meta", "metaPut", "policy", "policyPut",
              "title", "titlePut", "patch", "patchPut", "refs1"}
Honest ==
    /\ pc \in Deploying \cup {"plan", "refs2", "refs3"} => deleted = {}
    /\ quiet =>
        /\ pc \in Deploying => waiting = (goal \notin defined) /\ planned = retiring \ Projected(goal)
        /\ pc \in {"title", "titlePut", "patch", "patchPut", "refs1"} => policy # None /\ policy.pkgs = {id}
        /\ pc = "titlePut" => ~waiting /\ read = links
        /\ pc \in {"patch", "patchPut", "refs1"} => waiting \/ \A l \in links : l[1] = goal => l[2] = id
        /\ pc = "refs2" => planned = retiring \ (refs \cup stages \cup ByTitles)
        /\ pc = "refs3" => planned = retiring \ (refs \cup ByTitles)
        /\ pc = "delete" => planned = deleted \cup (retiring \ refs)
        /\ pc = "done" => deleted = planned

Inv == Shaped /\ InHand /\ NameFree /\ Retiring /\ Complete /\ Transfers /\ Names /\ Referred /\ Honest

(***************************************************************************)
(* How the records change.                                                 *)
(***************************************************************************)

\* A record that is gone is none.
LEMMA GoneIsNone == Gone \notin Package /\ None \notin Policy /\ None \notin Patch
<1>1. "mark" \notin DOMAIN Gone BY DEF Gone
<1>2. \A r \in Package : "mark" \in DOMAIN r BY DEF Package
<1>3. "pkgs" \notin DOMAIN None /\ "target" \notin DOMAIN None BY DEF None
<1>4. \A r \in Policy : "pkgs" \in DOMAIN r BY DEF Policy
<1>5. \A r \in Patch : "target" \in DOMAIN r BY DEF Patch
<1> QED BY <1>1, <1>2, <1>3, <1>4, <1>5

\* Record p becomes r; the others stay.
Put(p, r) ==
    /\ pkgs' \in Seq(Package \cup {Gone}) /\ Len(pkgs') = Len(pkgs) /\ DOMAIN pkgs' = DOMAIN pkgs
    /\ p \in DOMAIN pkgs /\ pkgs'[p] = r
    /\ \A q \in DOMAIN pkgs : q # p => pkgs'[q] = pkgs[q]

\* A record is added.
Added(r) ==
    /\ pkgs' \in Seq(Package \cup {Gone}) /\ Len(pkgs') = Len(pkgs) + 1
    /\ DOMAIN pkgs' = DOMAIN pkgs \cup {Len(pkgs) + 1} /\ Len(pkgs) + 1 \notin DOMAIN pkgs
    /\ \A q \in DOMAIN pkgs : pkgs'[q] = pkgs[q]
    /\ pkgs'[Len(pkgs) + 1] = r /\ r \in Package

\* A record replaced, point by point.
LEMMA PutRecord ==
    ASSUME Shaped, NEW p \in DOMAIN pkgs, NEW r \in Package \cup {Gone}, pkgs' = [pkgs EXCEPT ![p] = r]
    PROVE  Put(p, r)
BY DEF Shaped, Put

\* A record added, point by point.
LEMMA AddRecord ==
    ASSUME Shaped, NEW r \in Package, pkgs' = Append(pkgs, r)
    PROVE  Added(r)
BY DEF Shaped, Added

\* A record put together from its fields.
Rec(f, m, b, s, t, a) == [file |-> f, mark |-> m, bytes |-> b, state |-> s, meta |-> t, admin |-> a]

\* The fields of a record have their types.
LEMMA Fields ==
    ASSUME NEW r \in Package
    PROVE  /\ r = Rec(r.file, r.mark, r.bytes, r.state, r.meta, r.admin)
           /\ r.file \in File /\ r.mark \in {"none", "ours", "other"} /\ r.bytes \in Content
           /\ r.state \in {"NONE", "PENDING", "READY", "FAILED"} /\ r.meta \in Version \cup {0} /\ r.admin \in Nat
BY DEF Package, Rec

\* What the updates of a record leave.
LEMMA Updated ==
    ASSUME NEW r \in Package
    PROVE  /\ \A s : [r EXCEPT !.state = s] = Rec(r.file, r.mark, r.bytes, s, r.meta, r.admin)
           /\ \A b : [r EXCEPT !.bytes = b, !.state = "READY"] = Rec(r.file, r.mark, b, "READY", r.meta, r.admin)
           /\ [r EXCEPT !.admin = @ + 1] = Rec(r.file, r.mark, r.bytes, r.state, r.meta, r.admin + 1)
<1>1. r = Rec(r.file, r.mark, r.bytes, r.state, r.meta, r.admin) BY Fields
<1>2. ASSUME NEW s PROVE [r EXCEPT !.state = s] = Rec(r.file, r.mark, r.bytes, s, r.meta, r.admin)
  BY DEF Package, Rec
<1>3. ASSUME NEW b
      PROVE  [r EXCEPT !.bytes = b, !.state = "READY"] = Rec(r.file, r.mark, b, "READY", r.meta, r.admin)
  <2>1. [r EXCEPT !.bytes = b] = Rec(r.file, r.mark, b, r.state, r.meta, r.admin) BY DEF Package, Rec
  <2>2. [Rec(r.file, r.mark, b, r.state, r.meta, r.admin) EXCEPT !.state = "READY"]
           = Rec(r.file, r.mark, b, "READY", r.meta, r.admin)
    BY DEF Rec
  <2> QED BY <2>1, <2>2
<1>4. [r EXCEPT !.admin = @ + 1] = Rec(r.file, r.mark, r.bytes, r.state, r.meta, r.admin + 1)
  BY DEF Package, Rec
<1> QED BY <1>2, <1>3, <1>4

\* A record as a merge wants it: the claim, and at the end the metadata.
LEMMA WantedIs ==
    ASSUME NEW r \in Package, NEW stage \in {"claim", "meta"}, goal \in Version
    PROVE  /\ Wanted(stage, r) \in Package /\ Wanted(stage, r).file = FileOf[goal] /\ Wanted(stage, r).mark = "ours"
           /\ Wanted(stage, r).bytes = r.bytes /\ Wanted(stage, r).state = r.state /\ Wanted(stage, r).admin = r.admin
<1> DEFINE m == IF stage = "meta" THEN goal ELSE r.meta
<1>1. [r EXCEPT !.file = FileOf[goal]] = Rec(FileOf[goal], r.mark, r.bytes, r.state, r.meta, r.admin)
  BY DEF Package, Rec
<1>2. [Rec(FileOf[goal], r.mark, r.bytes, r.state, r.meta, r.admin) EXCEPT !.mark = "ours"]
         = Rec(FileOf[goal], "ours", r.bytes, r.state, r.meta, r.admin)
  BY DEF Rec
<1>3. [Rec(FileOf[goal], "ours", r.bytes, r.state, r.meta, r.admin) EXCEPT !.meta = m]
         = Rec(FileOf[goal], "ours", r.bytes, r.state, m, r.admin)
  BY DEF Rec
<1>4. Wanted(stage, r) = Rec(FileOf[goal], "ours", r.bytes, r.state, m, r.admin)
  <2>1. Wanted(stage, r) = [[[r EXCEPT !.file = FileOf[goal]] EXCEPT !.mark = "ours"] EXCEPT !.meta = m]
    BY <1>1, <1>2, <1>3 DEF Wanted, Rec
  <2> QED BY <2>1, <1>1, <1>2, <1>3
<1>5. FileOf[goal] \in File /\ m \in Version \cup {0} BY Fields DEF File
<1>6. r.bytes \in Content /\ r.state \in {"NONE", "PENDING", "READY", "FAILED"} /\ r.admin \in Nat BY Fields
<1> HIDE DEF m
<1> QED BY <1>4, <1>5, <1>6 DEF Rec, Package

\* Names and marks stay, bytes do not vanish.
Alike(r, s) == s.file = r.file /\ s.mark = r.mark /\ (r.bytes # NoBytes => s.bytes # NoBytes)

\* No record appears, vanishes or changes its name or mark.
Steady ==
    /\ pkgs' \in Seq(Package \cup {Gone}) /\ Len(pkgs') = Len(pkgs) /\ DOMAIN pkgs' = DOMAIN pkgs
    /\ \A p \in DOMAIN pkgs : (pkgs'[p] = Gone <=> pkgs[p] = Gone) /\ (p \in Live => Alike(pkgs[p], pkgs'[p]))

\* A record is one of the software's types or gone.
LEMMA Records == ASSUME Shaped PROVE \A p \in DOMAIN pkgs : p \in Live <=> pkgs[p] \in Package
BY GoneIsNone DEF Shaped, Live

\* An upload marks the record in hand as pending, unless its content is there already.
LEMMA UploadEffect ==
    ASSUME Shaped, InHand, Upload, ConstantsAssumption
    PROVE  /\ Steady
           /\ \/ Matches(cur) /\ pc' = "meta" /\ UNCHANGED <<pkgs, uploads>>
              \/ /\ ~Matches(cur) /\ pc' = "await" /\ uploads' = uploads \cup {<<FileOf[goal], goal>>}
                 /\ Put(id, pkgs'[id]) /\ id \in Live
                 /\ pkgs'[id].state = "PENDING" /\ Alike(pkgs[id], pkgs'[id]) /\ pkgs'[id].bytes = pkgs[id].bytes
                 /\ pkgs'[id].admin = pkgs[id].admin
<1>1. id \in DOMAIN pkgs /\ pkgs[id] \in Package
  BY Records DEF Upload, InHand, Working, Started
<1>2. CASE Matches(cur)
  BY <1>2 DEF Upload, Steady, Alike, Shaped
<1>3. CASE ~Matches(cur)
  <2> DEFINE r == pkgs[id]
             s == Rec(r.file, r.mark, r.bytes, "PENDING", r.meta, r.admin)
  <2>0. /\ s \in Package /\ s.file = r.file /\ s.mark = r.mark /\ s.bytes = r.bytes
        /\ s.state = "PENDING" /\ s.admin = r.admin
    <3>1. r.file \in File /\ r.mark \in {"none", "ours", "other"} /\ r.bytes \in Content
      /\ r.state \in {"NONE", "PENDING", "READY", "FAILED"} /\ r.meta \in Version \cup {0} /\ r.admin \in Nat
      BY <1>1, Fields
    <3> QED BY <3>1 DEF Rec, Package
  <2>x. pkgs' = [pkgs EXCEPT ![id] = s] BY <1>1, <1>3, Updated DEF Upload
  <2> HIDE DEF s
  <2>1. Put(id, pkgs'[id]) /\ pkgs'[id] = s BY <1>1, <2>0, <2>x, PutRecord DEF Put
  <2>3. /\ pkgs'[id].state = "PENDING" /\ Alike(pkgs[id], pkgs'[id]) /\ pkgs'[id].bytes = pkgs[id].bytes
        /\ pkgs'[id].admin = pkgs[id].admin /\ pkgs'[id] \in Package
    BY <2>0, <2>1 DEF Alike
  <2>4. Steady BY <2>1, <2>3, <1>1, GoneIsNone DEF Steady, Put, Alike
  <2> QED BY <2>1, <2>3, <2>4, <1>1, <1>3, Records DEF Upload
<1> QED BY <1>2, <1>3

\* The end of a transfer changes the records of that file name, in bytes and state alone.
LEMMA ProcessEffect ==
    ASSUME Shaped, NEW u \in uploads, Process(u) \/ Reject(u), ConstantsAssumption
    PROVE  /\ Steady /\ uploads' = uploads \ {u}
           /\ \A p \in Live \ Holders(u[1]) : pkgs'[p] = pkgs[p]
           /\ \A p \in Live : pkgs'[p].admin = pkgs[p].admin
<1> DEFINE f[p \in DOMAIN pkgs] == [pkgs[p] EXCEPT !.bytes = u[2], !.state = "READY"]
           g[p \in DOMAIN pkgs] == [pkgs[p] EXCEPT !.state = "FAILED"]
           h == IF Process(u) THEN f ELSE g
<1>1. u[2] \in Version /\ DOMAIN pkgs = 1..Len(pkgs) /\ Len(pkgs) \in Nat BY DEF Shaped
<1>2. uploads' = uploads \ {u} /\ pkgs' = [p \in DOMAIN pkgs |-> IF p \in Holders(u[1]) THEN h[p] ELSE pkgs[p]]
  BY DEF Process, Reject
<1>3. ASSUME NEW p \in Holders(u[1])
      PROVE  h[p] \in Package /\ Alike(pkgs[p], h[p]) /\ h[p].admin = pkgs[p].admin
  <2>1. p \in DOMAIN pkgs /\ pkgs[p] \in Package BY Records DEF Holders, Live
  <2>2. u[2] # NoBytes BY <1>1 DEF ConstantsAssumption, NoBytes
  <2> DEFINE r == pkgs[p]
  <2>3. f[p] \in Package /\ Alike(r, f[p]) /\ f[p].admin = r.admin
    <3>1. f[p] = Rec(r.file, r.mark, u[2], "READY", r.meta, r.admin) BY <2>1, Updated
    <3>2. r.file \in File /\ r.mark \in {"none", "ours", "other"} /\ r.bytes \in Content
      /\ r.state \in {"NONE", "PENDING", "READY", "FAILED"} /\ r.meta \in Version \cup {0} /\ r.admin \in Nat
      BY <2>1, Fields
    <3>3. u[2] \in Content BY <1>1 DEF Content
    <3>4. /\ Rec(r.file, r.mark, u[2], "READY", r.meta, r.admin) \in Package
          /\ Rec(r.file, r.mark, u[2], "READY", r.meta, r.admin).file = r.file
          /\ Rec(r.file, r.mark, u[2], "READY", r.meta, r.admin).mark = r.mark
          /\ Rec(r.file, r.mark, u[2], "READY", r.meta, r.admin).bytes = u[2]
          /\ Rec(r.file, r.mark, u[2], "READY", r.meta, r.admin).admin = r.admin
      BY <3>2, <3>3 DEF Rec, Package
    <3> QED BY <3>1, <3>4, <2>2 DEF Alike
  <2>4. g[p] \in Package /\ Alike(r, g[p]) /\ g[p].admin = r.admin
    <3>1. g[p] = Rec(r.file, r.mark, r.bytes, "FAILED", r.meta, r.admin) BY <2>1, Updated
    <3>2. r.file \in File /\ r.mark \in {"none", "ours", "other"} /\ r.bytes \in Content
      /\ r.state \in {"NONE", "PENDING", "READY", "FAILED"} /\ r.meta \in Version \cup {0} /\ r.admin \in Nat
      BY <2>1, Fields
    <3>4. /\ Rec(r.file, r.mark, r.bytes, "FAILED", r.meta, r.admin) \in Package
          /\ Rec(r.file, r.mark, r.bytes, "FAILED", r.meta, r.admin).file = r.file
          /\ Rec(r.file, r.mark, r.bytes, "FAILED", r.meta, r.admin).mark = r.mark
          /\ Rec(r.file, r.mark, r.bytes, "FAILED", r.meta, r.admin).bytes = r.bytes
          /\ Rec(r.file, r.mark, r.bytes, "FAILED", r.meta, r.admin).admin = r.admin
      BY <3>2 DEF Rec, Package
    <3> QED BY <3>1, <3>4 DEF Alike
  <2> QED BY <2>3, <2>4
<1> HIDE DEF h
<1>4. DOMAIN pkgs' = DOMAIN pkgs /\ \A p \in DOMAIN pkgs : pkgs'[p] = IF p \in Holders(u[1]) THEN h[p] ELSE pkgs[p]
  BY <1>2
<1>5. \A p \in DOMAIN pkgs : pkgs'[p] \in Package \cup {Gone} BY <1>3, <1>4 DEF Shaped
<1>6. pkgs' \in Seq(Package \cup {Gone}) /\ Len(pkgs') = Len(pkgs)
  BY <1>1, <1>2, <1>5
<1>7. \A p \in DOMAIN pkgs : (pkgs'[p] = Gone <=> pkgs[p] = Gone) /\ (p \in Live => Alike(pkgs[p], pkgs'[p]))
  <2>1. Holders(u[1]) \subseteq Live BY DEF Holders
  <2> QED BY <1>3, <1>4, <2>1, GoneIsNone DEF Alike, Live
<1> QED BY <1>2, <1>3, <1>4, <1>6, <1>7 DEF Steady, Live

\* A merge replaces the record in hand, or nothing when it was edited.
LEMMA MergeEffect ==
    ASSUME Shaped, InHand, NEW stage \in {"claim", "meta"}, MergePut(stage)
    PROVE  /\ Put(id, pkgs'[id]) /\ id \in Live /\ cur' = pkgs'[id] /\ pkgs'[id] \in Package
           /\ \/ pkgs' = pkgs
              \/ pkgs'[id].file = FileOf[goal] /\ pkgs'[id].mark = "ours"
           /\ pkgs'[id].bytes = pkgs[id].bytes /\ pkgs'[id].state = pkgs[id].state /\ pkgs'[id].admin = pkgs[id].admin
<1>1. id \in DOMAIN pkgs /\ pkgs[id] \in Package /\ id \in Live
  BY Records DEF MergePut, InHand, Working, Started
<1>2. CASE pkgs' = pkgs
  BY <1>1, <1>2 DEF MergePut, Put, Shaped
<1>3. CASE pkgs' # pkgs
  <2>1. pkgs' = [pkgs EXCEPT ![id] = Wanted(stage, pkgs[id])] BY <1>3 DEF MergePut
  <2>2. goal \in Version BY DEF Shaped
  <2>3. Wanted(stage, pkgs[id]) \in Package BY <1>1, <2>2, WantedIs
  <2>4. Put(id, Wanted(stage, pkgs[id])) BY <1>1, <2>1, <2>3, PutRecord
  <2>5. pkgs'[id] = Wanted(stage, pkgs[id]) /\ Put(id, pkgs'[id]) BY <2>4 DEF Put
  <2> QED BY <1>1, <2>2, <2>3, <2>5, WantedIs DEF MergePut
<1> QED BY <1>2, <1>3

\* New records: the run's own and administrators'.
LEMMA CreateEffect ==
    ASSUME Shaped, ConstantsAssumption
    PROVE  /\ Create => Added(New(FileOf[goal], "ours", NoBytes, "NONE")) /\ Len(pkgs) < MaxId
           /\ \A f \in File : AdminCreates(f) => Added(New(f, "none", Foreign, "READY")) /\ Len(pkgs) < MaxId
<1>1. New(FileOf[goal], "ours", NoBytes, "NONE") \in Package BY DEF New, Package, Content, File, Shaped
<1>2. \A f \in File : New(f, "none", Foreign, "READY") \in Package BY DEF New, Package, Content
<1> QED BY <1>1, <1>2, AddRecord DEF Create, AdminCreates

\* An administrator's edit leaves everything that the run manages.
LEMMA EditEffect ==
    ASSUME Shaped, NEW p \in Live, AdminEdits(p)
    PROVE  /\ Steady
           /\ \A q \in Live : /\ pkgs'[q].state = pkgs[q].state /\ pkgs'[q].bytes = pkgs[q].bytes
                              /\ pkgs'[q].admin >= pkgs[q].admin
<1> DEFINE r == pkgs[p]
           s == Rec(r.file, r.mark, r.bytes, r.state, r.meta, r.admin + 1)
<1>1. p \in DOMAIN pkgs /\ r \in Package /\ \A q \in Live : q \in DOMAIN pkgs /\ pkgs[q] \in Package
  BY Records DEF Live
<1>2. pkgs' = [pkgs EXCEPT ![p] = s] BY <1>1, Updated DEF AdminEdits
<1>3. r.file \in File /\ r.mark \in {"none", "ours", "other"} /\ r.bytes \in Content
      /\ r.state \in {"NONE", "PENDING", "READY", "FAILED"} /\ r.meta \in Version \cup {0} /\ r.admin \in Nat
  BY <1>1, Fields
<1>4. /\ s \in Package /\ s.file = r.file /\ s.mark = r.mark /\ s.bytes = r.bytes
      /\ s.state = r.state /\ s.admin = r.admin + 1
  BY <1>3 DEF Rec, Package
<1> HIDE DEF s
<1>5. Put(p, s) BY <1>1, <1>2, <1>4, PutRecord
<1>6. Steady BY <1>1, <1>4, <1>5, GoneIsNone DEF Put, Steady, Alike, Live
<1>7. \A q \in Live : pkgs[q].admin \in Nat BY <1>1, Fields
<1> QED BY <1>1, <1>3, <1>4, <1>5, <1>6, <1>7 DEF Put

\* The newest of some records is one of them.
LEMMA MaxMember ==
    ASSUME NEW S \in SUBSET Nat, NEW m \in Nat, \A s \in S : s <= m, S # {}
    PROVE  (CHOOSE q \in S : \A r \in S : r <= q) \in S
<1> DEFINE R == OpToRel(<, Nat)
           T == {m - s : s \in S}
<1>1. IsWellFoundedOn(R, Nat)
  BY NatLessThanWellFounded
<1>2. \A y, x \in Nat : y < x => <<y, x>> \in R
  BY DEF OpToRel
<1>3. T \subseteq Nat /\ T # {} OBVIOUS
<1> HIDE DEF R, T
<1>4. PICK x \in T : \A y \in T : ~ (<<y, x>> \in R)
  BY <1>1, <1>3, WFMin
<1>5. ASSUME NEW y \in T PROVE x <= y
  <2>1. x \in Nat /\ y \in Nat /\ <<y, x>> \notin R BY <1>3, <1>4
  <2>2. ~(y < x) BY <1>2, <2>1
  <2> QED BY <2>1, <2>2
<1>6. PICK q \in S : x = m - q BY <1>4 DEF T
<1>7. \A r \in S : m - q <= m - r BY <1>5, <1>6 DEF T
<1>8. \A r \in S : r <= q BY <1>7
<1> QED BY <1>8

\* A retired record that nothing refers to is deleted.
DeleteOf(p) ==
    /\ pc = "delete" /\ retiring' = retiring \ {p}
    /\ \/ p \in refs /\ UNCHANGED <<pkgs, uploads, deleted>>
       \/ /\ p \notin refs /\ Put(p, Gone) /\ deleted' = deleted \cup {p}
          /\ uploads' = {u \in uploads : u[1] # pkgs[p].file}

\* One of those to retire is deleted or, where something refers to it, kept.
LEMMA DeleteEffect ==
    ASSUME Shaped, Delete, retiring \subseteq DOMAIN pkgs
    PROVE  \E p \in retiring : DeleteOf(p)
<1> DEFINE p == CHOOSE q \in retiring : \A r \in retiring : r <= q
<1>1. DOMAIN pkgs \subseteq Nat /\ Len(pkgs) \in Nat /\ \A q \in DOMAIN pkgs : q <= Len(pkgs) BY DEF Shaped
<1>2. retiring # {} BY DEF Delete
<1>3. p \in retiring BY <1>1, <1>2, MaxMember
<1>4. /\ pc = "delete" /\ retiring' = retiring \ {p}
      /\ pkgs' = IF p \in refs THEN pkgs ELSE [pkgs EXCEPT ![p] = Gone]
      /\ uploads' = IF p \in refs THEN uploads ELSE {u \in uploads : u[1] # pkgs[p].file}
      /\ deleted' = IF p \in refs THEN deleted ELSE deleted \cup {p}
  BY DEF Delete
<1> HIDE DEF p
<1>5. p \notin refs => Put(p, Gone) BY <1>3, <1>4, PutRecord
<1> QED BY <1>3, <1>4, <1>5 DEF DeleteOf

\* A new record is one.
LEMMA Package0 ==
    ASSUME Shaped
    PROVE  /\ New(FileOf[goal], "ours", NoBytes, "NONE") \in Package
           /\ \A f \in File : New(f, "none", Foreign, "READY") \in Package
           /\ \A f, m, b, s : /\ New(f, m, b, s).file = f /\ New(f, m, b, s).mark = m
                              /\ New(f, m, b, s).bytes = b /\ New(f, m, b, s).state = s
<1>1. New(FileOf[goal], "ours", NoBytes, "NONE") \in Package BY DEF New, Package, Content, File, Shaped
<1>2. \A f \in File : New(f, "none", Foreign, "READY") \in Package BY DEF New, Package, Content
<1> QED BY <1>1, <1>2 DEF New

\* What a step leaves of the sets of records.
LEMMA SteadySets ==
    ASSUME Shaped, Steady
    PROVE  /\ Live' = Live /\ Family' = Family /\ \A f : Holders(f)' = Holders(f)
           /\ \A p \in Live : pkgs'[p].file = pkgs[p].file /\ pkgs'[p].mark = pkgs[p].mark
           /\ DOMAIN pkgs' = DOMAIN pkgs
<1>1. \A p \in Live : p \in DOMAIN pkgs /\ pkgs'[p].file = pkgs[p].file /\ pkgs'[p].mark = pkgs[p].mark
  BY DEF Live, Steady, Alike
<1>2. Live' = Live BY DEF Live, Steady
<1>3. Family' = Family BY <1>1, <1>2 DEF Family
<1>4. \A f : Holders(f)' = Holders(f) BY <1>1, <1>2 DEF Holders
<1> QED BY <1>1, <1>2, <1>3, <1>4 DEF Steady

\* A record added is one more of each set that its name and mark put it in.
LEMMA AddedSets ==
    ASSUME Shaped, NEW r \in Package, Added(r)
    PROVE  \E n : /\ n = Len(pkgs) + 1 /\ n \notin DOMAIN pkgs /\ n \notin Live /\ n # NoId
                  /\ DOMAIN pkgs' = DOMAIN pkgs \cup {n}
                  /\ Live' = Live \cup {n} /\ pkgs'[n] = r /\ \A p \in Live : pkgs'[p] = pkgs[p]
                  /\ Family' = IF r.mark = "ours" THEN Family \cup {n} ELSE Family
                  /\ \A f : Holders(f)' = IF r.file = f THEN Holders(f) \cup {n} ELSE Holders(f)
<1> DEFINE n == Len(pkgs) + 1
<1>1. DOMAIN pkgs = 1..Len(pkgs) /\ Len(pkgs) \in Nat BY DEF Shaped
<1>2. /\ n \notin DOMAIN pkgs /\ n # NoId /\ DOMAIN pkgs' = DOMAIN pkgs \cup {n} /\ pkgs'[n] = r
      /\ \A p \in DOMAIN pkgs : pkgs'[p] = pkgs[p]
  BY <1>1 DEF Added, NoId
<1> HIDE DEF n
<1>3. n \notin Live /\ Live' = Live \cup {n} BY <1>2, GoneIsNone DEF Live
<1>4. \A p \in Live : pkgs'[p] = pkgs[p] BY <1>2 DEF Live
<1>5. Family' = IF r.mark = "ours" THEN Family \cup {n} ELSE Family BY <1>2, <1>3, <1>4 DEF Family
<1>6. \A f : Holders(f)' = IF r.file = f THEN Holders(f) \cup {n} ELSE Holders(f)
  BY <1>2, <1>3, <1>4 DEF Holders
<1>7. n = Len(pkgs) + 1 BY DEF n
<1> QED BY <1>2, <1>3, <1>4, <1>5, <1>6, <1>7

\* A record deleted leaves every set.
LEMMA GoneSets ==
    ASSUME Shaped, NEW p, Put(p, Gone)
    PROVE  /\ Live' = Live \ {p} /\ Family' = Family \ {p} /\ \A f : Holders(f)' = Holders(f) \ {p}
           /\ \A q \in Live' : q \in Live /\ pkgs'[q] = pkgs[q]
           /\ DOMAIN pkgs' = DOMAIN pkgs
<1>1. Live' = Live \ {p} /\ \A q \in Live' : q \in Live /\ pkgs'[q] = pkgs[q] BY DEF Put, Live
<1>2. Family' = Family \ {p} BY <1>1 DEF Family
<1>3. \A f : Holders(f)' = Holders(f) \ {p} BY <1>1 DEF Holders
<1> QED BY <1>1, <1>2, <1>3 DEF Put

\* A merge moves at most the record in hand between the sets.
LEMMA MergeSets ==
    ASSUME Shaped, InHand, NEW stage \in {"claim", "meta"}, MergePut(stage)
    PROVE  /\ Live' = Live /\ id \in Live
           /\ \A q \in Live \ {id} : pkgs'[q] = pkgs[q]
           /\ DOMAIN pkgs' = DOMAIN pkgs
           /\ \/ pkgs'[id].file = FileOf[goal] /\ pkgs'[id].mark = "ours"
              \/ pkgs'[id].file = pkgs[id].file /\ pkgs'[id].mark = pkgs[id].mark
           /\ pkgs'[id].bytes = pkgs[id].bytes /\ pkgs'[id].state = pkgs[id].state
<1>1. /\ Put(id, pkgs'[id]) /\ id \in Live /\ pkgs'[id] \in Package
      /\ \/ pkgs' = pkgs
         \/ pkgs'[id].file = FileOf[goal] /\ pkgs'[id].mark = "ours"
      /\ pkgs'[id].bytes = pkgs[id].bytes /\ pkgs'[id].state = pkgs[id].state
  BY MergeEffect
<1>2. Live' = Live BY <1>1, GoneIsNone DEF Put, Live
<1>3. \A q \in Live \ {id} : pkgs'[q] = pkgs[q] BY <1>1 DEF Put, Live
<1> QED BY <1>1, <1>2, <1>3 DEF Put

(***************************************************************************)
(* What holds between two requests holds after each.                       *)
(***************************************************************************)

\* Every step keeps the types.
LEMMA ShapedStep == ConstantsAssumption /\ Inv /\ [Next]_vars => Shaped'
<1> SUFFICES ASSUME ConstantsAssumption, Inv, [Next]_vars PROVE Shaped' OBVIOUS
<1> USE DEF NoId, Id
<1>s. Shaped /\ InHand BY DEF Inv
<1>d. DOMAIN pkgs = 1..Len(pkgs) /\ Len(pkgs) \in Nat /\ DOMAIN pkgs \subseteq Id /\ Live \subseteq Id
  BY <1>s DEF Shaped, Live, ConstantsAssumption
<1>p. policy # None => policy \in Policy /\ policy.pkgs \subseteq Id
  BY <1>s, GoneIsNone DEF Shaped, Policy
<1>1. ASSUME Begin PROVE Shaped'
  BY <1>1, <1>s, <1>d, FS_EmptySet DEF Begin, remote, outside, Goto, Shaped
<1>2. ASSUME Locate PROVE Shaped'
  BY <1>2, <1>s, <1>d DEF Locate, remote, outside, Shaped
<1>3. ASSUME Plan PROVE Shaped'
  <2>1. Retired(Family, id) \subseteq Id BY <1>d DEF Retired, Family
  <2> QED BY <1>3, <2>1, <1>s DEF Plan, remote, outside, Goto, Shaped
<1>4. ASSUME Create PROVE Shaped'
  <2>1. Added(New(FileOf[goal], "ours", NoBytes, "NONE")) /\ Len(pkgs) < MaxId BY <1>4, <1>s, CreateEffect
  <2> QED BY <1>4, <2>1, <1>s, <1>d DEF Create, outside, Added, Shaped, ConstantsAssumption
<1>5. ASSUME AwaitEarlier PROVE Shaped'
  BY <1>5, <1>s, <1>d DEF AwaitEarlier, remote, outside, local, Goto, Shaped
<1>6. ASSUME NEW s \in {"claim", "meta"}, MergeRead(s) PROVE Shaped'
  BY <1>6, <1>s, <1>d DEF MergeRead, remote, outside, local, Shaped
<1>7. ASSUME NEW s \in {"claim", "meta"}, MergePut(s) PROVE Shaped'
  <2>1. Put(id, pkgs'[id]) BY <1>7, <1>s, MergeEffect
  <2> QED BY <1>7, <2>1, <1>s DEF MergePut, outside, local, Put, Shaped
<1>8. ASSUME Upload PROVE Shaped'
  <2>1. Steady BY <1>8, <1>s, UploadEffect
  <2>2. <<FileOf[goal], goal>> \in File \X Version BY <1>s DEF Shaped, File
  <2> QED BY <1>8, <2>1, <2>2, <1>s DEF Upload, outside, local, Steady, Shaped
<1>9. ASSUME Await PROVE Shaped'
  BY <1>9, <1>s, <1>d DEF Await, remote, outside, local, Shaped
<1>10. ASSUME ApplyPolicy PROVE Shaped'
  <2>1. [pkgs |-> {id}, live |-> FALSE] \in Policy
    BY <1>10, <1>s DEF ApplyPolicy, InHand, Working, Started, Policy, Shaped
  <2> QED BY <1>10, <2>1, <1>s DEF ApplyPolicy, installs, outside, Shaped
<1>11. ASSUME UpdatePolicy PROVE Shaped'
  <2>1. [pkgs |-> {id}, live |-> TRUE] \in Policy
    BY <1>11, <1>s DEF UpdatePolicy, Goto, InHand, Working, Started, Policy, Shaped
  <2> QED BY <1>11, <2>1, <1>s DEF UpdatePolicy, installs, outside, Goto, Shaped
<1>12. ASSUME ApplyLink PROVE Shaped'
  BY <1>12, <1>s, <1>d DEF ApplyLink, installs, outside, Shaped
<1>13. ASSUME PutLinks PROVE Shaped'
  <2>1. id \in Id BY <1>13, <1>s, <1>d DEF PutLinks, Goto, InHand, Working, Started, Shaped
  <2>2. IsFiniteSet({l \in read : l[1] # goal}) BY <1>s, FS_Subset DEF Shaped
  <2>3. IsFiniteSet({l \in read : l[1] # goal} \cup {<<goal, id>>}) BY <2>2, FS_AddElement
  <2> QED BY <1>13, <2>1, <2>3, <1>s DEF PutLinks, installs, outside, Goto, Shaped
<1>14. ASSUME ApplyPatchPolicy PROVE Shaped'
  <2>1. [target |-> goal, live |-> FALSE] \in Patch BY <1>s DEF Patch, Shaped
  <2> QED BY <1>14, <2>1, <1>s DEF ApplyPatchPolicy, installs, outside, Shaped
<1>15. ASSUME UpdatePatchPolicy PROVE Shaped'
  <2>0. patch # None BY <1>15, <1>s DEF UpdatePatchPolicy, InHand
  <2>1. [target |-> IF waiting THEN patch.target ELSE goal, live |-> TRUE] \in Patch
    BY <2>0, <1>s DEF Patch, Shaped
  <2> QED BY <1>15, <2>1, <1>s DEF UpdatePatchPolicy, installs, outside, Shaped
<1>16. ASSUME ReadPolicies PROVE Shaped'
  <2>1. ByPolicies \subseteq Id BY <1>s, <1>p DEF ByPolicies, Shaped
  <2> QED BY <1>16, <2>1, <1>s DEF ReadPolicies, pruning, outside, Goto, Shaped
<1>17. ASSUME ReadStages PROVE Shaped'
  BY <1>17, <1>s, <1>d DEF ReadStages, pruning, outside, Goto, Shaped
<1>18. ASSUME ReadTitles PROVE Shaped'
  <2>1. ByTitles \subseteq Id BY <1>s DEF ByTitles, Shaped
  <2> QED BY <1>18, <2>1, <1>s DEF ReadTitles, pruning, outside, Goto, Shaped
<1>19. ASSUME Delete PROVE Shaped'
  <2>1. retiring \subseteq DOMAIN pkgs BY <1>19 DEF Delete, Inv, Retiring, Started
  <2>2. PICK p \in retiring : DeleteOf(p) BY <1>19, <2>1, <1>s, DeleteEffect DEF DeleteOf
  <2> QED BY <1>19, <2>2, <1>s DEF Delete, DeleteOf, Put, pruning, outside, Shaped
<1>20. ASSUME Pruned PROVE Shaped'
  BY <1>20, <1>s, <1>d DEF Pruned, pruning, outside, Goto, Shaped
<1>21. ASSUME Finish PROVE Shaped'
  BY <1>21, <1>s, <1>d DEF Finish, remote, outside, local, Goto, Shaped
<1>22. ASSUME Refused PROVE Shaped'
  BY <1>22, <1>s, <1>d DEF Refused, remote, outside, local, Shaped
<1>23. ASSUME Interrupt PROVE Shaped'
  BY <1>23, <1>s, <1>d DEF Interrupt, remote, local, Shaped
<1>24. ASSUME NEW u \in uploads, Process(u) \/ Reject(u) PROVE Shaped'
  <2>1. Steady /\ uploads' = uploads \ {u} BY <1>24, <1>s, ProcessEffect
  <2>8. faults' \in Nat
    <3>1. CASE Process(u) BY <3>1, <1>s DEF Process, history, Shaped
    <3>2. CASE Reject(u) BY <3>2, <1>s DEF Reject, Shaped
    <3> QED BY <1>24, <3>1, <3>2
  <2> QED BY <1>24, <2>1, <2>8, <1>s DEF Process, Reject, run, history, Steady, Shaped
<1>25. ASSUME NEW v \in Version, Release(v) PROVE Shaped'
  <2>8. env' \in Nat /\ quiet' = FALSE BY <1>25, <1>s DEF Release, Moves, Shaped
  <2>9. UNCHANGED faults BY <1>25 DEF Release
  <2> QED BY <1>25, <2>8, <2>9, <1>s, <1>d DEF Release, run, Shaped, remote
<1>26. ASSUME NEW v \in Version, Define(v) PROVE Shaped'
  <2>8. env' \in Nat /\ quiet' = FALSE BY <1>26, <1>s DEF Define, Moves, Shaped
  <2>9. UNCHANGED faults BY <1>26 DEF Define
  <2> QED BY <1>26, <2>8, <2>9, <1>s, <1>d DEF Define, run, Shaped
<1>27. ASSUME NEW f \in File, AdminCreates(f) PROVE Shaped'
  <2>1. Added(New(f, "none", Foreign, "READY")) /\ Len(pkgs) < MaxId BY <1>27, <1>s, CreateEffect
  <2>2. pkgs' \in Seq(Package \cup {Gone}) /\ Len(pkgs') <= MaxId
    BY <2>1, <1>d DEF Added, ConstantsAssumption
  <2>8. env' \in Nat /\ quiet' = FALSE BY <1>27, <1>s DEF AdminCreates, Moves, Shaped
  <2>9. UNCHANGED faults BY <1>27 DEF AdminCreates
  <2> QED BY <1>27, <2>8, <2>9, <1>s, <1>d, <2>2 DEF AdminCreates, run, Shaped
<1>28. ASSUME NEW p \in Live, AdminEdits(p) PROVE Shaped'
  <2>1. Steady BY <1>28, <1>s, EditEffect
  <2>8. env' \in Nat /\ quiet' = FALSE BY <1>28, <1>s DEF AdminEdits, Moves, Shaped
  <2>9. UNCHANGED faults BY <1>28 DEF AdminEdits
  <2> QED BY <1>28, <2>8, <2>9, <1>s, <1>d, <2>1 DEF AdminEdits, run, Shaped, Steady
<1>29. ASSUME NEW p \in Live, AdminRefers(p) PROVE Shaped'
  <2>1. [pkgs |-> {p}, live |-> TRUE] \in Policy BY <1>d DEF Policy
  <2>2. \A v : IsFiniteSet(links \cup {<<v, p>>}) BY <1>s, FS_AddElement DEF Shaped
  <2>3. policy' \in Policy \cup {None} BY <1>29, <2>1, <1>s DEF AdminRefers, Shaped
  <2>4. links' \subseteq Version \X Id /\ IsFiniteSet(links')
    <3>1. links' = links \/ \E v \in Version : links' = links \cup {<<v, p>>} BY <1>29 DEF AdminRefers
    <3>2. p \in Id BY <1>d
    <3>3. CASE links' = links BY <3>3, <1>s DEF Shaped
    <3>4. ASSUME NEW v \in Version, links' = links \cup {<<v, p>>}
          PROVE  links' \subseteq Version \X Id /\ IsFiniteSet(links')
      <4>1. links' \subseteq Version \X Id BY <3>2, <3>4, <1>s DEF Shaped
      <4>2. IsFiniteSet(links') BY <3>4, <2>2
      <4> QED BY <4>1, <4>2
    <3> QED BY <3>1, <3>3, <3>4
  <2>5. others' \cup stages' \subseteq Id BY <1>29, <1>s, <1>d DEF AdminRefers, Shaped
  <2>8. env' \in Nat /\ quiet' = FALSE BY <1>29, <1>s DEF AdminRefers, Moves, Shaped
  <2>9. UNCHANGED faults BY <1>29 DEF AdminRefers
  <2> QED BY <1>29, <2>8, <2>9, <1>s, <1>d, <2>3, <2>4, <2>5 DEF AdminRefers, run, Shaped
<1>30. ASSUME AdminForgets PROVE Shaped'
  <2>8. env' \in Nat /\ quiet' = FALSE BY <1>30, <1>s DEF AdminForgets, Moves, Shaped
  <2>9. UNCHANGED faults BY <1>30 DEF AdminForgets
  <2> QED BY <1>30, <2>8, <2>9, <1>s, <1>d DEF AdminForgets, run, Shaped
<1>31. ASSUME UNCHANGED vars PROVE Shaped'
  BY <1>31, <1>s, <1>d DEF vars, remote, run, history, Shaped
<1> QED BY <1>1, <1>2, <1>3, <1>4, <1>5, <1>6, <1>7, <1>8, <1>9, <1>10, <1>11, <1>12, <1>13, <1>14, <1>15,
   <1>16, <1>17, <1>18, <1>19, <1>20, <1>21, <1>22, <1>23, <1>24, <1>25, <1>26, <1>27, <1>28, <1>29, <1>30,
   <1>31 DEF Next, Run, JamfStep, Admin

\* What a run has in hand stays what it read, up to what Jamf and administrators change.
LEMMA InHandStep == ConstantsAssumption /\ Inv /\ [Next]_vars => InHand'
<1> SUFFICES ASSUME ConstantsAssumption, Inv, [Next]_vars PROVE InHand' OBVIOUS
<1> USE DEF NoId
<1>s. Shaped /\ InHand /\ Retiring BY DEF Inv
<1>r. \A p \in DOMAIN pkgs : p \in Live <=> pkgs[p] \in Package BY <1>s, Records
<1>d. DOMAIN pkgs = 1..Len(pkgs) /\ Len(pkgs) \in Nat /\ 0 \notin DOMAIN pkgs BY <1>s DEF Shaped
<1>1s. ASSUME Steady, UNCHANGED <<id, cur, pin, goal, pc, patch>> PROVE InHand'
  BY <1>1s, <1>s, <1>r DEF InHand, Steady, Alike, Live, Working, Claimed, Started, Wanted
<1>1. ASSUME Begin PROVE InHand'
  BY <1>1, <1>s, <1>r, <1>d DEF Begin, remote, outside, Goto, InHand, Live, Started, Working, Claimed
<1>2. ASSUME Locate PROVE InHand'
  <2>1. PICK p \in Live \cup {NoId} : /\ pc = "locate" /\ pc' = "plan" /\ Chosen(p) /\ id' = p
                                     /\ cur' = (IF p = NoId THEN Gone ELSE pkgs[p]) /\ UNCHANGED <<pkgs, pin, goal>>
    BY <1>2 DEF Locate, remote, outside
  <2>2. pin # NoId => p = pin BY <2>1 DEF Chosen
  <2> QED BY <2>1, <2>2, <1>s, <1>r, <1>d DEF InHand, Live, Started, Working, Claimed
<1>3. ASSUME Plan PROVE InHand'
  <2>1. AfterPlan \in {"create", "earlier", "claim"} /\ (AfterPlan = "create" <=> id = NoId)
        /\ (AfterPlan = "earlier" => cur.file = FileOf[goal])
    BY DEF AfterPlan
  <2>2. pc = "plan" /\ pc' = AfterPlan /\ UNCHANGED <<pkgs, id, cur, goal, pin>>
    BY <1>3 DEF Plan, Goto, remote, outside
  <2> QED BY <2>1, <2>2, <1>s, <1>r, <1>d DEF InHand, Live, Started, Working, Claimed
<1>4. ASSUME Create PROVE InHand'
  <2>1. Added(New(FileOf[goal], "ours", NoBytes, "NONE")) BY <1>4, <1>s, CreateEffect
  <2>2. pc = "create" /\ pc' = "claim" /\ id' = Len(pkgs) + 1 /\ cur' = pkgs'[id'] /\ UNCHANGED <<pin, goal>>
    BY <1>4 DEF Create, outside
  <2>3. cur' = New(FileOf[goal], "ours", NoBytes, "NONE") /\ cur' \in Package /\ cur'.bytes = NoBytes
    BY <2>1, <2>2 DEF Added, New
  <2> QED BY <2>1, <2>2, <2>3, <1>s, <1>r, <1>d, GoneIsNone DEF Added, InHand, Live, Started, Working,
     Claimed
<1>5. ASSUME AwaitEarlier PROVE InHand'
  BY <1>5, <1>s, <1>r, <1>d DEF AwaitEarlier, remote, outside, local, Goto, InHand, Live, Started, Working,
     Claimed
<1>6. ASSUME NEW s \in {"claim", "meta"}, MergeRead(s) PROVE InHand'
  <2>1. /\ pc = s /\ cur' \in {cur, pkgs[id]} /\ UNCHANGED <<pkgs, id, goal, pin>>
        /\ \/ cur' = Wanted(s, cur') /\ pc' = AfterMerge(s, cur')
           \/ cur' # Wanted(s, cur') /\ pc' = (IF s = "claim" THEN "claimPut" ELSE "metaPut")
    BY <1>6, <1>s DEF MergeRead, remote, outside, local, Wanted
  <2>2. cur' \in Package /\ goal \in Version BY <2>1, <1>s, <1>r DEF InHand, Working, Started, Shaped
  <2>3. cur' = Wanted(s, cur') => cur'.file = FileOf[goal] /\ cur'.mark = "ours" BY <2>2, WantedIs
  <2>4. AfterMerge(s, cur') = (IF s = "claim" THEN "upload" ELSE IF Matches(cur') THEN "policy" ELSE "idle")
    BY DEF AfterMerge
  <2>5. id # NoId /\ id \in DOMAIN pkgs /\ id \in Live BY <2>1, <1>s DEF InHand, Started, Working
  <2>6. /\ cur'.file = pkgs'[id].file /\ cur'.mark = pkgs'[id].mark
        /\ cur'.bytes # NoBytes => pkgs'[id].bytes # NoBytes
    BY <2>1, <2>5, <1>s DEF InHand, Started, Working
  <2>7. s = "claim" => Wanted("claim", cur') = Wanted(s, cur') OBVIOUS
  <2>8. pc' = "claimPut" => cur' # Wanted("claim", cur)' BY <2>1, <2>4 DEF Wanted
  <2>9. pc' \in Claimed => cur'.file = FileOf[goal] /\ cur'.mark = "ours"
    <3>1. CASE s = "meta" /\ pc' = "metaPut"
      <4>1. /\ cur.file = FileOf[goal] /\ cur.mark = "ours" /\ pkgs[id].file = cur.file /\ pkgs[id].mark = cur.mark
        BY <3>1, <2>1, <2>5, <1>s DEF InHand, Claimed, Started, Working
      <4> QED BY <4>1, <2>1
    <3> QED BY <3>1, <2>1, <2>3, <2>4 DEF Claimed, Working, Started
  <2>10. pc' \in {"upload", "policy", "idle", "claimPut", "metaPut"} BY <2>1, <2>4
  <2>11. pin # NoId => pin \in DOMAIN pkgs /\ id = pin BY <2>1, <1>s DEF InHand, Started
  <2> QED BY <2>1, <2>2, <2>5, <2>6, <2>8, <2>9, <2>10, <2>11 DEF InHand, Live, Started, Working, Claimed
<1>7. ASSUME NEW s \in {"claim", "meta"}, MergePut(s) PROVE InHand'
  <2>1. /\ Put(id, pkgs'[id]) /\ id \in Live /\ cur' = pkgs'[id] /\ pkgs'[id] \in Package
        /\ pkgs'[id].bytes = pkgs[id].bytes
    BY <1>7, <1>s, MergeEffect
  <2>2. /\ pc \in {"claimPut", "metaPut"} /\ UNCHANGED <<id, goal, pin>>
        /\ \/ pc' = "idle"
           \/ cur' = Wanted(s, cur') /\ pc' \in {"upload", "policy"}
    BY <1>7 DEF MergePut, outside, local, AfterMerge
  <2>3. goal \in Version BY <1>s DEF Shaped
  <2>4. cur' = Wanted(s, cur') => cur'.file = FileOf[goal] /\ cur'.mark = "ours" BY <2>1, <2>3, WantedIs
  <2> QED BY <2>1, <2>2, <2>4, <1>s, <1>r, <1>d, GoneIsNone DEF Put, InHand, Live, Started, Working, Claimed
<1>8. ASSUME Upload PROVE InHand'
  <2>1. Steady /\ pc' \in {"meta", "await"} BY <1>8, <1>s, UploadEffect
  <2>2. pc = "upload" /\ UNCHANGED <<id, cur, goal, pin, patch>> BY <1>8 DEF Upload, outside, local
  <2> QED BY <2>1, <2>2, <1>s, <1>r, <1>d DEF Steady, Alike, InHand, Live, Started, Working, Claimed
<1>9. ASSUME Await PROVE InHand'
  BY <1>9, <1>s, <1>r, <1>d DEF Await, remote, outside, local, InHand, Live, Started, Working, Claimed
<1>10. ASSUME ApplyPolicy PROVE InHand'
  BY <1>10, <1>s, <1>r, <1>d DEF ApplyPolicy, installs, outside, InHand, Live, Started, Working, Claimed
<1>11. ASSUME UpdatePolicy PROVE InHand'
  BY <1>11, <1>s, <1>r, <1>d DEF UpdatePolicy, installs, outside, Goto, InHand, Live, Started, Working,
     Claimed
<1>12. ASSUME ApplyLink PROVE InHand'
  BY <1>12, <1>s, <1>r, <1>d DEF ApplyLink, installs, outside, InHand, Live, Started, Working, Claimed
<1>13. ASSUME PutLinks PROVE InHand'
  BY <1>13, <1>s, <1>r, <1>d DEF PutLinks, installs, outside, Goto, InHand, Live, Started, Working, Claimed
<1>14. ASSUME ApplyPatchPolicy PROVE InHand'
  <2>1. [target |-> goal, live |-> FALSE] \in Patch BY <1>s DEF Patch, Shaped
  <2>2. /\ pc = "patch" /\ pc' \in {AfterPatch, "patchPut"} /\ UNCHANGED <<pkgs, id, cur, goal, pin>>
        /\ pc' = "patchPut" => patch' # None
    BY <1>14 DEF ApplyPatchPolicy, AfterPatch, installs, outside
  <2> QED BY <2>2, <1>s, <1>r, <1>d DEF AfterPatch, InHand, Live, Started, Working, Claimed
<1>15. ASSUME UpdatePatchPolicy PROVE InHand'
  <2>1. pc = "patchPut" /\ pc' = AfterPatch /\ UNCHANGED <<pkgs, id, cur, goal, pin>>
    BY <1>15 DEF UpdatePatchPolicy, installs, outside
  <2> QED BY <2>1, <1>s, <1>r, <1>d DEF AfterPatch, InHand, Live, Started, Working, Claimed
<1>16. ASSUME ReadPolicies PROVE InHand'
  BY <1>16, <1>s, <1>r, <1>d DEF ReadPolicies, pruning, outside, Goto, InHand, Live, Started, Working,
     Claimed
<1>17. ASSUME ReadStages PROVE InHand'
  BY <1>17, <1>s, <1>r, <1>d DEF ReadStages, pruning, outside, Goto, InHand, Live, Started, Working, Claimed
<1>18. ASSUME ReadTitles PROVE InHand'
  BY <1>18, <1>s, <1>r, <1>d DEF ReadTitles, pruning, outside, Goto, InHand, Live, Started, Working, Claimed
<1>19. ASSUME Delete PROVE InHand'
  <2>1. retiring \subseteq DOMAIN pkgs /\ id \notin retiring /\ pc = "delete"
    BY <1>19, <1>s DEF Delete, Retiring, Started
  <2>2. PICK p \in retiring : DeleteOf(p) BY <1>19, <2>1, <1>s, DeleteEffect
  <2>3. UNCHANGED <<id, cur, goal, pin, pc, patch>> BY <1>19 DEF Delete, pruning, outside
  <2>4. \A q \in DOMAIN pkgs : q # p => pkgs'[q] = pkgs[q] /\ DOMAIN pkgs' = DOMAIN pkgs
    BY <2>2 DEF DeleteOf, Put
  <2>5. id # p /\ id \in Live BY <2>1, <2>2, <1>s DEF InHand, Working, Started
  <2> QED BY <2>1, <2>3, <2>4, <2>5, <1>s, <1>r, <1>d DEF InHand, Live, Started, Working, Claimed
<1>20. ASSUME Pruned PROVE InHand'
  BY <1>20, <1>s, <1>r, <1>d DEF Pruned, pruning, outside, Goto, InHand, Live, Started, Working, Claimed
<1>21. ASSUME Finish PROVE InHand'
  BY <1>21, <1>s, <1>r, <1>d DEF Finish, remote, outside, local, Goto, InHand, Live, Started, Working,
     Claimed
<1>22. ASSUME Refused PROVE InHand'
  BY <1>22, <1>s, <1>r, <1>d DEF Refused, remote, outside, local, InHand, Live, Started, Working, Claimed
<1>23. ASSUME Interrupt PROVE InHand'
  BY <1>23, <1>s, <1>r, <1>d DEF Interrupt, remote, local, InHand, Live, Started, Working, Claimed
<1>24. ASSUME NEW u \in uploads, Process(u) \/ Reject(u) PROVE InHand'
  <2>1. Steady BY <1>24, <1>s, ProcessEffect
  <2> QED BY <1>24, <2>1, <1>1s DEF Process, Reject, run
<1>25. ASSUME NEW v \in Version, Release(v) PROVE InHand'
  <2>1. Steady BY <1>25, <1>s DEF Release, remote, Shaped, Steady, Alike
  <2> QED BY <1>25, <2>1, <1>1s DEF Release, run, remote
<1>26. ASSUME NEW v \in Version, Define(v) PROVE InHand'
  <2>1. Steady BY <1>26, <1>s DEF Define, remote, Shaped, Steady, Alike
  <2> QED BY <1>26, <2>1, <1>1s DEF Define, run, remote
<1>27. ASSUME NEW f \in File, AdminCreates(f) PROVE InHand'
  <2>1. Added(New(f, "none", Foreign, "READY")) BY <1>27, <1>s, CreateEffect
  <2>2. UNCHANGED <<id, cur, goal, pin, pc, patch>> BY <1>27 DEF AdminCreates, run
  <2>3. id # NoId => pkgs'[id] = pkgs[id] /\ id \in DOMAIN pkgs' /\ id \in Live'
    BY <2>1, <2>2, <1>s DEF Added, InHand, Live
  <2>5. pin # NoId => pin \in DOMAIN pkgs' BY <2>1, <2>2, <1>s DEF Added, InHand
  <2>6. pc = "claimPut" => cur # Wanted("claim", cur) BY <1>s DEF InHand
  <2>7. pc' = "claimPut" => cur' # Wanted("claim", cur)' BY <2>2, <2>6 DEF Wanted
  <2> QED BY <2>2, <2>3, <2>5, <2>7, <1>s DEF InHand, Started, Working, Claimed
<1>28. ASSUME NEW p \in Live, AdminEdits(p) PROVE InHand'
  <2>1. Steady BY <1>28, <1>s, EditEffect
  <2> QED BY <1>28, <2>1, <1>1s DEF AdminEdits, run
<1>29. ASSUME NEW p \in Live, AdminRefers(p) PROVE InHand'
  <2>1. Steady BY <1>29, <1>s DEF AdminRefers, remote, Shaped, Steady, Alike
  <2> QED BY <1>29, <2>1, <1>1s DEF AdminRefers, run, remote
<1>30. ASSUME AdminForgets PROVE InHand'
  <2>1. Steady BY <1>30, <1>s DEF AdminForgets, remote, Shaped, Steady, Alike
  <2> QED BY <1>30, <2>1, <1>1s DEF AdminForgets, run, remote
<1>31. ASSUME UNCHANGED vars PROVE InHand'
  <2>1. Steady BY <1>31, <1>s DEF vars, remote, Shaped, Steady, Alike
  <2> QED BY <1>31, <2>1, <1>1s DEF vars, run, remote
<1> QED BY <1>1, <1>2, <1>3, <1>4, <1>5, <1>6, <1>7, <1>8, <1>9, <1>10, <1>11, <1>12, <1>13, <1>14, <1>15,
   <1>16, <1>17, <1>18, <1>19, <1>20, <1>21, <1>22, <1>23, <1>24, <1>25, <1>26, <1>27, <1>28, <1>29, <1>30,
   <1>31 DEF Next, Run, JamfStep, Admin

\* A step that leaves the records as they are, up to what administrators edit, and
\* moves the run on at most.
Onward == {"create", "claim", "claimPut", "upload"}

Kept ==
    /\ Steady /\ \A p \in Live : pkgs'[p].state = pkgs[p].state /\ pkgs'[p].bytes = pkgs[p].bytes
    /\ UNCHANGED pkgs \/ \E p \in Live : AdminEdits(p)
    /\ UNCHANGED <<pin, uploads, taken>>
    /\ pc' = "locate" => (pc = "locate" /\ UNCHANGED <<retiring, deleted>>) \/ (retiring' = {} /\ deleted' = {})
    /\ pc' \in Started => pc \in Started /\ UNCHANGED <<id, goal, retiring>>
    /\ pc' \in Onward => pc \in Onward
    /\ pc' = "plan" => pc = "plan" /\ UNCHANGED cur

\* The steps that do more are these.
LEMMA Kinds ==
    ASSUME ConstantsAssumption, Shaped, InHand, [Next]_vars
    PROVE  \/ Kept \/ Locate \/ Plan \/ Create \/ AwaitEarlier \/ Upload \/ Delete
           \/ \E s \in {"claim", "meta"} : MergePut(s)
           \/ \E u \in uploads : Process(u) \/ Reject(u)
           \/ \E f \in File : AdminCreates(f)
<1>a. Live \subseteq DOMAIN pkgs BY DEF Live
<1>k. ASSUME UNCHANGED <<pkgs, uploads, pin, taken>>,
             pc' = "locate" =>
                (pc = "locate" /\ UNCHANGED <<retiring, deleted>>) \/ (retiring' = {} /\ deleted' = {}),
             pc' \in Started => pc \in Started /\ UNCHANGED <<id, goal, retiring>>,
             pc' \in Onward => pc \in Onward,
             pc' = "plan" => pc = "plan" /\ UNCHANGED cur
      PROVE  Kept
  BY <1>k DEF Kept, Steady, Alike, Shaped
<1>f. ASSUME Steady, \A p \in Live : pkgs'[p].state = pkgs[p].state /\ pkgs'[p].bytes = pkgs[p].bytes,
             UNCHANGED pkgs \/ \E p \in Live : AdminEdits(p),
             UNCHANGED <<uploads, pin, taken, run>>
      PROVE  Kept
  <2>1. UNCHANGED <<pc, goal, id, cur, retiring, deleted>> BY <1>f DEF run
  <2>2. UNCHANGED <<uploads, pin, taken>> BY <1>f
  <2> QED BY <1>f, <2>1, <2>2, Zenon DEF Kept
<1>v. ASSUME UNCHANGED <<pkgs, uploads, pin, taken, run>> PROVE Kept
  <2>1. Steady BY <1>v DEF Steady, Alike, Shaped
  <2> QED BY <2>1, <1>v, <1>f
<1>1. ASSUME Begin PROVE Kept
  BY <1>1, <1>k DEF Begin, remote, outside, Goto, remote, run, Started, Onward
<1>2. ASSUME NEW s \in {"claim", "meta"}, MergeRead(s) PROVE Kept
  <2>1. UNCHANGED <<pkgs, uploads, pin, taken, id, goal, retiring>>
    BY <1>2 DEF MergeRead, remote, outside, local
  <2>2. /\ pc = s /\ pc' \in {"upload", "policy", "idle", "claimPut", "metaPut"}
        /\ s = "meta" => pc' \in {"policy", "idle", "metaPut"}
    BY <1>2 DEF MergeRead, AfterMerge
  <2> QED BY <2>1, <2>2, <1>k DEF Started, Onward
<1>3. ASSUME Await PROVE Kept
  BY <1>3, <1>k DEF Await, remote, outside, local, remote, run, Started, Onward
<1>4. ASSUME ApplyPolicy PROVE Kept
  BY <1>4, <1>k DEF ApplyPolicy, installs, outside, remote, run, Started, Onward
<1>5. ASSUME UpdatePolicy PROVE Kept
  BY <1>5, <1>k DEF UpdatePolicy, installs, outside, Goto, remote, run, Started, Onward
<1>6. ASSUME ApplyLink PROVE Kept
  BY <1>6, <1>k DEF ApplyLink, installs, outside, remote, run, Started, Onward
<1>7. ASSUME PutLinks PROVE Kept
  BY <1>7, <1>k DEF PutLinks, installs, outside, Goto, remote, run, Started, Onward
<1>8. ASSUME ApplyPatchPolicy PROVE Kept
  BY <1>8, <1>k DEF ApplyPatchPolicy, installs, outside, remote, run, Started, Onward, AfterPatch
<1>9. ASSUME UpdatePatchPolicy PROVE Kept
  BY <1>9, <1>k DEF UpdatePatchPolicy, installs, outside, remote, run, Started, Onward, AfterPatch
<1>10. ASSUME ReadPolicies PROVE Kept
  BY <1>10, <1>k DEF ReadPolicies, pruning, outside, Goto, remote, run, Started, Onward
<1>11. ASSUME ReadStages PROVE Kept
  BY <1>11, <1>k DEF ReadStages, pruning, outside, Goto, remote, run, Started, Onward
<1>12. ASSUME ReadTitles PROVE Kept
  BY <1>12, <1>k DEF ReadTitles, pruning, outside, Goto, remote, run, Started, Onward
<1>13. ASSUME Pruned PROVE Kept
  BY <1>13, <1>k DEF Pruned, pruning, outside, Goto, remote, run, Started, Onward
<1>14. ASSUME Finish PROVE Kept
  BY <1>14, <1>k DEF Finish, remote, outside, local, Goto, remote, run, Started, Onward
<1>15. ASSUME Refused PROVE Kept
  BY <1>15, <1>k DEF Refused, remote, outside, local, remote, run, Started, Onward
<1>16. ASSUME Interrupt PROVE Kept
  BY <1>16, <1>k DEF Interrupt, remote, local, remote, run, Started, Onward
<1>17. ASSUME NEW v \in Version, Release(v) PROVE Kept
  BY <1>17, <1>v DEF Release, remote
<1>18. ASSUME NEW v \in Version, Define(v) PROVE Kept
  BY <1>18, <1>v DEF Define, remote
<1>19. ASSUME NEW p \in Live, AdminEdits(p) PROVE Kept
  <2>1. /\ Steady /\ \A q \in Live : pkgs'[q].state = pkgs[q].state /\ pkgs'[q].bytes = pkgs[q].bytes
    BY <1>19, EditEffect
  <2> QED BY <1>19, <2>1, <1>f DEF AdminEdits
<1>20. ASSUME NEW p \in Live, AdminRefers(p) PROVE Kept
  BY <1>20, <1>v DEF AdminRefers, remote
<1>21. ASSUME AdminForgets PROVE Kept
  BY <1>21, <1>v DEF AdminForgets, remote
<1>22. ASSUME UNCHANGED vars PROVE Kept
  BY <1>22, <1>v DEF vars, remote, history
<1> QED BY <1>1, <1>2, <1>3, <1>4, <1>5, <1>6, <1>7, <1>8, <1>9, <1>10, <1>11, <1>12, <1>13, <1>14, <1>15,
   <1>16, <1>17, <1>18, <1>19, <1>20, <1>21, <1>22 DEF Next, Run, JamfStep, Admin

\* Every step retires what it may: records of the software that are not the current one.
LEMMA RetiringStep == ConstantsAssumption /\ Inv /\ [Next]_vars => Retiring'
<1> SUFFICES ASSUME ConstantsAssumption, Inv, [Next]_vars PROVE Retiring' OBVIOUS
<1>s. Shaped /\ InHand /\ Retiring BY DEF Inv
<1>l. Live \subseteq DOMAIN pkgs /\ Family \subseteq Live BY DEF Live, Family
<1>1. ASSUME Kept PROVE Retiring'
  <2>1. Live' = Live /\ DOMAIN pkgs' = DOMAIN pkgs /\ \A p \in Live : pkgs'[p].mark = pkgs[p].mark
    BY <1>1, <1>s, SteadySets DEF Kept
  <2> QED BY <2>1, <1>1, <1>s DEF Kept, Retiring, Started
<1>2. ASSUME Locate PROVE Retiring'
  BY <1>2, <1>s DEF Locate, remote, outside, Retiring, Started
<1>3. ASSUME Plan PROVE Retiring'
  <2>1. Retired(Family, id) \subseteq Family \ {id} BY DEF Retired
  <2>2. pc' # "locate" BY <1>3 DEF Plan, Goto, AfterPlan
  <2> QED BY <2>1, <2>2, <1>3, <1>l DEF Plan, Goto, remote, outside, Retiring, Live, Family
<1>4. ASSUME Create PROVE Retiring'
  <2>1. Added(New(FileOf[goal], "ours", NoBytes, "NONE")) /\ New(FileOf[goal], "ours", NoBytes, "NONE") \in Package
    BY <1>4, <1>s, CreateEffect, Package0
  <2>2. PICK n : /\ n = Len(pkgs) + 1 /\ n \notin DOMAIN pkgs /\ DOMAIN pkgs' = DOMAIN pkgs \cup {n}
                 /\ Live' = Live \cup {n} /\ \A p \in Live : pkgs'[p] = pkgs[p]
    BY <2>1, <1>s, AddedSets
  <2>3. pc = "create" /\ pc' = "claim" /\ id' = n /\ retiring' = retiring BY <1>4, <2>2 DEF Create
  <2> QED BY <2>2, <2>3, <1>s DEF Retiring, Started
<1>5. ASSUME AwaitEarlier PROVE Retiring'
  BY <1>5, <1>s DEF AwaitEarlier, Goto, remote, outside, local, Retiring, Started, Live
<1>6. ASSUME Upload PROVE Retiring'
  <2>1. Steady BY <1>6, <1>s, UploadEffect
  <2>2. Live' = Live /\ DOMAIN pkgs' = DOMAIN pkgs /\ \A p \in Live : pkgs'[p].mark = pkgs[p].mark
    BY <2>1, <1>s, SteadySets
  <2>3. pc = "upload" /\ pc' \in {"meta", "await"} /\ UNCHANGED <<id, retiring>>
    BY <1>6 DEF Upload, outside, local
  <2> QED BY <2>2, <2>3, <1>s DEF Retiring, Started
<1>7. ASSUME Delete PROVE Retiring'
  <2>1. pc = "delete" /\ UNCHANGED <<pc, id>> /\ retiring \subseteq DOMAIN pkgs
    BY <1>7, <1>s DEF Delete, pruning, Retiring, Started
  <2>2. PICK p \in retiring : DeleteOf(p) BY <1>7, <2>1, <1>s, DeleteEffect
  <2>3. p \notin refs => DOMAIN pkgs' = DOMAIN pkgs /\ \A q \in Live' : q \in Live /\ pkgs'[q] = pkgs[q]
    BY <2>2, <1>s, GoneSets DEF DeleteOf
  <2>4. DOMAIN pkgs' = DOMAIN pkgs /\ \A q \in Live' : q \in Live /\ pkgs'[q] = pkgs[q]
    BY <2>2, <2>3 DEF DeleteOf, Live
  <2> QED BY <2>1, <2>2, <2>4, <1>s DEF DeleteOf, Retiring, Started
<1>8. ASSUME NEW s \in {"claim", "meta"}, MergePut(s) PROVE Retiring'
  <2>1. Live' = Live /\ DOMAIN pkgs' = DOMAIN pkgs /\ \A q \in Live \ {id} : pkgs'[q] = pkgs[q]
    BY <1>8, <1>s, MergeSets
  <2>2. pc \in Started /\ pc' # "locate" /\ UNCHANGED <<id, retiring>>
    BY <1>8 DEF MergePut, AfterMerge, outside, local, Started
  <2> QED BY <2>1, <2>2, <1>s DEF Retiring
<1>9. ASSUME NEW u \in uploads, Process(u) \/ Reject(u) PROVE Retiring'
  <2>1. Steady BY <1>9, <1>s, ProcessEffect
  <2>2. Live' = Live /\ DOMAIN pkgs' = DOMAIN pkgs /\ \A p \in Live : pkgs'[p].mark = pkgs[p].mark
    BY <2>1, <1>s, SteadySets
  <2>3. UNCHANGED <<pc, id, retiring, deleted>> BY <1>9 DEF Process, Reject, run
  <2> QED BY <2>2, <2>3, <1>s DEF Retiring
<1>10. ASSUME NEW f \in File, AdminCreates(f) PROVE Retiring'
  <2>1. Added(New(f, "none", Foreign, "READY")) /\ New(f, "none", Foreign, "READY") \in Package
    BY <1>10, <1>s, CreateEffect, Package0
  <2>2. PICK n : /\ n \notin DOMAIN pkgs /\ DOMAIN pkgs' = DOMAIN pkgs \cup {n}
                 /\ Live' = Live \cup {n} /\ \A p \in Live : pkgs'[p] = pkgs[p]
    BY <2>1, <1>s, AddedSets
  <2>3. UNCHANGED <<pc, id, retiring, deleted>> BY <1>10 DEF AdminCreates, run
  <2> QED BY <2>2, <2>3, <1>s DEF Retiring
<1> QED BY <1>s, <1>1, <1>2, <1>3, <1>4, <1>5, <1>6, <1>7, <1>8, <1>9, <1>10, Kinds

\* No step changes the declared package_id.
LEMMA Pinned == ASSUME [Next]_vars PROVE pin' = pin
BY DEF Next, vars, Run, JamfStep, Admin, Begin, Locate, Plan, Create, AwaitEarlier, MergeRead, MergePut,
   Upload, Await,
    ApplyPolicy, UpdatePolicy, ApplyLink, PutLinks, ApplyPatchPolicy, UpdatePatchPolicy, ReadPolicies, ReadStages, ReadTitles,
    Delete, Pruned, Finish, Refused, Interrupt, Process, Reject, Release, Define, AdminCreates, AdminEdits, AdminRefers,
    AdminForgets, outside, installs, pruning

\* Every step keeps the name that the run publishes under free of other records.
LEMMA NameFreeStep == ConstantsAssumption /\ Inv /\ [Next]_vars => NameFree'
<1> SUFFICES ASSUME ConstantsAssumption, Inv, [Next]_vars PROVE NameFree' OBVIOUS
<1>s. Shaped /\ InHand /\ NameFree /\ Retiring BY DEF Inv
<1>l. Live \subseteq DOMAIN pkgs /\ Family \subseteq Live BY DEF Live, Family
<1>y. ASSUME Steady, UNCHANGED pin,
             pc' \in Started => pc \in Started /\ UNCHANGED <<id, goal>>
      PROVE  NameFree'
  <2>1. Family' = Family /\ \A p \in Live : pkgs'[p].file = pkgs[p].file BY <1>y, <1>s, SteadySets
  <2>2. OneRecordPerFile' BY <2>1, <1>s, <1>l DEF NameFree, OneRecordPerFile
  <2>3. pc' \in Started => \A p \in Family' : pkgs'[p].file = FileOf[goal'] => p = id'
    BY <2>1, <1>y, <1>s, <1>l DEF NameFree
  <2>4. pc' \in Started /\ pin' = NoId /\ id' # NoId => id' \in Family' /\ pkgs'[id'].file = FileOf[goal']
    BY <2>1, <1>y, <1>s, <1>l DEF NameFree
  <2>5. pin' # NoId => Family' \subseteq {pin'} BY <2>1, <1>y, <1>s DEF NameFree
  <2> QED BY <2>2, <2>3, <2>4, <2>5 DEF NameFree, Started
<1>1. ASSUME Kept PROVE NameFree'
  BY <1>1, <1>y DEF Kept
<1>2. ASSUME Locate PROVE NameFree'
  <2>1. PICK p \in Live \cup {NoId} : /\ pc' = "plan" /\ Chosen(p) /\ id' = p /\ UNCHANGED <<pkgs, pin, goal>>
    BY <1>2 DEF Locate, remote, outside
  <2>2. CASE pin = NoId
    <3>1. \A q \in Family : pkgs[q].file = FileOf[goal] => q = p
      BY <2>1, <2>2 DEF Chosen
    <3>2. p # NoId => p \in Family /\ pkgs[p].file = FileOf[goal]
      BY <2>1, <2>2 DEF Chosen
    <3> QED BY <2>1, <2>2, <3>1, <3>2, <1>s DEF NameFree, OneRecordPerFile, Family, Live
  <2>3. CASE pin # NoId
    <3>1. p = pin BY <2>1, <2>3 DEF Chosen
    <3> QED BY <2>1, <2>3, <3>1, <1>s DEF NameFree, OneRecordPerFile, Family, Live
  <2> QED BY <2>2, <2>3
<1>3. ASSUME Plan PROVE NameFree'
  <2>1. Steady BY <1>3, <1>s DEF Plan, remote, Steady, Alike, Shaped
  <2> QED BY <1>3, <2>1, <1>y DEF Plan, Goto, outside, Started
<1>4. ASSUME Create PROVE NameFree'
  <2>1. Added(New(FileOf[goal], "ours", NoBytes, "NONE")) /\ New(FileOf[goal], "ours", NoBytes, "NONE") \in Package
        /\ New(FileOf[goal], "ours", NoBytes, "NONE").file = FileOf[goal]
        /\ New(FileOf[goal], "ours", NoBytes, "NONE").mark = "ours"
    BY <1>4, <1>s, CreateEffect, Package0
  <2>2. PICK n : /\ n = Len(pkgs) + 1 /\ n \notin DOMAIN pkgs /\ n # NoId /\ \A p \in Live : pkgs'[p] = pkgs[p]
                 /\ pkgs'[n].file = FileOf[goal] /\ Family' = Family \cup {n}
    BY <2>1, <1>s, AddedSets
  <2>3. pc = "create" /\ pc' = "claim" /\ id' = n /\ UNCHANGED <<goal, pin>>
    BY <1>4, <2>2 DEF Create, outside
  <2>4. id = NoId /\ pin = NoId /\ NoId \notin DOMAIN pkgs BY <2>3, <1>s DEF InHand, Started, Shaped, NoId
  <2>5. \A p \in Family : pkgs'[p] = pkgs[p] /\ pkgs[p].file # FileOf[goal] /\ p # n
    BY <2>2, <2>3, <2>4, <1>s, <1>l DEF NameFree, Started
  <2>6. OneRecordPerFile' BY <2>2, <2>5, <1>s DEF NameFree, OneRecordPerFile
  <2> QED BY <2>2, <2>3, <2>4, <2>5, <2>6 DEF NameFree
<1>5. ASSUME AwaitEarlier PROVE NameFree'
  <2>1. Steady BY <1>5, <1>s DEF AwaitEarlier, remote, Steady, Alike, Shaped
  <2> QED BY <1>5, <2>1, <1>y DEF AwaitEarlier, Goto, outside, local, Started
<1>6. ASSUME Upload PROVE NameFree'
  <2>1. Steady BY <1>6, <1>s, UploadEffect
  <2> QED BY <2>1, <1>6, <1>y DEF Upload, outside, local, Started
<1>7. ASSUME Delete PROVE NameFree'
  <2>1. pc = "delete" /\ UNCHANGED <<pc, id, goal, pin>> /\ retiring \subseteq DOMAIN pkgs /\ id \notin retiring
    BY <1>7, <1>s DEF Delete, pruning, outside, Retiring, Started
  <2>2. PICK p \in retiring : DeleteOf(p) BY <1>7, <2>1, <1>s, DeleteEffect
  <2>3. CASE p \notin refs
    <3>1. Live' = Live \ {p} /\ Family' = Family \ {p} /\ \A q \in Live' : pkgs'[q] = pkgs[q]
      BY <2>2, <2>3, <1>s, GoneSets DEF DeleteOf
    <3>2. \A q \in Family' : q \in Family /\ q # p /\ pkgs'[q] = pkgs[q] BY <3>1, <1>l
    <3>3. OneRecordPerFile' BY <3>2, <1>s DEF NameFree, OneRecordPerFile
    <3>4. id \in Family => id \in Family' BY <3>1, <2>1, <2>2
    <3> QED BY <2>1, <3>2, <3>3, <3>4, <1>s DEF NameFree
  <2>4. CASE p \in refs
    <3>1. Steady BY <2>2, <2>4, <1>s DEF DeleteOf, Steady, Alike, Shaped
    <3> QED BY <3>1, <2>1, <1>y
  <2> QED BY <2>3, <2>4
<1>8. ASSUME NEW s \in {"claim", "meta"}, MergePut(s) PROVE NameFree'
  <2>1. /\ Live' = Live /\ id \in Live /\ \A q \in Live \ {id} : pkgs'[q] = pkgs[q]
        /\ \/ pkgs'[id].file = FileOf[goal] /\ pkgs'[id].mark = "ours"
           \/ pkgs'[id].file = pkgs[id].file /\ pkgs'[id].mark = pkgs[id].mark
    BY <1>8, <1>s, MergeSets
  <2>2. pc \in Started /\ UNCHANGED <<id, goal, pin>>
    BY <1>8 DEF MergePut, outside, local, Started
  <2>3. \A q \in Family' : q # id => q \in Family /\ pkgs'[q] = pkgs[q] BY <2>1 DEF Family
  <2>4. id # NoId BY <2>1, <1>s DEF Live, Shaped, NoId
  <2>5. CASE pin = NoId
    <3>1. id \in Family /\ pkgs[id].file = FileOf[goal] BY <2>2, <2>4, <2>5, <1>s DEF NameFree
    <3>2. pkgs'[id].file = FileOf[goal] /\ pkgs'[id].mark = "ours" BY <3>1, <2>1 DEF Family
    <3>3. \A q \in Family' : q \in Family /\ pkgs'[q].file = pkgs[q].file BY <2>3, <3>1, <3>2
    <3>4. OneRecordPerFile' BY <3>3, <1>s DEF NameFree, OneRecordPerFile
    <3>5. id \in Family' BY <3>2, <2>1 DEF Family
    <3> QED BY <2>2, <2>5, <3>2, <3>3, <3>4, <3>5, <1>s DEF NameFree
  <2>6. CASE pin # NoId
    <3>1. id = pin BY <2>2, <2>6, <1>s DEF InHand
    <3>2. Family' \subseteq {pin} BY <2>3, <2>6, <3>1, <1>s DEF NameFree
    <3> QED BY <2>2, <2>6, <3>1, <3>2 DEF NameFree, OneRecordPerFile
  <2> QED BY <2>5, <2>6
<1>9. ASSUME NEW u \in uploads, Process(u) \/ Reject(u) PROVE NameFree'
  <2>1. Steady BY <1>9, <1>s, ProcessEffect
  <2> QED BY <2>1, <1>9, <1>y DEF Process, Reject, run
<1>10. ASSUME NEW f \in File, AdminCreates(f) PROVE NameFree'
  <2>1. Added(New(f, "none", Foreign, "READY")) /\ New(f, "none", Foreign, "READY") \in Package
        /\ New(f, "none", Foreign, "READY").mark = "none"
    BY <1>10, <1>s, CreateEffect, Package0
  <2>2. \A p \in Live : pkgs'[p] = pkgs[p] BY <2>1, <1>s, AddedSets
  <2>3. Family' = Family BY <2>1, <1>s, AddedSets
  <2>4. UNCHANGED <<pc, id, goal, pin>> BY <1>10 DEF AdminCreates, run
  <2>5. OneRecordPerFile' BY <2>2, <2>3, <1>s, <1>l DEF NameFree, OneRecordPerFile
  <2> QED BY <2>2, <2>3, <2>4, <2>5, <1>s, <1>l DEF NameFree
<1> QED BY <1>s, <1>1, <1>2, <1>3, <1>4, <1>5, <1>6, <1>7, <1>8, <1>9, <1>10, Kinds

\* Every step that makes two records share a name is under a name taken meanwhile.
LEMMA NamesStep == ConstantsAssumption /\ Inv /\ [Next]_vars => Names'
<1> SUFFICES ASSUME ConstantsAssumption, Inv, [Next]_vars PROVE Names' OBVIOUS
<1>s. Shaped /\ InHand /\ Names /\ Retiring BY DEF Inv
<1>l. Live \subseteq DOMAIN pkgs BY DEF Live
<1>a. \A p, q \in Live : pkgs[p].file = pkgs[q].file => p = q \/ pkgs[p].file \in taken BY <1>s DEF Names
<1>b. \A u \in uploads : \A p \in Holders(u[1]) : pkgs[p].mark = "ours" \/ u[1] \in taken BY <1>s DEF Names
<1>c. pc \in Started => \A p \in Holders(FileOf[goal]) : p = id \/ FileOf[goal] \in taken BY <1>s DEF Names
<1>y. ASSUME Steady, uploads' \subseteq uploads, taken' = taken,
             pc' \in Started => pc \in Started /\ UNCHANGED <<id, goal>>
      PROVE  Names'
  <2>1. /\ Live' = Live /\ \A f : Holders(f)' = Holders(f)
        /\ \A p \in Live : pkgs'[p].file = pkgs[p].file /\ pkgs'[p].mark = pkgs[p].mark
    BY <1>y, <1>s, SteadySets
  <2>2. \A f : Holders(f) \subseteq Live BY DEF Holders
  <2>3. \A p, q \in Live' : pkgs'[p].file = pkgs'[q].file => p = q \/ pkgs'[p].file \in taken'
    BY <2>1, <1>a, <1>y
  <2>4. ASSUME NEW u \in uploads', NEW p \in Holders(u[1])' PROVE pkgs'[p].mark = "ours" \/ u[1] \in taken'
    <3>1. u \in uploads /\ p \in {q \in Live' : pkgs'[q].file = u[1]} BY <2>4, <1>y DEF Holders
    <3>2. p \in Holders(u[1]) /\ p \in Live BY <3>1, <2>1 DEF Holders
    <3> QED BY <3>1, <3>2, <2>1, <1>b, <1>y
  <2>5. ASSUME pc' \in Started, NEW p \in Holders(FileOf[goal])' PROVE p = id' \/ FileOf[goal'] \in taken'
    <3>1. p \in {q \in Live' : pkgs'[q].file = FileOf[goal']} BY <2>5 DEF Holders
    <3>2. p \in Holders(FileOf[goal]) BY <3>1, <2>1, <2>5, <1>y DEF Holders
    <3> QED BY <3>2, <2>5, <1>c, <1>y
  <2> QED BY <2>3, <2>4, <2>5 DEF Names, Started
<1>1. ASSUME Kept PROVE Names'
  BY <1>1, <1>y DEF Kept
<1>2. ASSUME Locate PROVE Names'
  <2>1. PICK p \in Live \cup {NoId} :
            /\ id' = p /\ UNCHANGED <<pkgs, goal, uploads, taken>>
            /\ p = NoId \/ pkgs[p].file # FileOf[goal] => Holders(FileOf[goal]) \subseteq {p}
    BY <1>2 DEF Locate, remote, outside
  <2>2. \A q \in Holders(FileOf[goal]) : q = p \/ FileOf[goal] \in taken
    <3>1. CASE p = NoId \/ pkgs[p].file # FileOf[goal] BY <3>1, <2>1
    <3>2. CASE p \in Live /\ pkgs[p].file = FileOf[goal] BY <3>2, <1>a DEF Holders
    <3> QED BY <3>1, <3>2, <2>1
  <2> QED BY <2>1, <2>2, <1>a, <1>b DEF Names, Holders, Live
<1>3. ASSUME Plan PROVE Names'
  <2>1. Steady BY <1>3, <1>s DEF Plan, remote, Steady, Alike, Shaped
  <2> QED BY <1>3, <2>1, <1>y DEF Plan, Goto, remote, outside, Started
<1>4. ASSUME Create PROVE Names'
  <2> DEFINE r == New(FileOf[goal], "ours", NoBytes, "NONE")
  <2>1. Added(r) /\ r \in Package /\ r.file = FileOf[goal] /\ r.mark = "ours"
    BY <1>4, <1>s, CreateEffect, Package0
  <2> HIDE DEF r
  <2>2. PICK n : /\ n = Len(pkgs) + 1 /\ n \notin Live /\ Live' = Live \cup {n} /\ \A p \in Live : pkgs'[p] = pkgs[p]
                 /\ pkgs'[n] = r
    BY <2>1, <1>s, AddedSets
  <2>3. pc = "create" /\ pc' = "claim" /\ id' = n /\ UNCHANGED <<goal, uploads, taken>>
    BY <1>4, <2>2 DEF Create, outside
  <2>4. id = NoId /\ NoId \notin Live BY <2>3, <1>s, <1>l DEF InHand, Started, Shaped, NoId
  <2>5. \A p \in Live : pkgs[p].file = FileOf[goal] => FileOf[goal] \in taken
    BY <2>3, <2>4, <1>c DEF Started, Holders
  <2>6. \A p, q \in Live' : pkgs'[p].file = pkgs'[q].file => p = q \/ pkgs'[p].file \in taken'
    BY <2>1, <2>2, <2>3, <2>5, <1>a
  <2>7. \A u \in uploads' : \A p \in Live' : pkgs'[p].file = u[1] => pkgs'[p].mark = "ours" \/ u[1] \in taken'
    BY <2>1, <2>2, <2>3, <1>b DEF Holders
  <2>8. \A p \in Live' : pkgs'[p].file = FileOf[goal'] => p = id' \/ FileOf[goal'] \in taken'
    BY <2>1, <2>2, <2>3, <2>5
  <2> QED BY <2>6, <2>7, <2>8 DEF Names, Holders
<1>5. ASSUME AwaitEarlier PROVE Names'
  <2>1. Steady BY <1>5, <1>s DEF AwaitEarlier, remote, Steady, Alike, Shaped
  <2> QED BY <1>5, <2>1, <1>y DEF AwaitEarlier, Goto, remote, outside, local, Started
<1>6. ASSUME Upload PROVE Names'
  <2>1. Steady /\ uploads' \subseteq uploads \cup {<<FileOf[goal], goal>>} BY <1>6, <1>s, UploadEffect
  <2>2. pc = "upload" /\ pc' \in {"meta", "await"} /\ UNCHANGED <<id, goal, taken>>
    BY <1>6 DEF Upload, outside, local
  <2>3. /\ Live' = Live /\ \A p \in Live : pkgs'[p].file = pkgs[p].file /\ pkgs'[p].mark = pkgs[p].mark
    BY <2>1, <1>s, SteadySets
  <2>4. \A p \in Live : pkgs[p].file = FileOf[goal] => p = id \/ FileOf[goal] \in taken
    BY <2>2, <1>c DEF Started, Holders
  <2>5. pkgs[id].mark = "ours" BY <2>2, <1>s DEF InHand, Claimed, Working, Started
  <2>6. \A p, q \in Live' : pkgs'[p].file = pkgs'[q].file => p = q \/ pkgs'[p].file \in taken'
    BY <2>2, <2>3, <1>a
  <2>7. ASSUME NEW u \in uploads', NEW p \in Live', pkgs'[p].file = u[1]
        PROVE  pkgs'[p].mark = "ours" \/ u[1] \in taken'
    <3>1. CASE u \in uploads BY <3>1, <2>7, <2>2, <2>3, <1>b DEF Holders
    <3>2. CASE u = <<FileOf[goal], goal>> BY <3>2, <2>7, <2>2, <2>3, <2>4, <2>5
    <3> QED BY <3>1, <3>2, <2>1
  <2>8. \A p \in Live' : pkgs'[p].file = FileOf[goal'] => p = id' \/ FileOf[goal'] \in taken'
    BY <2>2, <2>3, <2>4
  <2> QED BY <2>6, <2>7, <2>8 DEF Names, Holders
<1>7. ASSUME Delete PROVE Names'
  <2>1. pc = "delete" /\ UNCHANGED <<pc, id, goal, taken>> /\ retiring \subseteq DOMAIN pkgs
    BY <1>7, <1>s DEF Delete, pruning, outside, Retiring, Started
  <2>2. PICK p \in retiring : DeleteOf(p) BY <1>7, <2>1, <1>s, DeleteEffect
  <2>3. CASE p \notin refs
    <3>1. uploads' \subseteq uploads /\ \A q \in Live' : q \in Live /\ pkgs'[q] = pkgs[q]
      BY <2>2, <2>3, <1>s, GoneSets DEF DeleteOf
    <3> QED BY <2>1, <3>1, <1>a, <1>b, <1>c DEF Names, Holders
  <2>4. CASE p \in refs
    <3>1. Steady /\ uploads' = uploads BY <2>2, <2>4, <1>s DEF DeleteOf, Steady, Alike, Shaped
    <3> QED BY <3>1, <2>1, <1>y
  <2> QED BY <2>3, <2>4
<1>8. ASSUME NEW s \in {"claim", "meta"}, MergePut(s) PROVE Names'
  <2>1. /\ Live' = Live /\ id \in Live /\ \A q \in Live \ {id} : pkgs'[q] = pkgs[q]
        /\ \/ pkgs'[id].file = FileOf[goal] /\ pkgs'[id].mark = "ours"
           \/ pkgs'[id].file = pkgs[id].file /\ pkgs'[id].mark = pkgs[id].mark
    BY <1>8, <1>s, MergeSets
  <2>2. pc \in Started /\ UNCHANGED <<id, goal, uploads, taken>>
    BY <1>8 DEF MergePut, outside, local, Started
  <2>3. \A p \in Live : pkgs[p].file = FileOf[goal] => p = id \/ FileOf[goal] \in taken
    BY <2>2, <1>c DEF Holders
  <2>4. \A p, q \in Live' : pkgs'[p].file = pkgs'[q].file => p = q \/ pkgs'[p].file \in taken'
    BY <2>1, <2>2, <2>3, <1>a
  <2>5. \A u \in uploads' : \A p \in Live' : pkgs'[p].file = u[1] => pkgs'[p].mark = "ours" \/ u[1] \in taken'
    BY <2>1, <2>2, <1>b DEF Holders
  <2>6. \A p \in Live' : pkgs'[p].file = FileOf[goal'] => p = id' \/ FileOf[goal'] \in taken'
    BY <2>1, <2>2, <2>3
  <2> QED BY <2>4, <2>5, <2>6 DEF Names, Holders
<1>9. ASSUME NEW u \in uploads, Process(u) \/ Reject(u) PROVE Names'
  <2>1. Steady /\ uploads' \subseteq uploads BY <1>9, <1>s, ProcessEffect
  <2> QED BY <2>1, <1>9, <1>y DEF Process, Reject, run, history
<1>10. ASSUME NEW f \in File, AdminCreates(f) PROVE Names'
  <2> DEFINE r == New(f, "none", Foreign, "READY")
  <2>1. Added(r) /\ r \in Package /\ r.file = f BY <1>10, <1>s, CreateEffect, Package0
  <2> HIDE DEF r
  <2>2. PICK n : /\ n \notin Live /\ Live' = Live \cup {n} /\ pkgs'[n] = r /\ \A p \in Live : pkgs'[p] = pkgs[p]
    BY <2>1, <1>s, AddedSets
  <2>3. UNCHANGED <<pc, id, goal, uploads>> BY <1>10 DEF AdminCreates, run
  <2>4. /\ taken \subseteq taken'
        /\ (pc # "idle" \/ \E u \in uploads : u[1] = f) => f \in taken'
        /\ \A p \in Live : pkgs[p].file # f
    BY <1>10 DEF AdminCreates, Holders
  <2>5. \A p, q \in Live' : pkgs'[p].file = pkgs'[q].file => p = q \/ pkgs'[p].file \in taken'
    BY <2>1, <2>2, <2>4, <1>a
  <2>6. \A u \in uploads' : \A p \in Live' : pkgs'[p].file = u[1] => pkgs'[p].mark = "ours" \/ u[1] \in taken'
    BY <2>1, <2>2, <2>3, <2>4, <1>b DEF Holders
  <2>7. pc' \in Started => \A p \in Live' : pkgs'[p].file = FileOf[goal'] => p = id' \/ FileOf[goal'] \in taken'
    BY <2>1, <2>2, <2>3, <2>4, <1>c DEF Holders, Started
  <2> QED BY <2>5, <2>6, <2>7 DEF Names, Holders
<1> QED BY <1>s, <1>1, <1>2, <1>3, <1>4, <1>5, <1>6, <1>7, <1>8, <1>9, <1>10, Kinds

\* Every step keeps at most one transfer to a file, shown by the record of that name.
LEMMA TransfersStep == ConstantsAssumption /\ Inv /\ [Next]_vars => Transfers'
<1> SUFFICES ASSUME ConstantsAssumption, Inv, [Next]_vars, pin' = NoId PROVE Transfers'
  BY DEF Transfers
<1>s. Shaped /\ InHand /\ NameFree /\ Retiring BY DEF Inv
<1>l. Live \subseteq DOMAIN pkgs /\ Family \subseteq Live /\ NoId \notin Live
  BY <1>s DEF Live, Family, Shaped, NoId
<1>p. pin = NoId BY <1>s, Pinned
<1>a. /\ \A u, w \in uploads : u[1] = w[1] => u = w
      /\ \A u \in uploads : \E p \in Family : pkgs[p].file = u[1] /\ pkgs[p].state = "PENDING"
  BY <1>p DEF Inv, Transfers, OneTransferPerFile
<1>b. pc = "plan" /\ id # NoId /\ cur.state # "PENDING" => \A u \in uploads : u[1] # FileOf[goal]
  BY <1>p DEF Inv, Transfers
<1>c. pc \in Onward => \A u \in uploads : u[1] # FileOf[goal]
  BY <1>p DEF Inv, Transfers, Onward
<1>n. pc \in Started => /\ \A p \in Family : pkgs[p].file = FileOf[goal] => p = id
                        /\ id # NoId => id \in Family /\ pkgs[id].file = FileOf[goal]
  BY <1>s, <1>p DEF NameFree
<1>y. ASSUME UNCHANGED uploads, Family \subseteq Family',
             \A p \in Family : pkgs'[p].file = pkgs[p].file /\ pkgs'[p].state = pkgs[p].state,
             pc' = "plan" => pc = "plan" /\ UNCHANGED <<id, goal, cur>>,
             pc' \in Onward => UNCHANGED goal /\ \A u \in uploads : u[1] # FileOf[goal]
      PROVE  Transfers'
  BY <1>y, <1>a, <1>b DEF Transfers, OneTransferPerFile, Onward
<1>z. ASSUME UNCHANGED <<pkgs, uploads>>,
             pc' = "plan" => pc = "plan" /\ UNCHANGED <<id, goal, cur>>,
             pc' \in Onward => UNCHANGED goal /\ \A u \in uploads : u[1] # FileOf[goal]
      PROVE  Transfers'
  <2>1. Family' = Family BY <1>z DEF Family, Live
  <2> QED BY <2>1, <1>y, <1>z
<1>1. ASSUME Kept PROVE Transfers'
  <2>1. Family' = Family /\ \A p \in Family : pkgs'[p].file = pkgs[p].file /\ pkgs'[p].state = pkgs[p].state
    BY <1>1, <1>s, <1>l, SteadySets DEF Kept
  <2>2. uploads' = uploads BY <1>1 DEF Kept
  <2>3. pc' = "plan" => pc = "plan" /\ UNCHANGED <<id, goal, cur>> BY <1>1 DEF Kept, Started
  <2>4. pc' \in Onward => UNCHANGED goal /\ \A u \in uploads : u[1] # FileOf[goal]
    BY <1>1, <1>c DEF Kept, Started, Onward
  <2> QED BY <2>1, <2>2, <2>3, <2>4, <1>y
<1>2. ASSUME Locate PROVE Transfers'
  <2>1. PICK p \in Live \cup {NoId} : /\ pc' = "plan" /\ Chosen(p) /\ id' = p /\ UNCHANGED <<pkgs, goal, uploads>>
                                     /\ cur' = (IF p = NoId THEN Gone ELSE pkgs[p])
    BY <1>2 DEF Locate, remote, outside
  <2>2. \A q \in Family : pkgs[q].file = FileOf[goal] => q = p BY <2>1, <1>p DEF Chosen
  <2>3. Family' = Family BY <2>1 DEF Family, Live
  <2>4. p # NoId /\ cur'.state # "PENDING" => \A u \in uploads : u[1] # FileOf[goal] BY <2>1, <2>2, <1>a
  <2> QED BY <2>1, <2>3, <2>4, <1>a DEF Transfers, OneTransferPerFile
<1>3. ASSUME Plan PROVE Transfers'
  <2>1. pc = "plan" /\ pc' = AfterPlan /\ UNCHANGED <<pkgs, uploads, goal, id, cur>>
    BY <1>3 DEF Plan, Goto, remote
  <2>2. ASSUME pc' \in Onward PROVE \A u \in uploads : u[1] # FileOf[goal]
    <3>1. CASE id = NoId BY <3>1, <2>1, <1>a, <1>n, <1>l DEF Started
    <3>2. CASE id # NoId
      <4>1. cur.file = FileOf[goal] BY <3>2, <2>1, <1>n, <1>s DEF Started, InHand
      <4>2. pc' \in {"earlier", "claim"} /\ (pc' = "claim" => Matches(cur) \/ cur.state \notin {"PENDING", "READY"})
        BY <2>1, <3>2, <4>1 DEF AfterPlan
      <4>3. cur.state # "PENDING" BY <4>2, <2>2 DEF Matches, Onward
      <4> QED BY <4>3, <3>2, <2>1, <1>b
    <3> QED BY <3>1, <3>2
  <2>3. pc' # "plan" BY <2>1 DEF AfterPlan
  <2> QED BY <2>1, <2>2, <2>3, <1>z
<1>4. ASSUME Create PROVE Transfers'
  <2>1. Added(New(FileOf[goal], "ours", NoBytes, "NONE")) /\ New(FileOf[goal], "ours", NoBytes, "NONE") \in Package
        /\ New(FileOf[goal], "ours", NoBytes, "NONE").mark = "ours"
    BY <1>4, <1>s, CreateEffect, Package0
  <2>2. Family \subseteq Family' /\ \A p \in Live : pkgs'[p] = pkgs[p] BY <2>1, <1>s, AddedSets
  <2>3. pc = "create" /\ pc' = "claim" /\ UNCHANGED <<uploads, goal>> BY <1>4 DEF Create
  <2> QED BY <2>2, <2>3, <1>l, <1>c, <1>y DEF Onward
<1>5. ASSUME AwaitEarlier PROVE Transfers'
  <2>1. pc = "earlier" /\ pc' = "claim" /\ pkgs[id].state = "READY" /\ UNCHANGED <<pkgs, uploads, goal>>
    BY <1>5 DEF AwaitEarlier, Goto, remote, local
  <2>2. \A u \in uploads : u[1] # FileOf[goal] BY <2>1, <1>a, <1>n DEF Started
  <2> QED BY <2>1, <2>2, <1>z
<1>6. ASSUME Upload PROVE Transfers'
  <2>1. CASE ~Matches(cur)
    <3>1. /\ Steady /\ uploads' = uploads \cup {<<FileOf[goal], goal>>} /\ Put(id, pkgs'[id])
          /\ pkgs'[id].state = "PENDING"
      BY <1>6, <2>1, <1>s, UploadEffect
    <3>2. pc = "upload" /\ pc' \in {"meta", "await"} BY <1>6 DEF Upload
    <3>3. id \in Family /\ pkgs[id].file = FileOf[goal]
      BY <3>2, <1>n, <1>s DEF InHand, Working, Started
    <3>4. Family' = Family /\ \A p \in Live : pkgs'[p].file = pkgs[p].file BY <3>1, <1>s, SteadySets
    <3>5. \A p \in Family : p # id => pkgs'[p] = pkgs[p] BY <3>1, <1>l DEF Put
    <3>6. OneTransferPerFile' BY <3>1, <3>2, <1>a, <1>c DEF OneTransferPerFile, Onward
    <3>7. ASSUME NEW u \in uploads' PROVE \E p \in Family' : pkgs'[p].file = u[1] /\ pkgs'[p].state = "PENDING"
      <4>1. CASE u = <<FileOf[goal], goal>> BY <4>1, <3>1, <3>3, <3>4, <1>l
      <4>2. CASE u \in uploads
        <5>1. PICK p \in Family : pkgs[p].file = u[1] /\ pkgs[p].state = "PENDING" BY <4>2, <1>a
        <5>2. p \in Family' /\ pkgs'[p].file = u[1] BY <5>1, <3>4, <1>l
        <5>3. pkgs'[p].state = "PENDING" BY <5>1, <3>5, <3>1
        <5> QED BY <5>2, <5>3
      <4> QED BY <4>1, <4>2, <3>1
    <3> QED BY <3>2, <3>6, <3>7 DEF Transfers
  <2>2. CASE Matches(cur)
    <3>1. pc' = "meta" /\ UNCHANGED <<pkgs, uploads>> BY <1>6, <2>2 DEF Upload
    <3> QED BY <3>1, <1>z DEF Onward
  <2> QED BY <2>1, <2>2
<1>7. ASSUME Delete PROVE Transfers'
  <2>1. pc = "delete" /\ UNCHANGED <<pc, id, goal>> /\ retiring \subseteq DOMAIN pkgs
    BY <1>7, <1>s DEF Delete, pruning, outside, Retiring, Started
  <2>2. PICK p \in retiring : DeleteOf(p) BY <1>7, <2>1, <1>s, DeleteEffect
  <2>3. CASE p \notin refs
    <3>1. /\ uploads' = {u \in uploads : u[1] # pkgs[p].file} /\ Family' = Family \ {p}
          /\ \A q \in Family' : pkgs'[q] = pkgs[q]
      BY <2>2, <2>3, <1>s, GoneSets DEF DeleteOf, Family
    <3>2. OneTransferPerFile' BY <3>1, <1>a DEF OneTransferPerFile
    <3>3. ASSUME NEW u \in uploads' PROVE \E q \in Family' : pkgs'[q].file = u[1] /\ pkgs'[q].state = "PENDING"
      BY <3>1, <1>a
    <3> QED BY <2>1, <3>2, <3>3 DEF Transfers
  <2>4. CASE p \in refs
    <3>1. UNCHANGED <<pkgs, uploads>> BY <2>2, <2>4 DEF DeleteOf
    <3> QED BY <3>1, <2>1, <1>z DEF Onward
  <2> QED BY <2>3, <2>4
<1>8. ASSUME NEW s \in {"claim", "meta"}, MergePut(s) PROVE Transfers'
  <2>1. /\ Live' = Live /\ id \in Live /\ \A q \in Live \ {id} : pkgs'[q] = pkgs[q]
        /\ \/ pkgs'[id].file = FileOf[goal] /\ pkgs'[id].mark = "ours"
           \/ pkgs'[id].file = pkgs[id].file /\ pkgs'[id].mark = pkgs[id].mark
        /\ pkgs'[id].state = pkgs[id].state
    BY <1>8, <1>s, MergeSets
  <2>2. /\ pc \in Started /\ UNCHANGED <<goal, uploads>> /\ pc' # "plan"
        /\ pc' \in Onward => pc = "claimPut"
    BY <1>8 DEF MergePut, AfterMerge, local, Started, Onward
  <2>3. id \in Family /\ pkgs[id].file = FileOf[goal] BY <2>1, <2>2, <1>n, <1>l
  <2>4. pkgs'[id].file = FileOf[goal] /\ pkgs'[id].mark = "ours" BY <2>1, <2>3 DEF Family
  <2>5. \A q \in Family : pkgs'[q].file = pkgs[q].file /\ pkgs'[q].state = pkgs[q].state
    BY <2>1, <2>3, <2>4, <1>l
  <2>6. Family \subseteq Family' BY <2>1, <2>4 DEF Family
  <2> QED BY <2>2, <2>5, <2>6, <1>c, <1>y DEF Onward
<1>9. ASSUME NEW u \in uploads, Process(u) \/ Reject(u) PROVE Transfers'
  <2>1. Steady /\ uploads' = uploads \ {u} /\ \A p \in Live \ Holders(u[1]) : pkgs'[p] = pkgs[p]
    BY <1>9, <1>s, ProcessEffect
  <2>2. UNCHANGED <<pc, id, goal, cur>> BY <1>9 DEF Process, Reject, run
  <2>3. Family' = Family BY <2>1, <1>s, SteadySets
  <2>4. OneTransferPerFile' BY <2>1, <1>a DEF OneTransferPerFile
  <2>5. ASSUME NEW w \in uploads' PROVE \E p \in Family' : pkgs'[p].file = w[1] /\ pkgs'[p].state = "PENDING"
    <3>1. w \in uploads /\ w[1] # u[1] BY <2>1, <1>a
    <3>2. PICK p \in Family : pkgs[p].file = w[1] /\ pkgs[p].state = "PENDING" BY <3>1, <1>a
    <3>3. pkgs'[p] = pkgs[p] BY <3>1, <3>2, <2>1, <1>l DEF Holders
    <3> QED BY <3>2, <3>3, <2>3
  <2> QED BY <2>1, <2>2, <2>4, <2>5, <1>b, <1>c DEF Transfers, Onward
<1>10. ASSUME NEW f \in File, AdminCreates(f) PROVE Transfers'
  <2>1. Added(New(f, "none", Foreign, "READY")) /\ New(f, "none", Foreign, "READY") \in Package
        /\ New(f, "none", Foreign, "READY").mark = "none"
    BY <1>10, <1>s, CreateEffect, Package0
  <2>2. Family \subseteq Family' /\ \A p \in Live : pkgs'[p] = pkgs[p] BY <2>1, <1>s, AddedSets
  <2>3. UNCHANGED <<pc, id, goal, cur, uploads>> BY <1>10 DEF AdminCreates, run
  <2> QED BY <2>2, <2>3, <1>l, <1>c, <1>y
<1> QED BY <1>s, <1>1, <1>2, <1>3, <1>4, <1>5, <1>6, <1>7, <1>8, <1>9, <1>10, Kinds

\* A record that is gone stays gone, and one that has held content keeps some.
Lasting ==
    /\ DOMAIN pkgs \subseteq DOMAIN pkgs'
    /\ \A p \in DOMAIN pkgs : p \in Live' => p \in Live /\ (pkgs[p].bytes # NoBytes => pkgs'[p].bytes # NoBytes)

\* Every step keeps what records last by.
LEMMA RecordsLast == ASSUME ConstantsAssumption, Inv, [Next]_vars PROVE Lasting
<1>s. Shaped /\ InHand /\ Retiring BY DEF Inv
<1>y. ASSUME Steady PROVE Lasting
  <2>1. DOMAIN pkgs' = DOMAIN pkgs /\ Live' = Live BY <1>y, <1>s, SteadySets
  <2>2. \A p \in Live : pkgs[p].bytes # NoBytes => pkgs'[p].bytes # NoBytes BY <1>y DEF Steady, Alike, Live
  <2> QED BY <2>1, <2>2 DEF Lasting
<1>z. ASSUME UNCHANGED pkgs PROVE Lasting BY <1>z DEF Lasting, Live
<1>a. ASSUME NEW r \in Package, Added(r) PROVE Lasting
  <2>1. PICK n : /\ n \notin DOMAIN pkgs /\ DOMAIN pkgs' = DOMAIN pkgs \cup {n} /\ Live' = Live \cup {n}
                 /\ \A p \in Live : pkgs'[p] = pkgs[p]
    BY <1>a, <1>s, AddedSets
  <2> QED BY <2>1 DEF Lasting
<1>1. ASSUME Kept PROVE Lasting BY <1>1, <1>y DEF Kept
<1>2. ASSUME Locate PROVE Lasting BY <1>2, <1>z DEF Locate, remote
<1>3. ASSUME Plan PROVE Lasting BY <1>3, <1>z DEF Plan, remote
<1>4. ASSUME Create PROVE Lasting BY <1>4, <1>s, <1>a, CreateEffect, Package0
<1>5. ASSUME AwaitEarlier PROVE Lasting BY <1>5, <1>z DEF AwaitEarlier, remote
<1>6. ASSUME Upload PROVE Lasting BY <1>6, <1>s, <1>y, UploadEffect
<1>7. ASSUME Delete PROVE Lasting
  <2>1. retiring \subseteq DOMAIN pkgs BY <1>7, <1>s DEF Delete, Retiring, Started
  <2>2. PICK p \in retiring : DeleteOf(p) BY <1>7, <2>1, <1>s, DeleteEffect
  <2>3. CASE p \notin refs
    <3>1. DOMAIN pkgs' = DOMAIN pkgs /\ \A q \in Live' : q \in Live /\ pkgs'[q] = pkgs[q]
      BY <2>2, <2>3, <1>s, GoneSets DEF DeleteOf
    <3> QED BY <3>1 DEF Lasting
  <2>4. CASE p \in refs BY <2>2, <2>4, <1>z DEF DeleteOf
  <2> QED BY <2>3, <2>4
<1>8. ASSUME NEW s \in {"claim", "meta"}, MergePut(s) PROVE Lasting
  <2>1. /\ Live' = Live /\ DOMAIN pkgs' = DOMAIN pkgs /\ \A q \in Live \ {id} : pkgs'[q] = pkgs[q]
        /\ pkgs'[id].bytes = pkgs[id].bytes
    BY <1>8, <1>s, MergeSets
  <2> QED BY <2>1 DEF Lasting
<1>9. ASSUME NEW u \in uploads, Process(u) \/ Reject(u) PROVE Lasting BY <1>9, <1>s, <1>y, ProcessEffect
<1>10. ASSUME NEW f \in File, AdminCreates(f) PROVE Lasting BY <1>10, <1>s, <1>a, CreateEffect, Package0
<1> QED BY <1>s, <1>1, <1>2, <1>3, <1>4, <1>5, <1>6, <1>7, <1>8, <1>9, <1>10, Kinds

\* Every step keeps live policies to packages that have held content.
LEMMA CompleteStep == ConstantsAssumption /\ Inv /\ [Next]_vars => Complete'
<1> SUFFICES ASSUME ConstantsAssumption, Inv, [Next]_vars PROVE Complete' OBVIOUS
<1>s. Shaped /\ InHand /\ Complete BY DEF Inv
<1>t. Lasting BY RecordsLast
<1>i. InHand' BY InHandStep
<1>l. Live \subseteq DOMAIN pkgs BY DEF Live
<1>e. pc' \in {"policy", "policyPut"} /\ pc \in {"policy", "policyPut"} /\ id' = id => pkgs'[id'].bytes # NoBytes
  <2>1. pc' \in {"policy", "policyPut"} => id' \in Live' BY <1>i DEF InHand, Working, Started
  <2>2. pc \in {"policy", "policyPut"} => id \in DOMAIN pkgs BY <1>s, <1>l DEF InHand, Working, Started
  <2> QED BY <2>1, <2>2, <1>s, <1>t DEF Complete, Lasting
<1>y. ASSUME policy' \in {policy, None},
             pc' \in {"policy", "policyPut"} => pkgs'[id'].bytes # NoBytes
      PROVE  Complete'
  <2>1. LivePolicyHasContent' BY <1>y, <1>s, <1>t DEF Complete, LivePolicyHasContent, Lasting
  <2>2. policy' # None => policy'.pkgs \subseteq DOMAIN pkgs' BY <1>y, <1>s, <1>t DEF Complete, Lasting
  <2> QED BY <2>1, <2>2, <1>y DEF Complete
<1>z. ASSUME policy' \in {policy, None},
             pc' \in {"policy", "policyPut"} => pc \in {"policy", "policyPut"} /\ id' = id
      PROVE  Complete'
  BY <1>z, <1>e, <1>y
<1>1. ASSUME Begin PROVE Complete'
  BY <1>1, <1>z DEF Begin, remote, outside, Goto, AfterPlan, AfterPatch
<1>2. ASSUME Locate PROVE Complete'
  <2>1. UNCHANGED policy /\ pc' = "plan" BY <1>2 DEF Locate, remote
  <2> QED BY <2>1, <1>z
<1>3. ASSUME Plan PROVE Complete'
  BY <1>3, <1>z DEF Plan, remote, outside, Goto, AfterPlan, AfterPatch
<1>4. ASSUME Create PROVE Complete'
  <2>1. UNCHANGED policy /\ pc' = "claim" BY <1>4 DEF Create
  <2> QED BY <2>1, <1>z
<1>5. ASSUME AwaitEarlier PROVE Complete'
  BY <1>5, <1>z DEF AwaitEarlier, remote, outside, local, Goto, AfterPlan, AfterPatch
<1>6. ASSUME NEW s \in {"claim", "meta"}, MergeRead(s) PROVE Complete'
  <2>1. UNCHANGED policy BY <1>6 DEF MergeRead, remote
  <2>2. pc' = "policy" => Matches(cur') BY <1>6 DEF MergeRead, AfterMerge
  <2>3. pc' # "policyPut" BY <1>6 DEF MergeRead, AfterMerge
  <2>4. ASSUME pc' = "policy" PROVE pkgs'[id'].bytes # NoBytes
    <3>1. id' # NoId /\ (cur'.bytes # NoBytes => pkgs'[id'].bytes # NoBytes)
      BY <2>4, <1>i DEF InHand, Working, Started
    <3>2. goal \in Version /\ goal # NoBytes BY <1>s DEF Shaped, ConstantsAssumption, NoBytes
    <3>3. cur'.bytes = goal BY <2>2, <2>4 DEF Matches
    <3> QED BY <3>1, <3>2, <3>3
  <2> QED BY <2>1, <2>3, <2>4, <1>y
<1>7. ASSUME NEW s \in {"claim", "meta"}, MergePut(s) PROVE Complete'
  <2>1. UNCHANGED policy BY <1>7 DEF MergePut
  <2>2. pc' = "policy" => Matches(cur') BY <1>7 DEF MergePut, AfterMerge
  <2>3. pc' # "policyPut" BY <1>7 DEF MergePut, AfterMerge
  <2>4. ASSUME pc' = "policy" PROVE pkgs'[id'].bytes # NoBytes
    <3>1. id' # NoId /\ (cur'.bytes # NoBytes => pkgs'[id'].bytes # NoBytes)
      BY <2>4, <1>i DEF InHand, Working, Started
    <3>2. goal \in Version /\ goal # NoBytes BY <1>s DEF Shaped, ConstantsAssumption, NoBytes
    <3>3. cur'.bytes = goal BY <2>2, <2>4 DEF Matches
    <3> QED BY <3>1, <3>2, <3>3
  <2> QED BY <2>1, <2>3, <2>4, <1>y
<1>8. ASSUME Upload PROVE Complete'
  <2>1. UNCHANGED policy /\ pc' \in {"meta", "await"} BY <1>8 DEF Upload
  <2> QED BY <2>1, <1>z
<1>9. ASSUME Await PROVE Complete'
  BY <1>9, <1>z DEF Await, remote, outside, local, AfterPlan, AfterPatch
<1>10. ASSUME ApplyPolicy PROVE Complete'
  <2>1. /\ pc \in {"policy", "policyPut"} /\ UNCHANGED <<pkgs, id>>
        /\ policy' = policy \/ \E v \in BOOLEAN : policy' = [pkgs |-> {id}, live |-> v]
    BY <1>10 DEF ApplyPolicy, installs
  <2>2. id \in DOMAIN pkgs /\ id \in Live BY <2>1, <1>s DEF InHand, Working, Started
  <2>3. pkgs[id].bytes # NoBytes BY <2>1, <1>s DEF Complete
  <2>4. CASE policy' = policy BY <2>4, <2>1, <1>e, <1>y
  <2>5. ASSUME NEW v \in BOOLEAN, policy' = [pkgs |-> {id}, live |-> v] PROVE Complete'
    <3>1. policy'.pkgs = {id} BY <2>5
    <3>2. LivePolicyHasContent' BY <3>1, <2>1, <2>3 DEF LivePolicyHasContent
    <3> QED BY <3>1, <3>2, <2>1, <2>2, <2>3 DEF Complete
  <2> QED BY <2>1, <2>4, <2>5
<1>11. ASSUME UpdatePolicy PROVE Complete'
  <2>1. /\ pc \in {"policy", "policyPut"} /\ UNCHANGED <<pkgs, id>>
        /\ policy' = policy \/ \E v \in BOOLEAN : policy' = [pkgs |-> {id}, live |-> v]
    BY <1>11 DEF UpdatePolicy, installs, Goto
  <2>2. id \in DOMAIN pkgs /\ id \in Live BY <2>1, <1>s DEF InHand, Working, Started
  <2>3. pkgs[id].bytes # NoBytes BY <2>1, <1>s DEF Complete
  <2>4. CASE policy' = policy BY <2>4, <2>1, <1>e, <1>y
  <2>5. ASSUME NEW v \in BOOLEAN, policy' = [pkgs |-> {id}, live |-> v] PROVE Complete'
    <3>1. policy'.pkgs = {id} BY <2>5
    <3>2. LivePolicyHasContent' BY <3>1, <2>1, <2>3 DEF LivePolicyHasContent
    <3> QED BY <3>1, <3>2, <2>1, <2>2, <2>3 DEF Complete
  <2> QED BY <2>1, <2>4, <2>5
<1>12. ASSUME ApplyLink PROVE Complete'
  BY <1>12, <1>z DEF ApplyLink, installs, outside, AfterPlan, AfterPatch
<1>13. ASSUME PutLinks PROVE Complete'
  BY <1>13, <1>z DEF PutLinks, installs, outside, Goto, AfterPlan, AfterPatch
<1>14. ASSUME ApplyPatchPolicy PROVE Complete'
  BY <1>14, <1>z DEF ApplyPatchPolicy, installs, outside, AfterPlan, AfterPatch
<1>15. ASSUME UpdatePatchPolicy PROVE Complete'
  BY <1>15, <1>z DEF UpdatePatchPolicy, installs, outside, AfterPlan, AfterPatch
<1>16. ASSUME ReadPolicies PROVE Complete'
  <2>1. UNCHANGED policy /\ pc' \in {"refs2", "refs3", "delete", "done"}
    BY <1>16 DEF ReadPolicies, Goto, pruning
  <2> QED BY <2>1, <1>z
<1>17. ASSUME ReadStages PROVE Complete'
  <2>1. UNCHANGED policy /\ pc' \in {"refs2", "refs3", "delete", "done"}
    BY <1>17 DEF ReadStages, Goto, pruning
  <2> QED BY <2>1, <1>z
<1>18. ASSUME ReadTitles PROVE Complete'
  <2>1. UNCHANGED policy /\ pc' \in {"refs2", "refs3", "delete", "done"}
    BY <1>18 DEF ReadTitles, Goto, pruning
  <2> QED BY <2>1, <1>z
<1>19. ASSUME Delete PROVE Complete'
  <2>1. UNCHANGED policy /\ pc' \in {"refs2", "refs3", "delete", "done"} BY <1>19 DEF Delete, Goto, pruning
  <2> QED BY <2>1, <1>z
<1>20. ASSUME Pruned PROVE Complete'
  <2>1. UNCHANGED policy /\ pc' \in {"refs2", "refs3", "delete", "done"} BY <1>20 DEF Pruned, Goto, pruning
  <2> QED BY <2>1, <1>z
<1>21. ASSUME Finish PROVE Complete'
  BY <1>21, <1>z DEF Finish, remote, outside, local, Goto, AfterPlan, AfterPatch
<1>22. ASSUME Refused PROVE Complete'
  BY <1>22, <1>z DEF Refused, remote, outside, local, AfterPlan, AfterPatch
<1>23. ASSUME Interrupt PROVE Complete'
  BY <1>23, <1>z DEF Interrupt, remote, local, AfterPlan, AfterPatch
<1>24. ASSUME NEW u \in uploads, Process(u) \/ Reject(u) PROVE Complete'
  BY <1>24, <1>z DEF Process, Reject, run
<1>25. ASSUME NEW v \in Version, Release(v) PROVE Complete'
  BY <1>25, <1>z DEF Release, run, remote
<1>26. ASSUME NEW v \in Version, Define(v) PROVE Complete'
  BY <1>26, <1>z DEF Define, run, remote
<1>27. ASSUME NEW f \in File, AdminCreates(f) PROVE Complete'
  BY <1>27, <1>z DEF AdminCreates, run, remote
<1>28. ASSUME NEW p \in Live, AdminEdits(p) PROVE Complete'
  BY <1>28, <1>z DEF AdminEdits, run, remote
<1>29. ASSUME NEW p \in Live, AdminRefers(p) PROVE Complete'
  <2>1. UNCHANGED <<pkgs, pc, id>> BY <1>29 DEF AdminRefers, run
  <2>2. policy' = policy \/ policy' = [pkgs |-> {p}, live |-> TRUE] BY <1>29 DEF AdminRefers
  <2>3. pkgs[p].bytes # NoBytes BY <1>29 DEF AdminRefers
  <2>4. CASE policy' = policy BY <2>4, <2>1, <1>z
  <2>5. CASE policy' = [pkgs |-> {p}, live |-> TRUE]
    <3>1. policy'.pkgs = {p} BY <2>5
    <3>2. LivePolicyHasContent' BY <3>1, <2>1, <2>3 DEF LivePolicyHasContent
    <3> QED BY <3>1, <3>2, <2>1, <1>l, <1>s DEF Complete
  <2> QED BY <2>2, <2>4, <2>5
<1>30. ASSUME AdminForgets PROVE Complete'
  BY <1>30, <1>z DEF AdminForgets, run, remote
<1>31. ASSUME UNCHANGED vars PROVE Complete'
  BY <1>31, <1>z DEF vars, remote, run
<1> QED BY <1>1, <1>2, <1>3, <1>4, <1>5, <1>6, <1>7, <1>8, <1>9, <1>10, <1>11, <1>12, <1>13, <1>14, <1>15,
   <1>16, <1>17, <1>18, <1>19, <1>20, <1>21, <1>22, <1>23, <1>24, <1>25, <1>26, <1>27, <1>28, <1>29, <1>30,
   <1>31 DEF Next, Run, JamfStep, Admin

\* While it prunes, every step keeps what the run has not read among the new references.
LEMMA ReferredStep == ConstantsAssumption /\ Inv /\ [Next]_vars => Referred'
<1> SUFFICES ASSUME ConstantsAssumption, Inv, [Next]_vars PROVE Referred' OBVIOUS
<1>s. Referred BY DEF Inv
<1> DEFINE Pruning == {"refs2", "refs3", "delete"}
<1>n. ASSUME pc' \notin Pruning PROVE Referred' BY <1>n DEF Referred
<1>y. ASSUME UNCHANGED <<policy, others, stages, links, refs>>, late' = late, pc' \in Pruning => pc' = pc
      PROVE  Referred'
  BY <1>y, <1>s DEF Referred, ByPolicies, ByTitles
<1> HIDE DEF Pruning
<1>1. ASSUME Begin PROVE Referred'
  BY <1>1, <1>n DEF Begin, remote, outside, Goto, AfterPlan, AfterPatch, AfterMerge, Pruning
<1>2. ASSUME Locate PROVE Referred'
  BY <1>2, <1>n DEF Locate, Pruning
<1>3. ASSUME Plan PROVE Referred'
  BY <1>3, <1>n DEF Plan, remote, outside, Goto, AfterPlan, AfterPatch, AfterMerge, Pruning
<1>4. ASSUME Create PROVE Referred'
  BY <1>4, <1>n DEF Create, Pruning
<1>5. ASSUME AwaitEarlier PROVE Referred'
  BY <1>5, <1>n DEF AwaitEarlier, remote, outside, local, Goto, AfterPlan, AfterPatch, AfterMerge, Pruning
<1>6. ASSUME NEW s \in {"claim", "meta"}, MergeRead(s) PROVE Referred'
  BY <1>6, <1>n DEF MergeRead, AfterMerge, Pruning
<1>7. ASSUME NEW s \in {"claim", "meta"}, MergePut(s) PROVE Referred'
  BY <1>7, <1>n DEF MergePut, AfterMerge, Pruning
<1>8. ASSUME Upload PROVE Referred'
  BY <1>8, <1>n DEF Upload, Pruning
<1>9. ASSUME Await PROVE Referred'
  BY <1>9, <1>n DEF Await, remote, outside, local, AfterPlan, AfterPatch, AfterMerge, Pruning
<1>10. ASSUME ApplyPolicy PROVE Referred'
  BY <1>10, <1>n DEF ApplyPolicy, installs, outside, AfterPlan, AfterPatch, AfterMerge, Pruning
<1>11. ASSUME UpdatePolicy PROVE Referred'
  BY <1>11, <1>n DEF UpdatePolicy, installs, outside, Goto, AfterPlan, AfterPatch, AfterMerge, Pruning
<1>12. ASSUME ApplyLink PROVE Referred'
  BY <1>12, <1>n DEF ApplyLink, installs, outside, AfterPlan, AfterPatch, AfterMerge, Pruning
<1>13. ASSUME PutLinks PROVE Referred'
  BY <1>13, <1>n DEF PutLinks, installs, outside, Goto, AfterPlan, AfterPatch, AfterMerge, Pruning
<1>14. ASSUME ApplyPatchPolicy PROVE Referred'
  BY <1>14, <1>n DEF ApplyPatchPolicy, installs, outside, AfterPlan, AfterPatch, AfterMerge, Pruning
<1>15. ASSUME UpdatePatchPolicy PROVE Referred'
  BY <1>15, <1>n DEF UpdatePatchPolicy, installs, outside, AfterPlan, AfterPatch, AfterMerge, Pruning
<1>16. ASSUME ReadPolicies PROVE Referred'
  BY <1>16 DEF ReadPolicies, Goto, pruning, Referred, ByPolicies
<1>17. ASSUME ReadStages PROVE Referred'
  BY <1>17, <1>s DEF ReadStages, Goto, pruning, Referred, ByPolicies
<1>18. ASSUME ReadTitles PROVE Referred'
  BY <1>18, <1>s DEF ReadTitles, Goto, pruning, Referred, ByPolicies, ByTitles
<1>19. ASSUME Delete PROVE Referred'
  BY <1>19, <1>y DEF Delete, pruning
<1>20. ASSUME Pruned PROVE Referred'
  BY <1>20, <1>n DEF Pruned, pruning, outside, Goto, AfterPlan, AfterPatch, AfterMerge, Pruning
<1>21. ASSUME Finish PROVE Referred'
  BY <1>21, <1>n DEF Finish, remote, outside, local, Goto, AfterPlan, AfterPatch, AfterMerge, Pruning
<1>22. ASSUME Refused PROVE Referred'
  BY <1>22, <1>n DEF Refused, remote, outside, local, AfterPlan, AfterPatch, AfterMerge, Pruning
<1>23. ASSUME Interrupt PROVE Referred'
  BY <1>23, <1>n DEF Interrupt, remote, local, AfterPlan, AfterPatch, AfterMerge, Pruning
<1>24. ASSUME NEW u \in uploads, Process(u) \/ Reject(u) PROVE Referred'
  BY <1>24, <1>y DEF Process, Reject, run, history
<1>25. ASSUME NEW v \in Version, Release(v) PROVE Referred'
  BY <1>25, <1>y DEF Release, run, remote
<1>26. ASSUME NEW v \in Version, Define(v) PROVE Referred'
  BY <1>26, <1>y DEF Define, run, remote
<1>27. ASSUME NEW f \in File, AdminCreates(f) PROVE Referred'
  BY <1>27, <1>y DEF AdminCreates, run, remote
<1>28. ASSUME NEW p \in Live, AdminEdits(p) PROVE Referred'
  BY <1>28, <1>y DEF AdminEdits, run, remote
<1>29. ASSUME NEW p \in Live, AdminRefers(p) PROVE Referred'
  <2>1. UNCHANGED <<pc, refs>> /\ late' = late \cup {p} BY <1>29 DEF AdminRefers, run
  <2>2. stages' \subseteq stages \cup {p} BY <1>29 DEF AdminRefers
  <2>3. ByTitles' \subseteq ByTitles \cup {p} BY <1>29 DEF AdminRefers, ByTitles
  <2>4. policy' = policy \/ policy' = [pkgs |-> {p}, live |-> TRUE] BY <1>29 DEF AdminRefers
  <2>5. others' \subseteq others \cup {p} BY <1>29 DEF AdminRefers
  <2>6. ByPolicies' \subseteq ByPolicies \cup {p} BY <2>4, <2>5 DEF ByPolicies
  <2> QED BY <2>1, <2>2, <2>3, <2>6, <1>s DEF Referred
<1>30. ASSUME AdminForgets PROVE Referred'
  <2>1. UNCHANGED <<pc, refs, late, links>> BY <1>30 DEF AdminForgets, run
  <2>2. stages' \subseteq stages /\ others' \subseteq others /\ policy' \in {policy, None}
    BY <1>30 DEF AdminForgets
  <2>3. ByPolicies' \subseteq ByPolicies /\ ByTitles' = ByTitles BY <2>1, <2>2 DEF ByPolicies, ByTitles
  <2> QED BY <2>1, <2>2, <2>3, <1>s DEF Referred
<1>31. ASSUME UNCHANGED vars PROVE Referred'
  BY <1>31, <1>y DEF vars, remote, run, history
<1> QED BY <1>1, <1>2, <1>3, <1>4, <1>5, <1>6, <1>7, <1>8, <1>9, <1>10, <1>11, <1>12, <1>13, <1>14, <1>15,
   <1>16, <1>17, <1>18, <1>19, <1>20, <1>21, <1>22, <1>23, <1>24, <1>25, <1>26, <1>27, <1>28, <1>29, <1>30,
   <1>31 DEF Next, Run, JamfStep, Admin

\* A policy is none of its absence.
LEMMA NotNone == \A q, v : [pkgs |-> q, live |-> v] # None
<1> SUFFICES ASSUME NEW q, NEW v, [pkgs |-> q, live |-> v] = None PROVE FALSE OBVIOUS
<1>1. "pkgs" \in DOMAIN [pkgs |-> q, live |-> v] /\ "pkgs" \notin DOMAIN None BY DEF None
<1> QED BY <1>1

\* A set of at most one member that holds x holds nothing else.
LEMMA OnlyMember ==
    ASSUME NEW S, IsFiniteSet(S), Cardinality(S) <= 1, NEW x \in S, NEW y \in S
    PROVE  y = x
<1> SUFFICES ASSUME y # x PROVE FALSE OBVIOUS
<1>1. IsFiniteSet({x}) /\ Cardinality({x}) = 1 BY FS_Singleton
<1>2. y \notin {x} OBVIOUS
<1>3. Cardinality({x} \cup {y}) = Cardinality({x}) + 1 BY ONLY <1>1, <1>2, FS_AddElement
<1>4. {x} \cup {y} \subseteq S OBVIOUS
<1>5. Cardinality({x} \cup {y}) <= Cardinality(S) BY <1>4, FS_Subset
<1>6. Cardinality(S) \in Nat BY FS_CardinalityType
<1> QED BY <1>1, <1>3, <1>5, <1>6

\* Every step keeps what is still to be deleted what the plan reported.
LEMMA HonestStep == ConstantsAssumption /\ Inv /\ [Next]_vars => Honest'
<1> SUFFICES ASSUME ConstantsAssumption, Inv, [Next]_vars PROVE Honest' OBVIOUS
<1>s. Shaped /\ InHand /\ Retiring BY DEF Inv
<1>h. Honest BY DEF Inv
<1> DEFINE Plans == UNCHANGED <<deleted, quiet, waiting, goal, defined, planned, retiring, others, stages>>
           Early == {"create", "earlier", "claim", "claimPut", "upload", "await", "meta", "metaPut", "policy", "policyPut"}
<1>i. ASSUME pc' \in {"idle", "locate"} PROVE Honest' BY <1>i DEF Honest, Deploying
<1>q. ASSUME UNCHANGED <<pc, deleted>>, quiet' = FALSE PROVE Honest' BY <1>q, <1>h DEF Honest, Deploying
<1>u. ASSUME UNCHANGED <<pc, id, read, refs, policy, links>>, Plans PROVE Honest'
  BY <1>u, <1>h DEF Honest, Projected, ByTitles, Deploying
<1>r. ASSUME Plans, UNCHANGED links PROVE Projected(goal)' = Projected(goal) BY <1>r DEF Projected
<1>e. ASSUME Plans, UNCHANGED links, pc \in Deploying, pc' \in Early PROVE Honest'
  <2>1. Projected(goal)' = Projected(goal) BY <1>e, <1>r
  <2> QED BY <2>1, <1>e, <1>h DEF Honest, Deploying
<1>p. ASSUME pc \in Deploying, quiet
      PROVE  deleted = {} /\ waiting = (goal \notin defined) /\ planned = retiring \ Projected(goal)
  BY <1>p, <1>h DEF Honest
<1> HIDE DEF Early
<1>1. ASSUME Begin PROVE Honest'
  BY <1>1, <1>i DEF Begin, remote, outside, Goto
<1>2. ASSUME Locate PROVE Honest'
  <2>1. pc = "locate" /\ pc' = "plan" /\ deleted' = deleted BY <1>2 DEF Locate
  <2> QED BY <2>1, <1>s DEF Honest, Retiring, Deploying
<1>3. ASSUME Plan PROVE Honest'
  <2>1. /\ pc = "plan" /\ pc' \in {"create", "earlier", "claim"} /\ waiting' = (goal \notin defined)
        /\ planned' = Retired(Family, id) \ Projected(goal) /\ retiring' = Retired(Family, id)
        /\ UNCHANGED <<deleted, quiet, goal, defined, others, stages, links>>
    BY <1>3 DEF Plan, Goto, AfterPlan, remote
  <2>2. Projected(goal)' = Projected(goal) BY <2>1 DEF Projected
  <2>3. deleted = {} BY <2>1, <1>h DEF Honest
  <2> QED BY <2>1, <2>2, <2>3 DEF Honest, Deploying
<1>4. ASSUME Create PROVE Honest'
  <2>1. Plans /\ UNCHANGED links BY <1>4 DEF Create, outside
  <2>2. pc \in Deploying /\ pc' \in Early \cup {"idle"}
    BY <1>4 DEF Create, Goto, AfterMerge, Deploying, Early
  <2> QED BY <2>1, <2>2, <1>e, <1>i
<1>5. ASSUME AwaitEarlier PROVE Honest'
  <2>1. Plans /\ UNCHANGED links BY <1>5 DEF AwaitEarlier, remote, outside, local
  <2>2. pc \in Deploying /\ pc' \in Early \cup {"idle"}
    BY <1>5 DEF AwaitEarlier, Goto, AfterMerge, Deploying, Early
  <2> QED BY <2>1, <2>2, <1>e, <1>i
<1>6. ASSUME NEW s \in {"claim", "meta"}, MergeRead(s) PROVE Honest'
  <2>1. Plans /\ UNCHANGED links BY <1>6 DEF MergeRead, remote, outside, local
  <2>2. pc \in Deploying /\ pc' \in Early \cup {"idle"}
    BY <1>6 DEF MergeRead, Goto, AfterMerge, Deploying, Early
  <2> QED BY <2>1, <2>2, <1>e, <1>i
<1>7. ASSUME NEW s \in {"claim", "meta"}, MergePut(s) PROVE Honest'
  <2>1. Plans /\ UNCHANGED links BY <1>7 DEF MergePut, outside, local
  <2>2. pc \in Deploying /\ pc' \in Early \cup {"idle"}
    BY <1>7 DEF MergePut, Goto, AfterMerge, Deploying, Early
  <2> QED BY <2>1, <2>2, <1>e, <1>i
<1>8. ASSUME Upload PROVE Honest'
  <2>1. Plans /\ UNCHANGED links BY <1>8 DEF Upload, outside, local
  <2>2. pc \in Deploying /\ pc' \in Early \cup {"idle"}
    BY <1>8 DEF Upload, Goto, AfterMerge, Deploying, Early
  <2> QED BY <2>1, <2>2, <1>e, <1>i
<1>9. ASSUME Await PROVE Honest'
  <2>1. Plans /\ UNCHANGED links BY <1>9 DEF Await, remote, outside, local
  <2>2. pc \in Deploying /\ pc' \in Early \cup {"idle"}
    BY <1>9 DEF Await, Goto, AfterMerge, Deploying, Early
  <2> QED BY <2>1, <2>2, <1>e, <1>i
<1>10. ASSUME ApplyPolicy PROVE Honest'
  <2>1. Plans /\ UNCHANGED <<links, id>> BY <1>10 DEF ApplyPolicy, installs, outside
  <2>2. pc \in Deploying /\ pc' \in {"policyPut", "title"} BY <1>10 DEF ApplyPolicy, Goto, Deploying
  <2>3. pc' = "title" => policy' # None /\ policy'.pkgs = {id} BY <1>10, NotNone DEF ApplyPolicy, Goto
  <2>4. Projected(goal)' = Projected(goal) BY <2>1, <1>r
  <2>5. CASE pc' = "policyPut" BY <2>1, <2>2, <2>5, <1>e DEF Early
  <2>6. CASE pc' = "title" BY <2>1, <2>2, <2>3, <2>4, <2>6, <1>p, <1>h DEF Honest, Deploying
  <2> QED BY <2>2, <2>5, <2>6
<1>11. ASSUME UpdatePolicy PROVE Honest'
  <2>1. Plans /\ UNCHANGED <<links, id>> BY <1>11 DEF UpdatePolicy, installs, outside
  <2>2. pc \in Deploying /\ pc' \in {"policyPut", "title"} BY <1>11 DEF UpdatePolicy, Goto, Deploying
  <2>3. pc' = "title" => policy' # None /\ policy'.pkgs = {id} BY <1>11, NotNone DEF UpdatePolicy, Goto
  <2>4. Projected(goal)' = Projected(goal) BY <2>1, <1>r
  <2>5. CASE pc' = "policyPut" BY <2>1, <2>2, <2>5, <1>e DEF Early
  <2>6. CASE pc' = "title" BY <2>1, <2>2, <2>3, <2>4, <2>6, <1>p, <1>h DEF Honest, Deploying
  <2> QED BY <2>2, <2>5, <2>6
<1>12. ASSUME ApplyLink PROVE Honest'
  <2>1. Plans /\ UNCHANGED <<links, id, policy>> /\ read' = links /\ pc = "title"
    BY <1>12 DEF ApplyLink, installs, outside
  <2>2. Projected(goal)' = Projected(goal) BY <2>1, <1>r
  <2>3. pc' \in {"patch", "titlePut"} /\ (pc' = "titlePut" => ~waiting) BY <1>12 DEF ApplyLink
  <2>4. ASSUME pc' = "patch", ~waiting, NEW l \in links, l[1] = goal PROVE l[2] = id
    <3> DEFINE S == {m \in links : m[1] = goal}
    <3>1. <<goal, id>> \in S /\ l \in S /\ Cardinality(S) <= 1 BY <1>12, <2>4 DEF ApplyLink
    <3>2. IsFiniteSet(S) BY <1>s, FS_Subset DEF Shaped
    <3> HIDE DEF S
    <3> QED BY <3>1, <3>2, OnlyMember
  <2>5. pc' = "patch" => waiting \/ \A l \in links : l[1] = goal => l[2] = id BY <2>4
  <2> QED BY <2>1, <2>2, <2>3, <2>5, <1>h DEF Honest, Deploying
<1>13. ASSUME PutLinks PROVE Honest'
  <2>1. Plans /\ UNCHANGED <<id, policy>> /\ pc = "titlePut" /\ pc' = "patch"
    BY <1>13 DEF PutLinks, Goto, installs, outside
  <2>2. links' = {l \in read : l[1] # goal} \cup {<<goal, id>>} BY <1>13 DEF PutLinks
  <2>3. \A l \in links' : l[1] = goal => l[2] = id BY <2>2
  <2>4. ASSUME quiet PROVE Projected(goal)' = Projected(goal)
    <3>1. ~waiting /\ read = links /\ goal \in defined BY <2>4, <2>1, <1>h DEF Honest, Deploying
    <3>2. {m \in links' : goal \notin defined \/ m[1] # goal} = {m \in links : goal \notin defined \/ m[1] # goal}
      BY <3>1, <2>2
    <3> QED BY <3>2, <2>1 DEF Projected
  <2> QED BY <2>1, <2>3, <2>4, <1>h DEF Honest, Deploying
<1>14. ASSUME ApplyPatchPolicy PROVE Honest'
  <2>1. Plans /\ UNCHANGED <<links, id, policy>> BY <1>14 DEF ApplyPatchPolicy, installs, outside
  <2>2. pc \in {"patch", "patchPut"} /\ pc' \in {"patchPut", AfterPatch} BY <1>14 DEF ApplyPatchPolicy
  <2>3. Projected(goal)' = Projected(goal) BY <2>1, <1>r
  <2>4. pc' \in {"patchPut", "refs1"} \/ (pc' = "done" /\ retiring = {}) BY <2>2 DEF AfterPatch
  <2> QED BY <2>1, <2>2, <2>3, <2>4, <1>h DEF Honest, Deploying
<1>15. ASSUME UpdatePatchPolicy PROVE Honest'
  <2>1. Plans /\ UNCHANGED <<links, id, policy>> BY <1>15 DEF UpdatePatchPolicy, installs, outside
  <2>2. pc \in {"patch", "patchPut"} /\ pc' \in {"patchPut", AfterPatch} BY <1>15 DEF UpdatePatchPolicy
  <2>3. Projected(goal)' = Projected(goal) BY <2>1, <1>r
  <2>4. pc' \in {"patchPut", "refs1"} \/ (pc' = "done" /\ retiring = {}) BY <2>2 DEF AfterPatch
  <2> QED BY <2>1, <2>2, <2>3, <2>4, <1>h DEF Honest, Deploying
<1>16. ASSUME ReadPolicies PROVE Honest'
  <2>1. /\ Plans /\ UNCHANGED <<links, id, policy>> /\ pc = "refs1" /\ pc' = "refs2" /\ refs' = ByPolicies
    BY <1>16 DEF ReadPolicies, Goto, pruning, outside
  <2>2. ASSUME quiet PROVE planned = retiring \ (refs' \cup stages \cup ByTitles)
    <3>1. /\ waiting = (goal \notin defined) /\ planned = retiring \ Projected(goal)
          /\ policy # None /\ policy.pkgs = {id} /\ (waiting \/ \A l \in links : l[1] = goal => l[2] = id)
      BY <2>1, <2>2, <1>h DEF Honest, Deploying
    <3>2. refs' = others \cup {id} BY <3>1, <2>1 DEF ByPolicies
    <3>3. id \notin retiring BY <2>1, <1>s DEF Retiring, Started
    <3>4. ByTitles \subseteq {l[2] : l \in {m \in links : goal \notin defined \/ m[1] # goal}} \cup {id}
      BY <3>1 DEF ByTitles
    <3>5. {l[2] : l \in {m \in links : goal \notin defined \/ m[1] # goal}} \subseteq ByTitles
      BY DEF ByTitles
    <3> QED BY <3>1, <3>2, <3>3, <3>4, <3>5 DEF Projected
  <2>3. ByTitles' = ByTitles BY <2>1 DEF ByTitles
  <2> QED BY <2>1, <2>2, <2>3, <1>h DEF Honest, Deploying
<1>17. ASSUME ReadStages PROVE Honest'
  <2>1. /\ Plans /\ UNCHANGED links /\ pc = "refs2" /\ pc' = "refs3" /\ refs' = refs \cup stages
    BY <1>17 DEF ReadStages, Goto, pruning, outside
  <2>2. ByTitles' = ByTitles BY <2>1 DEF ByTitles
  <2> QED BY <2>1, <2>2, <1>h DEF Honest, Deploying
<1>18. ASSUME ReadTitles PROVE Honest'
  <2>1. /\ Plans /\ pc = "refs3" /\ pc' = "delete" /\ refs' = refs \cup ByTitles
    BY <1>18 DEF ReadTitles, Goto, pruning, outside
  <2> QED BY <2>1, <1>h DEF Honest, Deploying
<1>19. ASSUME Delete PROVE Honest'
  <2>1. pc = "delete" /\ retiring \subseteq DOMAIN pkgs /\ UNCHANGED <<pc, planned, refs, quiet>>
    BY <1>19, <1>s DEF Delete, pruning, Retiring, Started
  <2>2. PICK p \in retiring : DeleteOf(p) BY <1>19, <2>1, <1>s, DeleteEffect
  <2>3. quiet => planned' = deleted' \cup (retiring' \ refs') BY <2>1, <2>2, <1>h DEF DeleteOf, Honest
  <2> QED BY <2>1, <2>3 DEF Honest, Deploying
<1>20. ASSUME Pruned PROVE Honest'
  <2>1. pc = "delete" /\ pc' = "done" /\ retiring = {} /\ UNCHANGED <<planned, deleted, quiet>>
    BY <1>20 DEF Pruned, Goto, pruning
  <2> QED BY <2>1, <1>h DEF Honest, Deploying
<1>21. ASSUME Finish PROVE Honest'
  BY <1>21, <1>i DEF Finish, remote, outside, local, Goto
<1>22. ASSUME Refused PROVE Honest'
  BY <1>22, <1>i DEF Refused
<1>23. ASSUME Interrupt PROVE Honest'
  BY <1>23, <1>i DEF Interrupt
<1>24. ASSUME NEW u \in uploads, Process(u) \/ Reject(u) PROVE Honest'
  BY <1>24, <1>u DEF Process, Reject, run, history
<1>25. ASSUME NEW v \in Version, Release(v) PROVE Honest'
  BY <1>25, <1>q DEF Release, Moves, run
<1>26. ASSUME NEW v \in Version, Define(v) PROVE Honest'
  BY <1>26, <1>q DEF Define, Moves, run
<1>27. ASSUME NEW f \in File, AdminCreates(f) PROVE Honest'
  BY <1>27, <1>q DEF AdminCreates, Moves, run
<1>28. ASSUME NEW p \in Live, AdminEdits(p) PROVE Honest'
  BY <1>28, <1>q DEF AdminEdits, Moves, run
<1>29. ASSUME NEW p \in Live, AdminRefers(p) PROVE Honest'
  BY <1>29, <1>q DEF AdminRefers, Moves, run
<1>30. ASSUME AdminForgets PROVE Honest'
  BY <1>30, <1>q DEF AdminForgets, Moves, run
<1>31. ASSUME UNCHANGED vars PROVE Honest'
  BY <1>31, <1>u DEF vars, remote, run, history
<1> QED BY <1>1, <1>2, <1>3, <1>4, <1>5, <1>6, <1>7, <1>8, <1>9, <1>10, <1>11, <1>12, <1>13, <1>14, <1>15,
   <1>16, <1>17, <1>18, <1>19, <1>20, <1>21, <1>22, <1>23, <1>24, <1>25, <1>26, <1>27, <1>28, <1>29, <1>30,
   <1>31 DEF Next, Run, JamfStep, Admin

\* The initial states satisfy the invariant.
LEMMA InitInv == ConstantsAssumption /\ Init => Inv
<1> SUFFICES ASSUME ConstantsAssumption, Init PROVE Inv OBVIOUS
<1> USE DEF NoId
<1>1. \/ pin = NoId /\ pkgs = <<>>
      \/ \E m \in {"none", "other"}, f \in File : pkgs = <<New(f, m, Foreign, "READY")>>
  BY DEF Init, New
<1>2. \A f \in File, m \in {"none", "other"} : New(f, m, Foreign, "READY") \in Package
  BY DEF New, Package, Content
<1> DEFINE Foreigner ==
            /\ pkgs \in Seq(Package \cup {Gone}) /\ Len(pkgs) <= 1
            /\ \A p \in DOMAIN pkgs :
                  p = 1 /\ pkgs[p] \in Package /\ pkgs[p].mark # "ours" /\ pkgs[p].bytes = Foreign
            /\ pin # NoId => pin \in DOMAIN pkgs
<1>3. Foreigner
  <2>1. CASE pin = NoId /\ pkgs = <<>> BY <2>1
  <2>2. ASSUME NEW m \in {"none", "other"}, NEW f \in File, pkgs = <<New(f, m, Foreign, "READY")>> PROVE Foreigner
    <3> DEFINE r == New(f, m, Foreign, "READY")
    <3>1. r \in Package /\ r.mark # "ours" /\ r.bytes = Foreign BY <1>2 DEF New
    <3>2. pkgs = <<r>> BY <2>2
    <3>3. pin \in {NoId, 1} BY DEF Init
    <3> HIDE DEF r
    <3>4. DOMAIN pkgs = {1} /\ pkgs[1] = r /\ Len(pkgs) = 1 BY <3>2
    <3>5. pkgs \in Seq(Package \cup {Gone}) BY <3>1, <3>2
    <3> QED BY <3>1, <3>3, <3>4, <3>5
  <2> QED BY <1>1, <2>1, <2>2
<1>4. Family = {} BY <1>3 DEF Family, Live
<1>5. Shaped
  <2>1. Len(pkgs) <= MaxId BY <1>3 DEF ConstantsAssumption
  <2>2. IsFiniteSet(links) /\ IsFiniteSet(read) BY FS_EmptySet DEF Init
  <2>3. art \in Version /\ goal \in Version BY DEF Init, ConstantsAssumption
  <2>4. /\ pin \in {NoId, 1} /\ others \cup stages \subseteq Id /\ id \in Id \cup {NoId}
        /\ retiring \cup refs \cup planned \cup deleted \subseteq Id
    BY DEF Init
  <2> QED BY <1>3, <2>1, <2>2, <2>3, <2>4 DEF Init, Shaped
<1>6. InHand BY <1>3 DEF Init, InHand, Started, Working, Claimed
<1>7. NameFree BY <1>4 DEF Init, NameFree, OneRecordPerFile, Started
<1>8. Retiring BY DEF Init, Retiring, Started
<1>9. Complete BY DEF Init, Complete, LivePolicyHasContent
<1>10. Transfers BY DEF Init, Transfers, OneTransferPerFile
<1>11. Names BY <1>3 DEF Init, Names, Live, Started
<1>12. Referred BY DEF Init, Referred
<1>13. Honest BY DEF Init, Honest, Deploying
<1> QED BY <1>5, <1>6, <1>7, <1>8, <1>9, <1>10, <1>11, <1>12, <1>13 DEF Inv

(***************************************************************************)
(* The properties.                                                         *)
(***************************************************************************)

\* Every step keeps the invariant.
LEMMA InvStep == ConstantsAssumption /\ Inv /\ [Next]_vars => Inv'
BY ShapedStep, InHandStep, NameFreeStep, RetiringStep, CompleteStep, TransfersStep, NamesStep, ReferredStep,
   HonestStep DEF Inv

\* A run deletes what nothing referred to when it read the references.
LEMMA StepKeepsReferenced == ConstantsAssumption /\ Inv /\ [Next]_vars => KeepsReferenced
<1> SUFFICES ASSUME ConstantsAssumption, Inv, [Next]_vars, NEW p \in Live, pkgs'[p] = Gone
             PROVE  p \notin (others \cup stages \cup ByPolicies \cup ByTitles) \ late
  BY DEF KeepsReferenced
<1>s. Shaped /\ InHand /\ Retiring /\ Referred BY DEF Inv
<1>l. Live \subseteq DOMAIN pkgs BY DEF Live
<1>y. ~Steady BY <1>l DEF Steady, Live
<1>z. pkgs' # pkgs BY DEF Live
<1>a. ASSUME NEW r \in Package, Added(r) PROVE FALSE
  <2>1. pkgs'[p] = pkgs[p] BY <1>a, <1>s, AddedSets
  <2> QED BY <2>1 DEF Live
<1>1. ~Kept BY <1>y DEF Kept
<1>2. ~Locate /\ ~Plan /\ ~AwaitEarlier BY <1>z DEF Locate, Plan, AwaitEarlier, remote
<1>3. ~Create BY <1>s, <1>a, CreateEffect, Package0
<1>4. ~Upload BY <1>s, <1>y, UploadEffect
<1>5. ASSUME NEW s \in {"claim", "meta"} PROVE ~MergePut(s)
  <2> SUFFICES ASSUME MergePut(s) PROVE FALSE OBVIOUS
  <2>1. Live' = Live /\ DOMAIN pkgs' = DOMAIN pkgs BY <1>s, MergeSets
  <2> QED BY <2>1 DEF Live
<1>6. ASSUME NEW u \in uploads PROVE ~(Process(u) \/ Reject(u)) BY <1>s, <1>y, ProcessEffect
<1>7. ASSUME NEW f \in File PROVE ~AdminCreates(f) BY <1>s, <1>a, CreateEffect, Package0
<1>8. ASSUME Delete PROVE p \notin (others \cup stages \cup ByPolicies \cup ByTitles) \ late
  <2>1. pc = "delete" /\ retiring \subseteq DOMAIN pkgs BY <1>8, <1>s DEF Delete, Retiring, Started
  <2>2. PICK q \in retiring : DeleteOf(q) BY <1>8, <2>1, <1>s, DeleteEffect
  <2>3. q = p /\ p \notin refs BY <2>2, <1>z, <1>l DEF DeleteOf, Put, Live
  <2> QED BY <2>1, <2>3, <1>s DEF Referred, ByPolicies
<1> QED BY <1>s, <1>1, <1>2, <1>3, <1>4, <1>5, <1>6, <1>7, <1>8, Kinds

\* What is deleted is of the software, and a transfer ends in records of the software or of a name
\* taken meanwhile.
LEMMA StepKeepsOthersBytes == ConstantsAssumption /\ Inv /\ [Next]_vars => KeepsOthersBytes
<1> SUFFICES ASSUME ConstantsAssumption, Inv, [Next]_vars,
                    NEW p \in Live, pkgs[p].mark # "ours", pkgs[p].file \notin taken
             PROVE  pkgs'[p] # Gone /\ pkgs'[p].bytes = pkgs[p].bytes
  BY DEF KeepsOthersBytes
<1> DEFINE Unchanged == pkgs'[p] # Gone /\ pkgs'[p].bytes = pkgs[p].bytes
<1>s. Shaped /\ InHand /\ Retiring /\ Names BY DEF Inv
<1>l. p \in DOMAIN pkgs /\ pkgs[p] # Gone BY DEF Live
<1>y. ASSUME Steady, pkgs'[p].bytes = pkgs[p].bytes PROVE Unchanged BY <1>y, <1>l DEF Steady
<1>z. ASSUME pkgs'[p] = pkgs[p] PROVE Unchanged BY <1>z, <1>l
<1>a. ASSUME NEW r \in Package, Added(r) PROVE Unchanged
  <2>1. pkgs'[p] = pkgs[p] BY <1>a, <1>s, AddedSets
  <2> QED BY <2>1, <1>z
<1>1. ASSUME Kept PROVE Unchanged BY <1>1, <1>y DEF Kept
<1>2. ASSUME Locate \/ Plan \/ AwaitEarlier PROVE Unchanged
  BY <1>2, <1>z DEF Locate, Plan, AwaitEarlier, remote
<1>3. ASSUME Create PROVE Unchanged BY <1>3, <1>s, <1>a, CreateEffect, Package0
<1>4. ASSUME Upload PROVE Unchanged
  <2>1. /\ Steady
        /\ \/ UNCHANGED pkgs
           \/ Put(id, pkgs'[id]) /\ pkgs'[id].bytes = pkgs[id].bytes
    BY <1>4, <1>s, UploadEffect
  <2> QED BY <2>1, <1>l, <1>y DEF Put
<1>5. ASSUME NEW s \in {"claim", "meta"}, MergePut(s) PROVE Unchanged
  <2>1. Live' = Live /\ (\A q \in Live \ {id} : pkgs'[q] = pkgs[q]) /\ pkgs'[id].bytes = pkgs[id].bytes
    BY <1>5, <1>s, MergeSets
  <2>2. p \in Live' BY <2>1
  <2> QED BY <2>1, <2>2 DEF Live
<1>6. ASSUME NEW u \in uploads, Process(u) \/ Reject(u) PROVE Unchanged
  <2>1. p \notin Holders(u[1])
    <3>1. p \in Holders(u[1]) => u[1] = pkgs[p].file BY DEF Holders
    <3> QED BY <3>1, <1>s DEF Names
  <2> QED BY <2>1, <1>6, <1>s, <1>z, ProcessEffect
<1>7. ASSUME NEW f \in File, AdminCreates(f) PROVE Unchanged BY <1>7, <1>s, <1>a, CreateEffect, Package0
<1>8. ASSUME Delete PROVE Unchanged
  <2>1. pc = "delete" /\ retiring \subseteq DOMAIN pkgs BY <1>8, <1>s DEF Delete, Retiring, Started
  <2>2. PICK q \in retiring : DeleteOf(q) BY <1>8, <2>1, <1>s, DeleteEffect
  <2>3. p \notin retiring BY <2>1, <1>s DEF Retiring, Started
  <2> QED BY <2>2, <2>3, <1>l, <1>z DEF DeleteOf, Put
<1> QED BY <1>s, <1>1, <1>2, <1>3, <1>4, <1>5, <1>6, <1>7, <1>8, Kinds

\* Whole-object updates carry the fields that nothing here manages.
LEMMA StepKeepsAdminEdits == ConstantsAssumption /\ Inv /\ [Next]_vars => KeepsAdminEdits
<1> SUFFICES ASSUME ConstantsAssumption, Inv, [Next]_vars, NEW p \in Live, pkgs'[p] # Gone
             PROVE  pkgs'[p].admin >= pkgs[p].admin
  BY DEF KeepsAdminEdits
<1>s. Shaped /\ InHand /\ Retiring BY DEF Inv
<1>l. p \in DOMAIN pkgs /\ pkgs[p].admin \in Nat
  <2>1. p \in DOMAIN pkgs /\ pkgs[p] \in Package BY <1>s, Records DEF Live
  <2> QED BY <2>1, Fields
<1>z. ASSUME pkgs'[p].admin = pkgs[p].admin PROVE pkgs'[p].admin >= pkgs[p].admin BY <1>z, <1>l
<1>a. ASSUME NEW r \in Package, Added(r) PROVE pkgs'[p].admin >= pkgs[p].admin
  <2>1. pkgs'[p] = pkgs[p] BY <1>a, <1>s, AddedSets
  <2> QED BY <2>1, <1>z
<1>1. ASSUME Kept PROVE pkgs'[p].admin >= pkgs[p].admin
  <2>1. CASE UNCHANGED pkgs BY <2>1, <1>z
  <2>2. ASSUME NEW q \in Live, AdminEdits(q) PROVE pkgs'[p].admin >= pkgs[p].admin BY <2>2, <1>s, EditEffect
  <2> QED BY <1>1, <2>1, <2>2 DEF Kept
<1>2. ASSUME Locate \/ Plan \/ AwaitEarlier PROVE pkgs'[p].admin >= pkgs[p].admin
  BY <1>2, <1>z DEF Locate, Plan, AwaitEarlier, remote
<1>3. ASSUME Create PROVE pkgs'[p].admin >= pkgs[p].admin BY <1>3, <1>s, <1>a, CreateEffect, Package0
<1>4. ASSUME Upload PROVE pkgs'[p].admin >= pkgs[p].admin
  <2>1. \/ UNCHANGED pkgs
        \/ Put(id, pkgs'[id]) /\ pkgs'[id].admin = pkgs[id].admin
    BY <1>4, <1>s, UploadEffect
  <2> QED BY <2>1, <1>l, <1>z DEF Put
<1>5. ASSUME NEW s \in {"claim", "meta"}, MergePut(s) PROVE pkgs'[p].admin >= pkgs[p].admin
  <2>1. Put(id, pkgs'[id]) /\ pkgs'[id].admin = pkgs[id].admin BY <1>5, <1>s, MergeEffect
  <2> QED BY <2>1, <1>l, <1>z DEF Put
<1>6. ASSUME NEW u \in uploads, Process(u) \/ Reject(u) PROVE pkgs'[p].admin >= pkgs[p].admin
  BY <1>6, <1>s, <1>z, ProcessEffect
<1>7. ASSUME NEW f \in File, AdminCreates(f) PROVE pkgs'[p].admin >= pkgs[p].admin
  BY <1>7, <1>s, <1>a, CreateEffect, Package0
<1>8. ASSUME Delete PROVE pkgs'[p].admin >= pkgs[p].admin
  <2>1. retiring \subseteq DOMAIN pkgs BY <1>8, <1>s DEF Delete, Retiring, Started
  <2>2. PICK q \in retiring : DeleteOf(q) BY <1>8, <2>1, <1>s, DeleteEffect
  <2> QED BY <2>2, <1>l, <1>z DEF DeleteOf, Put
<1> QED BY <1>s, <1>1, <1>2, <1>3, <1>4, <1>5, <1>6, <1>7, <1>8, Kinds

\* What the invariant says of one state.
LEMMA InvMeans == Inv => TypeOK /\ OneRecordPerFile /\ LivePolicyHasContent /\ OneTransferPerFile /\ PlanHonest
<1> SUFFICES ASSUME Inv
             PROVE  TypeOK /\ OneRecordPerFile /\ LivePolicyHasContent /\ OneTransferPerFile /\ PlanHonest
  OBVIOUS
<1>1. TypeOK BY DEF Inv, Shaped, InHand, TypeOK
<1>2. OneRecordPerFile BY DEF Inv, NameFree
<1>3. LivePolicyHasContent BY DEF Inv, Complete
<1>4. OneTransferPerFile BY DEF Inv, Transfers, OneTransferPerFile
<1>5. PlanHonest BY DEF Inv, Honest, PlanHonest
<1> QED BY <1>1, <1>2, <1>3, <1>4, <1>5

\* Every variable keeps its type, and the record a run has in hand exists.
THEOREM TypesSafe == ConstantsAssumption => (Spec => []TypeOK)
<1> SUFFICES ASSUME ConstantsAssumption PROVE Spec => []TypeOK OBVIOUS
<1> QED BY InitInv, InvStep, InvMeans, PTL DEF Spec

\* "an interrupted run leaves a record the next one finds" (package.go:57): however runs end,
\* the software never has two records for one file name.
THEOREM RecordsSafe == ConstantsAssumption => (Spec => []OneRecordPerFile)
<1> SUFFICES ASSUME ConstantsAssumption PROVE Spec => []OneRecordPerFile OBVIOUS
<1> QED BY InitInv, InvStep, InvMeans, PTL DEF Spec

\* "a policy is never live before it is complete" (policy.go:424): a live policy never offers a
\* record that has not held content.
THEOREM PoliciesSafe == ConstantsAssumption => (Spec => []LivePolicyHasContent)
<1> SUFFICES ASSUME ConstantsAssumption PROVE Spec => []LivePolicyHasContent OBVIOUS
<1> QED BY InitInv, InvStep, InvMeans, PTL DEF Spec

\* "Only an existing record for this filename can hold an earlier upload" (package.go:420): two
\* transfers to one file never overlap.
THEOREM UploadsSafe == ConstantsAssumption => (Spec => []OneTransferPerFile)
<1> SUFFICES ASSUME ConstantsAssumption PROVE Spec => []OneTransferPerFile OBVIOUS
<1> QED BY InitInv, InvStep, InvMeans, PTL DEF Spec

\* "plan reports the same deletions" (retention.go:39): when nobody else changes anything, an
\* apply deletes exactly what its plan reported.
THEOREM PlansSafe == ConstantsAssumption => (Spec => []PlanHonest)
<1> SUFFICES ASSUME ConstantsAssumption PROVE Spec => []PlanHonest OBVIOUS
<1> QED BY InitInv, InvStep, InvMeans, PTL DEF Spec

\* "a package missing from a partial read may still be deployed" (retention.go:72): retention
\* deletes only what nothing referred to when it read the references.
THEOREM ReferencesSafe == ConstantsAssumption => (Spec => ReferencedKept)
<1> SUFFICES ASSUME ConstantsAssumption PROVE Spec => ReferencedKept OBVIOUS
<1> QED BY InitInv, InvStep, StepKeepsReferenced, PTL DEF Spec, ReferencedKept

\* "taking a name another record holds would replace that package's content" (package.go:228):
\* the bytes of records without the marker do not change, unless their name was taken under a
\* run or a transfer.
THEOREM OthersSafe == ConstantsAssumption => (Spec => OthersBytesKept)
<1> SUFFICES ASSUME ConstantsAssumption PROVE Spec => OthersBytesKept OBVIOUS
<1> QED BY InitInv, InvStep, StepKeepsOthersBytes, PTL DEF Spec, OthersBytesKept

\* "a whole-object update preserves the fields nothing here manages" (package.go:31), also those
\* edited between its read and its write.
THEOREM EditsSafe == ConstantsAssumption => (Spec => AdminEditsKept)
<1> SUFFICES ASSUME ConstantsAssumption PROVE Spec => AdminEditsKept OBVIOUS
<1> QED BY InitInv, InvStep, StepKeepsAdminEdits, PTL DEF Spec, AdminEditsKept
=============================================================================
