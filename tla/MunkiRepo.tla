----------------------------- MODULE MunkiRepo -----------------------------
(***************************************************************************)
(* The built-in Munki destination (internal/munkirepo): a filesystem        *)
(* repository of pkginfo documents, catalogs, installers and manifests that *)
(* several stemma processes publish to under .stemma.lock, that Munki       *)
(* clients read at any moment without a lock, and that administrators edit. *)
(* An apply can be interrupted between any two writes and is retried later, *)
(* with the same declaration or another one.                                *)
(*                                                                         *)
(* Abstractions.  A family is a Munki name with its declared architectures; *)
(* an item is a family and a version, one pkginfo document each (two are an  *)
(* error before anything is written).  A document is its catalogs, its      *)
(* installer's location and hash; other fields, icons and nopkg items are   *)
(* left out.  fileio.Write and the rename of publishContent are atomic, and *)
(* their private dotfiles are ignored by every reader.  A reference by a    *)
(* manifest or by another pkginfo is a pin.  Planning writes nothing.       *)
(***************************************************************************)
EXTENDS Integers, FiniteSets, FiniteSetsExt

CONSTANTS
    Proc,       \* stemma processes that publish to the repository
    Family,     \* Munki names
    Version,    \* versions, in CompareVersions order
    Catalog,    \* catalogs a document may name
    Testing,    \* the catalog of a new item that declares none
    Base,       \* installer filenames
    MaxCopies,  \* bound: numbered variants of a filename
    Content,    \* installer bytes
    Request,    \* publications that may be asked for
    MaxFaults,  \* bound: interrupted applies
    MaxEnv      \* bound: edits by administrators

All == 0
Index == Catalog \cup {All}
Item == Family \X Version
Loc == Base \X (0..MaxCopies)
Doc == [cats : SUBSET Catalog, loc : Loc, hash : Content]
NoDoc == [cats |-> {}, loc |-> <<>>, hash |-> 0]

ASSUME ConstantsAssumption ==
    /\ Version \subseteq Nat /\ Catalog \subseteq Nat \ {All} /\ Testing \in Catalog
    /\ Content \subseteq Nat \ {0} /\ MaxCopies \in Nat
    /\ Request \subseteq [item : Item, cats : SUBSET Catalog, base : Base, hash : Content, keep : Nat]
    /\ MaxFaults \in Nat /\ MaxEnv \in Nat

VARIABLES
    info,      \* pkgsinfo/: the document of each item
    catalogs,  \* catalogs/: the entries of each catalog, by item
    files,     \* pkgs/: the bytes at each location, 0 for none
    pins,      \* items referred to by name and version
    names,     \* families referred to by their bare name
    lock,      \* holder of .stemma.lock
    pc, req, leased,                         \* each process's apply
    old, want, due, victims, victim, vdoc,   \* the holder's apply
    faults, env

repo == <<info, catalogs, files>>
refs == <<pins, names>>
apply == <<old, want, due, victims, victim, vdoc>>
vars == <<repo, refs, lock, pc, req, leased, apply, faults, env>>

Listed(d, c) == d # NoDoc /\ (c = All \/ c \in d.cats)
Goto(p, from, to) == pc[p] = from /\ pc' = [pc EXCEPT ![p] = to]

(***************************************************************************)
(* What an apply decides from the repository it reads.                     *)
(***************************************************************************)
\* freeName(): the first numbered name that is free or already has these bytes.
Usable(q) == {n \in 0..MaxCopies : files[<<q.base, n>>] \in {0, q.hash}}
HasLocation(q) == info[q.item] # NoDoc \/ Usable(q) # {}
Location(q) ==
    IF info[q.item] # NoDoc THEN info[q.item].loc ELSE <<q.base, Min(Usable(q))>>

\* Mutant: the place an adopted item has, even when none is adopted.
DesiredUnplaced(q) == [cats |-> {Testing}, loc |-> info[q.item].loc, hash |-> q.hash]

\* An existing item keeps its location and undeclared catalogs.
Desired(q) ==
    [cats |-> IF q.cats # {} THEN q.cats
              ELSE IF info[q.item] # NoDoc THEN info[q.item].cats ELSE {Testing},
     loc |-> Location(q), hash |-> q.hash]

\* Mutant: trust the document's hash, and so stay content with other bytes.
ContentNeededByDocument(q) == info[q.item] = NoDoc \/ info[q.item].hash # q.hash

ContentNeeded(q) == files[Location(q)] # q.hash

\* Mutant: the other items are not looked at.
SharedInstallerNever(q) == q # q

\* Replacing bytes in place would break another item that installs them.
SharedInstaller(q) == \E i \in Item \ {q.item} : info[i] # NoDoc /\ info[i].loc = Location(q)

\* catalogChanges(): the catalogs of either document, and all, that differ.
CatalogsOf(d) == IF d = NoDoc THEN {} ELSE d.cats
Merged(c, i, d) == [catalogs[c] EXCEPT ![i] = IF Listed(d, c) THEN d ELSE NoDoc]

\* Mutant: only the catalogs the new document names.
CatalogChangesAfter(i, before, after) ==
    {c \in CatalogsOf(after) \cup {All} : Merged(c, i, after) # catalogs[c]}

CatalogChanges(i, before, after) ==
    {c \in CatalogsOf(before) \cup CatalogsOf(after) \cup {All} : Merged(c, i, after) # catalogs[c]}

\* Others of the family, and those beyond the newest keep-1.
Others(i) == {j \in Item : j[1] = i[1] /\ j # i /\ info[j] # NoDoc}
Newer(i, S) == {j \in S : j[2] > i[2]}

\* Mutant: the current item's slot is counted twice.
BeyondKeepLess(i, keep) ==
    {j \in Others(i) : keep # 0 /\ Cardinality(Newer(j, Others(i))) >= keep - 2}

BeyondKeep(i, keep) ==
    {j \in Others(i) : keep # 0 /\ Cardinality(Newer(j, Others(i))) >= keep - 1}

\* protectedPublication(): pinned exactly, or by name where availability differs.
Protected(i, current) == i \in pins \/ (i[1] \in names /\ info[i].cats # current.cats)

\* Mutant: documents alone keep an installer.
ReferencedByDocument(l) == \E i \in Item : info[i] # NoDoc /\ info[i].loc = l

\* installerReferenced(): some document or catalog still names the location.
Referenced(l) ==
    \/ \E i \in Item : info[i] # NoDoc /\ info[i].loc = l
    \/ \E c \in Index, i \in Item : catalogs[c][i] # NoDoc /\ catalogs[c][i].loc = l

Init ==
    /\ info = [i \in Item |-> NoDoc]
    /\ catalogs = [c \in Index |-> [i \in Item |-> NoDoc]]
    /\ files = [l \in Loc |-> 0]
    /\ pins = {} /\ names = {} /\ lock = {}
    /\ pc = [p \in Proc |-> "idle"]
    /\ req \in [Proc -> Request]
    /\ leased = [p \in Proc |-> FALSE]
    /\ old = NoDoc /\ want = NoDoc /\ due = {} /\ victims = {} /\ victim = {} /\ vdoc = NoDoc
    /\ faults = 0 /\ env = 0

(***************************************************************************)
(* The apply: Handle() and reconcile().                                    *)
(***************************************************************************)
\* The engine offers a publication without leasing its bytes.
Start(p, q) ==
    /\ Goto(p, "idle", "locking")
    /\ req' = [req EXCEPT ![p] = q]
    /\ leased' = [leased EXCEPT ![p] = FALSE]
    /\ UNCHANGED <<repo, refs, lock, apply, faults, env>>

Acquire(p) ==
    /\ lock = {} /\ lock' = {p}
    /\ Goto(p, "locking", "reading")
    /\ UNCHANGED <<repo, refs, req, leased, apply, faults, env>>

\* A conflict over shared bytes, or a request for the bytes: the lock is released
\* and the engine calls again with the artifact leased.  (The bound on numbered
\* names ends an apply too.)
Refuse(p) ==
    LET q == req[p] IN
    /\ \/ ~HasLocation(q) /\ Goto(p, "reading", "idle") /\ UNCHANGED leased
       \/ /\ HasLocation(q) /\ ContentNeeded(q) /\ SharedInstaller(q)
          /\ Goto(p, "reading", "idle") /\ UNCHANGED leased
       \/ /\ HasLocation(q) /\ ContentNeeded(q) /\ ~SharedInstaller(q) /\ ~leased[p]
          /\ Goto(p, "reading", "locking")
          /\ leased' = [leased EXCEPT ![p] = TRUE]
    /\ lock' = {}
    /\ UNCHANGED <<repo, refs, req, apply, faults, env>>

Decide(p) ==
    LET q == req[p] IN
    /\ HasLocation(q)
    /\ IF ContentNeeded(q) THEN ~SharedInstaller(q) /\ leased[p] /\ Goto(p, "reading", "content")
       ELSE Goto(p, "reading", "catalogs")
    /\ old' = info[q.item] /\ want' = Desired(q)
    /\ due' = CatalogChanges(q.item, info[q.item], Desired(q))
    /\ victims' = {} /\ victim' = {} /\ vdoc' = NoDoc
    /\ UNCHANGED <<repo, refs, lock, req, leased, faults, env>>

\* "No catalog references an installer before its complete bytes are available."
PublishContent(p) ==
    /\ Goto(p, "content", "catalogs")
    /\ files' = [files EXCEPT ![want.loc] = want.hash]
    /\ UNCHANGED <<info, catalogs, refs, lock, req, leased, apply, faults, env>>

\* The changed catalogs, in the order of their names; the holder computed them
\* when it read, and nobody else writes while it holds the lock.
WriteCatalog(p, c) ==
    /\ pc[p] = "catalogs" /\ c \in due
    /\ catalogs' = [catalogs EXCEPT ![c] = Merged(c, req[p].item, want)]
    /\ due' = due \ {c}
    /\ UNCHANGED <<info, files, refs, lock, pc, req, leased, old, want, victims, victim, vdoc, faults, env>>

\* The document comes last; then retention, over the others read at the start.
WritePkginfo(p) ==
    /\ due = {}
    /\ Goto(p, "catalogs", "pruning")
    /\ info' = [info EXCEPT ![req[p].item] = want]
    /\ victims' = BeyondKeep(req[p].item, req[p].keep)
    /\ UNCHANGED <<catalogs, files, refs, lock, req, leased, old, want, due, victim, vdoc, faults, env>>

(***************************************************************************)
(* prune(): newest first, catalogs, then the document, then the installer.  *)
(***************************************************************************)
NextVictim(i) == i \in victims /\ Newer(i, victims) = {}

PruneKeep(p, i) ==
    /\ pc[p] = "pruning" /\ NextVictim(i) /\ Protected(i, want)
    /\ victims' = victims \ {i}
    /\ UNCHANGED <<repo, refs, lock, pc, req, leased, old, want, due, victim, vdoc, faults, env>>

PruneBegin(p, i) ==
    /\ NextVictim(i) /\ ~Protected(i, want)
    /\ Goto(p, "pruning", "unlisting")
    /\ victims' = victims \ {i} /\ victim' = {i} /\ vdoc' = info[i]
    /\ due' = CatalogChanges(i, info[i], NoDoc)
    /\ UNCHANGED <<repo, refs, lock, req, leased, old, want, faults, env>>

PruneCatalog(p, i, c) ==
    /\ pc[p] = "unlisting" /\ victim = {i} /\ c \in due
    /\ catalogs' = [catalogs EXCEPT ![c] = Merged(c, i, NoDoc)]
    /\ due' = due \ {c}
    /\ UNCHANGED <<info, files, refs, lock, pc, req, leased, old, want, victims, victim, vdoc, faults, env>>

PrunePkginfo(p, i) ==
    /\ victim = {i} /\ due = {}
    /\ Goto(p, "unlisting", "releasing")
    /\ info' = [info EXCEPT ![i] = NoDoc]
    /\ UNCHANGED <<catalogs, files, refs, lock, req, leased, apply, faults, env>>

PruneInstaller(p) ==
    /\ Goto(p, "releasing", "pruning")
    /\ files' = IF Referenced(vdoc.loc) THEN files ELSE [files EXCEPT ![vdoc.loc] = 0]
    /\ victim' = {}
    /\ UNCHANGED <<info, catalogs, refs, lock, req, leased, old, want, due, victims, vdoc, faults, env>>

Finish(p) ==
    /\ victims = {}
    /\ Goto(p, "pruning", "idle")
    /\ lock' = {}
    /\ UNCHANGED <<repo, refs, req, leased, apply, faults, env>>

\* An error, a cancellation or the death of the process: the lock goes, the
\* repository stays as it is.
Interrupt(p) ==
    /\ pc[p] # "idle" /\ pc' = [pc EXCEPT ![p] = "idle"]
    /\ faults < MaxFaults /\ faults' = faults + 1
    /\ lock' = lock \ {p}
    /\ UNCHANGED <<repo, refs, req, leased, apply, env>>

(***************************************************************************)
(* Administrators.  "External writers must use the same lock" (munki.go:29). *)
(***************************************************************************)
Edits == lock = {} /\ env < MaxEnv /\ env' = env + 1

\* A manifest, or another document, refers to an item or no longer does.
Pin(i) ==
    /\ Edits
    /\ pins' = (pins \ {i}) \cup ({i} \ pins)
    /\ UNCHANGED <<repo, names, lock, pc, req, leased, apply, faults>>

PinName(f) ==
    /\ Edits
    /\ names' = (names \ {f}) \cup ({f} \ names)
    /\ UNCHANGED <<repo, pins, lock, pc, req, leased, apply, faults>>

\* munkiimport and makecatalogs: a document for new bytes or for bytes that
\* another item installs already; every catalog is rebuilt from the documents.
Import(i, d) ==
    /\ Edits
    /\ info[i] = NoDoc /\ files[d.loc] \in {0, d.hash}
    /\ info' = [info EXCEPT ![i] = d]
    /\ files' = [files EXCEPT ![d.loc] = d.hash]
    /\ catalogs' = [c \in Index |-> [j \in Item |-> IF Listed(info'[j], c) THEN info'[j] ELSE NoDoc]]
    /\ UNCHANGED <<refs, lock, pc, req, leased, apply, faults>>

Step(p) ==
    \/ \E q \in Request : Start(p, q)
    \/ Acquire(p) \/ Refuse(p) \/ Decide(p) \/ PublishContent(p) \/ WritePkginfo(p)
    \/ \E c \in Index : WriteCatalog(p, c)
    \/ \E i \in Item : \/ PruneKeep(p, i) \/ PruneBegin(p, i) \/ PrunePkginfo(p, i)
                       \/ \E c \in Index : PruneCatalog(p, i, c)
    \/ PruneInstaller(p) \/ Finish(p)

Admin ==
    \/ \E i \in Item : Pin(i)
    \/ \E f \in Family : PinName(f)
    \/ \E i \in Item, d \in Doc : Import(i, d)

Next == (\E p \in Proc : Step(p) \/ Interrupt(p)) \/ Admin

Spec == Init /\ [][Next]_vars

\* A process that runs goes on, and an apply that failed is retried by the next
\* run (reconcile.go:311).
FairSpec == Spec /\ \A p \in Proc : WF_vars(Step(p))

(***************************************************************************)
(* Properties.                                                             *)
(***************************************************************************)
Writing == {"content", "catalogs", "pruning", "unlisting", "releasing"}
Published == {"pruning", "unlisting", "releasing"}

\* Every variable keeps its type.
TypeOK ==
    /\ info \in [Item -> Doc \cup {NoDoc}]
    /\ catalogs \in [Index -> [Item -> Doc \cup {NoDoc}]]
    /\ files \in [Loc -> Content \cup {0}]
    /\ pins \in SUBSET Item /\ names \in SUBSET Family
    /\ lock \in SUBSET Proc
    /\ pc \in [Proc -> {"idle", "locking", "reading"} \cup Writing]
    /\ req \in [Proc -> Request] /\ leased \in [Proc -> BOOLEAN]
    /\ old \in Doc \cup {NoDoc} /\ want \in Doc \cup {NoDoc} /\ vdoc \in Doc \cup {NoDoc}
    /\ due \in SUBSET Index /\ victims \in SUBSET Item /\ victim \in SUBSET Item
    /\ faults \in Nat /\ env \in Nat

\* "No catalog references an installer before its complete bytes are available"
\* (munki.go:426), nor after they are gone: at every moment, so for every client,
\* and whatever was interrupted.
InstallersAvailable ==
    \A c \in Index, i \in Item : catalogs[c][i] # NoDoc => files[catalogs[c][i].loc] # 0

\* "Replacing bytes in place must not break another item that installs them"
\* (munki.go:364), and prune() removes only unreferenced installers: the bytes a
\* document names change only while that very item is being published.
SharedBytesKept ==
    [][\A i \in Item :
          info[i] # NoDoc /\ files[info[i].loc] # 0 /\ files'[info[i].loc] # files[info[i].loc]
              => \E p \in lock : req[p].item = i]_vars

\* An apply that reached retention has published its item whole: document,
\* bytes, and the entry in exactly the catalogs it has, of those it had before
\* and has now, "so a retry after interruption still knows which old catalogs
\* require removal" (munki.go:451).
PublishedWhole ==
    \A p \in Proc : pc[p] \in Published =>
        LET i == req[p].item IN
        /\ info[i] = want /\ files[want.loc] = want.hash
        /\ \A c \in CatalogsOf(old) \cup {All} \cup want.cats : catalogs[c][i] = IF Listed(want, c) THEN want ELSE NoDoc

\* Retention removes an item only when it was asked for and no reference needs
\* it, exactly or by a name the current item does not serve alike, and the current
\* item and keep-1 newer ones stay (retention.go:19, 94).
RetiresSound ==
    \A i \in Item : info[i] # NoDoc /\ info'[i] = NoDoc =>
        /\ i \notin pins
        /\ \E p \in lock : LET current == req[p].item IN
            /\ current # i /\ info[current] # NoDoc /\ req[p].keep # 0
            /\ i[1] \in names => info[i].cats = info[current].cats
            /\ Cardinality(Newer(i, Others(current))) >= req[p].keep - 1

\* "Protected publications do not consume those N slots"
\* (docs/content/publishing.md:481): an item that is removed leaves keep-1 newer
\* ones that nothing protects.
SlotsForUnprotected ==
    [][\A i \in Item : info[i] # NoDoc /\ info'[i] = NoDoc =>
          \E p \in lock : LET others == Others(req[p].item) IN
              Cardinality({j \in Newer(i, others) : ~Protected(j, want)}) >= req[p].keep - 1]_vars

\* Repeating an apply "converges on what destinations already hold"
\* (reconcile/marker.go:13): once nobody interrupts or edits, every publication
\* asked for is there and stays, unless its bytes are shared with another item.
Holds(q) ==
    \/ /\ info[q.item] # NoDoc /\ info[q.item].hash = q.hash
       /\ files[info[q.item].loc] = q.hash
       /\ \A c \in Index : Listed(info[q.item], c) => catalogs[c][q.item] = info[q.item]
    \/ info[q.item] # NoDoc /\ ContentNeeded(q) /\ SharedInstaller(q)
Converges == \A q \in Request : <>[]Holds(q)
=============================================================================
