# A TLA+ model of Stemma

Stemma keeps a fleet's software current. A project declares resources (software
with its inputs and destinations); `stemma update` observes the sources and
records what it saw in lock documents; a person reviews the lock documents;
`stemma apply` builds exactly the locked content and publishes it to Munki,
Intune or Jamf. `stemma reconcile`, started by a scheduler, does both for a git
branch: it applies the reviewed head and proposes lock changes as pull requests.

Most of the program reads and writes file formats. What can go wrong in ways a
unit test hardly reaches is in the parts that share state with something else:
a cache directory that several processes collect and fill, a branch that people
push to while a run decides about it, a repository that clients read while it
is written, an app that a remote service processes in its own time, a project
directory with two commands in it. Those parts are modelled as state machines.
The computations between them (which release is newest, what a patch changes,
where a link inside an archive leads) are operators, compared with a reference
definition over all inputs of a bounded size.

## 1. Inventory

| Part | State it keeps | Operations | Who else touches it | What makes it correct |
|---|---|---|---|---|
| `internal/cas` cache | objects, source and derivation indexes, plugin installations, recency markers, work directories; `cache.lock`, one lock per installation | lease, write, verify, reuse, remember, install, execute, maintain, prune | other stemma processes, crashes, the disk | what a command obtained stays while it runs; a collection removes only what is abandoned, invalid or old; a completion marker means complete |
| `internal/reconcile` | the clone's fetched refs, the applied marker; branches, pull requests and statuses on the host | apply phase, resolve, propose, retire, plan, pull requests | people (push, close, delete, merge), sources, a host whose calls fail | a person's work is never rewritten; the marker names a head that was applied in full; declined stays declined; failing resources keep their proposals; it converges |
| `internal/engine` session and run | loaded project, prepared resources, publication outcomes, counters | begin, prepare, reconcile a publication, complete, commit | other commands, people who edit, vendors who release | only reviewed content is published; failures stay with their resource; peers first; each result reported once |
| `internal/lockfile` | one document per resource, `project.lock` | Lock, Begin, Acquire, Commit, Save | as above | rejected resources keep reviewed entries; an interrupted Save leaves a lock that loads and is repaired; validation and runs accept the same locks |
| `internal/munkirepo` | pkginfo documents, catalogs, installers, `.stemma.lock` | publish an item, rewrite catalogs, retain | other publishers, clients without a lock, administrators | a catalog never names bytes that are not there; shared bytes survive; retention keeps what is referenced |
| `internal/intune` | an app, its content versions and the marker in its notes, all at Graph | create, choose a version, upload, commit, activate, publish, metadata | Graph's processing, administrators, interrupted runs | the marker tells the truth about bytes; nothing is uploaded twice; it converges |
| `internal/jamf` | package records, uploads, policies, patch titles at Jamf | upload, policy and patch reconciliation, retention | Jamf's own processing, administrators, interrupted runs | a policy is never live without its content; one record and one transfer per file; others' packages and edits survive; it converges |
| `internal/source` | source index with validators, discovery cache, shared requests in flight | Resolve, Refresh, FetchLocked, discovery | concurrent jobs, publishers, servers, the collector | a refresh never passes off one file as another; one answer per run; a moved source is seen, and costs one transfer |
| preparation (`internal/engine`) | derivation index and outputs in the cache | recall, operate, verify, import, remember | other commands, the collector, plugins that write to their inputs | a command is answered what it would be answered without a cache |
| `internal/plugins`, `plugin` | registry tag and parts, lock entries, installed plugins, a process per request | publish, lock, load, verify, describe, call | other publications and jobs, people who edit local plugins, pipes | a run executes what is pinned; a tag names whole releases; the answer that arrives is the one that was given |
| trees and archives (`internal/treefs`, `archive`, `contents`) | none; directories that others edit | open, read, close; extract, pack, select | builds and people who write the same directory | a read is of one moment; extraction writes what the archive lists, inside its root |
| computations | none | selection of sources, derived metadata, relations, catalogs, software selection, layouts, pkginfos | | each agrees with a reference over all bounded inputs, and settles when repeated |
| `internal/mcpserver` | none: a tool call is one engine run inside `cas.Run` | | the agent | (the command's own modules) |
| `internal/git`, host, `internal/fileio` | refs, pull requests, files | fetch, leased push, atomic replacement | | taken as what their callers rely on |
| binary formats, schemas, expressions, reports, CLI | none that outlives a call | functions of bytes and documents | | unit tests of the repository |

`PROJECT.json` lists every part with its files and how much of it is modelled.

How the parts meet: `cmd/stemma` wraps a command in the cache's maintenance and
an outer lease (`cas.Run`); a session loads the project, takes `project.lock`
and a nested lease; the run asks `lockfile.Update` for inputs, which asks
`source.Manager`, which fills the cache; operations, which plugins provide,
prepare outputs that are cached under derivation indexes; destinations receive
content and answer plan and apply.
Reconcile calls the engine for its apply, its resolution and its plans. The
modules follow these seams: what a module needs of its neighbour is an outcome
(success, failure, or death in the middle), and the neighbour has its own module.

## 2. Modules

State machines:

| Module | Models | Lines of the source |
|---|---|---|
| `Cas` | cache, leases, installations, collector | `internal/cas` |
| `Reconcile` | scheduled runs against a reviewed branch and a host | `internal/reconcile`, its uses of `internal/git` and the GitHub client |
| `MunkiRepo` | apply and retention on a Munki repository | `internal/munkirepo` |
| `IntuneApp` | one app's content through Graph | `internal/intune/{intune,content,client}.go` |
| `Jamf` | one software's package, policies, patch and retention at Jamf | `internal/jamf/{jamf,package,policy,patch,retention,marker}.go` |
| `ReviewedPublication` | what update and apply promise: sessions that run one after the other | `internal/engine/{session,run}.go`, `internal/lockfile/lockfile.go` |
| `Engine` | update and apply on one project, implementing it | `internal/engine`, `internal/lockfile` |
| `Sources` | refreshing and fetching inputs through shared caches | `internal/source/{source,acquisition,entry,http,http_source,discovery_cache}.go` |
| `PreparationSpec`, `Preparation` | what a preparation promises, and the cache that keeps the promise | `internal/engine/{resources,run}.go` |
| `TreeReads` | one read of a file in a tree that others edit | `internal/treefs` |
| `LockDocuments` | a save of the lock, one system call a step, on file systems with and without case; what loads; which locks pass | `internal/lockfile/lockfile.go` |
| `Plugins` | publication, locking, installation and loading of plugins | `internal/plugins`, `internal/engine/plugins.go` |

Computations:

| Module | Models | Lines of the source |
|---|---|---|
| `SourceSelection` | the link, release, bottle, installer or local path a declaration selects | `internal/source/{discovery,github,homebrew,winget,local,...}.go` |
| `Catalog` | selection, closures, what changed, peers, input identities, minimum versions | `internal/engine/{resources,changed,composition,input,minimum}.go` |
| `Operations` | descriptions, registration, one request and one response over a pipe | `plugin/`, `internal/engine/{plugins,operations}.go` |
| `JamfMetadata` | enumeration, names, derived settings, Classic documents | `internal/jamf/{derive,names,classic,client,...}.go` |
| `IntuneMetadata`, `IntuneRelations` | types, derived fields, patches, detection; relationships, assignments, categories | `internal/intune/` |
| `MunkiItems` | derived pkginfo fields over what an earlier publication left | `internal/munki/`, `internal/munkirepo/fields.go` |
| `Trees` | extraction, canonical form, lookup, selection | `internal/{archive,diskimage,contents}` |
| `MacPackages`, `MacSoftware`, `WindowsSoftware` | signers and subjects, package layouts, the choice of what is published | `internal/{signature,macpkg,pkgbuild,macsoftware,windowssoftware}` |

`CasProofs`, `ReconcileProofs`, `MunkiRepoProofs`, `EngineProofs`, `PreparationProofs`,
`IntuneProofs` (about `IntuneApp`), `JamfProofs` and `SourcesProofs` hold the theorems
about the module of that name. `PreparationProofs` also holds those about what a
preparation reads: `TreeReads`, `Plugins` and `LockDocuments`, instantiated as
`MCComputations` has them. `MC*` are instances for TLC.

Each module opens with its abstractions. In the state machines one action is one
piece of code between two points where another actor can act: a file replaced, a
request answered, a lock taken. Cancellation and process death are actions that
may come between any two others. Definitions after the word "Mutant" in a comment
are deliberate errors. One per property is listed under `mutants` in
`PROJECT.json`; where a property has several parts, the others break the part
their comment or their neighbour is about, so that each part can be seen to fail.

### Cas

State: for every digest the bytes on disk (good, flipped, truncated, absent); for
every index key its state and the objects it names; for every plugin its staged
files and its `complete` marker; recency (`uses`), private files (`partial`,
`orphan`); the locks; per process its place in its command, what it knows to
exist and what it executes; the collector's inventory, its current victim and
the indexes that fall with it. Actions: `StartRun`, `StartPrune`, maintenance
that is skipped or begins, `Lease`, sessions, the steps of `Write`, `Verify`,
`Remember`, `Install` and of `collect`, and the environment's `Crash`, `Cancel`,
`BitRot`, failing recency writes and a removal torn by a crash.

### Reconcile

State: the reviewed branch as a sequence, tips of managed branches, open and
closed pull requests, statuses, the applied marker, destinations, what the run
fetched, resolved and listed, and the proposal in hand. The runner's actions
follow `Run`: `Sync`, `Load`, apply with its status and marker, `Resolve`, listing,
and per proposal push, pull request, plan, or retirement. People and sources act
between any two of them, so everything the run holds may be stale; pushes and
deletes are guarded by the lease on the fetched tip as in the code.

### MunkiRepo

State: pkginfo documents, catalog entries, installer bytes, references by
manifests and other documents, the lock and one apply per process. The order of
writes is the code's: content, document, catalogs one at a time, then retention
(unlist, remove the document, release the bytes). Clients need no action:
`InstallersAvailable` is an invariant, so it holds whenever a client looks.

### IntuneApp

State: the app as Graph has it (marker, committed version, publishing state), its
content versions with their file's progress, and the run's local copies. Graph
moves files and publications on, or rejects them, in its own time.

### Engine

State: the declarations and sources, the lock documents, what each publication
holds, the project lock, and per process the loaded declarations and lock,
observations, staged entries, outcomes, the counters behind `ResourceDone`. Save
is one action per document, removals first, so a death in the middle of it is a
behaviour. `Session` maps the holder of the project lock, with what it loaded, read and
observed, to the session of `ReviewedPublication`, which knows no processes, no project
lock, no order of work and no failures. Beginning, dying and closing are `Begin` and
`End` there, a first observation is `Observe`, a document saved is `Write`, a publication
is `Publish`, and every other step is a stutter. `Serialized` says that every behaviour
is one of that specification.

### Jamf

State: records (name, marker, metadata version, what bytes they hold, Jamf's
state for them), transfers in progress, the install policy, the title's links and
policy, other references, and what the run in hand has read. `Locate`, `Plan`,
`Create`, `Upload` and the waits follow `package.go`; `MergeRead`/`MergePut` are
the Classic API's read and replacement of a whole document; retention reads
policies, PreStages and titles one after the other before it deletes. Jamf
processes transfers in its own time and may reject them; administrators create
records, edit, refer, forget and define titles between any two steps.

### Sources

State: what every address serves and how the server identifies it, the metadata
page, stored objects, the index by observation, the persisted and the shared
answers, the request in flight with its callers and leader, lock entries, and per
declaration the job. A caller may leave a shared request, its leader may die, a
transfer may fail, and the publisher may replace a file at any point.

### Preparation

State: the derivation index, the payloads, and per process the request, what the
operation made and whether its inputs are intact. `Promise` maps it to
`PreparationSpec` (`request <- req`), which has no cache: `Uncached` says that every
behaviour is one of that specification.

### TreeReads, LockDocuments and Plugins

`TreeReads`: directory entries, objects and their versions, and the handles of one
`OpenFile`...`Close`, one system call a step. `LockDocuments`: documents and
directories under the names the disk has, hidden files, the save in hand with what it
still removes and writes; a save may be cut off between any two calls, and another may
follow. `Engine` takes from it that a save goes through the documents one by one.
`Plugins`: the registry's parts and tag,
the project's declaration, files and entry, cached parts, installations, and jobs
that run, lock, update or verify.

### MCConvergence and MCComputations

These put several instances into one run. The initial state chooses a part (and,
for computations, one question with its input), no step changes the choice, and the
variables of the other parts are constant, so the states of a run are those of its
instances together. A property there is the conjunction of its parts' properties:

| Property | Parts |
|---|---|
| `TypesOK`, `MarkerTruthful`, `SkipsCompleted` | `IntuneApp` (and the types of `Jamf`) |
| `JamfConsistent` | one record per file name, a live policy has content, one transfer per file, a plan announces the deletions |
| `OthersWorkKept` | Munki's and Jamf's retention, the bytes of others' packages, administrators' edits |
| `SourcesSound` | a refresh is fresh, one answer per run, one transfer per file |
| `ReconcileConverges`, `InputsCatchUp`, `DestinationsConverge` | liveness of reconcile, of refreshes, and of Munki, Jamf and Intune |
| `SelectionSound` | highest link, newest release, a bottle that runs, an installer's own identity, paths inside the project, private headers kept at their origin |
| `MetadataSettles` | Jamf's lists, derivations, document updates and notes; Intune's patches, derivations, detection rules, minimum systems, relationships, assignments and categories |
| `CatalogSound` | ordered closures, exact owners, exact changes, accepted peers resolve, identity of a connection, minimum versions; a lock that loads whenever its save is cut off, keeps what no save changes, is what was saved, and passes validation exactly when runs take it |
| `TreesSound` | reads of one moment, extraction, signatures in attributes, round trips, host lookup, selection inside, kept files |
| `SoftwareSound` | signers accounted for, derived expectations hold, layouts staged as declared, links inside, selectors heeded, what is published was verified, portable layouts, one setup file, versions, and Munki items that are detected where they were copied, leave nothing over and remove what they copied |
| `PluginsSound` | whole releases, pinned runs, local snapshots, locked entries that loaded, offline runs, registration without traces, configured handlers, answers as they were given |
| `Uncached` | `Preparation` implements `PreparationSpec` |

## 3. Runs

| Run | Bounds | Shows |
|---|---|---|
| `cas_objects` | 2 processes, 1 object, 1 index, budget 2, grace 1, clock to 3, one command each, one fault of crash, cancellation, bit rot, failed recency | objects, work and eviction: `LiveWorkKept`, `LeasedContentKept`, `CollectionSound` |
| `cas_installs` | 2 processes, 1 plugin, one fault of crash, cancellation, failed recency, torn removal | `MarkerMeansStaged`, `ExecutedInPlace`, and `CommandsEnd` under fairness |
| `cas_discard` | 2 processes, 1 object, bit rot | **violation**: a reader that hashed a corrupt object removes a good one written since |
| `reconcile_safety` | 2 resources on own branches, 2 reviewed commits, 3 moves of people and sources, 1 fault | `PersonWorkKept`, `UnresolvedKept`, `NoReopenAtTip`, `MarkerTruthful` |
| `reconcile_takeover` | 1 resource, source moves and pushes | **violation**: the pull request of a branch that a person took over meanwhile is closed |
| `reconcile_decline` | 1 resource, closes and deletions | **violation**: a declined proposal is opened again |
| `munki_safety` | 2 publishers, 2 versions, a rebuild, 2 catalogs, 2 filenames, 1 interruption, 1 edit | `InstallersAvailable`, `PublishedWhole`, `SharedBytesKept` |
| `munki_slots` | 4 versions, 4 edits | **violation**: protected items consume retention's slots |
| `engine` | 2 processes, 2 resources (one consumes the other, one local), 3 publications with a peer reference, 2 declarations, 2 contents, 1 fault, 2 edits, releases or selections | `Serialized`, `RejectedKept`, `OneObservation`, `ReportedOnce`, `PeersFirst`, `Converges` |
| `convergence` | reconcile: 1 resource, 3 moves of contents or 2 of contents and metadata, 1 fault; Munki: 1 publisher, 3 versions, 1 interruption, 2 edits; Jamf: 3 versions of which 2 share a name, 1 fault, 2 changes; Intune: 2 payloads Graph cannot tell apart, 7 versions, 2 faults, 2 changes, 3 of them together; sources: a matched link, a plain address, and two declarations that share a page, 2 or 3 files, 1 fault | the destinations and the sources settle, and what must hold on the way |
| `computations` | preparation: 2 processes, 3 commands; one read against 3 edits; images with 2 releases and a local plugin with 2 jobs, 1 fault; 3 saves of 10 locks on both kinds of file system, 1 of them cut off; every computation over all inputs of the sizes in `MCComputations` | `Uncached` and the groups above |
| `prepare_derive` | 1 process, 2 commands, one of which may derive | **violation**: outputs made while observing policies answer an ordinary command |

Why the bounds are enough to mean something: every hazard listed in
`PROJECT.json` needs two actors and at most one failure and two or three changes of
the world between two steps of a command; the bounds allow that many everywhere,
and every action of every module occurs in some passing run. `MaxVersions = 7` for
`IntuneApp` is more than two faults and two changes can create; `MaxId = 3` of `Jamf`
is reached, and then the disjunct `Blocked` of its convergence holds. `MaxCopies` gives one
numbered variant of a filename, which is one more than the requests can collide
on. Inputs of computations have two or three elements, enough for two of them to
collide, shadow, order or close a cycle, and one bystander.

The violations are disagreements between the code and what a comment or a page of
the documentation says; `findings` in `PROJECT.json` quotes both.

Deadlock is checked wherever the system never stops: `CHECK_DEADLOCK FALSE` is set
only for `Cas` and `prepare_derive`, where the number of commands is bounded.

### Fairness

- `Cas`: weak fairness for each step of a live process; strong fairness for the
  end of a session and of a command, because they may be re-enabled only between
  other work of the same process. A command's body is finite code, and `flock` waits
  poll (`cas.go`), so nothing more is assumed of the operating system.
- `Reconcile`: weak fairness of the runner. "A scheduler invokes it"
  (`docs/content/reconcile.md:5`), and a run that started goes on.
- `MunkiRepo`: weak fairness of each process's step; a failed apply is retried by
  the next run (`reconcile.go:311`).
- `IntuneApp`, `Jamf`: weak fairness of the run and of the service. The waits in the
  code have deadlines; a deadline that passes is an interruption and counts as a fault.
- `Sources`: weak fairness of each job's work and of the servers' answers; strong
  fairness of new runs, since a run can start only when no job is at work.
- `Engine`: the command that holds the project lock proceeds, and a free lock is taken
  by somebody; a single process may poll for ever, as `Lock` gives no order. Update
  and apply without selectors are started again and again (strong fairness, since a
  process is only sometimes idle).

Nothing is assumed of people, vendors, administrators or faults.

## 4. Theorems

The runs check one small instance each. For these properties TLAPS proves them for
every set of processes, objects, plugins, resources, items, payloads, records and
declarations, and every bound:

| Module | Theorems | Inductive invariant |
|---|---|---|
| `CasProofs` | `TypeCorrect`, `LiveWorkSafe`, `LeasedContentSafe`, `MarkersTruthful`, `InstallationsStable` | `CasInv`: types; the locks agree with the program counters and a collector is alone (`LockInv`); a process that stages holds the key's lock and the key is unmarked (`StagingInv`); what executes is marked and its session open (`ExecutingInv`) |
| | `CollectionSafe` | `CollectorInv`: while a process collects, its list is what the directory holds but for the victim (`Accurate`), and every invalid entry is due: on the list, garbage since the inventory, or an index of the victim (`Due`) |
| `ReconcileProofs` | `PersonWorkSafe`, `MarkerSafe`, `UnresolvedSafe` | `OwnershipInv`: what a run pushes over or deletes was managed in the history it fetched, and that history is contained in today's; `AppliedInv`: the marker never passes the head and moves only after the status; `UnresolvedInv`: failed resources are in no set, and their branches are not doomed |
| | `TypesSafe`, `DeclinedSafe` | `ReopenInv`: what is published was judged not declined; a pull request closed since on that branch was listed as open, and then the run opens no other |
| `MunkiRepoProofs` | `TypeCorrect`, `InstallersSafe`, `PublishedSafe`, `SharedBytesSafe` | `RepoInv`: one holder; every document, not only every catalog entry, names bytes that are there; what the holder has decided still agrees with the repository it read |
| | `RetentionSafe` | `RetireInv`: each candidate that waits has enough newer documents; the one being removed is newer than those that wait and nothing protects it |
| `PreparationProofs` | `TypeCorrect`, `CacheTransparent` | `CacheInv`: what the index holds for a key is what the operation makes of every request with that key (`KeyDecides`: the operation is not given what the key leaves out), what a process made is of its own request once its inputs were found intact; then every step is a step of `PreparationSpec` or a stutter (`StepImplements`) |
| | `ReadsAreConsistent` (`TreeReads`) | `ReadInv`: versions only grow, so while a version is the one observed, what the name leads to is, too (`DirObserved`, `FileObserved`); a piece that was read has a version between the observed one and today's (`PiecesRead`); each check of `Close` that passes turns what was observed into what was there (`Closing`) |
| | `TagsNameWholeReleases`, `EntriesLoaded`, `CopiesWereOnDisk`, `PinnedCodeRuns`, `InstalledPluginsRunOffline` (`Plugins`) | `StoreInv`: the tag follows the push, parts before wholes (`Published`); files only go forward (`Project`); what is installed under a key is the code of that key, or was changed by hand (`InstallsSound`); per load, what it was told, chose, holds and fetched agrees with its key at each step (`Told`, `Chose`, `Holds`, `Fetched`) |
| | `SavesTouchNoOther` (`LockDocuments`) | `SaveInv`: no two names on the disk are one name to the file system (`DiskSound`), and what is still to be removed or written is of the lock in hand (`SaveSound`) |
| `EngineProofs` | `TypeCorrect`, `SessionsSerialized`, `PublicationReviewed`, `ReviewKept`, `ObservationShared`, `ResultsReported`, `PeersReady` | `EngineInv`: one holder of the project lock; what it has read is what the documents hold, or, inside Save, each document is the one read or the one to write (`Locked`); a prepared resource is selected, has prepared producers and is staged from the reviewed entry or from the observation of its declaration (`Staged`); a resource waits for exactly its unsettled publications (`Waiting`); then every step is a step of `ReviewedPublication` or a stutter (`SessionStep`) |
| `IntuneProofs` | `TypeCorrect`, `MarkerSafe` | `TruthInv`: committed bytes are those the file was begun for, the marker vouches for the bytes of the active version, and at each point of a run what it read and chose still bears that out |
| | `SkipsSafe` | `SkipInv`: until somebody edits the marker, two viable files for one payload have another payload's between them (`Separated`), and the marker leads to the last viable file (`LastKnown`) |
| `JamfProofs` | `TypesSafe`, `RecordsSafe`, `PoliciesSafe`, `UploadsSafe`, `PlansSafe`, `ReferencesSafe`, `OthersSafe`, `EditsSafe` | `Inv`: what is in hand exists (`InHand`), the name it is about to take is free (`NameFree`), two records share a name only where somebody took it (`Names`), live policies and transfers are complete (`Complete`, `Transfers`), what is retired is the software's and not the current record (`Retiring`), a reference that was not read is new (`Referred`), and undisturbed deletions are what the plan said (`Honest`) |
| `SourcesProofs` | `TypesSafe`, `FreshSafe`, `AnswersSafe`, `TransfersSafe` | `Inv`: whoever waits waits with a leader (`Waiting`); what a job took was served while it asked, or confirmed (`Asked`); answers used in a run are the shared one (`Shares`); while nothing was lost, the index knows every file that was transferred and is still served or is about to (`Recorded`) |

Why the strengthenings are needed:

- `LiveWorkKept` alone does not exclude a collector beside an open session.
- `CollectionSound` speaks of the end of a collection only. Removing an entry makes others
  invalid (an index whose object went), so what is invalid meanwhile must be accounted
  for: it is on the list of what falls next. Nothing else changes the directory, because
  the collector is alone by `LockInv`. A collection over its budget always finds a next
  victim because recencies are natural numbers, so among the evictable entries one is the
  least recently used.
- `InstallersAvailable` alone does not survive the step that lists a document whose bytes
  are missing.
- Retention judges its candidates at once and removes them one by one. It removes the
  newest first; the documents newer than another candidate that the judgement counted stay,
  because the newer candidates are not among them. That some stay is a comparison of
  cardinalities, for which there must be finitely many documents.
- `MarkerTruthful` of `Reconcile` alone does not know that the apply that precedes the
  marker was of the same head.
- `NoReopenAtTip` holds across what people do between the listing and the opening because
  a new commit has an identity that nothing refers to. There is one, since finitely many
  commits are referred to (`ASSUME` on `Res`) and more than that many are numbered.
- `Serialized`, and `PublicationReviewed` as an action property of its own
  (`PublishedAsLocked`), need that everything a payload is built from was prepared, which
  holds because the prepared resources are closed under producers and `Closure` is the
  least such set. That an update's documents are of one reading and one observation needs
  two facts: an observation is added only where there was none (`ObservesOnce`), and a
  document that Save has yet to write is the one that was read.
- `ReadsOneMoment` speaks of a read that ended. What a step may conclude from an equal
  version depends on when it was observed, so the invariant has one part per object, each
  from the step that observes it to the step that closes it.
- That an installation of local files was on the disk at one moment needs two readings of
  each file: files only go forward, so a first file that was copied as it was hashed had
  not changed when the second was hashed, and at that moment both were there.
- That a load fails for want of the registry only while it misses something depends on
  other loads: parts that are fetched stay, since nobody decays the cache while a load is
  at work (it holds the maintenance lease, as `Cas` shows).
- `OthersUntouched` alone does not survive a replacement: on a file system without case it
  replaces whatever has the document's name there. The documents of one lock differ even
  without case (`DocumentsApart`, from `checkPaths`), but what the name leads to on the
  disk is unique only by `DiskSound`, which removals, new directories and replacements
  under a name in the old or the new case must keep.
- The types of `IntuneApp` are not inductive by themselves: that the version a run works on
  exists follows from the marker it read.
- `RefreshTransfersOnce` needs that mutable inputs are observed without an asset
  (`Addresses`), so that one index entry is asked for every time, and that a file the
  publisher puts up is newer than all that were transferred (`Uploads`).

Assumptions: the named `ASSUME`s of the modules, which TLC evaluates in every run.
`Jamf`, `Sources`, `Plugins` and `LockDocuments` are only ever instances, so theirs is a
definition, `ConstantsAssumption`, a hypothesis of each theorem; `MCConvergence` and
`MCComputations` assume it of each of their instances, where TLC evaluates it. They ask
for a natural numbering (of versions, files, records and bounds), that the software has at
least one version, and that a resource of a lock has a group, a version, a kind and a
name.
`UnresolvedSafe` and `DeclinedSafe` have one more hypothesis, `OwnBranch`: different
resources have different branches. `branchName` does not guarantee it for every pair of
names (see below), so it is a hypothesis of the theorems and not of the module.
`CacheTransparent` has the hypothesis `~Derives`: no command observes policies.
`prepare_derive` shows that it cannot be left out.

Only model-checked:

- all liveness (`CommandsEnd`, `Converges` and the convergences), which is outside the prover;
- `LoadsMeanwhile` and `SavedLoads` of `LockDocuments`: that every document on the disk
  has a key depends on which of the locks' names are the default group and version but for
  their case, and the comparison with `goal` on the inverse of `DocumentPath`;
- of `Plugins`, what its messages and registrations are (`Operations`);
- the groups of `MCConvergence` as such (`TypesOK`, `JamfConsistent`, `SourcesSound`,
  `OthersWorkKept`) and of `MCComputations`. Each part of the former, and the parts of
  `PluginsSound`, `TreesSound` and `CatalogSound` named above, are theorems of the module
  they are about; a group says it of an instance as long as the initial state chose that
  part;
- the computations, most of which are folds or recursive: what they return for every
  input needs induction over data.

## 5. What the models leave out

Binary formats (XAR, Mach-O, MSI, CMS, Authenticode, disk images, icons), schemas,
rendering, reports and the command line: sequential functions of bytes and documents
without shared state, beyond TLC's reach where they are interesting at all.
Authentication, rate limits and retries inside a single request (a request succeeds,
fails, or succeeds with its answer lost). The methods `plan`, `validate`, `inspect`,
`icon` and `artifact`, which neither write the lock nor publish. Parsing of pages and
catalogs: a resolver is modelled from what it found. Expressions are evaluated
outside; a catalog says what a declaration needs. Profiles and suspended resources
appear in `Reconcile` and `Catalog`. `mcpserver` keeps nothing between calls.

Deviations seen while modelling that no run shows:

- `RemoveAll` of an installation (`maintenance.go:147`) can die after some files and
  before `complete`; the model has this state (`torn`), `MarkerMeansStaged` names it,
  and `install.go:28` would take such a directory for complete.
- A pull request that the reconciler itself closed can later be read as a person's
  decline (`proposal.go:192`).
- `branchName` maps the resources `tool` and `tool.lock` to one branch
  (`changes.go:147`; `docs/content/reconcile.md:49-54`).
- After an apply that was interrupted and whose declaration then changed catalogs, an
  entry can stay in a catalog the document no longer names (`munki.go:469`;
  `docs/content/publishing.md:61-62`).
- An Intune app whose first upload was for another payload, or was rejected, or whose
  unrecorded version cannot be told from an administrator's, is refused by every
  later run (`content.go:227-248`): the disjunct `Unfinished` of `Converges`.
- A Jamf run stops for good when a record without its marker holds the file name, when
  a pinned record is marked for another software, or when a title's version has two
  links (`package.go:213-228`): the disjunct `Blocked`. An administrator has to decide.
- A save that is cut off between the removal of a document and of its directories leaves
  an empty directory, and a hidden file (`.DS_Store`, the temporary file of a replacement
  that was killed) keeps a directory, too. No later save removes it (`lockfile.go:707`).
  If after that a kind or an API version is renamed in case alone, on a file system
  without case, the new document goes into the directory with the old name, loads as the
  old resource, and every update says again that the lock is stale. The comment at
  `lockfile.go:700` excludes this only for saves that end; `SavedLoads` names the condition.
- A session loads the project before it waits for the project lock (`session.go:33`).
  An update without selection that waited with older declarations removes the
  document of a resource declared meanwhile (`docs/content/sources.md:305`). The next update
  puts it back, which `Engine`'s `Converges` shows.

## 6. Plan

Done: the core, the destinations and the sources with their proofs; preparation and
reviewed publication with their refinements; plugins, tree reads and saves with their
proofs, and the computations between them. Left:

1. The composition of `Sources` with `Engine`'s updates, now joined only by outcomes: an
   update of `ReviewedPublication` whose `Observe` is a whole refresh.
2. `LoadsMeanwhile` and `SavedLoads` for every set of locks, which asks for a
   characterization of the paths whose key survives a change of case.
