---------------------------- MODULE LockDocuments ----------------------------
(***************************************************************************)
(* The documents of a lock (internal/lockfile): where each resource's is, how  *)
(* Save replaces them on file systems with and without case, what Load makes   *)
(* of what a save left, and the checks of a lock against declarations.         *)
(*                                                                         *)
(* A path is a sequence of names, and a name <<stem, n>> ends in n times        *)
(* ".yaml".  A resource is the path of its key, group, version, kind and name;  *)
(* a lock is a function of resources, and of Plugins, to their entries.        *)
(***************************************************************************)
EXTENDS Integers, Sequences, FiniteSets, SequencesExt
CONSTANTS
    Locks,               \* the locks that are saved
    Lower,               \* what stems are without case
    MaxSaves, MaxFaults

Plugins == <<>>
\* A resource has a group, a version, a kind and a name.
ConstantsAssumption ==
    /\ \A lock \in Locks : \A r \in DOMAIN lock : r = Plugins \/ (r \in Seq((DOMAIN Lower) \X Int) /\ Len(r) = 4)
    /\ "plugins" \in DOMAIN Lower /\ {MaxSaves, MaxFaults} \subseteq Nat
DefaultAPI == <<<<"stemma", 0>>, <<"v1alpha1", 0>>>>
PluginDocument == <<<<"plugins", 1>>>>
Named(path, by) == [path EXCEPT ![Len(path)] = <<@[1], @[2] + by>>]
DocumentPath(resource) ==
    IF resource = Plugins THEN PluginDocument
    ELSE Named(IF IsPrefix(DefaultAPI, resource) THEN SubSeq(resource, 3, 4) ELSE resource, 1)
\* The key that a document's path stands for, if any.
KeyAt(path) == IF path = PluginDocument THEN Plugins ELSE (IF Len(path) = 2 THEN DefaultAPI ELSE <<>>) \o Named(path, -1)
IsDocument(path) == path = PluginDocument \/ (Len(path) \in {2, 4} /\ Last(path)[2] > 0 /\ DocumentPath(KeyAt(path)) = path)

Ancestors(paths) == UNION {Prefixes(p) : p \in paths}
Folded(path) == [i \in DOMAIN path |-> <<Lower[path[i][1]], path[i][2]>>]
\* checkPaths(): paths that "coexist on case-insensitive filesystems".
CheckPaths(paths) ==
    /\ \A p, q \in Ancestors(paths) : Folded(p) = Folded(q) => p = q
    /\ \A p, q \in paths : IsPrefix(p, q) => p = q
Documents(lock) == {DocumentPath(r) : r \in DOMAIN lock}
Encode(lock) == [p \in Documents(lock) |-> lock[KeyAt(p)]]
\* Decode() of the documents of a directory; none is no lock.
Decodes(files) == CheckPaths(DOMAIN files) /\ \A p \in DOMAIN files : IsDocument(p)
Decode(files) == [r \in {KeyAt(p) : p \in DOMAIN files} |-> files[DocumentPath(r)]]

(***************************************************************************)
(* Save, one system call at a time.                                        *)
(***************************************************************************)
VARIABLES
    folds,               \* whether the file system has names without case
    docs, dirs, hidden,  \* documents, directories, and those of them that hold a hidden file
    goal, base,          \* the lock being saved and the documents before
    saving, stale, climbing, todo,
    left, whole,         \* directories without documents that a save found, whether the last one ended
    saves, faults
vars == <<folds, docs, dirs, hidden, goal, base, saving, stale, climbing, todo, left, whole, saves, faults>>
disk == <<docs, dirs, hidden>>

Init ==
    /\ folds \in BOOLEAN /\ docs = <<>> /\ dirs = {} /\ hidden = {} /\ goal = <<>> /\ base = <<>>
    /\ saving = FALSE /\ stale = {} /\ climbing = {} /\ todo = {} /\ left = {} /\ whole = FALSE /\ saves = 0 /\ faults = 0

Same(p, q) == p = q \/ (folds /\ Folded(p) = Folded(q))
\* Where the file system has a path: names that exist keep the case they have.
At(path) ==
    LET k == CHOOSE n \in 0..Len(path) :
                /\ n = 0 \/ \E e \in dirs \cup DOMAIN docs : Same(e, SubSeq(path, 1, n))
                /\ \A m \in (n + 1)..Len(path) : ~\E e \in dirs \cup DOMAIN docs : Same(e, SubSeq(path, 1, m))
    IN  IF k = 0 THEN path
        ELSE (CHOOSE e \in dirs \cup DOMAIN docs : Same(e, SubSeq(path, 1, k))) \o SubSeq(path, k + 1, Len(path))

Left == Ancestors(hidden \cup {d \in dirs : ~\E p \in DOMAIN docs : IsPrefix(d, p)})
Begin(lock) ==
    /\ ~saving /\ saves < MaxSaves /\ saving' = TRUE /\ saves' = saves + 1 /\ CheckPaths(Documents(lock))
    /\ goal' = lock /\ base' = docs /\ left' = Left
    /\ stale' = DOMAIN docs \ Documents(lock) /\ todo' = Documents(lock)
    /\ whole' = FALSE /\ UNCHANGED <<folds, disk, climbing, faults>>
RemoveStale(p) ==
    /\ climbing = {} /\ stale' = stale \ {p} /\ docs' = [q \in DOMAIN docs \ {p} |-> docs[q]]
    /\ climbing' = {Front(p)} /\ UNCHANGED <<folds, dirs, hidden, goal, base, saving, todo, left, whole, saves, faults>>
\* "Removal stops at the first directory that still holds something."
Empty(d) == d \notin hidden /\ ~\E e \in dirs \cup DOMAIN docs : e # d /\ IsPrefix(d, e)
RemoveDir(d) ==
    /\ dirs' = IF Empty(d) THEN dirs \ {d} ELSE dirs
    /\ climbing' = IF Empty(d) /\ d # <<>> THEN {Front(d)} ELSE {}
    /\ UNCHANGED <<folds, docs, hidden, goal, base, saving, stale, todo, left, whole, saves, faults>>
Blocked(p) == (\E q \in Prefixes(Front(p)) : At(q) \in DOMAIN docs) \/ At(p) \in dirs
MadeDirs(p) == dirs \cup {At(q) : q \in Prefixes(Front(p))}
\* A name that a replacement meets in another case stays, or is the new one.
Replace(p) ==
    /\ todo' = todo \ {p}
    /\ IF At(p) \in DOMAIN docs /\ docs[At(p)] = Encode(goal)[p] THEN UNCHANGED <<docs, dirs>>
       ELSE /\ ~Blocked(p) /\ dirs' = MadeDirs(p)
            /\ \E q \in {At(p), At(Front(p)) \o <<Last(p)>>} :
                docs' = [r \in (DOMAIN docs \ {At(p)}) \cup {q} |-> IF r = q THEN Encode(goal)[p] ELSE docs[r]]
    /\ UNCHANGED <<folds, hidden, goal, base, saving, stale, climbing, left, whole, saves, faults>>
\* Mutant: stale documents may go after the new ones.
WriteDocumentEarly(p) == Replace(p)
WriteDocument(p) == stale = {} /\ climbing = {} /\ Replace(p)
Finish ==
    /\ saving /\ stale \cup climbing \cup todo = {} /\ saving' = FALSE /\ whole' = TRUE
    /\ UNCHANGED <<folds, disk, goal, base, stale, climbing, todo, left, saves, faults>>
\* The process dies or a call fails; a replacement cut off leaves its temporary file.
CutOff ==
    /\ saving /\ faults < MaxFaults /\ faults' = faults + 1
    /\ saving' = FALSE /\ stale' = {} /\ climbing' = {} /\ todo' = {}
    /\ \/ UNCHANGED <<dirs, hidden>>
       \/ stale = {} /\ climbing = {} /\ \E p \in todo : ~Blocked(p) /\ dirs' = MadeDirs(p) /\ hidden' \in {hidden, hidden \cup {At(Front(p))}}
    /\ UNCHANGED <<folds, docs, goal, base, left, whole, saves>>
\* The host leaves a file of its own, such as .DS_Store.
Litter == \E d \in dirs : /\ ~saving /\ hidden = {} /\ hidden' = {d} /\ UNCHANGED <<folds, docs, dirs, goal, base, saving, stale, climbing, todo, left, whole, saves, faults>>
Next ==
    \/ \E lock \in Locks : Begin(lock)
    \/ \E p \in stale : RemoveStale(p)
    \/ \E d \in climbing : RemoveDir(d)
    \/ \E p \in todo : WriteDocument(p)
    \/ Finish \/ CutOff \/ Litter
Spec == Init /\ [][Next]_vars

\* Whatever a save leaves when it is cut off loads, and is of the lock before or of the new one.
LoadsMeanwhile ==
    /\ Decodes(docs)
    /\ \A p \in DOMAIN docs : (p \in DOMAIN base /\ docs[p] = base[p]) \/ (\E q \in Documents(goal) : Same(p, q) /\ docs[p] = Encode(goal)[q])
\* "A change to one never touches another's": an entry that both locks have is never absent.
OthersUntouched ==
    \A p \in DOMAIN base \cap Documents(goal) : base[p] = Encode(goal)[p] => p \in DOMAIN docs /\ docs[p] = base[p]
\* A save that ends has saved: what loads is the lock, and no directory stays behind.  A directory that an
\* earlier save, cut off, or the host left a file in keeps the case of its name.
SavedLoads ==
    (~saving /\ whole) =>
        /\ (\A d \in left, q \in Ancestors(Documents(goal)) : Same(d, q) => d = q) => Decodes(docs) /\ Decode(docs) = goal
        /\ (faults = 0 /\ hidden = {}) => Left = {}

(***************************************************************************)
(* A lock, <<>> for none, against declarations.  Both are functions of        *)
(* resources to what their inputs' names have: a declaration, or the  *)
(* one that the entry answers.                                               *)
(***************************************************************************)
InputsOf(inputs, r) == IF r \in DOMAIN inputs THEN inputs[r] ELSE <<>>
Answers(locked, declared, r) ==
    \A n \in DOMAIN declared[r] : n \in DOMAIN InputsOf(locked, r) /\ locked[r][n] = declared[r][n]
RequiresLock(declared) == \E r \in DOMAIN declared : declared[r] # <<>>
\* Mutant: entries of inputs that are gone go unnoticed.
CheckMissingAlone(locked, declared, retain) ==
    /\ locked = <<>> => ~RequiresLock(declared)
    /\ DOMAIN locked \subseteq DOMAIN declared \cup retain
    /\ \A r \in DOMAIN declared : DOMAIN declared[r] \subseteq DOMAIN InputsOf(locked, r)
Check(locked, declared, retain) ==
    /\ locked = <<>> => ~RequiresLock(declared)
    /\ DOMAIN locked \subseteq DOMAIN declared \cup retain
    /\ \A r \in DOMAIN declared : DOMAIN declared[r] = DOMAIN InputsOf(locked, r)
Compare(locked, declared, unreadable) ==
    /\ Check(locked, declared, {})
    /\ \A r \in DOMAIN declared : \A n \in DOMAIN declared[r] : declared[r][n] \in unreadable \/ locked[r][n] = declared[r][n]
\* A run that consumes the lock as it is.
Begun(locked, declared, retain) ==
    /\ locked = <<>> => ~RequiresLock(declared)
    /\ DOMAIN locked \ retain \subseteq DOMAIN declared
Acquires(locked, declared, r) ==
    Cardinality(DOMAIN InputsOf(locked, r)) = Cardinality(DOMAIN declared[r]) /\ Answers(locked, declared, r)
Frozen(locked, declared, retain) ==
    Begun(locked, declared, retain) /\ \A r \in DOMAIN declared : Acquires(locked, declared, r)

\* `stemma validate` accepts a lock exactly when a run of these resources would consume it, so that no
\* review passes what a run then refuses; and `changed` accepts every lock whose entries a run would use.
ComparedRuns(locked, declared, retain) ==
    /\ Compare(locked, declared, {}) = Frozen(locked, declared, {})
    /\ Frozen(locked, declared, retain) =
        (Check(locked, declared, retain) /\ \A r \in DOMAIN declared : Answers(locked, declared, r))
=============================================================================
