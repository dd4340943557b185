--------------------------- MODULE WindowsSoftware ---------------------------
(***************************************************************************)
(* The content of a Windows installer (internal/windowssoftware): a vendor's  *)
(* file, directory or archive with files beside it, where names that differ    *)
(* in case are one, and the setup file that is run and gives the version.     *)
(*                                                                         *)
(* Paths are those of Trees; 8 is a name that Windows reserves.  A source is   *)
(* [kind, members, entry, version]: a "file", a "tree" or an "archive" with    *)
(* its members in the order in which they are walked.  A member is            *)
(* [name, dir, type, version, signer].                                       *)
(***************************************************************************)
EXTENDS Integers, Sequences, FiniteSets, SequencesExt
LOCAL T == INSTANCE Trees

Failed == [ok |-> FALSE]
Reserved == 8
Relative(name) == name # <<>> /\ \A i \in DOMAIN name : name[i] \notin {T!Up, Reserved}
Overlap(p, q) == LET a == T!Fold(p) b == T!Fold(q) IN IsPrefix(a, b) \/ IsPrefix(b, a)
ValidContent(names) == (\A n \in names : Relative(n)) /\ \A m, n \in names : m # n => ~Overlap(m, n)

\* layout.add(): the directories above, then the name.
\* Mutant: a directory is one whatever its case.
AgreesAnyCase(layout, parent) == T!Fold(parent) \in DOMAIN layout => layout[T!Fold(parent)].dir
Agrees(layout, parent) == T!Fold(parent) \in DOMAIN layout => layout[T!Fold(parent)] = [name |-> parent, dir |-> TRUE]
Insert(layout, name, dir) == [k \in DOMAIN layout \cup {T!Fold(name)} |-> IF k \in DOMAIN layout THEN layout[k] ELSE [name |-> name, dir |-> dir]]
Add(x, m) ==
    LET above == T!Ways(Front(m.name)) IN
    IF ~x.ok \/ ~Relative(m.name) \/ T!Fold(m.name) \in DOMAIN x.layout \/ \E p \in above : ~Agrees(x.layout, p) THEN Failed
    ELSE [ok |-> TRUE, layout |-> Insert(FoldLeft(LAMBDA l, p : Insert(l, p, TRUE), x.layout, SetToSeq(above)), m.name, m.dir)]
\* What is assembled: the source's members, and each content file or tree at its name.
Members(source, files) ==
    source.members \o FlattenSeq([i \in DOMAIN files |-> [k \in DOMAIN files[i].members |-> [files[i].members[k] EXCEPT !.name = files[i].name \o @]]])
ValidLayout(source, files) == FoldLeft(Add, [ok |-> TRUE, layout |-> <<>>], Members(source, files)).ok
\* assemble(): the content is written where the layout holds.
Assembles(source, files) == ValidContent({files[i].name : i \in DOMAIN files}) /\ ValidLayout(source, files)
\* "content path conflicts", "overlaps" (layout.go:49, :57): what is accepted is written on
\* Windows as it is here, each member under its own name and none in another's place,
\* and only what would not be is refused.
LayoutPortable(source, files) ==
    LET all == Members(source, files)
        names == {all[i].name : i \in DOMAIN all}
        spelled == UNION {T!Ways(n) : n \in names}
        portable ==
            /\ \A n \in names : Relative(n)
            /\ \A p, q \in spelled : T!Fold(p) = T!Fold(q) => p = q
            /\ \A i, j \in DOMAIN all : (i # j /\ IsPrefix(all[i].name, all[j].name)) => all[i].dir /\ i < j /\ all[i].name # all[j].name
    IN  ValidLayout(source, files) <=> portable

(***************************************************************************)
(* The setup file.  A pattern is <<>> for none, or <<[name, type]>>: the path,   *)
(* or a glob that matches the files of a type.                               *)
(***************************************************************************)
Matches(pattern, m) == m.name = pattern[1].name \/ m.type = pattern[1].type
Installer(m) == m.type \in {"msi", "exe"}
SourceSetup(source) == IF source.kind = "archive" THEN <<>> ELSE source.entry
\* Mutant: the first of several installers is taken.
SelectFirst(S) == IF S = {} THEN <<>> ELSE (CHOOSE m \in S : TRUE).name
SelectOne(S) == IF Cardinality(S) = 1 THEN (CHOOSE m \in S : TRUE).name ELSE <<>>
SelectSetup(pattern, source, files) ==
    LET regular == {m \in ToSet(Members(source, files)) : ~m.dir}
        single == source.kind = "file" /\ files = <<>>
    IN  IF single THEN IF pattern = <<>> \/ Matches(pattern, source.members[1]) THEN source.entry ELSE <<>>
        ELSE IF pattern = <<>> /\ SourceSetup(source) # <<>> THEN SourceSetup(source)
        ELSE SelectOne({m \in regular : IF pattern # <<>> THEN Matches(pattern, m) ELSE Installer(m)})
\* Prepare() and describe(): the version of an MSI, or the input's for its own entry.
\* Mutant: the input's version goes with any setup file.
InheritedAlways(source, setup) == source.version
Inherited(source, setup) == IF setup = SourceSetup(source) THEN source.version ELSE ""
\* verifySignature(): of the setup file alone.
SignedAs(expected, m) == expected = <<>> \/ m.signer = expected[1]
Prepare(spec, source, files) ==
    LET setup == SelectSetup(spec.setup_file, source, files)
        found == {m \in ToSet(Members(source, files)) : m.name = setup /\ ~m.dir}
        m == CHOOSE x \in found : TRUE
    IN  IF ~Assembles(source, files) \/ setup = <<>> \/ found = {} THEN Failed
        ELSE IF (spec.version_file /\ m.type # "msi") \/ ~SignedAs(spec.signer, m) THEN Failed
        ELSE [ok |-> TRUE, setup |-> setup, unverified |-> spec.signer = <<>> /\ Installer(m),
              version |-> IF spec.version_file THEN "file" ELSE IF m.type = "msi" THEN m.version ELSE Inherited(source, setup)]
\* The file that is run is the only one meant: by its pattern, by the source, or as the
\* only installer among all that is published; it is the file whose signature was
\* expected, or which is on record as unverified.
SetupUnambiguous(spec, source, files) ==
    LET r == Prepare(spec, source, files)
        regular == {m \in ToSet(Members(source, files)) : ~m.dir}
        meant == IF spec.setup_file # <<>> THEN {m \in regular : Matches(spec.setup_file, m)}
                 ELSE IF SourceSetup(source) # <<>> THEN {m \in regular : m.name = SourceSetup(source)}
                 ELSE {m \in regular : Installer(m)}
    IN  r.ok => /\ {m.name : m \in meant} = {r.setup}
                /\ \A m \in meant : IF spec.signer # <<>> THEN m.signer = spec.signer[1] ELSE r.unverified <=> Installer(m)
\* The managed version describes the file that is run: an input that names the version of
\* its own installer lends it to no other ("An input's version describes its own
\* installer, not another entry point", windowssoftware.go:163).
VersionOfSetup(spec, source, files) ==
    LET r == Prepare(spec, source, files) IN
    r.ok /\ ~spec.version_file => \A m \in ToSet(Members(source, files)) : m.name = r.setup =>
        r.version = IF m.type = "msi" THEN m.version
                    ELSE IF m \in ToSet(source.members) /\ m.name = source.entry /\ source.kind # "archive" THEN source.version ELSE ""
=============================================================================
