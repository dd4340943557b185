------------------------------ MODULE MunkiItems ------------------------------
(***************************************************************************)
(* The pkginfo of a Munki item (internal/munki, internal/munkirepo): what is   *)
(* derived of a prepared installer, how that goes over a document that an      *)
(* earlier publication left, and how the software is removed again.           *)
(*                                                                         *)
(* A pkginfo is a function of the fields it has.  Of the fields that no        *)
(* derivation touches there is none here; artwork, minimum_os_version, sizes    *)
(* and catalogs are left out, and so are nulls, which only display fields take. *)
(* Paths are sequences of names; an optional value is <<>> or <<value>>.      *)
(***************************************************************************)
EXTENDS Integers, Sequences, FiniteSets, SequencesExt

Failed == [ok |-> FALSE]
Applications == <<"Applications">>
Get(pkginfo, key, otherwise) == IF key \in DOMAIN pkginfo THEN pkginfo[key] ELSE otherwise
Field(key, value) == [k \in {key} |-> value]
Over(first, second) == [k \in DOMAIN first \cup DOMAIN second |-> IF k \in DOMAIN first THEN first[k] ELSE second[k]]
Without(pkginfo, keys) == [k \in DOMAIN pkginfo \ keys |-> pkginfo[k]]

\* installedPath(): where items_to_copy puts what lies at a path of an image.
CopiedTo(source, copy) ==
    copy.destination_path \o <<IF copy.destination_item = <<>> THEN Last(copy.source_item) ELSE copy.destination_item[1]>>
    \o SubSeq(source, Len(copy.source_item) + 1, Len(source))
CopiedBy(source, copies) == {i \in DOMAIN copies : IsPrefix(copies[i].source_item, source)}
\* Mutant: what the source observed goes first.
InstalledPathObserved(source, observed, copies) ==
    IF observed # <<>> THEN [ok |-> TRUE, path |-> observed]
    ELSE [ok |-> TRUE, path |-> IF CopiedBy(source, copies) = {} THEN <<>> ELSE <<CopiedTo(source, copies[CHOOSE i \in CopiedBy(source, copies) : TRUE])>>]
InstalledPath(source, observed, copies) ==
    LET by == CopiedBy(source, copies)
        copied == IF by = {} THEN <<>> ELSE <<CopiedTo(source, copies[CHOOSE i \in by : TRUE])>>
    IN  IF Cardinality(by) > 1 \/ (observed # <<>> /\ copied # <<>> /\ observed # copied) THEN Failed
        ELSE [ok |-> TRUE, path |-> IF copied # <<>> THEN copied ELSE observed]
\* applicationItem(): an application is told apart by its identifier and a version.
Item(app, endpoint) == [app |-> app.path, path |-> endpoint]
Detected(app, observed, copies) ==
    LET at == InstalledPath(app.path, observed, copies) IN
    IF ~at.ok \/ at.path = <<>> \/ ~app.identified THEN Failed ELSE [ok |-> TRUE, item |-> Item(app, at.path[1])]
\* resolveSubjects(): inspected applications among the declared installs.
ResolveSubjects(declared) ==
    LET resolved == [i \in DOMAIN Get(declared, "installs", <<>>) |->
                        Detected(declared.installs[i], declared.installs[i].installed, Get(declared, "items_to_copy", <<>>))]
    IN  IF \E i \in DOMAIN resolved : ~resolved[i].ok THEN Failed
        ELSE [ok |-> TRUE, pkginfo |-> [k \in DOMAIN declared |-> IF k = "installs" THEN [i \in DOMAIN resolved |-> resolved[i].item] ELSE declared[k]]]

(***************************************************************************)
(* Derive: declared values win, and what is owned and has no evidence clears.  *)
(* An artifact is [there, format, version, selected, receipts, restart].      *)
(***************************************************************************)
Owned == {"RestartAction", "installs", "items_to_copy", "receipts", "uninstall_method", "uninstallable"}
FileKinds == {"pkg", "copy_from_dmg"}
KindOf(declared, artifact) ==
    IF "installer_type" \in DOMAIN declared THEN declared.installer_type
    ELSE IF artifact.format = "pkg" THEN "pkg" ELSE IF artifact.format = "dmg" THEN "copy_from_dmg" ELSE ""
DefaultCopy(app) ==
    IF app.installed = <<>> THEN [source_item |-> app.path, destination_path |-> Applications, destination_item |-> <<>>]
    ELSE [source_item |-> app.path, destination_path |-> Front(app.installed[1]),
          destination_item |-> IF Last(app.installed[1]) = Last(app.path) THEN <<>> ELSE <<Last(app.installed[1])>>]
Copies(declared, kind, artifact) ==
    IF "items_to_copy" \in DOMAIN declared \/ kind # "copy_from_dmg" \/ artifact.selected = <<>> THEN <<>>
    ELSE Field("items_to_copy", <<DefaultCopy(artifact.selected[1])>>)
Detects(declared) == DOMAIN declared \cap {"installcheck_script", "receipts", "installs"} = {}
\* What the evidence of a package gives.
Receipts(kind, artifact) ==
    IF kind # "pkg" THEN <<>>
    ELSE Over(IF artifact.receipts = <<>> THEN <<>> ELSE Field("receipts", artifact.receipts),
              IF artifact.restart THEN Field("RestartAction", "RequireRestart") ELSE <<>>)
\* Mutant: the method follows the kind alone.
MethodOfKind(kind, values) == IF kind = "pkg" THEN "removepackages" ELSE IF kind = "copy_from_dmg" THEN "remove_copied_items" ELSE ""
Method(kind, values) ==
    IF kind = "pkg" /\ Get(values, "receipts", <<>>) # <<>> THEN "removepackages"
    ELSE IF kind = "copy_from_dmg" /\ Get(values, "items_to_copy", <<>>) # <<>> THEN "remove_copied_items" ELSE ""
Removal(declared, kind, values) ==
    LET method == IF "uninstall_method" \in DOMAIN declared THEN declared.uninstall_method ELSE Method(kind, values) IN
    IF method # "" /\ Get(declared, "uninstallable", TRUE)
    THEN Over(Field("uninstallable", TRUE), Field("uninstall_method", method)) ELSE <<>>
\* Mutant: only what has a new value is cleared.
ClearedNever(kind, values) == {}
Cleared(kind, values) == IF kind \in FileKinds THEN Owned \ DOMAIN values ELSE {}
\* The fields that declared values and the artifact's own give, and the application found.
Evident(declared, kind, artifact) ==
    Over(Over(Over(declared, IF artifact.version = "" THEN <<>> ELSE Field("version", artifact.version)),
              IF kind = "" \/ "installer_type" \in DOMAIN declared THEN <<>> ELSE Field("installer_type", kind)),
         Over(Receipts(kind, artifact), Copies(declared, kind, artifact)))
Found(app, kind, evident) ==
    Detected(app, app.installed, IF kind = "copy_from_dmg" THEN Get(evident, "items_to_copy", <<>>) ELSE <<>>)
\* What is detected, and how it is removed.
Settled(declared, kind, values) == [ok |-> TRUE, values |-> Over(Over(declared, Removal(declared, kind, values)), values)]
DeriveInstalls(declared, kind, artifact, evident) ==
    IF ~Detects(declared) \/ artifact.selected = <<>> THEN Settled(declared, kind, evident)
    ELSE LET found == Found(artifact.selected[1], kind, evident) IN
         IF found.ok THEN Settled(declared, kind, Over(evident, Field("installs", <<found.item>>))) ELSE Failed
WithCleared(d, kind) ==
    IF ~d.ok \/ (kind \in FileKinds /\ "version" \notin DOMAIN d.values) THEN Failed
    ELSE [ok |-> TRUE, values |-> d.values, cleared |-> Cleared(kind, d.values)]
DeriveResolved(declared, kind, artifact) ==
    IF kind # "nopkg" THEN WithCleared(DeriveInstalls(declared, kind, artifact, Evident(declared, kind, artifact)), kind)
    ELSE IF artifact.there THEN Failed
    ELSE [ok |-> TRUE, cleared |-> {},
          values |-> IF artifact.version = "" THEN declared ELSE Over(declared, Field("version", artifact.version))]
DeriveFrom(resolved, artifact) ==
    IF resolved.ok THEN DeriveResolved(resolved.pkginfo, KindOf(resolved.pkginfo, artifact), artifact) ELSE Failed
Derive(written, artifact) == DeriveFrom(ResolveSubjects(written), artifact)

(***************************************************************************)
(* Render and publication over the document `old`, <<>> for none.             *)
(***************************************************************************)
RemovalHolds(pkginfo) ==
    Get(pkginfo, "uninstallable", FALSE) =>
        CASE Get(pkginfo, "uninstall_method", "") = "removepackages" -> Get(pkginfo, "receipts", <<>>) # <<>>
          [] Get(pkginfo, "uninstall_method", "") = "remove_copied_items" -> Get(pkginfo, "items_to_copy", <<>>) # <<>>
          [] Get(pkginfo, "uninstall_method", "") = "uninstall_script" -> "uninstall_script" \in DOMAIN pkginfo
          [] OTHER -> FALSE
ItemsToRemove(pkginfo) ==
    IF Get(pkginfo, "uninstall_method", "") = "remove_copied_items" /\ "items_to_copy" \in DOMAIN pkginfo
    THEN Field("items_to_remove", pkginfo.items_to_copy) ELSE <<>>
TypeShown(kind) == IF kind = "pkg" THEN <<>> ELSE Field("installer_type", kind)
\* Mutant: what is cleared is not looked at.
RemovalManagedDeclared(old, d) == old = <<>> \/ {"items_to_copy", "uninstall_method"} \cap DOMAIN d.values # {}
RemovalManaged(old, d) == old = <<>> \/ {"items_to_copy", "uninstall_method"} \cap (DOMAIN d.values \cup d.cleared) # {}
TypeOf(old, values, artifact) ==
    Get(values, "installer_type", IF artifact.format = "pkg" THEN "pkg" ELSE Get(old, "installer_type", ""))
Publishable(type, desired) ==
    /\ type \in FileKinds \cup {"nopkg"} /\ "version" \in DOMAIN desired /\ RemovalHolds(desired)
    /\ type = "copy_from_dmg" => Get(desired, "items_to_copy", <<>>) # <<>>
Rendered(managed, type, desired) ==
    Over(TypeShown(type), Without(IF managed THEN Over(ItemsToRemove(desired), Without(desired, {"items_to_remove"})) ELSE desired, {"installer_type"}))
PublishDesired(managed, type, desired) ==
    IF Publishable(type, desired) THEN [ok |-> TRUE, pkginfo |-> Rendered(managed, type, desired)] ELSE Failed
PublishDerived(old, artifact, d) ==
    IF ~d.ok THEN Failed
    ELSE PublishDesired(RemovalManaged(old, d), TypeOf(old, d.values, artifact), Over(d.values, Without(old, d.cleared)))
Publish(old, written, artifact) == PublishDerived(old, artifact, Derive(written, artifact))

(***************************************************************************)
(* Properties.                                                             *)
(***************************************************************************)
\* An application is looked for where the item copies it, and by one path: Munki would
\* install it again and again if the two disagreed, or take another one for it.
ItemDetects(p) ==
    (p.ok /\ Get(p.pkginfo, "installer_type", "") = "copy_from_dmg") =>
        \A item \in ToSet(Get(p.pkginfo, "installs", <<>>)) : \A c \in CopiedBy(item.app, p.pkginfo.items_to_copy) :
            item.path = CopiedTo(item.app, p.pkginfo.items_to_copy[c])
DetectsWhereCopied(written, artifact) == ItemDetects(Publish(<<>>, written, artifact))
\* "File installers own the same derived fields across format changes" (derive.go:240):
\* over a document that any earlier publication left, an item is in these fields what it
\* would be as a new one.
Derivable == Owned \cup {"items_to_remove", "installer_type", "version"}
Derived(pkginfo) == Without(pkginfo, DOMAIN pkginfo \ Derivable)
SameAsNew(p, new) == new.ok => p.ok /\ Derived(p.pkginfo) = Derived(new.pkginfo)
NothingLeftOver(before, was, written, artifact) ==
    \A old \in {Publish(<<>>, before, was)} : old.ok /\ KindOf(written, artifact) \in FileKinds =>
        SameAsNew(Publish(old.pkginfo, written, artifact), Publish(<<>>, written, artifact))
\* What an item removes is what it copies, and it removes copies only by that method,
\* over whatever document it goes ("items_to_remove").
RemovesItsCopies(p) ==
    p.ok => Get(p.pkginfo, "items_to_remove", <<>>) =
              IF Get(p.pkginfo, "uninstall_method", "") = "remove_copied_items" THEN Get(p.pkginfo, "items_to_copy", <<>>) ELSE <<>>
RemovesWhatItCopies(before, was, written, artifact) ==
    \A old \in {Publish(<<>>, before, was)} : old.ok => RemovesItsCopies(Publish(old.pkginfo, written, artifact))
\* Derivation declares no removal that cannot be published: what it makes uninstallable
\* has what its method needs, and it makes all of these uninstallable.
DerivedRemovalHolds(written, artifact) ==
    \A d \in {Derive(written, artifact)} : (d.ok /\ DOMAIN written \cap {"uninstallable", "uninstall_method"} = {}) =>
        /\ RemovalHolds(d.values)
        /\ KindOf(written, artifact) = "copy_from_dmg" /\ Get(d.values, "items_to_copy", <<>>) # <<>> => Get(d.values, "uninstallable", FALSE)
=============================================================================
