--------------------------- MODULE IntuneMetadata ---------------------------
(***************************************************************************)
(* What the Intune destination (internal/intune) declares, derives and       *)
(* compares: the app's type, the fields each type takes, what an artifact     *)
(* supplies for them, and the patch that brings an app to them.             *)
(*                                                                         *)
(* Abstractions.  A JSON value is Nil, a scalar, an object or a list.  Texts *)
(* are strings that are only compared; a version is the sequence of its       *)
(* numbers.  What is refused is Refused.                                   *)
(***************************************************************************)
EXTENDS Integers, Sequences, FiniteSets, SequencesExt, FiniteSetsExt

Refused == [ok |-> FALSE]
Accepted(x) == [ok |-> TRUE, it |-> x]

Nil == [t |-> "nil"]
Val(v) == [t |-> "val", v |-> v]
Obj(f) == [t |-> "obj", f |-> f]
Lst(l) == [t |-> "list", l |-> l]
Keys(o) == IF o.t = "obj" THEN DOMAIN o.f ELSE {}
At(o, k) == IF k \in Keys(o) THEN o.f[k] ELSE Nil

(***************************************************************************)
(* Owned fields: what is compared and what is written (object.go).          *)
(***************************************************************************)
RECURSIVE MergeOwned(_, _), OwnedEqual(_, _)
MergeOwned(current, desired) ==
    Obj([k \in Keys(current) \cup Keys(desired) |->
           IF k \notin Keys(desired) THEN current.f[k]
           ELSE IF desired.f[k].t = "obj" THEN MergeOwned(At(current, k), desired.f[k])
           ELSE desired.f[k]])
OwnedEqual(current, desired) ==
    LET Take(used, wanted) ==
          LET free == {j \in DOMAIN current.l \ used.at : OwnedEqual(current.l[j], wanted)} IN
          IF free = {} THEN [used EXCEPT !.all = FALSE] ELSE [used EXCEPT !.at = @ \cup {Min(free)}]
    IN CASE desired.t = "obj" ->
              IF current.t # "obj" THEN Keys(desired) = {}
              ELSE \A k \in Keys(desired) : OwnedEqual(At(current, k), desired.f[k])
         [] desired.t = "list" ->
              IF current.t # "list" THEN FALSE
              ELSE /\ Len(current.l) = Len(desired.l)
                   /\ FoldLeft(Take, [at |-> {}, all |-> TRUE], desired.l).all
         [] OTHER -> current = desired
\* Items of rules and return codes: the last observed one of the same key is merged into.
MergeItems(current, desired) ==
    LET same(item) == {i \in DOMAIN current.l : At(current.l[i], "key") = At(item, "key")}
        previous(item) == IF current.t # "list" THEN Nil
                          ELSE IF same(item) = {} THEN Nil ELSE current.l[Max(same(item))]
    IN Lst([i \in DOMAIN desired.l |-> MergeOwned(previous(desired.l[i]), desired.l[i])])

\* The one release whose flag is set; no release when several are.
SelectedOS(value) ==
    LET on == {k \in Keys(value) : value.f[k] = Val(TRUE)} IN
    IF Cardinality(on) = 1 THEN on ELSE {}
\* Mutant: the flag of the release before stays.
PatchedOSAdded(current, desired) == desired
PatchedOS(current, desired) ==
    Obj([k \in Keys(desired) \cup {j \in Keys(current) : current.f[j] = Val(TRUE)} |->
           IF k \in Keys(desired) THEN desired.f[k] ELSE Val(FALSE)])
MetadataPatch(current, desired) ==
    LET differs(k) ==
          /\ ~OwnedEqual(At(current, k), desired.f[k])
          /\ k = "minimumOS" => SelectedOS(At(current, k)) # SelectedOS(desired.f[k])
    IN [k \in {j \in Keys(desired) : differs(j)} |->
          CASE k = "minimumOS" -> PatchedOS(At(current, k), desired.f[k])
            [] k \in {"rules", "returnCodes"} -> MergeItems(At(current, k), desired.f[k])
            [] desired.f[k].t = "obj" -> MergeOwned(At(current, k), desired.f[k])
            [] OTHER -> desired.f[k]]
\* Graph replaces the properties of a patch; of the flags it sets those it is given.
PatchApplied(current, patch) ==
    Obj([k \in Keys(current) \cup DOMAIN patch |->
           IF k \notin DOMAIN patch THEN current.f[k]
           ELSE IF k = "minimumOS" THEN MergeOwned(At(current, k), patch[k]) ELSE patch[k]])

\* A patch brings every declared field to its value, so that the next plan is empty
\* ("Minimum OS is one selection even though Graph encodes it as boolean flags",
\* object.go:45), and leaves alone what is not declared, inside objects too.
\* Two declared items never have one key.
Distinct(list) == IsInjective([i \in DOMAIN list.l |-> At(list.l[i], "key")])
PatchSettles(current, desired) ==
    LET after == PatchApplied(current, MetadataPatch(current, desired)) IN
    (\A k \in Keys(desired) \cap {"rules", "returnCodes"} : Distinct(desired.f[k])) =>
        /\ MetadataPatch(after, desired) = <<>>
        /\ "minimumOS" \in Keys(desired) => SelectedOS(after.f["minimumOS"]) = SelectedOS(desired.f["minimumOS"])
        /\ \A k \in Keys(current) \ Keys(desired) : after.f[k] = current.f[k]
        /\ \A k \in Keys(desired) : desired.f[k].t = "obj" /\ k # "minimumOS" =>
              \A j \in Keys(At(current, k)) \ Keys(desired.f[k]) : At(after.f[k], j) = current.f[k].f[j]

(***************************************************************************)
(* Derived fields (ownership.go).                                          *)
(***************************************************************************)
Cleared == [t |-> "cleared"]
Blank == {Nil, Val("")}
RECURSIVE FillDerived(_, _)
\* The fields with their derived values, and those that have none.
FillDerived(declared, defaults) ==
    LET nested == {k \in Keys(defaults) : defaults.f[k].t = "obj"}
        inside == [k \in {j \in nested : j \in Keys(declared) => declared.f[j].t = "obj"} |-> FillDerived(At(declared, k), defaults.f[k])]
        plain == Keys(defaults) \ (nested \cup Keys(declared))
        missing == {k \in plain : defaults.f[k] \in Blank}
        filled == {k \in DOMAIN inside : Keys(inside[k].fields) # {}}
    IN [fields |-> Obj([k \in Keys(declared) \cup (plain \ missing) \cup filled |->
                          IF k \in filled THEN inside[k].fields
                          ELSE IF k \in Keys(declared) THEN declared.f[k]
                          ELSE IF defaults.f[k] = Cleared THEN Nil ELSE defaults.f[k]]),
        missing |-> {<<k>> : k \in missing} \cup UNION {{<<k>> \o m : m \in inside[k].missing} : k \in DOMAIN inside}]
\* Mutant: a field without a value is left out.
MergeDerivedSilent(declared, defaults) == Accepted(FillDerived(declared, defaults).fields)
MergeDerived(declared, defaults) ==
    LET r == FillDerived(declared, defaults) IN IF r.missing # {} THEN Refused ELSE Accepted(r.fields)

\* deriveInstaller() of a setup MSI: only its upgrade code is optional.
MsiDefaults(msi) ==
    Obj([product_code |-> Val(msi.code), product_version |-> Val(msi.version),
         upgrade_code |-> IF msi.upgrade = "" THEN Cleared ELSE Val(msi.upgrade)])
DeriveInstaller(declared, msi) ==
    MergeDerived(declared,
        Obj([msi |-> MsiDefaults(msi), install_command |-> Val("msiexec /i"),
             uninstall_command |-> IF msi.code = "" THEN Val("") ELSE Val("msiexec /x"),
             detection |-> IF msi.code = "" \/ msi.version = "" THEN Nil ELSE Val("rule")]))

\* "omitting one would keep whatever an earlier artifact published" (ownership.go:17): every
\* field a derivation owns has a value or is cleared, whatever was declared stays, and
\* deriving over the result changes nothing.
DerivationOwns(declared, msi) ==
    LET r == DeriveInstaller(declared, msi)
        defaults == Obj([msi |-> MsiDefaults(msi), install_command |-> Nil, uninstall_command |-> Nil, detection |-> Nil])
        present(o, d) == \A k \in Keys(d) : k \in Keys(o)
    IN r.ok =>
        /\ \A k \in Keys(defaults) :
              /\ k \in Keys(r.it)
              /\ defaults.f[k].t = "obj" /\ r.it.f[k].t = "obj" => present(r.it.f[k], defaults.f[k])
        /\ OwnedEqual(r.it, declared) /\ DeriveInstaller(r.it, msi) = r

(***************************************************************************)
(* Types and the fields they take (metadata.go).                            *)
(***************************************************************************)
Types == {"win32", "pkg", "dmg", "lob"}
TypesOf(kind) ==
    CASE kind = "WindowsSoftware" -> {"win32"}
      [] kind = "MacSoftware" -> Types \ {"win32"}
      [] OTHER -> Types
ResolveType(kind, declared, artifact) ==
    IF declared # "" THEN IF declared \in TypesOf(kind) THEN Accepted(declared) ELSE Refused
    ELSE CASE kind = "WindowsSoftware" -> Accepted("win32")
           [] kind = "MacSoftware" /\ artifact.format \in {"pkg", "dmg"} -> Accepted(artifact.format)
           [] kind = "MacSoftware" /\ ~artifact.present -> Accepted("pkg")
           [] OTHER -> Refused
\* Fields of the types, by group; package is an inspected package among included_apps.
Takes(type) ==
    {"common", "assignments"} \cup
    CASE type = "win32" -> {"command", "msi_properties", "relations", "notifications"}
      [] type = "pkg" -> {"included_apps", "package", "scripts"}
      [] type = "lob" -> {"included_apps", "managed"}
      [] type = "dmg" -> {"included_apps"}
\* Mutant: without an artifact the least that a Mac app takes is assumed.
DeclarationNarrow(kind, declared, fields, artifact) ==
    LET type == IF declared = "" /\ kind = "MacSoftware" /\ ~artifact.present
                THEN Accepted("dmg") ELSE ResolveType(kind, declared, artifact)
    IN type.ok /\ fields \subseteq Takes(type.it)
Declaration(kind, declared, fields, artifact) ==
    LET type == ResolveType(kind, declared, artifact) IN
    IF ~type.ok THEN FALSE
    ELSE fields \subseteq Takes(type.it) /\ ~({"command", "msi_properties"} \subseteq fields)

\* "Without an artifact the format is unknown; a PKG app takes every field a DMG app
\* does" (metadata.go:290): validation before an artifact exists refuses nothing that a
\* run accepts.
EarlyIsLenient(kind, declared, fields, format) ==
    Declaration(kind, declared, fields, [present |-> TRUE, format |-> format])
        => Declaration(kind, declared, fields, [present |-> FALSE, format |-> ""])

(***************************************************************************)
(* What an artifact supplies (derive.go).                                   *)
(***************************************************************************)
\* The supported release of a macOS version, and whether the setting drops precision.
MinimumOSFields == {<<10, m>> : m \in 7..15} \cup {<<11, 0>>, <<12, 0>>, <<13, 0>>, <<14, 0>>, <<15, 0>>, <<26, 0>>, <<27, 0>>}
\* Mutant: ten's releases are told apart by their major number.
MinimumOSMajor(version) ==
    LET field == <<version[1], 0>> IN
    IF field \notin MinimumOSFields THEN Refused
    ELSE Accepted([release |-> field, lossy |-> \E i \in 3..Len(version) : version[i] # 0])
MinimumOS(version) ==
    LET ten == version[1] = 10 /\ Len(version) > 1
        field == IF ten THEN SubSeq(version, 1, 2) ELSE <<version[1], 0>>
    IN IF field \notin MinimumOSFields THEN Refused
       ELSE Accepted([release |-> field,
                      lossy |-> \E i \in (IF ten THEN 3 ELSE 2)..Len(version) : version[i] # 0])
\* A device that meets the requirement is never refused: the setting is at most the
\* version and no supported release lies between; lossy says whether they differ.
Number(v, i) == IF i \in DOMAIN v THEN v[i] ELSE 0
AtMost(a, b) ==
    \A i \in 1..3 : Number(a, i) <= Number(b, i) \/ \E j \in 1..(i - 1) : Number(a, j) < Number(b, j)
MinimumIsFloor(version) ==
    LET r == MinimumOS(version) IN
    /\ r.ok =>
        /\ AtMost(r.it.release, version)
        /\ \A f \in MinimumOSFields : AtMost(f, version) => AtMost(f, r.it.release)
        /\ r.it.lossy <=> ~AtMost(version, r.it.release)
    /\ (\E f \in MinimumOSFields : AtMost(f, version) /\ AtMost(version, f)) => r.ok

\* Subjects of an artifact: applications and packages.
Under(s) == s.place = "/Applications"
DetectedApps(subjects, selected, type) ==
    LET a == selected[1]
        receipts == SelectSeq(subjects, LAMBDA s : s.kind = "package" /\ s.payload /\ s.id # "" /\ s.version # "")
        first == SelectSeq([i \in DOMAIN receipts |-> i],
                     LAMBDA i : \A j \in 1..(i - 1) : receipts[j].id # receipts[i].id)
    IN IF selected # <<>>
       THEN IF a.id = "" \/ a.version = "" \/ (type \in {"dmg", "lob"} /\ ~Under(a)) THEN Refused
            ELSE Accepted(<<[id |-> a.id, version |-> a.version]>>)
       ELSE IF type # "pkg" \/ first = <<>> THEN Refused
       ELSE Accepted([i \in DOMAIN first |-> [id |-> receipts[first[i]].id, version |-> receipts[first[i]].version]])
\* Mutant: what is declared is not compared with what the package shows.
ValidateLOBShape(subjects, signed, declared, managed) ==
    signed /\ \E s \in Range(subjects) : s.kind = "package" /\ s.payload
ValidateLOB(subjects, signed, declared, managed) ==
    LET all == Range(subjects)
        apps == {s \in all : s.kind = "app"}
        packages == {s \in all : s.kind = "package"}
        top == SelectSeq(subjects, LAMBDA s : s.kind = "app" /\ ~s.nested)
        shows(id) == {s \in apps : s.id = id}
    IN /\ signed /\ (\E p \in packages : p.payload) /\ (\E a \in apps : Under(a))
       /\ \A i \in DOMAIN declared :
             LET id == declared[i].id IN
             /\ shows(id) # {} => \E a \in shows(id) : Under(a)
             /\ shows(id) = {} => \A p \in packages : p.id # id
       /\ managed => /\ Len(SelectSeq(subjects, LAMBDA s : s.kind = "package")) = 1
                     /\ Len(top) = 1
                     /\ Under(top[1])
\* deriveMac() for a prepared artifact: minimum OS, included apps and the primary one.
DeriveMac(type, artifact, declared, minimum) ==
    LET lob == type = "lob" => ValidateLOB(artifact.subjects, artifact.signed, declared, artifact.managed)
        apps == IF declared # <<>> THEN Accepted(declared) ELSE DetectedApps(artifact.subjects, artifact.selected, type)
    IN IF ~lob \/ minimum = <<>> THEN Refused
       ELSE IF ~MinimumOS(minimum).ok \/ ~apps.ok THEN Refused
       ELSE Accepted([minimum_os |-> MinimumOS(minimum).it.release, included_apps |-> apps.it, primary |-> apps.it[1]])
\* validateCreation() of a Mac app.
CreatableMac(m) ==
    m.minimum_os \in MinimumOSFields /\ m.included_apps # <<>> /\ m.primary.id # "" /\ m.primary.version # ""

\* What a Mac derivation accepts can be created, and what detects a line-of-business app
\* is an application that installs under /Applications, or one its package does not show
\* ("an installer script may install it", derive.go:158), whether declared or derived.
MacIsDetectable(type, artifact, declared, minimum) ==
    LET r == DeriveMac(type, artifact, declared, minimum)
        all == Range(artifact.subjects)
    IN r.ok =>
        /\ CreatableMac(r.it)
        /\ type = "lob" => \A i \in DOMAIN r.it.included_apps :
              LET shown == {s \in all : s.id = r.it.included_apps[i].id} IN
              shown = {} \/ \E s \in shown : s.kind = "app" /\ Under(s)

\* Detection rules: "msi", "script", or a property of a file or a key.
Existence(r) == r.property \in {"exists", "does_not_exist"}
PropertyRule(r) ==
    IF Existence(r) THEN IF r.operator # "" \/ r.value # <<>> THEN Refused ELSE Accepted(r)
    ELSE IF r.property # "version" /\ r.operator = "" THEN Refused
    ELSE IF r.property # "version" /\ r.value = <<>> THEN Refused
    ELSE IF r.value = <<"">> /\ r.property # "string" THEN Refused
    ELSE Accepted([r EXCEPT !.operator = IF @ = "" THEN "ge" ELSE @])
Detection(rules) ==
    /\ Cardinality({i \in DOMAIN rules : rules[i].type = "msi"}) <= 1
    /\ (\E i \in DOMAIN rules : rules[i].type = "script") => Len(rules) = 1
    /\ \A i \in DOMAIN rules : rules[i].type = "property" => PropertyRule(rules[i]).ok
\* Mutant: only comparisons that declare an operator get a value.
DeriveVersionRulesDeclared(rules, version, early) ==
    Accepted([i \in DOMAIN rules |->
        IF rules[i].property = "version" /\ rules[i].operator # "" /\ rules[i].value = <<>>
        THEN [rules[i] EXCEPT !.value = <<version>>] ELSE rules[i]])
DeriveVersionRules(rules, version, early) ==
    LET open == {i \in DOMAIN rules : rules[i].property = "version" /\ rules[i].value = <<>>}
        operated == [i \in DOMAIN rules |->
            IF rules[i].property = "version" /\ rules[i].operator = "" THEN [rules[i] EXCEPT !.operator = "ge"] ELSE rules[i]]
    IN IF open # {} /\ version \in {"", "other"} /\ ~(early /\ version = "") THEN Refused
       ELSE Accepted([i \in DOMAIN rules |->
              IF i \in open /\ version # "" THEN [operated[i] EXCEPT !.value = <<version>>] ELSE operated[i]])
\* Rules that were accepted before the artifact existed are still accepted with the
\* derived version, and each comparison then has a value to compare with.
RulesCompare(rules, version) ==
    LET r == DeriveVersionRules(rules, version, FALSE) IN
    Detection(rules) /\ r.ok =>
        /\ Detection(r.it)
        /\ \A i \in DOMAIN r.it : r.it[i].type = "property" /\ ~Existence(r.it[i]) => r.it[i].operator # "" /\ r.it[i].value # <<>>
=============================================================================
