----------------------------- MODULE MacSoftware -----------------------------
(***************************************************************************)
(* What is published of a vendor's source for Macs (internal/macsoftware):    *)
(* which application or package is chosen, through disk images inside each     *)
(* other, in which form it is published, and whose signature is verified.     *)
(*                                                                         *)
(* A source is a "pkg", an "image" or an "archive" (trees too).  What is in    *)
(* one is [apps, pkgs, images]: an app [path, bundle, signer], a package       *)
(* [path, signer, apps], an image [path, holds].  "*" is a glob for any name.  *)
(* Applications inside another one are left out.                           *)
(***************************************************************************)
EXTENDS Integers, Sequences, FiniteSets, SequencesExt
LOCAL P == INSTANCE MacPackages

Failed == [ok |-> FALSE]
MaxImageDepth == 2
The(S) == CHOOSE x \in S : TRUE
Matches(pattern, name) == pattern \in {name, "*"}
MatchApps(apps, o) == {a \in apps : (o.path = "" \/ Matches(o.path, a.path)) /\ (o.bundle = "" \/ a.bundle = o.bundle)}
Selects(spec) == spec.application # <<>> /\ (spec.application[1].path # "" \/ spec.application[1].bundle # "")
Valid(spec) == ~(spec.package /\ (spec.disk_image \/ spec.package_path # ""))

\* choose(): the one thing that a selector matches or, if it matches nothing, the only
\* container, where it applies; without selectors the only thing there is.
One(S, otherwise) == IF Cardinality(S) = 1 THEN S ELSE IF S = {} /\ Cardinality(otherwise) = 1 THEN otherwise ELSE {}
Choose(spec, content) ==
    LET containers == content.pkgs \cup content.images IN
    IF spec.package_path # "" THEN One({c \in containers : Matches(spec.package_path, c.path)}, content.images)
    ELSE IF Selects(spec) THEN One(MatchApps(content.apps, spec.application[1]), containers)
    ELSE One(content.apps \cup containers, {})
\* selectApp(): of a package, only when asked.
SelectApp(spec, pkg) ==
    IF spec.application = <<>> THEN [ok |-> TRUE, app |-> <<>>]
    ELSE LET matches == MatchApps(pkg.apps, spec.application[1]) IN
         IF Selects(spec) /\ Cardinality(matches) = 1 THEN [ok |-> TRUE, app |-> <<The(matches)>>] ELSE Failed

\* publishApplication() keeps a vendor's image; what it makes holds the application alone,
\* under the name that it gives it.
Retains(spec, source) == ~spec.package /\ source.kind = "image" /\ ~source.rooted
NameIn(spec, source, app) == IF Retains(spec, source) THEN app.path ELSE "published"
Subject(spec, source, app) == [path |-> NameIn(spec, source, app), signer |-> app.signer]
\* Mutant: only what was chosen is verified.
TargetsChosen(spec, source, app) == {Subject(spec, source, app)}
Targets(spec, source, app) == {Subject(spec, source, a) : a \in IF Retains(spec, source) THEN source.content.apps ELSE {app}}
Verified(spec, targets, derive) ==
    IF spec.signatures = <<>> /\ ~derive THEN [ok |-> TRUE, observed |-> {}] ELSE P!Verify(spec.signatures, targets, derive)
\* What is written: the vendor's image as it is, or a package or an image made of it.
FormOf(spec, source) == IF spec.package THEN "package" ELSE IF Retains(spec, source) THEN "kept" ELSE "image"
PublishApplication(spec, source, app, derive) ==
    LET v == Verified(spec, Targets(spec, source, app), derive) IN
    IF ~v.ok \/ (spec.disk_image /\ source.kind = "image" /\ ~source.rooted) THEN Failed
    ELSE [ok |-> TRUE, form |-> FormOf(spec, source), item |-> app, app |-> <<app>>, observed |-> v.observed, passed |-> <<>>]
\* publishPackage(): one that its builder left unsigned has no publisher to derive.
PublishPackage(spec, source, pkg, derive) ==
    LET app == SelectApp(spec, pkg)
        v == Verified(spec, {[path |-> ".", signer |-> pkg.signer]}, derive /\ ~(source.kind = "pkg" /\ source.built))
    IN  IF ~app.ok \/ spec.package \/ spec.disk_image THEN Failed
        ELSE IF derive /\ source.kind = "pkg" /\ source.built
        THEN [ok |-> TRUE, form |-> "pkg", item |-> pkg, app |-> app.app, observed |-> {}, passed |-> <<>>]
        ELSE IF ~v.ok THEN Failed
        ELSE [ok |-> TRUE, form |-> "pkg", item |-> pkg, app |-> app.app, observed |-> v.observed, passed |-> <<>>]

\* prepareImage(): an image inside is prepared as if it were the source.
\* Mutant: a path is spent in any image.
SpentAlways(spec, name) == [spec EXCEPT !.package_path = ""]
Spent(spec, name) == IF Matches(spec.package_path, name) THEN [spec EXCEPT !.package_path = ""] ELSE spec
Alone(image) == [kind |-> "image", rooted |-> FALSE, built |-> FALSE, content |-> image.holds]
RECURSIVE Prepare(_, _, _, _)
Prepare(spec, source, derive, depth) ==
    LET picked == IF source.kind = "pkg" THEN source.content.pkgs ELSE Choose(spec, source.content)
        it == The(picked)
    IN  IF (source.kind = "pkg" /\ spec.package_path # "") \/ picked = {} THEN Failed
        ELSE IF it.kind = "app" THEN PublishApplication(spec, source, it, derive)
        ELSE IF it.kind = "pkg" THEN PublishPackage(spec, source, it, derive)
        ELSE IF depth = MaxImageDepth THEN Failed
        ELSE LET inside == Prepare(Spent(spec, it.path), Alone(it), derive, depth + 1) IN
             IF inside.ok THEN [inside EXCEPT !.passed = <<[took |-> it, among |-> source.content]>> \o @] ELSE Failed
Published(spec, source, derive) == IF Valid(spec) THEN Prepare(spec, source, derive, 0) ELSE Failed

(***************************************************************************)
(* Properties.                                                             *)
(***************************************************************************)
RECURSIVE Everything(_)
Everything(content) == content.apps \cup content.pkgs \cup UNION {Everything(i.holds) : i \in content.images}
\* Where what is published was chosen.
Holder(r, source) == IF r.passed = <<>> THEN source.content ELSE Last(r.passed).took.holds
\* Nobody chooses silently: each selector matched something on the way to what is
\* published, and nothing beside it; without selectors it is the only application or
\* package of the whole source, images in images included.
SelectorsHeeded(spec, source) ==
    LET r == Published(spec, source, FALSE)
        steps == [i \in DOMAIN r.passed |-> r.passed[i].took] \o <<r.item>>
        around(i) == IF i <= Len(r.passed) THEN r.passed[i].among ELSE Holder(r, source)
    IN  r.ok =>
        /\ spec.package_path # "" => \E i \in DOMAIN steps :
            /\ steps[i].kind \in {"pkg", "image"} /\ Matches(spec.package_path, steps[i].path)
            /\ {x \in around(i).pkgs \cup around(i).images : Matches(spec.package_path, x.path)} = {steps[i]}
        /\ Selects(spec) => /\ r.app # <<>> /\ MatchApps({r.app[1]}, spec.application[1]) # {}
                            /\ MatchApps(IF r.form = "pkg" THEN r.item.apps ELSE Holder(r, source).apps, spec.application[1]) = {r.app[1]}
        /\ (spec.package_path = "" /\ ~Selects(spec)) => Everything(source.content) = {r.item}
\* What is published under expectations was verified whole: every application of a
\* vendor's image that is kept, not only the chosen one, against exactly one
\* expectation; and what is derived is accepted when it is declared.
PublishedVerified(spec, source) ==
    LET r == Published(spec, source, FALSE)
        carries == IF r.form = "pkg" THEN {r.item} ELSE IF r.form = "kept" THEN Holder(r, source).apps ELSE {r.item}
        covering(x) == {i \in DOMAIN spec.signatures : r.form = "pkg" \/ spec.signatures[i].subject \in {<<>>, IF r.form = "kept" THEN <<x.path>> ELSE <<"published">>}}
        d == Published([spec EXCEPT !.signatures = <<>>], source, TRUE)
        declared == [spec EXCEPT !.signatures = SetToSeq(P!Declared("", d.observed))]
    IN  /\ (r.ok /\ spec.signatures # <<>>) => \A x \in carries :
            Cardinality(covering(x)) = 1 /\ \A i \in covering(x) : spec.signatures[i].signer = x.signer
        /\ (d.ok /\ d.observed # {}) => Published(declared, source, FALSE) = d
=============================================================================
