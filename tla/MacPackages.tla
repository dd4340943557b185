----------------------------- MODULE MacPackages -----------------------------
(***************************************************************************)
(* How Mac installers come about: the signatures a resource expects of what   *)
(* it takes in (internal/signature), the layout and the inputs of a package   *)
(* it builds (internal/macpkg, internal/pkgbuild), and what is published of    *)
(* a vendor's source (internal/macsoftware).                                *)
(*                                                                         *)
(* Abstractions.  Trees and their paths are those of Trees; in the tree of an *)
(* input a node also is an "app" or a "pkg".  A signer is "" for no signature  *)
(* and "bad" for an invalid one.  Modes, owners, dates and limits of size are   *)
(* left out, and so are the formats that the package is written in.           *)
(***************************************************************************)
EXTENDS Integers, Sequences, FiniteSets, SequencesExt
LOCAL T == INSTANCE Trees

Failed == [ok |-> FALSE]
Below(p, q) == IsStrictPrefix(p, q)

(***************************************************************************)
(* signature.Verify: subjects are [path, signer]; an expectation names one,   *)
(* <<path>>, or <<>> for the only one.                                        *)
(***************************************************************************)
Covers(expected, subjects) == IF expected.subject = <<>> THEN subjects ELSE {s \in subjects : s.path = expected.subject[1]}
\* Mutant: a subject without an expectation is let through.
ResolvesSome(expectations, subjects) ==
    /\ \A i \in DOMAIN expectations : Cardinality(Covers(expectations[i], subjects)) = 1
    /\ \A i, j \in DOMAIN expectations : i # j => Covers(expectations[i], subjects) # Covers(expectations[j], subjects)
Resolves(expectations, subjects) ==
    /\ \A i \in DOMAIN expectations : Cardinality(Covers(expectations[i], subjects)) = 1
    /\ \A i, j \in DOMAIN expectations : i # j => Covers(expectations[i], subjects) # Covers(expectations[j], subjects)
    /\ \A s \in subjects : \E i \in DOMAIN expectations : s \in Covers(expectations[i], subjects)
Verify(expectations, subjects, derive) ==
    IF /\ derive \/ Resolves(expectations, subjects)
       /\ \A s \in subjects : s.signer # "bad"
       /\ derive \/ \A i \in DOMAIN expectations : \A s \in Covers(expectations[i], subjects) : s.signer = expectations[i].signer
    THEN [ok |-> TRUE, observed |-> subjects] ELSE Failed
\* Fragment: the declaration of what was observed, by input; a subject is named where a
\* scope has several.  Mutant: it never is.
DeclaredBare(input, observed) == {[input |-> input, subject |-> <<>>, signer |-> s.signer] : s \in observed}
Declared(input, observed) ==
    {[input |-> input, subject |-> IF Cardinality(observed) > 1 THEN <<s.path>> ELSE <<>>, signer |-> s.signer] : s \in observed}
Fragment(observations) == SetToSeq(UNION {Declared(n, observations[n]) : n \in DOMAIN observations})

(***************************************************************************)
(* macpkg: what a package takes of its inputs, [built, tree, broken].         *)
(***************************************************************************)
Signable(tree, p) == p \in DOMAIN tree /\ tree[p].kind \in {"app", "pkg"}
\* Selection and signingSubjects: what is selected, or the outermost ones below it.
SigningSubjects(input, selections) ==
    LET of(selected) ==
            IF Signable(input.tree, selected) THEN {selected}
            ELSE {p \in DOMAIN input.tree : Below(selected, p) /\ Signable(input.tree, p)
                    /\ ~\E q \in DOMAIN input.tree : Below(selected, q) /\ Below(q, p) /\ Signable(input.tree, q)}
    IN  {[path |-> p, signer |-> input.tree[p].is] : p \in UNION {of(s) : s \in selections}}
Consumed(entries, input) == {entries[i].path : i \in {j \in DOMAIN entries : entries[j].input = input}}
Inspected(inputs, entries, n) == ~inputs[n].broken /\ Consumed(entries, n) \subseteq DOMAIN inputs[n].tree \cup {<<>>}
PoliciesOf(signatures, input) == SelectSeq(signatures, LAMBDA e : e.input = input)
\* What another build left unsigned has no publisher; what is expected of it is verified.
Exempt(inputs, n, policies) == inputs[n].built /\ policies = <<>>
VerifyInputs(inputs, entries, signatures, derive) ==
    LET consumed == {entries[i].input : i \in DOMAIN entries}
        policies(n) == IF derive THEN <<>> ELSE PoliciesOf(signatures, n)
        looked == {n \in consumed : ~Exempt(inputs, n, policies(n))}
        verified == [n \in looked |-> Verify(policies(n), SigningSubjects(inputs[n], Consumed(entries, n)), derive)]
    IN  IF /\ derive \/ \A i \in DOMAIN signatures : signatures[i].input \in consumed
           /\ \A n \in looked : Inspected(inputs, entries, n) /\ verified[n].ok
        THEN [ok |-> TRUE, observed |-> [n \in looked |-> verified[n].observed]] ELSE Failed
Unverified(inputs, entries) ==
    UNION {{<<n, s>> : s \in SigningSubjects(inputs[n], Consumed(entries, n))} :
        n \in {m \in {entries[i].input : i \in DOMAIN entries} : ~inputs[m].built /\ Inspected(inputs, entries, m)}}
PreparePkg(inputs, entries, signatures, derive) ==
    LET v == VerifyInputs(inputs, entries, signatures, derive) IN
    IF signatures # <<>> \/ derive
    THEN IF v.ok THEN [ok |-> TRUE, observed |-> v.observed, unverified |-> {}] ELSE Failed
    ELSE [ok |-> TRUE, observed |-> <<>>, unverified |-> Unverified(inputs, entries)]
\* A package that was prepared under expectations holds no application and no package
\* whose publisher was not checked, but those of a build that left them unsigned and of
\* which nothing is expected; without expectations each is on record as unverified.
SubjectsAccounted(inputs, entries, signatures) ==
    LET p == PreparePkg(inputs, entries, signatures, FALSE)
        taken == {n \in DOMAIN inputs : \E i \in DOMAIN entries : entries[i].input = n}
    IN  p.ok => \A n \in taken : \A s \in SigningSubjects(inputs[n], Consumed(entries, n)) :
            LET expected == {i \in DOMAIN signatures : signatures[i].input = n /\ signatures[i].subject \in {<<>>, <<s.path>>}} IN
            IF signatures = <<>> THEN inputs[n].built \/ ~Inspected(inputs, entries, n) \/ <<n, s>> \in p.unverified
            ELSE IF expected = {} THEN inputs[n].built /\ n \notin DOMAIN p.observed
            ELSE Cardinality(expected) = 1 /\ \A i \in expected : signatures[i].signer = s.signer /\ s \in p.observed[n]
\* What derivation reports, declared as it prints it, is what verification then accepts
\* and observes ("a complete declaration for review", signature.go:346).
DerivedHolds(inputs, entries, declared) ==
    LET d == VerifyInputs(inputs, entries, declared, TRUE) IN
    d.ok /\ Fragment(d.observed) # <<>> => VerifyInputs(inputs, entries, Fragment(d.observed), FALSE) = d

(***************************************************************************)
(* pkgbuild.Layout: entries are staged one after the other.                   *)
(***************************************************************************)
NewLayout == [ok |-> TRUE, tree |-> <<>>, claimed |-> {}]
With(tree, p, node) == [q \in DOMAIN tree \cup {p} |-> IF q = p THEN node ELSE tree[q]]
\* Mutant: what is there passes for a directory.
ParentsAny(stage, name) ==
    IF ~stage.ok THEN stage
    ELSE [stage EXCEPT !.tree = [q \in DOMAIN @ \cup T!Ways(name) |-> IF q \in DOMAIN @ THEN @[q] ELSE T!Dir(0)]]
Parents(stage, name) ==
    IF ~stage.ok \/ \E q \in T!Ways(name) \cap DOMAIN stage.tree : stage.tree[q].kind # "dir" THEN Failed
    ELSE [stage EXCEPT !.tree = [q \in DOMAIN @ \cup T!Ways(name) |-> IF q \in DOMAIN @ THEN @[q] ELSE T!Dir(0)]]
Directory(stage, name, node) ==
    LET above == Parents(stage, name) IN
    IF ~above.ok \/ name \in stage.claimed THEN Failed
    ELSE [above EXCEPT !.tree = With(@, name, node), !.claimed = @ \cup {name}]
Leaf(stage, name, node) ==
    LET above == Parents(stage, Front(name)) IN
    IF ~above.ok \/ name \in DOMAIN stage.tree \/ (node.kind = "link" /\ ~T!Confined(name, node.target)) THEN Failed
    ELSE [above EXCEPT !.tree = With(@, name, node), !.claimed = @ \cup {name}]
Stage(stage, name, node) == IF node.kind = "dir" THEN Directory(stage, name, node) ELSE Leaf(stage, name, node)
\* copyNode: a link leads to what is copied with it.
Escapes(tree, boundary, p) ==
    tree[p].kind = "link" /\ ~(T!Confined(p, tree[p].target) /\ IsPrefix(boundary, T!Join(Front(p), tree[p].target)))
Copy(stage, tree, at, destination) ==
    LET members == {p \in DOMAIN tree : IsPrefix(at, p)}
        boundary == IF tree[at].kind = "dir" THEN at ELSE Front(at)
        place(p) == destination \o SubSeq(p, Len(at) + 1, Len(p))
    IN  IF ~stage.ok \/ \E p \in members : Escapes(tree, boundary, p) THEN Failed
        ELSE FoldLeft(LAMBDA x, p : IF x.ok THEN Stage(x, place(p), tree[p]) ELSE x, stage,
                      SetToSortSeq(members, LAMBDA p, q : T!Before(p, q)))
\* An entry is [name, node], or [name, from] which copies what an input holds there.
StageEntry(stage, e, tree) ==
    IF ~stage.ok THEN stage
    ELSE IF "from" \in DOMAIN e THEN IF e.from \in DOMAIN tree THEN Copy(stage, tree, e.from, e.name) ELSE Failed
    ELSE Stage(stage, e.name, e.node)
\* Spec.Validate: destinations that are one when they are cleaned are refused.
ValidEntries(entries) ==
    /\ \A i, j \in DOMAIN entries : i # j => entries[i].name # entries[j].name
    /\ \A i \in DOMAIN entries : ("node" \in DOMAIN entries[i] /\ entries[i].node.kind = "link") => T!Confined(entries[i].name, entries[i].node.target)
Layout(entries, tree) ==
    IF ValidEntries(entries) THEN FoldLeft(LAMBDA x, e : StageEntry(x, e, tree), NewLayout, entries) ELSE Failed

\* validateLink: the chain of a link, component by component.
MaxLinks == 4
RECURSIVE Chain(_, _, _, _)
Chain(tree, at, pending, links) ==
    IF pending = <<>> THEN TRUE
    ELSE IF Head(pending) = T!Up THEN at # <<>> /\ Chain(tree, Front(at), Tail(pending), links)
    ELSE LET next == Append(at, Head(pending)) IN
         IF \E q \in T!Ways(at) : q \notin DOMAIN tree \/ tree[q].kind # "dir" THEN FALSE
         ELSE IF next \notin DOMAIN tree THEN TRUE
         ELSE IF tree[next].kind # "link" THEN Chain(tree, next, Tail(pending), links)
         ELSE links < MaxLinks /\ Chain(tree, at, tree[next].target \o Tail(pending), links + 1)
\* Mutant: a link is looked at by itself.
ValidLinkAlone(tree, p) == T!Confined(p, tree[p].target)
ValidLink(tree, p) == T!Confined(p, tree[p].target) /\ Chain(tree, <<>>, p, 0)
\* writeTree: what is written of a staged tree; Build: it becomes the payload, or the
\* scripts, which need a hook that is a file.
Writable(tree) == \A p \in DOMAIN tree : tree[p].kind = "link" => ValidLink(tree, p)
Build(stage, scripts) ==
    IF /\ stage.ok /\ Writable(stage.tree)
       /\ scripts => <<1>> \in DOMAIN stage.tree /\ stage.tree[<<1>>].kind = "file"
    THEN [ok |-> TRUE, tree |-> stage.tree] ELSE Failed
\* What is packaged is what was declared and, where entries do not meet, nothing but the
\* directories above; no entry is placed through a link or over another, whatever the
\* inputs hold.
StagedAsDeclared(entries, tree) ==
    LET stage == Layout(entries, tree)
        placed(e) == IF "from" \notin DOMAIN e THEN {<<e.name, e.node>>}
                     ELSE {<<e.name \o SubSeq(p, Len(e.from) + 1, Len(p)), tree[p]>> : p \in {q \in DOMAIN tree : IsPrefix(e.from, q)}}
        declared == UNION {placed(entries[i]) : i \in DOMAIN entries}
        names == {d[1] : d \in declared}
    IN  stage.ok =>
        /\ \A d \in declared : stage.tree[d[1]] = d[2]
        /\ Cardinality(names) = Cardinality(declared) /\ stage.claimed = names
        /\ \A i, j \in DOMAIN entries : i < j => {d[1] : d \in placed(entries[i])} \cap {d[1] : d \in placed(entries[j])} = {}
        /\ DOMAIN stage.tree = UNION {T!Ways(n) : n \in names}
        /\ \A p \in DOMAIN stage.tree : \A q \in T!Ways(p) \ {p} : stage.tree[q].kind = "dir"
\* On the machine that installs a package, no link of it leads out of what it installs,
\* however links lead through each other ("Windows cleans parent segments before
\* following links, so asking the host to resolve a chain can hide an escape",
\* links.go:12).
RECURSIVE Leaves(_, _, _, _)
Leaves(tree, at, pending, fuel) ==
    IF pending = <<>> \/ fuel = 0 THEN FALSE
    ELSE IF Head(pending) = T!Up THEN at = <<>> \/ Leaves(tree, Front(at), Tail(pending), fuel)
    ELSE LET next == Append(at, Head(pending)) IN
         IF next \notin DOMAIN tree THEN FALSE
         ELSE IF tree[next].kind = "link" THEN Leaves(tree, at, tree[next].target \o Tail(pending), fuel - 1)
         ELSE Leaves(tree, next, Tail(pending), fuel)
LinksStayInside(entries, tree) ==
    LET built == Build(Layout(entries, tree), FALSE) IN
    built.ok => \A p \in DOMAIN built.tree : ~Leaves(built.tree, <<>>, p, 9)
=============================================================================
