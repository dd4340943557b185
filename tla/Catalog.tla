------------------------------ MODULE Catalog ------------------------------
(***************************************************************************)
(* What a command works on (internal/engine/resources.go, changed.go,       *)
(* composition.go, input.go, minimum.go): the resources it selects, the     *)
(* closure it evaluates, what changed since a revision, and what can be     *)
(* known of publications before anything is prepared.                       *)
(*                                                                         *)
(* A catalog maps resources to declarations:                                *)
(*   suspend, profiles - as declared                                        *)
(*   config            - what the kind makes of it, and its provider        *)
(*   inputs            - the resources each named input consumes            *)
(*   reviewed          - the lock entries of its other inputs               *)
(*   files             - the local files those read                         *)
(*   peers             - the resources its publication refers to            *)
(*   needs             - what its metadata reads: "facts", "env"            *)
(* Resources are numbers, which gives them the order of their keys.         *)
(***************************************************************************)
EXTENDS Integers, Sequences, FiniteSets, SequencesExt

Sorted(S) == SetToSortSeq(S, LAMBDA a, b : a < b)
Error == <<0>>

(***************************************************************************)
(* Selection.                                                              *)
(***************************************************************************)
IsRoot(r, profiles) ==
    ~r.suspend /\ IF profiles = {} THEN r.profiles = {} ELSE r.profiles \cap profiles # {}

\* Without selectors: the roots of the run's profiles, all of which some resource declares.
SelectResources(catalog, profiles) ==
    IF \E p \in profiles : \A k \in DOMAIN catalog : p \notin catalog[k].profiles
    THEN Error
    ELSE Sorted({k \in DOMAIN catalog : IsRoot(catalog[k], profiles)})

(***************************************************************************)
(* The closure.                                                            *)
(***************************************************************************)
Producers(r) == {r.inputs[i] : i \in DOMAIN r.inputs}

\* discoverResource(): the resources an input names are declared, and suspended
\* ones are for suspended consumers.
Evaluates(catalog, k) ==
    \A p \in Producers(catalog[k]) :
        p \in DOMAIN catalog /\ (catalog[p].suspend => catalog[k].suspend)

\* visit(): what a resource consumes comes before it.
RECURSIVE Visit(_, _, _, _)
Visit(catalog, k, active, done) ==
    LET into(order, p) == IF order = Error THEN Error ELSE Visit(catalog, p, active \cup {k}, order)
        before == FoldLeft(into, done, Sorted(Producers(catalog[k])))
    IN  IF k \in active THEN Error
        ELSE IF k \in Range(done) THEN done
        ELSE IF ~Evaluates(catalog, k) THEN Error
        ELSE IF before = Error THEN Error ELSE Append(before, k)

\* discoverClosure(): the order of the roots' closure.
DiscoverClosure(catalog, roots) ==
    FoldLeft(LAMBDA order, k : IF order = Error THEN Error ELSE Visit(catalog, k, {}, order), <<>>, roots)

\* Publication peers are evaluated, and theirs, without joining the run.
RECURSIVE PeersOf(_, _, _)
PeersOf(catalog, queue, plans) ==
    IF queue = <<>> THEN plans
    ELSE LET found == ((catalog[Head(queue)].peers \ plans) \cap DOMAIN catalog)
         IN  PeersOf(catalog, Tail(queue) \o Sorted(found), plans \cup found)

\* Mutant: the walk goes on behind an owner.
NextPast(catalog, name, k) == Producers(catalog[k])
\* inputOwner(): a resource's own input, or the only one of that name behind it.
NextOwners(catalog, name, k) == IF name \in DOMAIN catalog[k].inputs THEN {} ELSE Producers(catalog[k])
RECURSIVE Owners(_, _, _, _)
Owners(catalog, name, todo, visited) ==
    IF todo = {} THEN {}
    ELSE LET k == CHOOSE x \in todo : TRUE
             seen == visited \cup {k}
         IN  {x \in {k} : name \in DOMAIN catalog[k].inputs}
                \cup Owners(catalog, name, (todo \cup NextOwners(catalog, name, k)) \ seen, seen)

(***************************************************************************)
(* prepare --changed-since.                                                *)
(***************************************************************************)
\* preparationOf(): without destinations, and as written.
PreparationOf(r) == [config |-> r.config, inputs |-> r.inputs, reviewed |-> r.reviewed]

\* Mutant: a resource that joined the run's profiles counts as known.
NewlyTakenNever(now, before, profiles) == FALSE

\* "A resource the same run would not have taken at the base counts as new."
NewlyTaken(now, before, profiles) == IsRoot(now, profiles) /\ ~IsRoot(before, profiles)

Affected(catalog, base, k, profiles, changed) ==
    \/ k \notin DOMAIN base
    \/ base[k].suspend
    \/ NewlyTaken(catalog[k], base[k], profiles)
    \/ PreparationOf(catalog[k]) # PreparationOf(base[k])
    \/ catalog[k].files \cap changed # {}
    \/ \E p \in Producers(catalog[k]) : p \notin DOMAIN catalog \/ catalog[p].suspend

RECURSIVE Behind(_, _)
Behind(catalog, S) ==
    LET more == S \cup UNION {{p \in Producers(catalog[k]) : p \in DOMAIN catalog /\ ~catalog[p].suspend} : k \in S}
    IN  IF more = S THEN S ELSE Behind(catalog, more)

\* Mutant: consumers are asked once.
ConsumersOnce(catalog, all, S) == S \cup {k \in all : Producers(catalog[k]) \cap S # {}}

RECURSIVE Consumers(_, _, _)
Consumers(catalog, all, S) ==
    LET more == S \cup {k \in all : Producers(catalog[k]) \cap S # {}}
    IN  IF more = S THEN S ELSE Consumers(catalog, all, more)

ChangedSince(catalog, base, roots, profiles, changed) ==
    LET all == Behind(catalog, roots)
    IN  Consumers(catalog, all, {k \in all : Affected(catalog, base, k, profiles, changed)})

(***************************************************************************)
(* Publications.                                                           *)
(***************************************************************************)
\* publicationGraph(), checkAcyclic(): peers exist and there is no cycle.
RECURSIVE Refers(_, _)
Refers(catalog, S) ==
    LET more == S \cup UNION {catalog[k].peers \cap DOMAIN catalog : k \in S}
    IN  IF more = S THEN S ELSE Refers(catalog, more)
GraphValid(catalog, plans) ==
    \A k \in plans : catalog[k].peers \subseteq plans /\ k \notin Refers(catalog, catalog[k].peers)

\* Mutant: a peer's metadata may wait for a preparation that is not part of the run.
PeerKnownAlways(catalog, peer, selected) == TRUE

\* "peer ... metadata requires preparation".
PeerKnown(catalog, peer, selected) == "facts" \in catalog[peer].needs => peer \in selected

\* checkPublication(): "refused", "deferred", or validated by the provider.
CheckPublication(catalog, k, selected, environment) ==
    LET peers == catalog[k].peers
        reads == UNION {catalog[x].needs : x \in {k} \cup peers}
    IN  IF \E x \in peers : ~PeerKnown(catalog, x, selected) THEN "refused"
        ELSE IF "facts" \in reads \/ ("env" \in reads /\ ~environment) THEN "deferred"
        ELSE "validated"
Requires(catalog, k, selected) == catalog[k].peers \cap selected

\* resolvePeerMetadata(), once what a publication requires has been published.
ResolvesPeers(catalog, k, ready) ==
    \A x \in catalog[k].peers : "facts" \in catalog[x].needs => x \in ready

\* connectionIdentity(): the settings without what their schemas call write-only.
RECURSIVE Annotations(_)
Annotations(schema) == {schema} \cup UNION {Annotations(b) : b \in schema.branches}
\* Mutant: the branches of a schema are not looked into.
ExpandedFlat(schemas) == schemas
Expanded(schemas) == UNION {Annotations(s) : s \in schemas}
NoSchema == [writeOnly |-> FALSE, properties |-> <<>>, rest |-> {}, branches |-> {}]
RECURSIVE ConnectionIdentity(_, _)
ConnectionIdentity(value, schemas) ==
    LET all == Expanded(schemas)
        fields(f) == UNION {IF f \in DOMAIN s.properties THEN {s.properties[f]} ELSE s.rest : s \in all}
        secret(f) == \E s \in Expanded(fields(f)) : s.writeOnly
    IN  IF value.leaf # "" THEN value
        ELSE [leaf |-> "", fields |-> [f \in {g \in DOMAIN value.fields : ~secret(g)} |->
                                          ConnectionIdentity(value.fields[f], fields(f))]]

\* compareVersions(): missing components are zero.
At(v, i) == IF i \in DOMAIN v THEN v[i] ELSE 0
\* Mutant: components the shorter version does not name are not compared.
CompareVersionsShort(a, b) ==
    LET i == SelectInSeq([n \in 1..(IF Len(a) < Len(b) THEN Len(a) ELSE Len(b)) |-> a[n] - b[n]], LAMBDA d : d # 0)
    IN  IF i = 0 THEN 0 ELSE a[i] - b[i]
CompareVersions(a, b) ==
    LET n == IF Len(a) > Len(b) THEN Len(a) ELSE Len(b)
        i == SelectInSeq([m \in 1..n |-> At(a, m) - At(b, m)], LAMBDA d : d # 0)
    IN  IF i = 0 THEN 0 ELSE At(a, i) - At(b, i)

\* minimumOS(): what is declared, or the latest requirement.
MinimumOS(declared, candidates) ==
    IF declared # <<>> THEN declared
    ELSE FoldLeft(LAMBDA best, c : IF best = <<>> \/ CompareVersions(c, best) > 0 THEN c ELSE best, <<>>, candidates)

(***************************************************************************)
(* Properties.                                                             *)
(***************************************************************************)
\* Paths along build inputs, and what lies on them, without the walk's bookkeeping.
Step(catalog, a, b) == b \in Producers(catalog[a])
RECURSIVE Longer(_, _, _)
Longer(catalog, paths, n) ==
    IF n = 0 THEN paths
    ELSE paths \cup Longer(catalog, UNION {{Append(p, k) : k \in {x \in DOMAIN catalog : Step(catalog, p[Len(p)], x)}} : p \in paths}, n - 1)
Paths(catalog) == Longer(catalog, {<<k>> : k \in DOMAIN catalog}, Cardinality(DOMAIN catalog))
Reached(catalog, roots) == {p[Len(p)] : p \in {q \in Paths(catalog) : q[1] \in Range(roots)}}

\* "returns ... the roots' closure in dependency-first order.  Nothing outside the
\* closure is evaluated" (resources.go:97): the order holds every resource that some
\* path from a root leads to once, after what it consumes; and it is refused exactly
\* when such a path holds a cycle or an input that may not be consumed.
ClosureOrdered(catalog, roots) ==
    LET order == DiscoverClosure(catalog, roots)
        reached == Reached(catalog, roots)
    IN  IF order = Error
        THEN \E k \in reached : ~Evaluates(catalog, k) \/ \E p \in Paths(catalog) : Len(p) > 1 /\ p[1] = k /\ p[Len(p)] = k
        ELSE /\ Range(order) = reached /\ Len(order) = Cardinality(reached)
             /\ \A i \in DOMAIN order : Producers(catalog[order[i]]) \subseteq {order[j] : j \in 1..(i - 1)}

\* What a preparation is made of, down to the files and entries at the end of every input.
RECURSIVE Made(_, _, _)
Made(catalog, content, k) ==
    [prepared |-> PreparationOf(catalog[k]), files |-> {<<f, content[f]>> : f \in catalog[k].files},
     behind |-> {Made(catalog, content, p) : p \in Producers(catalog[k])}]

\* "narrows roots to the resources whose preparation differs from the catalog at the
\* session's base revision, and the resources that consume them" (changed.go:99): a
\* root that is left out was taken at the base and is made of the same all the way
\* down; one that is taken is new to the run or lies behind such a resource, or
\* something it is made of differs.
ChangedExactly(catalog, base, content, before, profiles) ==
    LET selected == SelectResources(catalog, profiles)
        roots == Range(selected)
        changed == {f \in DOMAIN content : content[f] # before[f]}
        result == ChangedSince(catalog, base, roots, profiles, changed)
        fresh(k) == k \notin DOMAIN base \/ base[k].suspend \/ NewlyTaken(catalog[k], base[k], profiles)
        same(k) == k \in DOMAIN base /\ Made(catalog, content, k) = Made(base, before, k)
    IN  (selected # Error /\ DiscoverClosure(catalog, selected) # Error) =>
            \A k \in roots :
                /\ k \notin result => same(k) /\ IsRoot(base[k], profiles)
                /\ k \in result => ~same(k) \/ \E p \in Reached(catalog, <<k>>) : fresh(p)

\* planDestinations() decides before anything is prepared: a publication that was
\* accepted finds its peers evaluated, can be ordered after those of them that are
\* part of the run, and can resolve their metadata once these are published.
AcceptedResolves(catalog, selected, environment) ==
    LET plans == PeersOf(catalog, Sorted(selected), selected)
        accepted == GraphValid(catalog, plans) /\ \A k \in selected : CheckPublication(catalog, k, selected, environment) # "refused"
    IN  accepted =>
            \E order \in [selected -> 1..Cardinality(selected)] : \A k \in selected :
                /\ catalog[k].peers \subseteq plans
                /\ \A x \in Requires(catalog, k, selected) : order[x] < order[k]
                /\ ResolvesPeers(catalog, k, {x \in selected : order[x] < order[k]})

\* "inherited names must be unique" (input.go:19): the owners found are exactly those
\* that some path of resources without such an input leads to.
OwnersExact(catalog, root, name) ==
    Owners(catalog, name, {root}, {}) =
        {p[Len(p)] : p \in {q \in Paths(catalog) :
            q[1] = root /\ \A i \in DOMAIN q : name \in DOMAIN catalog[q[i]].inputs <=> i = Len(q)}}

\* "Schema annotations describe credentials" (composition.go:287): settings that
\* differ in credentials alone are one connection, others are not.
IdentityIsConnection(a, b, schema, secrets) ==
    LET open(v) == [f \in DOMAIN v.fields \ secrets |-> v.fields[f]]
    IN  ConnectionIdentity(a, {schema}) = ConnectionIdentity(b, {schema}) <=> open(a) = open(b)

\* "the latest macOS requirement of the installer and the primary application"
\* (minimum.go:14): no machine that a requirement rules out meets the minimum, in
\* whatever order and with however many components they are written.
MinimumCovers(candidates, machine) ==
    LET pad(v) == [i \in 1..4 |-> At(v, i)]
        below(a, b) == \E i \in 1..4 : pad(a)[i] < pad(b)[i] /\ \A j \in 1..(i - 1) : pad(a)[j] = pad(b)[j]
    IN  \A c \in Range(candidates) : below(machine, c) => below(machine, MinimumOS(<<>>, candidates))
=============================================================================
