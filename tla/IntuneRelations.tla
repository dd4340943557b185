--------------------------- MODULE IntuneRelations ---------------------------
(***************************************************************************)
(* What surrounds an Intune app (internal/intune): its relationships to other *)
(* apps, its assignments and its categories, each written over what the       *)
(* tenant holds now and verified by readback.                               *)
(*                                                                         *)
(* Abstractions.  Apps and IDs are numbers.  A relationship is an edge from  *)
(* the app that declares it (parent) to its target (child); Graph reports it *)
(* at both ends.  The limits of the graphs are parameters.                  *)
(***************************************************************************)
EXTENDS Integers, Sequences, FiniteSets, SequencesExt, FiniteSetsExt

Refused == [ok |-> FALSE]
Accepted(x) == [ok |-> TRUE, it |-> x]

(***************************************************************************)
(* Relationships.                                                          *)
(***************************************************************************)
Edge(parent, ref) == [parent |-> parent, child |-> ref.target, category |-> ref.category, install |-> ref.install]
Outgoing(edges, app) == {e \in edges : e.parent = app}
\* refs: what the declaration names, resolved; published: the published Win32 apps.
DesiredRelationships(refs, app, published) ==
    IF \E r \in Range(refs) : r.target = app \/ r.target \notin published THEN Refused
    ELSE Accepted({Edge(app, r) : r \in Range(refs)})
\* Mutant: every relationship of the app is replaced.
MergeRelationshipsAll(edges, app, desired, owned) == desired
\* owned: the categories that are declared, if only as empty.
MergeRelationships(edges, app, desired, owned) ==
    {e \in Outgoing(edges, app) : e.category \notin owned} \cup desired

\* The breadth-first walk of checkRelationships(): what app will declare, what others
\* declare towards it, and all that the apps found this way report.
Touching(edges, ids) == {e \in edges : e.parent \in ids \/ e.child \in ids}
Ends(edges) == {e.parent : e \in edges} \cup {e.child : e \in edges}
\* Mutant: other apps still report what this plan removes.
InspectedStale(edges, app, wanted) ==
    LET found[n \in Nat] ==
          IF n = 0 THEN wanted \cup {e \in edges : e.child = app}
          ELSE found[n - 1] \cup Touching(edges, Ends(found[n - 1]) \ {app})
    IN found[Cardinality(Ends(edges \cup wanted))]
Inspected(edges, app, wanted) ==
    LET kept == edges \ Outgoing(edges, app)
        found[n \in Nat] ==
          IF n = 0 THEN wanted \cup {e \in kept : e.child = app}
          ELSE found[n - 1] \cup Touching(kept, Ends(found[n - 1]) \ {app})
    IN found[Cardinality(Ends(edges \cup wanted))]

Below(edges, app) ==
    LET reached[n \in Nat] ==
          IF n = 0 THEN {e.child : e \in Outgoing(edges, app)}
          ELSE reached[n - 1] \cup {e.child : e \in {d \in edges : d.parent \in reached[n - 1]}}
    IN reached[Cardinality(Ends(edges))]
Connected(edges, app, category) ==
    LET E == {e \in edges : e.category = category}
        reached[n \in Nat] == IF n = 0 THEN {app} ELSE reached[n - 1] \cup Ends(Touching(E, reached[n - 1]))
    IN reached[Cardinality(Ends(E))]
ValidateRelationshipGraph(app, edges, limit) ==
    LET superseded == {e.child : e \in {d \in edges : d.category = "supersedes"}} IN
    /\ \A e \in edges : e.category = "dependencies" => e.child \notin superseded
    /\ \A d, e \in edges : d.parent = e.parent /\ d.child = e.child => d.category = e.category
    /\ \A a \in Ends(edges) : a \notin Below(edges, a)
    /\ \A c \in DOMAIN limit : Cardinality(Connected(edges, app, c)) <= limit[c]
\* An app that is named twice, by its resource and by its ID, is declared twice; the
\* readback then never has as many relationships as were sent.
Aliased(refs) == \E i, j \in DOMAIN refs : i # j /\ refs[i].target = refs[j].target /\ refs[i].category = refs[j].category
\* The tenant after applyRelationships().
ApplyRelationships(edges, app, refs, owned, published, limit) ==
    LET desired == DesiredRelationships(refs, app, published) IN
    IF ~desired.ok THEN Refused
    ELSE LET wanted == MergeRelationships(edges, app, desired.it, owned) IN
         IF ~ValidateRelationshipGraph(app, Inspected(edges, app, wanted), limit) \/ Aliased(refs) THEN Refused
         ELSE Accepted((edges \ Outgoing(edges, app)) \cup wanted)

\* "Inspect the connected subgraph because inbound references also consume native
\* relationship limits" (relationships.go:161): the walk accepts exactly the changes after
\* which the app's part of the tenant is sound; relationships of others and of categories
\* that are not declared stay; and applying again changes nothing.
PartOf(edges, app) ==
    LET reached[n \in Nat] == IF n = 0 THEN {app} ELSE reached[n - 1] \cup Ends(Touching(edges, reached[n - 1]))
    IN Touching(edges, reached[Cardinality(Ends(edges))])
RelationsSound(edges, app, refs, owned, published, limit) ==
    LET r == ApplyRelationships(edges, app, refs, owned, published, limit)
        wanted == {e \in Outgoing(edges, app) : e.category \notin owned} \cup {Edge(app, x) : x \in Range(refs)}
        after == (edges \ Outgoing(edges, app)) \cup wanted
        allowed == (\A x \in Range(refs) : x.target \in published \ {app}) /\ ~Aliased(refs)
    IN /\ allowed => (r.ok <=> ValidateRelationshipGraph(app, PartOf(after, app), limit))
       /\ r.ok => /\ r.it = after
                  /\ ApplyRelationships(r.it, app, refs, owned, published, limit) = r

(***************************************************************************)
(* Assignments: of an intent to a target, with a filter and notifications     *)
(* that may be left to Graph (<<>>).                                       *)
(***************************************************************************)
Key(a) == <<a.intent, a.target>>
Valid(desired) ==
    /\ IsInjective([i \in DOMAIN desired |-> Key(desired[i])])
    /\ \A i \in DOMAIN desired : desired[i].target = "excluded" => desired[i].filter = <<>> /\ desired[i].notify = <<>>
Kept(declared, previous) == IF declared # <<>> THEN declared ELSE previous
OwnedEqual(previous, a) ==
    (a.filter # <<>> => previous.filter = a.filter) /\ (a.notify # <<>> => previous.notify = a.notify)
\* Mutant: an assignment that is there is written as it is declared.
ReconcileAssignmentsDeclared(current, desired) == [all |-> desired, changed |-> current # desired]
ReconcileAssignments(current, desired) ==
    LET at(a) == {i \in DOMAIN current : Key(current[i]) = Key(a)}
        merged(a) == IF at(a) = {} THEN a
                     ELSE LET p == current[Max(at(a))] IN
                          [a EXCEPT !.filter = Kept(@, p.filter), !.notify = Kept(@, p.notify)]
    IN [all |-> [i \in DOMAIN desired |-> merged(desired[i])],
        changed |-> \/ Len(current) # Len(desired)
                    \/ \E i \in DOMAIN desired :
                          at(desired[i]) = {} \/ ~OwnedEqual(current[Max(at(desired[i]))], desired[i])]

\* "omitting them keeps what the assignment has" (assignment.go:22): an assignment that stays
\* keeps its filter and notifications, exactly the declared targets remain, and the
\* readback needs no further change; when nothing changed, nothing would be written.
AssignmentsSettle(current, desired) ==
    LET r == ReconcileAssignments(current, desired) IN
    Valid(desired) /\ IsInjective([i \in DOMAIN current |-> Key(current[i])]) =>
        /\ ~ReconcileAssignments(r.all, desired).changed
        /\ {Key(a) : a \in Range(r.all)} = {Key(a) : a \in Range(desired)}
        /\ \A a \in Range(desired), c \in Range(current) : Key(a) = Key(c) =>
              \E b \in Range(r.all) : /\ Key(b) = Key(a)
                                      /\ b.filter = Kept(a.filter, c.filter) /\ b.notify = Kept(a.notify, c.notify)
        /\ ~r.changed => Range(r.all) = Range(current)

(***************************************************************************)
(* Categories.  names[id]: the categories of the tenant; held: the app's.    *)
(* A run fails after so many requests.                                      *)
(***************************************************************************)
\* Mutant: a category counts as missing unless the app holds it.
ResolveCategoriesHeld(names, held, name) == {id \in held : names[id] = name}
ResolveCategories(names, held, name) == {id \in DOMAIN names : names[id] = name}
ReconcileCategories(names, held, declared, requests) ==
    LET missing == SelectSeq(declared, LAMBDA n : ResolveCategories(names, held, n) = {})
        created == SubSeq(missing, 1, Min({Len(missing), requests}))
        tenant == [id \in 1..(Len(names) + Len(created)) |->
                     IF id <= Len(names) THEN names[id] ELSE created[id - Len(names)]]
        ids == {id \in DOMAIN tenant : tenant[id] \in Range(declared)}
        left == requests - Len(missing)
        adds == SetToSortSeq(ids \ held, <)
        added == SubSeq(adds, 1, Min({Len(adds), left}))
        drops == SetToSortSeq(held \ ids, <)
        dropped == SubSeq(drops, 1, Min({Len(drops), left - Len(adds)}))
    IN IF \E n \in Range(declared) : Cardinality(ResolveCategories(names, held, n)) > 1 THEN [names |-> names, held |-> held]
       ELSE [names |-> tenant, held |-> (held \cup Range(added)) \ Range(dropped)]

\* A run that fails at any request is completed by the next: the app holds the declared
\* categories and no other, and the tenant has one category of each name.
CategoriesConverge(names, held, declared, requests) ==
    LET once == ReconcileCategories(names, held, declared, requests)
        twice == ReconcileCategories(once.names, once.held, declared, 100)
    IN /\ {twice.names[id] : id \in twice.held} = Range(declared)
       /\ \A n \in Range(declared) : Cardinality({id \in DOMAIN twice.names : twice.names[id] = n}) = 1
       /\ \A id \in DOMAIN names : twice.names[id] = names[id]
=============================================================================
