---------------------------- MODULE JamfMetadata ----------------------------
(***************************************************************************)
(* What the Jamf destination (internal/jamf) derives, resolves and compares: *)
(* enumerations of collections, names, declarations and their defaults, the   *)
(* settings a declaration owns, and the Classic API documents they are merged *)
(* into.                                                                   *)
(*                                                                         *)
(* Abstractions.  An optional field is <<>> when omitted and <<v>> when      *)
(* declared; a declared null is <<Null>>.  A document maps the paths of its  *)
(* elements to their texts and the paths of its lists to sequences of items, *)
(* each a function from fields to texts.  Texts, names and IDs are strings.  *)
(***************************************************************************)
EXTENDS Integers, Sequences, FiniteSets, SequencesExt, FiniteSetsExt

Null == "null"
Set(f) == f # <<>>

(***************************************************************************)
(* Enumerations.  collection[k] is the set of IDs that exist when page k is  *)
(* asked for; Jamf sorts by ID and answers with the total beside the page.   *)
(***************************************************************************)
Page(ids, k, size) ==
    LET sorted == SetToSortSeq(ids, <) IN
    SubSeq(sorted, k * size + 1, Min({(k + 1) * size, Len(sorted)}))
Incomplete == [state |-> "failed"]
\* Mutant: the total of the first page is the one that counts.
ListObjectsFirstTotal(collection, size) ==
    LET Read(r, k) ==
          LET batch == Page(collection[k], k - 1, size)
              objects == r.objects \o batch
              total == IF r.total < 0 THEN Cardinality(collection[k]) ELSE r.total
          IN IF r.state # "reading" THEN r
             ELSE IF Range(batch) \cap Range(r.objects) # {} THEN Incomplete
             ELSE IF Len(objects) = total THEN [state |-> "done", objects |-> objects, total |-> total]
             ELSE IF batch = <<>> \/ Len(objects) > total THEN Incomplete
             ELSE [state |-> "reading", objects |-> objects, total |-> total]
    IN FoldLeft(Read, [state |-> "reading", objects |-> <<>>, total |-> -1], [k \in DOMAIN collection |-> k])
ListObjects(collection, size) ==
    LET Read(r, k) ==
          LET batch == Page(collection[k], k - 1, size)
              objects == r.objects \o batch
              total == Cardinality(collection[k])
          IN IF r.state # "reading" THEN r
             ELSE IF r.total \notin {-1, total} \/ Range(batch) \cap Range(r.objects) # {} THEN Incomplete
             ELSE IF Len(objects) = total THEN [state |-> "done", objects |-> objects, total |-> total]
             ELSE IF batch = <<>> \/ Len(objects) > total THEN Incomplete
             ELSE [state |-> "reading", objects |-> objects, total |-> total]
    IN FoldLeft(Read, [state |-> "reading", objects |-> <<>>, total |-> -1], [k \in DOMAIN collection |-> k])

\* "a complete enumeration, which a name's uniqueness depends on" (names.go:123): an
\* enumeration that succeeds is the collection as it was at one moment, when objects
\* were only added or only removed meanwhile.
ListsAll(collection, size) ==
    LET last == Len(collection)
        grows == \A k \in 1..(last - 1) : collection[k] \subseteq collection[k + 1]
        shrinks == \A k \in 1..(last - 1) : collection[k + 1] \subseteq collection[k]
        r == ListObjects(collection, size)
    IN (grows \/ shrinks) /\ r.state = "done" =>
           \E k \in 1..last : Range(r.objects) = collection[k]

(***************************************************************************)
(* Names.  objects: a sequence of [id, name].                               *)
(***************************************************************************)
Ids(objects, name) == {o.id : o \in {p \in Range(objects) : p.name = name}}
Unique(objects, name) ==
    LET found == SelectSeq(objects, LAMBDA o : o.name = name) IN
    IF Len(found) = 1 THEN <<found[1].id>> ELSE <<>>
NoCategory == "-1"
\* The ID of a declared category, NoCategory for null; <<>> cannot be resolved.
Category(objects, declared) ==
    IF declared = <<Null>> THEN <<NoCategory>> ELSE Unique(objects, declared[1])
\* The IDs of a declared scope list: each name once.
ResolveScope(objects, names) ==
    IF \E n \in Range(names) : Unique(objects, n) = <<>> THEN <<>>
    ELSE <<{Unique(objects, n)[1] : n \in Range(names)}>>

(***************************************************************************)
(* Declarations.                                                           *)
(***************************************************************************)
Frequencies == {"once_per_computer", "ongoing"}
\* A number of days, or Off for null.
Off == -1
Days(d, distribution) ==
    /\ Set(d) /\ d # <<Off>> => d[1] >= 1
    /\ Set(d) => distribution = <<"self_service">>
PolicyValid(p) ==
    /\ p.name # "" /\ "" \notin Range(p.category)
    /\ Set(p.selfService) => "" \notin Range(p.selfService[1].displayName) \cup Range(p.selfService[1].category)
    /\ Set(p.triggers) => IsInjective(p.triggers[1])
    /\ Set(p.frequency) => p.frequency[1] \in Frequencies
    /\ Set(p.retries) => /\ p.retries[1] \in 0..10
                         /\ p.retries[1] > 0 => p.frequency = <<"once_per_computer">>
PatchValid(t) ==
    /\ t.title # "" /\ t.version # <<"">>
    /\ Set(t.policy) =>
        LET p == t.policy[1] IN
        /\ p.name # <<"">> /\ Range(p.distribution) \subseteq {"automatic", "self_service"}
        /\ Days(p.deadline, p.distribution) /\ Days(p.reminder, p.distribution)
MetadataValid(m) ==
    /\ "" \notin Range(m.category)
    /\ \A i \in DOMAIN m.policies : PolicyValid(m.policies[i])
    /\ IsInjective([i \in DOMAIN m.policies |-> m.policies[i].name])
    /\ Set(m.patch) => PatchValid(m.patch[1])

Or(declared, value) == IF Set(declared) THEN declared ELSE value
\* Mutant: the package's category replaces a policy's own.
DerivePolicyOver(request, m, p) == [p EXCEPT !.category = Or(m.category, @)]
DerivePolicy(request, m, p) ==
    LET named == IF request.application # "" THEN request.application ELSE request.software
        s == p.selfService[1]
    IN [p EXCEPT
          !.category = Or(@, m.category),
          !.selfService =
              IF @ = <<>> \/ ~s.enabled THEN @
              ELSE <<[s EXCEPT !.displayName = Or(@, IF named = "" THEN <<>> ELSE <<named>>),
                               !.category = Or(@, m.category)]>>]
DerivePatch(request, t) ==
    LET policy(p) ==
          [p EXCEPT !.name = Or(@, IF request.software = "" THEN <<>> ELSE <<request.software>>),
                    !.reminder = IF p.distribution = <<"self_service">> THEN Or(@, <<1>>) ELSE @]
    IN [t EXCEPT !.version = Or(@, IF request.version = "" THEN <<>> ELSE <<request.version>>),
                 !.policy = IF @ = <<>> THEN @ ELSE <<policy(@[1])>>]
DeriveMetadata(request, m) ==
    [m EXCEPT !.policies = [i \in DOMAIN @ |-> DerivePolicy(request, m, @[i])],
              !.patch = IF @ = <<>> THEN @ ELSE <<DerivePatch(request, @[1])>>]
\* A patch without a version is refused, except when validating without an artifact.
DeriveRefused(request, m) ==
    Set(m.patch) /\ ~Set(DerivePatch(request, m.patch[1]).version) /\ ~request.early

\* What a run derives is a declaration it would accept, deriving it again changes
\* nothing, declared values stay, and no setting reads a value that is missing.
Keeps(before, after) == Set(before) => after = before
DerivedSettles(request, m) ==
    LET d == DeriveMetadata(request, m) IN
    MetadataValid(m) /\ ~DeriveRefused(request, m) =>
        /\ MetadataValid(d) /\ DeriveMetadata(request, d) = d
        /\ \A i \in DOMAIN m.policies :
              LET p == m.policies[i]  q == d.policies[i] IN
              /\ Keeps(p.category, q.category)
              /\ Set(p.selfService) =>
                    /\ Keeps(p.selfService[1].displayName, q.selfService[1].displayName)
                    /\ q.selfService[1].enabled => Set(q.selfService[1].displayName)
        /\ Set(m.patch) /\ ~request.early => Set(d.patch[1].version)

(***************************************************************************)
(* The settings a declaration owns in a document.  A setting is compared by  *)
(* the values it wants and written by the values it sets; whole names the    *)
(* elements that a write replaces rather than merges into.                  *)
(***************************************************************************)
Plain(path, text) == [want |-> path :> text, write |-> path :> text, whole |-> {}]
List(path, items) == [want |-> path :> items, write |-> path :> items, whole |-> {path}]
Reference(path, id) ==
    [want |-> Append(path, "id") :> id, write |-> Append(path, "id") :> id, whole |-> {path}]
\* An icon is compared by its file name and written by its ID, which Jamf names again.
Icon(path, filename, id) ==
    [want |-> Append(path, "filename") :> filename, write |-> Append(path, "id") :> id, whole |-> {path}]
When(declared, s) == IF Set(declared) THEN {s} ELSE {}
Text(b) == IF b THEN "true" ELSE "false"

PolicySettings(p, package, icon) ==
    LET s == p.selfService[1] IN
    When(p.enabled, Plain(<<"general", "enabled">>, Text(p.enabled = <<TRUE>>)))
    \cup When(p.category, Reference(<<"general", "category">>, p.category[1]))
    \cup {List(<<"package_configuration", "packages">>, <<[id |-> package, action |-> "Install"]>>)}
    \cup When(p.selfService, Plain(<<"self_service", "use_for_self_service">>, Text(s.enabled)))
    \cup (IF p.selfService = <<>> \/ ~s.enabled THEN {}
          ELSE {Plain(<<"self_service", "self_service_display_name">>, s.displayName[1])}
               \cup When(s.category, List(<<"self_service", "self_service_categories">>,
                       IF s.category = <<NoCategory>> THEN <<>> ELSE <<[id |-> s.category[1], display_in |-> "true"]>>))
               \cup When(icon, Icon(<<"self_service", "self_service_icon">>, icon[1].filename, icon[1].id)))
    \cup When(p.scope, List(<<"scope", "computers">>, SetToSeq({[id |-> c] : c \in p.scope[1]})))

\* A policy's document as a GET returns it, with an element that nothing here owns.
Document(enabled, category, packages, icon, computers) ==
    (<<"general", "enabled">> :> enabled) @@ (<<"general", "notes">> :> "kept")
    @@ (<<"general", "category", "id">> :> category) @@ (<<"general", "category", "name">> :> "f" \o category)
    @@ (<<"package_configuration", "packages">> :> packages)
    @@ (<<"self_service", "self_service_icon", "id">> :> icon)
    @@ (<<"self_service", "self_service_icon", "filename">> :> "f" \o icon)
    @@ (<<"scope", "computers">> :> computers)

\* sameItems(): as many items, each desired one in an item of its own, taken in order.
Within(item, desired) == \A f \in DOMAIN desired : f \in DOMAIN item /\ item[f] = desired[f]
SameItems(items, desired) ==
    LET Take(used, d) ==
          LET free == {j \in DOMAIN items \ used.at : Within(items[j], d)} IN
          IF free = {} THEN [used EXCEPT !.all = FALSE] ELSE [used EXCEPT !.at = @ \cup {Min(free)}]
    IN /\ Len(items) = Len(desired)
       /\ FoldLeft(Take, [at |-> {}, all |-> TRUE], desired).all
IsList(path) == Last(path) \in {"packages", "self_service_categories", "computers"}
Holds(doc, s) ==
    \A p \in DOMAIN s.want :
        p \in DOMAIN doc /\ IF IsList(p) THEN SameItems(doc[p], s.want[p]) ELSE doc[p] = s.want[p]
Pending(doc, settings) == {s \in settings : ~Holds(doc, s)}
\* Mutant: a reference is merged into the one that is there.
MergeInto(doc, s) == s.write @@ doc
Merge(doc, s) ==
    s.write @@ [p \in {q \in DOMAIN doc : \A w \in s.whole : ~IsPrefix(w, q)} |-> doc[p]]
\* Jamf completes what it is given: a reference's name follows its ID.
Label(path) == IF Last(Front(path)) = "self_service_icon" THEN "filename" ELSE "name"
Stored(doc, nameOf) ==
    LET references == {q \in DOMAIN doc : Last(q) = "id"}
        labels == {Append(Front(q), Label(q)) : q \in references}
    IN doc @@ [p \in labels |-> nameOf[doc[Append(Front(p), "id")]]]
Update(doc, settings, nameOf) ==
    Stored(FoldSet(LAMBDA s, d : Merge(d, s), doc, Pending(doc, settings)), nameOf)

\* "update writes the settings a document lacks over its latest read and verifies every
\* setting by readback" (classic.go:162): the readback holds every setting, so the next
\* plan is empty; what no setting covers is as it was ("retains unowned Classic API
\* fields", classic.go:203).
UpdateSettles(doc, p, package, icon, nameOf) ==
    LET settings == PolicySettings(p, package, icon)
        after == Update(doc, settings, nameOf)
        covered(q) == \E s \in settings : \E w \in s.whole \cup DOMAIN s.want : IsPrefix(w, q)
    IN /\ Pending(after, settings) = {}
       /\ \A q \in DOMAIN doc : ~covered(q) => q \in DOMAIN after /\ after[q] = doc[q]
       /\ Pending(doc, settings) = {} => \A q \in DOMAIN doc : after[q] = doc[q]

(***************************************************************************)
(* Notes: lines of text, and a marker line for each identity.              *)
(***************************************************************************)
Marked(line) == line \notin {"", "text"}
TrimEnd(lines) ==
    LET filled == {i \in DOMAIN lines : lines[i] # ""} IN
    IF filled = {} THEN <<>> ELSE SubSeq(lines, 1, Max(filled))
Identities(notes) == {notes[i] : i \in {j \in DOMAIN notes : Marked(notes[j])}}
\* Mutant: trailing newlines stay.
UnmarkedLines(notes) == SelectSeq(notes, LAMBDA l : ~Marked(l))
Unmarked(notes) == TrimEnd(SelectSeq(notes, LAMBDA l : ~Marked(l)))
WithMarker(lines, identity) == Append(lines, identity)

\* "so marking it again reproduces the same notes" (marker.go:27): an administrator's text
\* is kept, one marker is left, and marking again changes nothing.
MarkingSettles(notes, identity) ==
    LET once == WithMarker(Unmarked(notes), identity) IN
    /\ WithMarker(Unmarked(once), identity) = once /\ Identities(once) = {identity}
    /\ SelectSeq(once, LAMBDA l : l = "text") = SelectSeq(notes, LAMBDA l : l = "text")
    /\ Unmarked(once) = <<>> \/ Last(Unmarked(once)) # ""
=============================================================================
