------------------------------- MODULE Trees -------------------------------
(***************************************************************************)
(* Trees of files: what extracting an archive writes (internal/archive), the *)
(* canonical form in which trees are stored and read again, what a disk image *)
(* gives up (internal/diskimage), and how a path is selected in any of them   *)
(* (internal/contents).                                                     *)
(*                                                                         *)
(* Abstractions.  A path is a sequence of segments and a segment a number: 0  *)
(* is "..", 2 is 1 in another case, 9 the AppleDouble sidecar of 3.  A tree   *)
(* maps paths to nodes; its root is <<>>.  Content and modes are one value.   *)
(* Size limits, normalization forms and names a host refuses are left out.    *)
(***************************************************************************)
EXTENDS Integers, Sequences, FiniteSets, SequencesExt

Up == 0
Sidecar == 9
Refused == [ok |-> FALSE]
Fold(path) == [i \in DOMAIN path |-> IF path[i] = 2 THEN 1 ELSE path[i]]
Ways(path) == {SubSeq(path, 1, i) : i \in 1..Len(path)}
Dir(content) == [kind |-> "dir", is |-> content, target |-> <<>>]
File(content) == [kind |-> "file", is |-> content, target |-> <<>>]
Link(target) == [kind |-> "link", is |-> 0, target |-> target]
\* path.Join(dir, target): where it leads when no component is a link; "outside" last.
Join(dir, target) ==
    FoldLeft(LAMBDA at, seg : IF at = <<Up>> \/ (seg = Up /\ at = <<>>) THEN <<Up>>
                              ELSE IF seg = Up THEN Front(at) ELSE Append(at, seg), dir, target)
\* checkLink(), and the same condition of write().
Confined(name, target) == target # <<>> /\ Join(Front(name), target) # <<Up>>

(***************************************************************************)
(* Extraction.  A member is [name, node, holds]: holds is what a sidecar or    *)
(* the PAX records of another member carry, "" for nothing, "signature" or     *)
(* another attribute.  Mode "plain" leaves metadata behind, "canonical" takes  *)
(* every file literally, "metadata" collects it.                            *)
(***************************************************************************)
IsSidecar(m) == Last(m.name) = Sidecar
Owner(name) == Append(Front(name), 3)
Empty == [ok |-> TRUE, tree |-> <<>>, spelling |-> <<>>, seen |-> {}, links |-> <<>>, attributes |-> {}]

\* parent(): the directories on the way, created when missing; a link among them
\* is followed, as os.Root does.
Into(acc, part) ==
    LET p == Append(acc.at, part)
        linked == Join(acc.at, acc.tree[p].target)
    IN  IF ~acc.ok THEN acc
        ELSE IF p \notin DOMAIN acc.tree THEN [acc EXCEPT !.at = p, !.tree = @ @@ (p :> Dir(0))]
        ELSE IF acc.tree[p].kind = "dir" THEN [acc EXCEPT !.at = p]
        ELSE IF acc.tree[p].kind = "link" /\ linked \in DOMAIN acc.tree /\ acc.tree[linked].kind = "dir"
        THEN [acc EXCEPT !.at = linked]
        ELSE [acc EXCEPT !.ok = FALSE]
Parent(tree, dir) == FoldLeft(Into, [ok |-> TRUE, at |-> <<>>, tree |-> tree], dir)

\* Mutant: a link is installed when it is read.
PlaceAtOnce(x, at, m) ==
    IF Append(at, Last(m.name)) \in DOMAIN x.tree THEN Refused
    ELSE [x EXCEPT !.tree = @ @@ (Append(at, Last(m.name)) :> m.node)]

\* Links wait for finish(); a file must not be there.
Place(x, at, m) ==
    IF m.node.kind = "link" THEN [x EXCEPT !.links = Append(@, m)]
    ELSE IF Append(at, Last(m.name)) \in DOMAIN x.tree THEN Refused
    ELSE [x EXCEPT !.tree = @ @@ (Append(at, Last(m.name)) :> m.node)]

\* write(): spelled as before, not seen before, and within the tree.
Write(x, m) ==
    LET folded == {Fold(p) : p \in Ways(m.name)}
        spelled == [f \in folded |-> CHOOSE p \in Ways(m.name) : Fold(p) = f]
        clash == \E f \in folded \cap DOMAIN x.spelling : x.spelling[f] # spelled[f]
        above == Parent(x.tree, IF m.node.kind = "dir" THEN m.name ELSE Front(m.name))
        known == [x EXCEPT !.spelling = spelled @@ @, !.seen = @ \cup {Fold(m.name)}, !.tree = above.tree]
    IN  IF clash \/ Fold(m.name) \in x.seen \/ ~above.ok THEN Refused
        ELSE IF m.node.kind = "dir" THEN [known EXCEPT !.tree[above.at] = m.node]
        ELSE IF m.node.kind = "link" /\ ~Confined(m.name, m.node.target) THEN Refused
        ELSE Place(known, above.at, m)

\* Mutant: a sidecar is dropped unread.
LosesSignatureNever(m) == ~IsSidecar(m) /\ m.holds = "signature"
\* sidecarSignature() and the PAX records: what extraction would discard.
LosesSignature(m) == m.holds = "signature"

Collected(x, m) == [x EXCEPT !.attributes = @ \cup {<<IF IsSidecar(m) THEN Owner(m.name) ELSE m.name, m.holds>>}]
Member(mode, x, m) ==
    IF ~x.ok THEN x
    ELSE IF mode = "metadata"
    THEN LET y == IF m.holds = "" THEN x ELSE Collected(x, m) IN
         IF IsSidecar(m) /\ m.holds # "" THEN y ELSE Write(y, m)
    ELSE IF LosesSignature(m) THEN Refused
    ELSE IF mode = "plain" /\ IsSidecar(m) THEN x ELSE Write(x, m)

\* finish(): a link is not put over anything; and Open(): every attribute has its owner.
Finish(x) ==
    LET Install(y, m) ==
            IF ~y.ok \/ m.name \in DOMAIN y.tree THEN Refused ELSE [y EXCEPT !.tree = @ @@ (m.name :> m.node)]
        done == IF x.ok THEN FoldLeft(Install, x, x.links) ELSE x
    IN  IF ~done.ok THEN Refused
        ELSE IF \E a \in done.attributes : a[1] \notin DOMAIN done.tree THEN Refused
        ELSE [ok |-> TRUE, tree |-> done.tree, attributes |-> done.attributes]
Extract(mode, members) == Finish(FoldLeft(LAMBDA x, m : Member(mode, x, m), Empty, members))

\* "so no earlier write can traverse an archive-owned link" (archive.go:425): what an
\* archive lists is where it says, nothing else but the directories above it is, and
\* the order of its members does not matter.
ExtractsWhatItLists(mode, members) ==
    LET x == Extract(mode, members)
        taken == {i \in DOMAIN members : mode = "canonical" \/ ~IsSidecar(members[i]) \/ (mode = "metadata" /\ members[i].holds = "")}
        named == {members[i].name : i \in taken}
        swapped == IF Len(members) < 2 THEN members ELSE <<members[2], members[1]>> \o SubSeq(members, 3, Len(members))
    IN  /\ Extract(mode, swapped) = x /\ Extract(mode, Tail(members) \o SubSeq(members, 1, 1)) = x
        /\ x.ok =>
            /\ \A i \in taken : members[i].name \in DOMAIN x.tree /\ x.tree[members[i].name] = members[i].node
            /\ \A p \in DOMAIN x.tree \ named : x.tree[p] = Dir(0) /\ \E n \in named : IsStrictPrefix(p, n)

\* "keeps its code signature in extended attributes, which extraction would discard"
\* (archive.go:128): an extraction that succeeds has not lost one.
SignaturesKept(mode, members) ==
    LET x == Extract(mode, members) IN
    x.ok => \A i \in DOMAIN members :
        members[i].holds = "signature" => mode = "metadata" /\ \E a \in x.attributes : a[2] = "signature"

(***************************************************************************)
(* Leaves.  A leaf is a literal directory and the names its pattern matches.  *)
(* <<>> keeps everything.                                                   *)
(***************************************************************************)
Keeps(leaves, name) == leaves = {} \/ \E l \in leaves : l.dir = Front(name) /\ Last(name) \in l.names
\* Mutant: only a leaf's own directory leads to it.
LeadsParent(leaves, dir) == leaves = {} \/ dir = <<>> \/ \E l \in leaves : l.dir = dir
Leads(leaves, dir) == leaves = {} \/ dir = <<>> \/ \E l \in leaves : IsPrefix(dir, l.dir)

\* extract() of a disk image: the selection, less what its leaves leave out, unless
\* two names differ in case alone or a link leaves the selection.
Taken(volume, selection, leaves) ==
    LET relative(p) == SubSeq(p, Len(selection) + 1, Len(p))
        visited(p) == p = selection \/ IF volume[p].kind = "dir" THEN Leads(leaves, relative(p)) ELSE Keeps(leaves, relative(p))
        within(p) == \A q \in Ways(p) : IsPrefix(selection, q) => visited(q)
    IN  {p \in DOMAIN volume : IsPrefix(selection, p) /\ within(p)}
ExtractImage(volume, selection, leaves) ==
    LET taken == Taken(volume, selection, leaves) IN
    IF \/ selection \notin DOMAIN volume \/ \E q \in Ways(selection) : volume[q].kind # "dir"
       \/ \E p, q \in taken : p # q /\ Fold(p) = Fold(q)
       \/ \E p \in taken : volume[p].kind = "link" /\ ~IsPrefix(selection, Join(Front(p), volume[p].target))
    THEN Refused
    ELSE [ok |-> TRUE, tree |-> [p \in taken |-> volume[p]]]

\* "keep names the files of a selected app to write ... only directories leading to a
\* kept file are listed" (extract.go:33): every kept file of the selection is written,
\* wherever the whole could have been, and every directory above it.
KeptAreWritten(volume, selection, leaves) ==
    LET all == ExtractImage(volume, selection, {})
        some == ExtractImage(volume, selection, leaves)
        kept == {p \in DOMAIN all.tree : volume[p].kind # "dir" /\ Keeps(leaves, SubSeq(p, Len(selection) + 1, Len(p)))}
    IN  all.ok =>
            /\ some.ok
            /\ {p \in DOMAIN some.tree : volume[p].kind # "dir"} = kept
            /\ \A p \in kept : \A q \in Ways(p) : IsPrefix(selection, q) => q \in DOMAIN some.tree

(***************************************************************************)
(* The canonical form.                                                     *)
(***************************************************************************)
RECURSIVE Before(_, _)
Before(p, q) ==
    IF p = <<>> \/ q = <<>> THEN p = <<>> /\ q # <<>>
    ELSE p[1] < q[1] \/ (p[1] = q[1] /\ Before(Tail(p), Tail(q)))
\* Mutant: the directories above what is chosen are left out.
ChosenOnly(tree, names) == IF names = {} THEN DOMAIN tree ELSE names
\* PackSelected(): the chosen names with the directories above them, {} standing for
\* all, in the order of a walk.  One that is missing or below a link is refused.
Chosen(tree, names) == IF names = {} THEN DOMAIN tree ELSE UNION {Ways(n) : n \in names}
Pack(tree, names) ==
    LET chosen == Chosen(tree, names)
        order == SetToSortSeq(chosen, Before)
    IN  IF \/ ~(chosen \subseteq DOMAIN tree)
           \/ \E n \in names : \E q \in Ways(n) \ {n} : tree[q].kind # "dir"
           \/ \E p \in chosen : tree[p].kind = "link" /\ ~Confined(p, tree[p].target)
        THEN Refused
        ELSE [ok |-> TRUE, entries |-> [i \in DOMAIN order |-> [name |-> order[i], node |-> tree[order[i]]]]]

\* IndexTar(): names that differ, each after its directory.
IndexTar(entries) ==
    LET Add(x, e) ==
            IF \/ ~x.ok
               \/ \E p \in DOMAIN x.tree : Fold(p) = Fold(e.name)
               \/ Len(e.name) > 1 /\ (Front(e.name) \notin DOMAIN x.tree \/ x.tree[Front(e.name)].kind # "dir")
               \/ e.node.kind = "link" /\ ~Confined(e.name, e.node.target)
            THEN Refused ELSE [x EXCEPT !.tree = @ @@ (e.name :> e.node)]
    IN  FoldLeft(Add, [ok |-> TRUE, tree |-> <<>>], entries)

\* Pack writes "a canonical TAR tree" (tree.go:18) that IndexTar takes "borrow[ed]" and
\* ExtractTar materializes: unless names differ in case alone, either gives back what
\* was packed, whatever was chosen.
RoundTrips(tree, names) ==
    LET packed == Pack(tree, names)
        chosen == IF names = {} THEN DOMAIN tree ELSE UNION {Ways(n) : n \in names}
        same == [p \in chosen |-> tree[p]]
        unfolded == \A p, q \in chosen : Fold(p) = Fold(q) => p = q
        extracted == Extract("canonical", [i \in DOMAIN packed.entries |-> [holds |-> ""] @@ packed.entries[i]])
    IN  packed.ok => /\ IndexTar(packed.entries).ok <=> unfolded
                     /\ unfolded => IndexTar(packed.entries).tree = same /\ extracted.tree = same

(***************************************************************************)
(* Paths.                                                                  *)
(***************************************************************************)
KindAt(tree, p) == IF p = <<>> THEN "dir" ELSE tree[p].kind
\* lookup(): pending components, those of a link's target before the rest.
RECURSIVE Follow(_, _, _, _, _, _)
Follow(tree, root, current, pending, follow, links) ==
    IF pending = <<>> THEN [ok |-> TRUE, at |-> current]
    ELSE IF KindAt(tree, current) # "dir" \/ links < 0 THEN Refused
    ELSE IF Head(pending) = Up
    THEN IF current = root THEN Refused ELSE Follow(tree, root, Front(current), Tail(pending), follow, links)
    ELSE LET next == Append(current, Head(pending)) IN
         IF next \notin DOMAIN tree THEN Refused
         ELSE IF tree[next].kind = "link" /\ (follow \/ Len(pending) > 1)
         THEN Follow(tree, root, current, tree[next].target \o Tail(pending), follow, links - 1)
         ELSE Follow(tree, root, next, Tail(pending), follow, links)
\* Mutant: a path is cleaned before its links are resolved.
LookupCleaned(tree, root, name, follow, limit) ==
    LET cleaned == Join(<<>>, name) IN IF cleaned = <<Up>> THEN Refused ELSE Follow(tree, root, root, cleaned, follow, limit)
Lookup(tree, root, name, follow, limit) == Follow(tree, root, root, name, follow, limit)

\* Where a host's file system finds a name: component by component, a link being what
\* its target is from its directory; <<Up>> when there is nothing or no end.
RECURSIVE Host(_, _, _, _)
Host(tree, dir, name, fuel) ==
    IF name = <<>> THEN dir
    ELSE IF dir = <<Up>> \/ fuel = 0 THEN <<Up>>
    ELSE IF KindAt(tree, dir) # "dir" THEN <<Up>>
    ELSE LET p == Append(dir, Head(name))
             here == IF Head(name) = Up THEN IF dir = <<>> THEN <<Up>> ELSE Front(dir)
                     ELSE IF p \notin DOMAIN tree THEN <<Up>>
                     ELSE IF tree[p].kind = "link" THEN Host(tree, dir, tree[p].target, fuel - 1)
                     ELSE p
         IN  Host(tree, here, Tail(name), fuel)
\* "an earlier component can itself be a link to a different directory depth"
\* (tarfs.go:165): a stored tree answers as its materialized copy would, and a view of
\* a directory in it never answers with what is outside.
LooksUpAsHost(tree, root, name) ==
    LET found == Lookup(tree, <<>>, name, TRUE, 8)
        inside == Lookup(tree, root, name, TRUE, 8)
    IN  /\ IF found.ok THEN Host(tree, <<>>, name, 9) = found.at ELSE Host(tree, <<>>, name, 9) = <<Up>>
        /\ inside.ok => IsPrefix(root, inside.at)

\* Mutant: a path that leads somewhere will do.
StatNodeAt(tree, path) == Host(tree, <<>>, path, 9) # <<Up>>
\* Node.Stat() and At(): a selection passes through directories only, below the
\* resolver's root when there is one.
StatNode(tree, path) == path \in DOMAIN tree /\ \A q \in Ways(path) \ {path} : tree[q].kind = "dir"
SelectAt(tree, contentRoot, name) ==
    LET path == contentRoot \o name IN
    IF Up \in Range(path) THEN Refused
    ELSE IF contentRoot # <<>> /\ ~(StatNode(tree, contentRoot) /\ tree[contentRoot].kind = "dir") THEN Refused
    ELSE IF path # <<>> /\ ~StatNode(tree, path) THEN Refused
    ELSE [ok |-> TRUE, at |-> path]
\* "A resolver-selected root scopes every selection" (contents.go:118): what a name
\* selects is what the host finds there without following anything, below the root.
SelectsInside(tree, contentRoot, name) ==
    LET selected == SelectAt(tree, contentRoot, name) IN
    selected.ok =>
        /\ IsPrefix(contentRoot, selected.at)
        /\ selected.at = <<>> \/ Host(tree, <<>>, Front(selected.at), 9) = Front(selected.at)
=============================================================================
