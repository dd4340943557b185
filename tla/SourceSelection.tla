-------------------------- MODULE SourceSelection --------------------------
(***************************************************************************)
(* How a resolver chooses one download among what a provider lists          *)
(* (internal/source): links of a page, releases and assets of GitHub,        *)
(* bottles and casks of Homebrew, installers of WinGet; how declared local   *)
(* paths resolve; and what a redirected request carries.                    *)
(*                                                                         *)
(* Abstractions.  A pattern is the set of names it matches.  A digest is a   *)
(* number, 0 when absent; so are names, versions and times that are only     *)
(* compared.  A path is the sequence of its segments.  What a resolver       *)
(* refuses is Refused.                                                     *)
(***************************************************************************)
EXTENDS Integers, Sequences, FiniteSets, SequencesExt, FiniteSetsExt

Refused == [ok |-> FALSE]
Chosen(x) == [ok |-> TRUE, it |-> x]

(***************************************************************************)
(* Links of a download page.  A version is a sequence of components, a        *)
(* component a sequence of digits.                                          *)
(***************************************************************************)
Sign(n) == IF n > 0 THEN 1 ELSE IF n < 0 THEN -1 ELSE 0
Trim(digits) ==
    LET from == {i \in DOMAIN digits : digits[i] # 0} IN
    IF from = {} THEN <<>> ELSE SubSeq(digits, Min(from), Len(digits))
\* Mutant: digits are compared as text.
CompareDigitsAsText(x, y) ==
    LET D == {i \in 1..Min({Len(x), Len(y)}) : x[i] # y[i]} IN
    IF D # {} THEN Sign(x[Min(D)] - y[Min(D)]) ELSE Sign(Len(x) - Len(y))
CompareDigits(x, y) ==
    LET l == Trim(x)  r == Trim(y)
        D == {i \in DOMAIN l : l[i] # r[i]}
    IN IF Len(l) # Len(r) THEN Sign(Len(l) - Len(r))
       ELSE IF D = {} THEN 0 ELSE Sign(l[Min(D)] - r[Min(D)])
Component(v, i) == IF i \in DOMAIN v THEN v[i] ELSE <<>>
CompareDotted(a, b) ==
    LET D == {i \in 1..Max({Len(a), Len(b)}) : CompareDigits(Component(a, i), Component(b, i)) # 0} IN
    IF D = {} THEN 0 ELSE CompareDigits(Component(a, Min(D)), Component(b, Min(D)))

\* found: the addresses and versions in the order of the page.  Of one address the
\* highest version counts; among addresses, walked in their order, the highest.
Captured(found, address) ==
    LET Higher(best, m) ==
            IF m.address = address /\ (best = <<>> \/ CompareDotted(m.version, best[1]) > 0) THEN <<m.version>> ELSE best
    IN FoldLeft(Higher, <<>>, found)[1]
DiscoverLink(found) ==
    LET addresses == SetToSortSeq({found[i].address : i \in DOMAIN found}, <)
        Better(selected, a) ==
            LET order == IF selected = <<>> THEN 1
                         ELSE CompareDotted(Captured(found, a), Captured(found, selected[1]))
            IN IF order > 0 THEN <<a>> ELSE IF order = 0 THEN Append(selected, a) ELSE selected
        selected == FoldLeft(Better, <<>>, addresses)
    IN IF Len(selected) = 1 THEN Chosen(selected[1]) ELSE Refused

\* "the highest version selects the URL" (discovery.go:25) as a number of any length
\* orders it; URLs that tie are refused.
Number(digits) == FoldLeft(LAMBDA n, d : 10 * n + d, 0, digits)
NotBelow(a, b) ==
    \A i \in 1..Max({Len(a), Len(b)}) :
        \/ Number(Component(a, i)) >= Number(Component(b, i))
        \/ \E j \in 1..(i - 1) : Number(Component(a, j)) > Number(Component(b, j))
LinkIsHighest(found) ==
    LET highest == {m \in Range(found) : \A n \in Range(found) : NotBelow(m.version, n.version)}
        addresses == {m.address : m \in highest}
    IN DiscoverLink(found) = IF Cardinality(addresses) = 1 THEN Chosen(CHOOSE a \in addresses : TRUE) ELSE Refused

(***************************************************************************)
(* GitHub.  A declaration has a release "tag", "latest" or "glob", the tags  *)
(* and assets that match, whether prereleases count, and a digest.          *)
(***************************************************************************)
Eligible(s, r) == ~r.draft /\ (~r.prerelease \/ s.prereleases) /\ (s.release = "glob" => r.tag \in s.tags)
\* Mutant: the last of those published together.
NewestByTime(newest, r) == IF newest = <<>> \/ r.published >= newest[1].published THEN <<r>> ELSE newest
Newest(newest, r) ==
    IF \/ newest = <<>>
       \/ r.published > newest[1].published
       \/ r.published = newest[1].published /\ r.id > newest[1].id
    THEN <<r>> ELSE newest
\* GitHub answers a tag and the latest release itself (latest: that answer); others
\* are chosen from all pages.
SelectRelease(s, releases, latest) ==
    LET listed == SelectSeq(releases, LAMBDA r : Eligible(s, r))
        tagged == SelectSeq(releases, LAMBDA r : r.tag \in s.tags)
    IN IF s.release = "tag" THEN IF tagged = <<>> THEN Refused ELSE Chosen(tagged[1])
       ELSE IF s.release = "latest" /\ ~s.prereleases THEN latest
       ELSE IF listed = <<>> \/ \E r \in Range(listed) : r.published = 0 THEN Refused
       ELSE Chosen(FoldLeft(Newest, <<>>, listed)[1])
GitHub(s, releases, latest) ==
    LET r == SelectRelease(s, releases, latest)
        matches == {a \in r.it.assets : a.name \in s.assets}
    IN IF ~r.ok THEN Refused
       ELSE IF r.it.draft \/ Cardinality(matches) # 1 THEN Refused
       ELSE LET a == CHOOSE a \in matches : TRUE IN
            Chosen([tag |-> r.it.tag, release |-> r.it.id, name |-> a.name, sha256 |-> a.sha256])
\* The digest a transfer must have, for an observation that the declaration still selects.
AcquireGitHub(s, observed) ==
    IF \/ s.release # "latest" /\ observed.tag \notin s.tags
       \/ observed.name \notin s.assets
       \/ s.sha256 # 0 /\ observed.sha256 # 0 /\ s.sha256 # observed.sha256
    THEN Refused ELSE Chosen(IF observed.sha256 # 0 THEN observed.sha256 ELSE s.sha256)
DiscoverGitHub(s, releases, latest) ==
    LET observed == GitHub(s, releases, latest) IN
    IF ~observed.ok THEN Refused
    ELSE IF ~AcquireGitHub(s, observed.it).ok THEN Refused ELSE observed

\* "select the newest published non-draft release" (github.go:25): whatever the order
\* of the pages; and what is discovered is a declared asset with the declared digest.
ReleaseIsNewest(s, releases, latest) ==
    LET found == DiscoverGitHub(s, releases, latest)  it == found.it
        published == {r \in Range(releases) : Eligible(s, r)}
        listed == s.release = "glob" \/ (s.prereleases /\ s.release # "tag")
    IN found.ok =>
        /\ listed => \E r \in published :
              /\ r.id = it.release
              /\ \A q \in published : q.published < r.published \/ (q.published = r.published /\ q.id <= r.id)
        /\ it.name \in s.assets /\ (s.sha256 # 0 => AcquireGitHub(s, it).it = s.sha256)

(***************************************************************************)
(* Homebrew.  macOS releases are numbers, newest first; a bottle's tag is a  *)
(* release and an architecture, or all of them.                             *)
(***************************************************************************)
All == [macos |-> 0, arch |-> "all"]
BrewTag(macos, arch) == [macos |-> macos, arch |-> arch]
\* Runtime requirements that a bottle alone cannot meet.
StandaloneBottle(doc, s) ==
    /\ doc.dependencies = {} /\ ~doc.postInstall /\ ~doc.pourOnlyIf
    /\ \A r \in doc.requirements :
          \/ r.contexts # {} /\ "run" \notin r.contexts
          \/ r.name = "macos" /\ r.minimum <= s.macos
          \/ r.name = "arch" /\ r.arch = s.arch
    /\ \A u \in doc.usesFromMacOS :
          \/ u.mapped /\ u.contexts \subseteq {"build", "test"}
          \/ u.since <= s.macos
\* Mutant: any bottle of the architecture will do.
BottleTagsAny(s, releases) ==
    [i \in DOMAIN releases |-> BrewTag(releases[i], s.arch)] \o <<All>>
BottleTags(s, releases) ==
    LET from == CHOOSE i \in DOMAIN releases : releases[i] = s.macos IN
    [i \in 1..(Len(releases) - from + 1) |-> BrewTag(releases[from + i - 1], s.arch)] \o <<All>>
Bottle(doc, s, releases) ==
    LET tags == BottleTags(s, releases)
        usable == {i \in DOMAIN tags : tags[i] \in DOMAIN doc.files}
    IN IF ~StandaloneBottle(doc, s) \/ usable = {} THEN Refused
       ELSE LET tag == tags[Min(usable)] IN
            IF ~doc.files[tag].relocatable \/ doc.files[tag].sha256 = 0 THEN Refused ELSE Chosen(tag)
\* A cask takes the declared language, or its default one.
Cask(doc, s) ==
    LET wanted(l) == IF s.language # "" THEN s.language \in l.languages ELSE l.default
        first == {i \in DOMAIN doc.languages : wanted(doc.languages[i])}
    IN IF BrewTag(s.macos, s.arch) \notin doc.platforms \/ (first = {} /\ s.language # "") THEN Refused
       ELSE Chosen(IF first = {} THEN doc.sha256 ELSE doc.languages[Min(first)].sha256)

\* "Older bottles run on newer macOS releases; never cross architecture or use a newer
\* bottle" (homebrew.go:263): and of those that run, the newest.
BottleRuns(doc, s, releases) ==
    LET found == Bottle(doc, s, releases)
        runs == {t \in DOMAIN doc.files : t = All \/ (t.arch = s.arch /\ t.macos <= s.macos)}
    IN found.ok => found.it \in runs /\ \A t \in runs : t.macos <= found.it.macos

(***************************************************************************)
(* WinGet.  The fields of a manifest and of one of its installers: a field   *)
(* is absent, Null, Empty or a value.                                       *)
(***************************************************************************)
Null == "null"
Empty == "empty"
Has(fields, key) == key \in DOMAIN fields /\ fields[key] # Null
Value(fields, key) == IF Has(fields, key) THEN fields[key] ELSE ""
Inherited(root, leaf, key) == IF Has(leaf, key) THEN leaf[key] ELSE Value(root, key)
Arp == {"exe", "msi"}
Packaged == {"msix"}
\* Mutant: the root's values are taken whatever the type.
InheritWingetAlways(root, leaf, key, allowed) == Inherited(root, leaf, key)
\* Fields that belong to some types: the leaf's, unless empty, else the root's if allowed.
InheritWinget(root, leaf, key, allowed) ==
    IF Has(leaf, key) /\ leaf[key] # Empty THEN leaf[key] ELSE IF allowed THEN Value(root, key) ELSE ""
EffectiveWingetInstaller(root, leaf) ==
    LET type == Inherited(root, leaf, "InstallerType")
        nested == InheritWinget(root, leaf, "NestedInstallerType", type = "zip")
        kind == IF type = "zip" THEN nested ELSE type
    IN [InstallerType |-> type, NestedInstallerType |-> nested,
        Architecture |-> Value(leaf, "Architecture"), Scope |-> Inherited(root, leaf, "Scope"),
        ProductCode |-> InheritWinget(root, leaf, "ProductCode", kind \in Arp),
        PackageFamilyName |-> InheritWinget(root, leaf, "PackageFamilyName", kind \in Packaged)]
WingetMatches(s, claims) ==
    /\ claims.Architecture = s.architecture
    /\ s.scope # "" => claims.Scope = s.scope
    /\ s.type # "" => claims.InstallerType = s.type
\* Installers are told apart by their place: two that claim the same are two.
SelectWinget(s, root, leaves) ==
    LET claims == [i \in DOMAIN leaves |-> EffectiveWingetInstaller(root, leaves[i])]
        matching == {i \in DOMAIN leaves : WingetMatches(s, claims[i])}
    IN IF Cardinality(matching) # 1 THEN Refused ELSE Chosen(CHOOSE i \in matching : TRUE)

\* "Follow ManifestYamlPopulator's declared inheritance only" (winget.go:291): an
\* installer claims an identity only when it declares one or its own kind has one,
\* so that no installer reports the product of another kind.
ClaimsOwnIdentity(root, leaf) ==
    LET c == EffectiveWingetInstaller(root, leaf)
        declares(key) == Has(leaf, key) /\ leaf[key] # Empty
        kind == IF c.InstallerType = "zip" THEN c.NestedInstallerType ELSE c.InstallerType
    IN /\ c.ProductCode # "" /\ ~declares("ProductCode") => kind \in Arp
       /\ c.PackageFamilyName # "" /\ ~declares("PackageFamilyName") => kind \in Packaged
       /\ c.NestedInstallerType # "" /\ ~declares("NestedInstallerType") => c.InstallerType = "zip"

(***************************************************************************)
(* Local paths, relative to the directory of the resource file.            *)
(***************************************************************************)
Up == ".."
Clean(p) ==
    FoldLeft(LAMBDA q, seg : IF seg = Up /\ q # <<>> /\ Last(q) # Up THEN Front(q) ELSE Append(q, seg), <<>>, p)
ResolvePath(base, name) == Clean(base \o name)
\* Mutant: the declared path alone is looked at.
ProjectPathDeclared(base, name) ==
    IF Up \in Range(Clean(name)) THEN Refused ELSE Chosen(ResolvePath(base, name))
ProjectPath(base, name) ==
    LET p == ResolvePath(base, name) IN IF Up \in Range(p) THEN Refused ELSE Chosen(p)
PathChanged(base, changed) ==
    \E c \in changed : base = <<>> \/ IsPrefix(base, c) \/ IsPrefix(c, base)

\* "local input base must stay inside the project" (local.go:57): a path is accepted
\* exactly when walking it never leaves the project; and a tree depends on every
\* change at, above or below its root.
Depth(p, n) == FoldLeft(LAMBDA d, seg : IF seg = Up THEN d - 1 ELSE d + 1, 0, SubSeq(p, 1, n))
InsideProject(base, name) ==
    LET p == base \o name IN ProjectPath(base, name).ok <=> \A n \in 1..Len(p) : Depth(p, n) >= 0

(***************************************************************************)
(* Redirects.  A hop is an address; a request carries headers of the         *)
(* declaration, some of them private to its origin.                         *)
(***************************************************************************)
SameOrigin(a, b) == a.scheme = b.scheme /\ a.host = b.host
\* Mutant: only the last hop is compared.
StrippedAfterLast(hops, n) == ~SameOrigin(hops[n], hops[n - 1])
\* Headers of the first request are copied to every hop before it is checked.
Stripped(hops, n) == \E i \in 1..(n - 1) : ~SameOrigin(hops[n], hops[i])
Blocked(hops, n, allowHTTP) ==
    \/ n > 10
    \/ hops[1].scheme = "https" /\ hops[n].scheme # "https" /\ ~allowHTTP
\* The private headers reach hop n, if the chain gets there.
Carried(hops, n) == n = 1 \/ ~Stripped(hops, n)

\* "Credentials and custom headers are confined to the source origin"
\* (http_source.go:21), also when a chain comes back to it.
Confined(hops) ==
    \A n \in DOMAIN hops : Carried(hops, n) => \A i \in 1..n : SameOrigin(hops[i], hops[1])
=============================================================================
