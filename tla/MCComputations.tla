--------------------------- MODULE MCComputations ---------------------------
(***************************************************************************)
(* Preparation, the reading of edited trees, the store of plugins and saves of  *)
(* a lock, each over a small instance, and the pure computations over bounded inputs.  The *)
(* initial state chooses a part, and for the computations one question, which *)
(* no step changes; the variables of the other parts stay as they are.        *)
(***************************************************************************)
EXTENDS MCPreparation, Integers, Sequences, FiniteSets, TLC

Sel == INSTANCE SourceSelection
Jamf == INSTANCE JamfMetadata
Intune == INSTANCE IntuneMetadata
Rel == INSTANCE IntuneRelations
Cat == INSTANCE Catalog
Tree == INSTANCE Trees
Ops == INSTANCE Operations
Mac == INSTANCE MacPackages
Soft == INSTANCE MacSoftware
Win == INSTANCE WindowsSoftware
MunkiItem == INSTANCE MunkiItems

VARIABLES
    part, ask,
    \* TreeReads
    top, entry, dirs, files, readPc, seen, handle, open, read, named, edits,
    \* Plugins
    registry, tag, pub, choice, local, locked, fetched, installs, jobs, edited, started, failures,
    tampered, onDisk, loaded,
    \* LockDocuments
    folds, docs, folders, hidden, goal, previous, saving, stale, climbing, todo, left, ended, saves, cuts
vReads == <<top, entry, dirs, files, readPc, seen, handle, open, read, named, edits>>
vPlugins == <<registry, tag, pub, choice, local, locked, fetched, installs, jobs, edited, started, failures,
    tampered, onDisk, loaded>>
vSaves == <<folds, docs, folders, hidden, goal, previous, saving, stale, climbing, todo, left, ended, saves, cuts>>
allVars == <<part, ask, vReads, vPlugins, vSaves, vars>>

\* Reads: every system call of one read against the edits of another program.
Reads == INSTANCE TreeReads WITH pc <- readPc, MaxEdits <- 3
NoReads ==
    /\ top = 0 /\ entry = 0 /\ dirs = 0 /\ files = 0 /\ readPc = 0 /\ seen = 0 /\ handle = 0 /\ open = 0
    /\ read = 0 /\ named = 0 /\ edits = 0

\* Plugins: two releases of an image under one tag, and a local directory.
Images == INSTANCE Plugins WITH files <- local, entry <- locked, cache <- fetched, declared <- choice, edits <- edited, faults <- failures,
    Release <- {1, 2}, Runnable <- {1, 2}, Declarations <- {<<"tag", "a">>, <<"tag", "b">>, <<"digest", 1>>},
    Job <- {1}, Offline <- BOOLEAN, MaxEdits <- 1, MaxJobs <- 2, MaxFaults <- 1
Local == INSTANCE Plugins WITH files <- local, entry <- locked, cache <- fetched, declared <- choice, edits <- edited, faults <- failures,
    Release <- {1}, Runnable <- {}, Declarations <- {<<"path">>, <<>>},
    Job <- {1, 2}, Offline <- {FALSE}, MaxEdits <- 2, MaxJobs <- 2, MaxFaults <- 1
ASSUME Images!ConstantsAssumption /\ Local!ConstantsAssumption
NoPlugins ==
    /\ registry = 0 /\ tag = 0 /\ pub = 0 /\ choice = 0 /\ local = 0 /\ locked = 0 /\ fetched = 0 /\ installs = 0
    /\ jobs = 0 /\ edited = 0 /\ started = 0 /\ failures = 0 /\ tampered = 0 /\ onDisk = 0 /\ loaded = 0

\* Saves: resources in the same place but for case, and where another has a directory.
Builtin(kind, name) == <<<<"stemma", 0>>, <<"v1alpha1", 0>>, <<kind, 0>>, <<name, 0>>>>
Below == <<<<"k", 0>>, <<"n", 1>>, <<"t", 0>>, <<"n", 0>>>>
Locking(S, with) == [r \in S \cup with |-> IF r \in with THEN 2 ELSE 1]
Saves == INSTANCE LockDocuments WITH dirs <- folders, base <- previous, whole <- ended, faults <- cuts,
    Locks <- {Locking(S, {}) : S \in {{}, {Builtin("k", "n")}, {Builtin("K", "n")}, {Builtin("k", "n"), Builtin("K", "n")},
                {Builtin("K", "t"), Builtin("K", "n")}, {Below}, {Below, <<>>}, {Builtin("K", "n"), <<>>}, {Builtin("k", "n"), Below}}}
             \cup {Locking({Builtin("k", "n")}, {<<>>})},
    Lower <- [s \in {"stemma", "v1alpha1", "k", "K", "n", "t", "plugins"} |-> IF s = "K" THEN "k" ELSE s],
    MaxSaves <- 3, MaxFaults <- 1
ASSUME Saves!ConstantsAssumption
NoSaves ==
    /\ folds = 0 /\ docs = 0 /\ folders = 0 /\ hidden = 0 /\ goal = 0 /\ previous = 0 /\ saving = 0 /\ stale = 0 /\ climbing = 0
    /\ todo = 0 /\ left = 0 /\ ended = 0 /\ saves = 0 /\ cuts = 0

Seqs(S, n) == UNION {[1..k -> S] : k \in 0..n}
Opt(S) == {<<>>} \cup {<<v>> : v \in S}
\* The functions that leave fields out.
Partial(S) == {[k \in {j \in DOMAIN f : f[j] # "absent"} |-> f[k]] : f \in S}

(***************************************************************************)
(* The choice of sources.                                                  *)
(***************************************************************************)
Versions == {<<>>, <<<<1>>>>, <<<<0, 1>>>>, <<<<2>>>>, <<<<1, 0>>>>, <<<<1>>, <<2>>>>, <<<<1>>, <<1, 0>>>>}
AskLinks == \E found \in Seqs([address : 1..2, version : Versions], 3) : found # <<>> /\ ask = <<"links", found>>

Asset(n, d) == [name |-> n, sha256 |-> d]
Assets == {{}, {Asset("a", 0)}, {Asset("a", 1)}, {Asset("a", 1), Asset("b", 0)}, {Asset("a", 0), Asset("c", 0)}}
Release(id, times, assets) ==
    [id : {id}, tag : {"t", "u"}, draft : BOOLEAN, prerelease : BOOLEAN, published : times, assets : assets]
Selector == [release : {"tag", "latest", "glob"}, tags : {{"t"}}, assets : {{"a", "c"}}, prereleases : BOOLEAN, sha256 : 0..2]
AskReleases ==
    \E s \in Selector, one \in Release(1, {1}, {{Asset("a", 1)}}), two \in Release(2, 0..2, Assets), swap \in BOOLEAN :
        ask = <<"releases", s, IF swap THEN <<two, one>> ELSE <<one, two>>, Sel!Chosen(two)>>

Bottles == {[macos |-> 0, arch |-> "all"]} \cup [macos : 13..15, arch : {"arm", "intel"}]
AskBottles ==
    \E tags \in SUBSET Bottles, m \in 13..15, needs \in {13, 15}, r \in BOOLEAN :
        ask = <<"bottles",
                [dependencies |-> {}, postInstall |-> FALSE, pourOnlyIf |-> FALSE, usesFromMacOS |-> {},
                 requirements |-> {[name |-> "macos", contexts |-> {"run"}, minimum |-> needs, arch |-> ""]},
                 files |-> [t \in tags |-> [relocatable |-> r, sha256 |-> 1]]],
                [macos |-> m, arch |-> "arm"], <<15, 14, 13>>>>

Root == Partial([InstallerType : {"absent", "zip", "exe", "msix"}, NestedInstallerType : {"absent", "exe", "msix"},
                 ProductCode : {"absent", "P"}, PackageFamilyName : {"absent", "F"}])
Leaf == Partial([InstallerType : {"absent", "zip", "msi", "msix", "null"}, NestedInstallerType : {"absent", "exe", "empty"},
                 ProductCode : {"absent", "Q", "null", "empty"}, PackageFamilyName : {"absent", "G", "empty"}])
AskInstallers == \E root \in Root, leaf \in Leaf : ask = <<"installers", root, leaf>>

AskPaths == \E base \in Seqs({"a", "b"}, 2), name \in Seqs({"a", ".."}, 5) : ask = <<"paths", base, name>>
AskHops == \E hops \in Seqs([scheme : {"https", "http"}, host : 1..2], 4) : ask = <<"hops", hops>>

(***************************************************************************)
(* Jamf.                                                                   *)
(***************************************************************************)
AskLists == \E collection \in [1..3 -> SUBSET (1..4)], size \in 1..2 : ask = <<"lists", collection, size>>

Categories == {<<>>, <<"null">>, <<"c">>}
SelfService == {[enabled |-> FALSE, displayName |-> <<>>, category |-> <<>>]}
    \cup [enabled : {TRUE}, displayName : {<<>>, <<"d">>, <<"">>}, category : {<<>>, <<"s">>}]
Policies == [name : {"p", ""}, category : {<<>>, <<"null">>, <<"q">>}, selfService : Opt(SelfService),
             triggers : {<<>>, <<<<"login", "login">>>>}, frequency : {<<>>, <<"once_per_computer">>}, retries : {<<>>, <<1>>, <<11>>}]
PatchPolicy == [name : {<<>>, <<"n">>}, distribution : {<<>>, <<"automatic">>, <<"self_service">>},
                deadline : {<<>>, <<2>>}, reminder : {<<>>, <<0>>, <<-1>>, <<3>>}]
Patches == [title : {"t"}, version : {<<>>, <<"1">>}, policy : Opt(PatchPolicy)]
Requests == [application : {"", "app"}, software : {"soft"}, version : {"", "2"}, early : BOOLEAN]
AskDerive ==
    \E r \in Requests, c \in Categories :
        \/ \E p \in Policies : ask = <<"derive", r, [category |-> c, policies |-> <<p>>, patch |-> <<>>]>>
        \/ \E t \in Patches : ask = <<"derive", r, [category |-> c, policies |-> <<>>, patch |-> <<t>>]>>

Item(id) == [id |-> id, action |-> "Install", name |-> "f" \o id]
Documents ==
    {Jamf!Document(e, c, pk, i, sc) : e \in {"true", "false"}, c \in {"1", "2"},
        pk \in {<<>>, <<Item("1")>>, <<Item("2")>>, <<Item("2"), Item("1")>>}, i \in {"1", "2"}, sc \in {<<>>, <<[id |-> "7", name |-> "x"]>>}}
AskUpdate == \E e \in Opt(BOOLEAN), c \in {<<>>, <<"-1">>, <<"2">>}, on \in BOOLEAN, sc \in {<<>>, <<{}>>, <<{"7"}>>, <<{"7", "8"}>>},
                doc \in Documents, i \in {<<>>, <<[filename |-> "f2", id |-> "2"]>>} :
        ask = <<"update", doc, [enabled |-> e, category |-> c, scope |-> sc,
                                selfService |-> <<[enabled |-> on, displayName |-> <<"d">>, category |-> c]>>], i>>
AskNotes == \E notes \in Seqs({"", "text", "me", "you"}, 4) : ask = <<"notes", notes>>

(***************************************************************************)
(* Intune.                                                                 *)
(***************************************************************************)
Object(S) == {Intune!Obj([k \in DOMAIN f |-> Intune!Val(f[k])]) : f \in Partial(S)}
One(k, S) == {Intune!Obj([j \in {k} |-> v]) : v \in S} \cup {Intune!Obj(<<>>)}
\* An app holds one release; the portal never sets two.
Flags == {Intune!Obj([k \in D |-> Intune!Val(k = on)]) : D \in SUBSET {"v13", "v14"}, on \in {"v13", "v14"}}
Choice == {Intune!Obj([k \in {r} |-> Intune!Val(TRUE)]) : r \in {"v13", "v14"}}
Items(S, n) == {Intune!Lst(l) : l \in Seqs(Object(S), n)}
AskPatch ==
    \/ \E c \in One("minimumOS", Flags), d \in One("minimumOS", Choice) : ask = <<"patch", c, d>>
    \/ \E c \in One("msi", Object([code : {"absent", "a", "b"}, kind : {"absent", "x"}])),
          d \in One("msi", Object([code : {"absent", "a"}, name : {"absent", "n"}])) : ask = <<"patch", c, d>>
    \/ \E c \in One("rules", Items([key : {"k", "l"}, value : {"absent", "v", "w"}, extra : {"x"}], 2)),
          d \in One("rules", Items([key : {"k", "l"}, value : {"absent", "v"}], 2)) : ask = <<"patch", c, d>>
DeclaredInstaller ==
    {Intune!Obj([k \in D |-> IF k = "msi" THEN m ELSE Intune!Val("own")]) :
        D \in SUBSET {"msi", "install_command", "uninstall_command", "detection", "notes"},
        m \in {Intune!Nil} \cup Object([product_code : {"absent", "P"}, upgrade_code : {"absent", "U"}])}
AskInstaller ==
    \E d \in DeclaredInstaller, m \in [code : {"", "c"}, version : {"", "1"}, upgrade : {"", "u"}] : ask = <<"installer", d, m>>
AskEarly ==
    \E kind \in {"WindowsSoftware", "MacSoftware", "Other"}, type \in {"", "win32", "pkg", "dmg", "lob"}, format \in {"pkg", "dmg", "zip"},
      fields \in SUBSET {"common", "command", "msi_properties", "relations", "notifications", "included_apps", "package", "scripts", "managed"} :
        ask = <<"early", kind, type, fields, format>>
AskMinimum == \E v \in Seqs({0, 1, 2, 10, 11, 14, 27}, 3) : v # <<>> /\ v[1] # 0 /\ ask = <<"minimum", v>>
Subject == [kind : {"app"}, id : {"a", "b"}, version : {"", "1"}, place : {"/Applications", "/opt"}, nested : BOOLEAN, payload : {FALSE}]
    \cup [kind : {"package"}, id : {"a", "r"}, version : {"1"}, place : {""}, nested : {FALSE}, payload : BOOLEAN]
App(i) == [id |-> i, version |-> "1"]
AskMac ==
    \E subjects \in Seqs(Subject, 2), more \in Opt({[kind |-> "package", id |-> "p", version |-> "1", place |-> "", nested |-> FALSE, payload |-> TRUE]}),
      pick \in BOOLEAN, type \in {"pkg", "dmg", "lob"}, signed \in BOOLEAN, managed \in BOOLEAN,
      declared \in {<<>>, <<App("a")>>, <<App("r"), App("z")>>} :
        /\ pick => subjects # <<>> /\ subjects[1].kind = "app"
        /\ ask = <<"mac", type, [subjects |-> subjects \o more, selected |-> IF pick THEN <<subjects[1]>> ELSE <<>>,
                                signed |-> signed, managed |-> managed], declared>>
Rule == [type : {"property"}, property : {"exists", "version", "string", "size"}, operator : {"", "ge"}, value : {<<>>, <<"">>, <<"v">>}]
    \cup [type : {"msi", "script"}, property : {""}, operator : {""}, value : {<<>>}]
AskRules == \E rules \in Seqs(Rule, 2), version \in {"", "1.2", "other"} : ask = <<"rules", rules, version>>

Edges == [parent : 1..3, child : 1..3, category : {"dependencies", "supersedes"}, install : {FALSE}]
Straight == {e \in Edges : e.parent # e.child}
Refs == [target : 1..3, category : {"dependencies", "supersedes"}, install : BOOLEAN]
AskRelations ==
    \E edges \in {E \in SUBSET Straight : Cardinality(E) <= 3}, refs \in Seqs(Refs, 2), more \in SUBSET {"dependencies", "supersedes"} :
        ask = <<"relations", edges, refs, more \cup {refs[i].category : i \in DOMAIN refs}>>
Assignment == [intent : {"required"}, target : {"all", "group", "excluded"}, filter : {<<>>, <<"none">>, <<"f">>}, notify : {<<>>}]
    \cup [intent : {"required"}, target : {"all", "group", "excluded"}, filter : {<<>>}, notify : {<<"hide">>}]
AskAssignments == \E c, d \in Seqs(Assignment, 2) : ask = <<"assignments", c, d>>
AskCategories ==
    \E names \in Seqs({"a", "b", "c"}, 3), held \in SUBSET (1..3), declared \in Seqs({"a", "b", "d"}, 2), n \in 0..5 :
        /\ held \subseteq DOMAIN names
        /\ \A i, j \in DOMAIN names : names[i] = names[j] => i = j
        /\ \A i, j \in DOMAIN declared : declared[i] = declared[j] => i = j
        /\ ask = <<"categories", names, held, declared, n>>

(***************************************************************************)
(* Catalogs of three resources.                                            *)
(***************************************************************************)
Declaration(inputs, suspend, profiles, config, peers, needs) ==
    [suspend |-> suspend, profiles |-> profiles, config |-> config, inputs |-> inputs, reviewed |-> 0, files |-> {},
     peers |-> peers, needs |-> needs]
Consumes(S) == {<<>>} \cup [{"a"} -> S] \cup [{"a", "b"} -> S]
AskClosure ==
    \E one, two \in Consumes(1..3), three \in Consumes({1, 4}), suspended \in SUBSET (1..3), roots \in {<<1>>, <<2, 1>>} :
        ask = <<"closure", [k \in 1..3 |-> Declaration(<<one, two, three>>[k], k \in suspended, {}, 0, {}, {})], roots>>
AskOwners ==
    \E one, two \in Consumes(2..4) \cup [{"b"} -> 2..4], three \in Consumes({4}) \cup [{"b"} -> {4}], four \in Consumes({5}) :
        ask = <<"owners", [k \in 1..5 |-> Declaration(IF k = 5 THEN <<>> ELSE IF k = 2 /\ \E n \in DOMAIN two : two[n] = 2 THEN <<>> ELSE <<one, two, three, four>>[k], FALSE, {}, 0, {}, {})]>>
Known(k, inputs, profiles, config) == [Declaration(inputs, FALSE, profiles, config, {}, {}) EXCEPT !.files = {k}]
AskChanged ==
    \E one \in {<<>>, [a |-> 2], [a |-> 2, b |-> 3]}, two \in {<<>>, [a |-> 3]}, plain \in BOOLEAN, now, then \in SUBSET {"p"},
      configs \in [2..3 -> 0..1], there \in {{2, 3}, {1, 3}, {1, 2, 3}}, asleep \in {{}, {2}, {2, 3}}, changed \in {{}, {1}, {3}}, profiles \in SUBSET {"p"} :
        LET inputs == <<one, two, <<>>>>
            base == [k \in there |-> [Known(k, IF plain /\ k = 1 THEN <<>> ELSE inputs[k], IF k = 2 THEN then ELSE {}, IF k = 1 THEN 0 ELSE configs[k])
                                        EXCEPT !.suspend = k \in asleep]]
        IN  /\ \A k \in there : \A n \in DOMAIN base[k].inputs : base[k].inputs[n] \in there
            /\ ask = <<"changed", [k \in 1..3 |-> Known(k, inputs[k], IF k < 3 THEN now ELSE {}, 0)], base,
                       [k \in 1..3 |-> IF k \in changed THEN 1 ELSE 0], profiles>>
AskPublications ==
    \E peers \in [1..3 -> SUBSET (1..3)], needs \in {n \in [1..3 -> {{}, {"env"}, {"facts"}}] : n[3] # {"env"}}, selected \in {{1}, {1, 2}, {1, 2, 3}}, environment \in BOOLEAN :
        ask = <<"publications", [k \in 1..3 |-> Declaration(<<>>, FALSE, {}, 0, peers[k], needs[k])], selected, environment>>
Setting(x) == [leaf |-> x]
Settings == {[leaf |-> "", fields |-> [user |-> Setting(u), secret |-> Setting(x), group |-> [leaf |-> "", fields |-> [key |-> Setting(y)]]]] :
                u \in {"u", "v"}, x \in {"s", "t"}, y \in {"k", "l"}}
Secret == [Cat!NoSchema EXCEPT !.writeOnly = TRUE]
Either(s) == [Cat!NoSchema EXCEPT !.branches = {s}]
SchemaOf(field, whole) ==
    [Cat!NoSchema EXCEPT !.properties = [user |-> Cat!NoSchema, secret |-> field], !.rest = IF whole THEN {Secret} ELSE {}]
AskConnections ==
    \E a, b \in Settings, field \in {Cat!NoSchema, Secret, Either(Secret), Either(Either(Secret))}, wrapped, whole \in BOOLEAN :
        ask = <<"connections", a, b, IF wrapped THEN Either(SchemaOf(field, whole)) ELSE SchemaOf(field, whole),
                (IF field = Cat!NoSchema THEN {} ELSE {"secret"}) \cup IF whole THEN {"group"} ELSE {}>>
AskMinimumOS == \E c \in Seqs(Seqs({0, 1, 9, 10}, 2) \ {<<>>}, 2), m \in Seqs({0, 1, 9, 10}, 2) : ask = <<"requirements", c, m>>

(***************************************************************************)
(* Trees.                                                                  *)
(***************************************************************************)
Placed(n, node, holds) == [name |-> n, node |-> node, holds |-> holds]
MemberNames == {<<1>>, <<2>>, <<1, 3>>, <<2, 3>>, <<3>>}
Members ==
    {Placed(n, node, "") : n \in MemberNames, node \in {Tree!Dir(1), Tree!File(1), Tree!Link(<<3>>), Tree!Link(<<0, 3>>)}}
    \cup {Placed(n, Tree!File(2), h) : n \in {<<9>>, <<1, 9>>, <<3>>}, h \in {"", "signature", "other"}}
AskExtract == \E mode \in {"plain", "canonical", "metadata"}, members \in Seqs(Members, 3) : members # <<>> /\ ask = <<"extract", mode, members>>
Bodies(links) == {Tree!File(1), Tree!Dir(1)} \cup {Tree!Link(t) : t \in links}
\* Trees over some names whose directories are there.
TreesOver(names, links) ==
    {t \in UNION {[D -> Bodies(links)] : D \in {S \in SUBSET names : \A p \in S : Len(p) = 1 \/ Tree!Front(p) \in S}} :
        \A p \in DOMAIN t : Len(p) = 1 \/ t[Tree!Front(p)].kind = "dir"}
AskPack == \E t \in TreesOver({<<1>>, <<2>>, <<1, 1>>, <<1, 2>>, <<1, 1, 3>>}, {<<3>>}), names \in SUBSET {<<1>>, <<1, 1>>, <<1, 2>>, <<1, 1, 3>>} : ask = <<"pack", t, names>>
AskLookup ==
    \E t \in TreesOver({<<1>>, <<3>>, <<1, 1>>, <<1, 3>>, <<1, 1, 3>>}, {<<3>>, <<1, 1>>, <<0, 1>>, <<0, 3>>}), name \in Seqs({0, 1, 3}, 3) : name # <<>> /\ ask = <<"lookup", t, name>>
Keeping(d, n) == [dir |-> d, names |-> n]
AskImage ==
    \E t \in TreesOver({<<1>>, <<1, 1>>, <<1, 2>>, <<1, 1, 3>>, <<1, 1, 1>>, <<1, 1, 1, 3>>}, {<<3>>, <<0, 3>>, <<0, 0, 3>>}),
      leaves \in {{}, {Keeping(<<>>, {2})}, {Keeping(<<1>>, {3})}, {Keeping(<<1, 1>>, {3}), Keeping(<<>>, {1})}} : ask = <<"image", t, leaves>>

(***************************************************************************)
(* Operations of plugins.                                                  *)
(***************************************************************************)
Advertised == [name : {"a", "b"}, kind : {"resolve", "resource", "future"}, resource : {"", "R"}, shape : {"ours", "other"}]
    \cup [name : {""}, kind : {"resolve"}, resource : {""}, shape : {"ours"}]
AskDescribe == \E i \in UNION {[D -> 3..4] : D \in SUBSET {"resolve", "resource"}}, a \in Seqs(Advertised, 2) : ask = <<"describe", i, a>>
Offer(n, k, r) == [name |-> n, kind |-> k, resource |-> r]
Offers == {Offer("a", "resolve", ""), Offer("b", "reconcile", ""), Offer("a", "resource", "R"), Offer("c", "resource", "R"), Offer("b", "resource", "S"), Offer("file", "resolve", "")}
Described(ops, unavailable) == [ok |-> TRUE, operations |-> ops, unavailable |-> unavailable]
AskPlugins ==
    \E one \in Seqs(Offers, 2), two, three \in Opt(Offers), not \in Opt(Offers), loads \in BOOLEAN :
        ask = <<"plugins", <<[Described(one, not) EXCEPT !.ok = loads], Described(two, <<Offer("d", "resource", "S")>>), Described(three, two)>>>>
AskCalls ==
    \E o \in [kind : {"resolve", "resource", "reconcile"}, configured : BOOLEAN, methods : SUBSET {"validate", "discover", "plan", "run"}],
      method \in {"validate", "discover", "plan", "run"}, config \in {"none", "full", "bare", "trap", "bad"} : ask = <<"calls", o, method, config>>
AskInputs ==
    \E fields \in Partial([resolver : {"absent", "http", "x"}, url : {"absent", "u"}, path : {"absent", "p"}, other : {"absent", "o"},
                          resource : {"absent", "null", "unnamed", "r"}]) : ask = <<"inputs", fields>>
AskExchange ==
    \E request \in [object : BOOLEAN, method : {"describe", "run"}, rest : {"ours", "alien"}],
      h \in [logs : Seqs({1, 4}, 2), late : Seqs({1, 4}, 1), size : {1, 3, 4}, output : {"o"}, error : {"", "e"}],
      exit \in {"ok", "pipes", "killed"}, cancelled \in BOOLEAN : ask = <<"exchange", request, h, exit, cancelled>>
AskCuts ==
    \E messages \in Seqs([kind : {"log", "result"}, size : 1..4, output : {"o"}, error : {""}], 2), cut, rest \in 0..9 :
        cut <= rest /\ ask = <<"cuts", messages, cut, rest>>

(***************************************************************************)
(* Installers.                                                             *)
(***************************************************************************)
Held(kind, signer) == [kind |-> kind, is |-> signer, target |-> <<>>]
Signed == {Held("pkg", "s"), Held("pkg", "t"), Held("pkg", "")}
Contents ==
    {<<>> :> n : n \in Signed}
    \cup {<<1>> :> n : n \in {Held("app", "s"), Held("pkg", ""), Held("file", ""), Held("app", "bad")}}
    \cup {<<1>> :> Held("dir", "") @@ <<1, 1>> :> n @@ <<2>> :> m : n \in {Held("app", "s"), Held("file", "")}, m \in {Held("pkg", "t"), Held("file", "")}}
    \cup {<<1>> :> Held("app", "s") @@ <<1, 1>> :> Held("pkg", "")}
Entering == [input : {"i", "j"}, path : {<<>>, <<1>>, <<2>>}]
Expected == [input : {"i"}, subject : {<<>>, <<<<1>>>>, <<<<1, 1>>>>}, signer : {"s", ""}]
    \cup [input : {"i"}, subject : {<<<<>>>>, <<<<2>>>>}, signer : {"t"}] \cup [input : {"j"}, subject : {<<>>}, signer : {"s"}]
Plainly == [built |-> FALSE, broken |-> FALSE, tree |-> <<1>> :> Held("app", "s")]
AskSigned ==
    \E i \in [built : BOOLEAN, broken : {FALSE}, tree : Contents], broken \in BOOLEAN,
      entries \in {<<[input |-> "i", path |-> p], e>> : p \in {<<>>, <<1>>}, e \in Entering} \cup {<<[input |-> "i", path |-> <<>>]>>},
      signatures \in Seqs(Expected, 2) :
        ask = <<"signed", [i |-> i, j |-> [Plainly EXCEPT !.broken = broken]], entries, signatures>>
LayoutNodes == {Tree!File(1), Tree!Dir(1), Tree!Link(<<1>>), Tree!Link(<<0>>), Tree!Link(<<1, 1, 0>>), Tree!Link(<<0, 1>>)}
LayoutEntries == [name : {<<1>>, <<1, 1>>, <<2>>, <<3>>, <<2, 1>>}, node : LayoutNodes] \cup [name : {<<1>>, <<2>>, <<1, 3>>}, from : {<<1>>, <<1, 1>>}]
AskLayouts ==
    \E entries \in Seqs(LayoutEntries, 3), t \in TreesOver({<<1>>, <<1, 1>>, <<1, 3>>}, {<<3>>, <<0, 2>>}) :
        /\ (\A i \in DOMAIN entries : "node" \in DOMAIN entries[i]) => t = <<1>> :> Tree!File(1)
        /\ Len(entries) = 3 => \A i \in DOMAIN entries : "node" \in DOMAIN entries[i]
        /\ ask = <<"layouts", entries, t>>

Software(kind, path, signer) == [kind |-> kind, path |-> path, bundle |-> "b", signer |-> signer, apps |-> {}]
Apps == {[kind |-> "app", path |-> p, bundle |-> b, signer |-> s] : p \in {"x", "y"}, b \in {"b", "c"}, s \in {"s", "t"}}
SomeApps == {A \in SUBSET {a \in Apps : IF a.path = "x" THEN a.signer = "s" /\ a.bundle = "b" ELSE a.signer = "t"} : \A a, b \in A : a.path = b.path => a = b}
Pkg(p, apps) == [kind |-> "pkg", path |-> p, signer |-> "t", apps |-> apps]
Img(p, holds) == [kind |-> "image", path |-> p, holds |-> holds]
Holding(apps, pkgs, images) == [apps |-> apps, pkgs |-> pkgs, images |-> images]
Inner == {Holding(a, p, {}) : a \in SomeApps, p \in {{}, {Pkg("p", {})}}}
Outer == {Holding(a, p, i) : a \in SomeApps, p \in {{}, {Pkg("q", {[kind |-> "app", path |-> "x", bundle |-> "b", signer |-> "s"]})}},
                             i \in {{}} \cup {{Img("m", h)} : h \in Inner} \cup {{Img("m", Holding({}, {}, {Img("n", Holding(a, {}, {}))}))} : a \in SomeApps}}
Wanted == [package_path : {"", "p", "*"}, application : {<<>>} \cup {<<[path |-> p, bundle |-> b]>> : p \in {"", "x", "*"}, b \in {"", "b"}},
           package : BOOLEAN, disk_image : BOOLEAN, signatures : {<<>>}]
WantedSigned == {<<>>, <<[subject |-> <<>>, signer |-> "s"]>>, <<[subject |-> <<"x">>, signer |-> "s"], [subject |-> <<"y">>, signer |-> "t"]>>,
                 <<[subject |-> <<"x">>, signer |-> "s"]>>, <<[subject |-> <<"published">>, signer |-> "s"]>>}
AskSoftware ==
    \E w \in Wanted, signatures \in WantedSigned :
        \/ \E rooted \in BOOLEAN, kind \in {"image", "archive"}, holds \in Outer :
            /\ (w.package \/ w.disk_image) => w.package_path = ""
            /\ w.package_path = "*" => w.application = <<>>
            /\ ask = <<"software", [w EXCEPT !.signatures = signatures], [kind |-> kind, rooted |-> rooted /\ kind = "image", built |-> FALSE, content |-> holds]>>
        \/ \E built \in BOOLEAN, apps \in SomeApps :
            ask = <<"software", [w EXCEPT !.signatures = signatures], [kind |-> "pkg", rooted |-> FALSE, built |-> built, content |-> Holding({}, {Pkg(".", apps)}, {})]>>
Member(n, dir, type) == [name |-> n, dir |-> dir, type |-> type, version |-> IF type = "msi" THEN "5" ELSE "", signer |-> IF n = <<1>> THEN "s" ELSE ""]
Shipped == {Member(n, FALSE, t) : n \in {<<1>>, <<2>>, <<1, 4>>, <<2, 3>>, <<8>>}, t \in {"msi", "exe", "txt"}} \cup {Member(<<1>>, TRUE, ""), Member(<<4>>, TRUE, "")}
AskWindows ==
    \E members \in Seqs(Shipped, 2), source \in {"file", "tree", "archive"}, run \in {<<1>>, <<>>}, pattern \in Opt({[name |-> <<1>>, type |-> "-"], [name |-> <<>>, type |-> "msi"]}),
      <<file, signer>> \in {<<FALSE, <<>>>>, <<TRUE, <<>>>>, <<FALSE, <<"s">>>>}, names \in {<<>>, <<<<1>>>>, <<<<2>>, <<3, 1>>>>}, more \in {<<Member(<<>>, FALSE, "exe")>>, <<Member(<<>>, TRUE, ""), Member(<<5>>, FALSE, "msi")>>} :
        /\ (source = "tree" /\ run # <<>>) => \E i \in DOMAIN members : members[i].name = run
        /\ source = "file" => Len(members) = 1 /\ ~members[1].dir /\ Len(members[1].name) = 1
        /\ ask = <<"windows", [setup_file |-> pattern, version_file |-> file, signer |-> signer],
                   [kind |-> source, members |-> members, entry |-> IF source = "file" THEN members[1].name ELSE run, version |-> "9"],
                   [i \in DOMAIN names |-> [name |-> names[i], members |-> more]]>>

Fields(k, S) == {<<>>} \cup {k :> v : v \in S}
CopyOf(source, to, name) == [source_item |-> source, destination_path |-> to, destination_item |-> name]
Program(p, installed, identified) == [path |-> p, installed |-> installed, identified |-> identified]
Programs == {Program(<<"a">>, <<>>, TRUE), Program(<<"d", "a">>, <<<<"Applications", "a">>>>, TRUE), Program(<<"a">>, <<<<"x", "b">>>>, TRUE), Program(<<"a">>, <<>>, FALSE)}
Copying == {<<>>, <<CopyOf(<<"a">>, <<"x">>, <<"b">>)>>, <<CopyOf(<<"d">>, <<"Applications">>, <<>>)>>, <<CopyOf(<<"d">>, <<"x">>, <<>>), CopyOf(<<"d", "a">>, <<"Applications">>, <<>>)>>}
Pkginfos ==
    {a @@ b @@ c @@ d @@ e @@ f : a \in Fields("installer_type", {"nopkg", "copy_from_dmg"}), b \in Fields("receipts", {<<>>, <<"r">>}),
        c \in Fields("items_to_copy", Copying), d \in Fields("uninstall_method", {"remove_copied_items", "uninstall_script"}),
        e \in Fields("uninstallable", BOOLEAN), f \in Fields("installs", {<<Program(<<"d", "a">>, <<<<"Applications", "a">>>>, TRUE)>>})}
Prepared == [there : {TRUE}, format : {"pkg", "dmg", "zip"}, version : {"1"}, selected : Opt(Programs), receipts : {<<>>, <<"q">>}, restart : {FALSE}]
    \cup {[there |-> FALSE, format |-> "", version |-> "1", selected |-> <<>>, receipts |-> <<>>, restart |-> FALSE]}
Published ==
    {<<<<>>, [there |-> TRUE, format |-> "dmg", version |-> "1", selected |-> <<Program(<<"a">>, <<>>, TRUE)>>, receipts |-> <<>>, restart |-> FALSE]>>,
     <<<<>>, [there |-> TRUE, format |-> "pkg", version |-> "1", selected |-> <<>>, receipts |-> <<"q">>, restart |-> TRUE]>>}
AskItems == \E written \in Pkginfos, artifact \in Prepared, before \in Published : ask = <<"items", before[1], before[2], written, artifact>>

\* A lock and declarations of two resources, of one or two inputs.
Declarations == UNION {[S -> Partial([{"a", "b"} -> {"absent", "v", "w"}])] : S \in SUBSET {1, 2}}
AskCompared ==
    \E old, declared \in Declarations, retain \in {{}, {2}} :
        /\ \A r \in DOMAIN old : old[r] # <<>>
        /\ ask = <<"compared", old, declared, retain>>

Asks == \/ AskItems \/ AskSigned \/ AskLayouts \/ AskSoftware \/ AskWindows
        \/ AskDescribe \/ AskPlugins \/ AskCalls \/ AskInputs \/ AskExchange \/ AskCuts
        \/ AskCompared \/ AskExtract \/ AskPack \/ AskLookup \/ AskImage \/ AskClosure \/ AskOwners \/ AskChanged \/ AskPublications \/ AskConnections \/ AskMinimumOS
        \/ AskRelations \/ AskAssignments \/ AskCategories
        \/ AskPatch \/ AskInstaller \/ AskEarly \/ AskMinimum \/ AskMac \/ AskRules
        \/ AskLinks \/ AskReleases \/ AskBottles \/ AskInstallers \/ AskPaths \/ AskHops
        \/ AskLists \/ AskDerive \/ AskUpdate \/ AskNotes

Begin ==
    /\ Init
    /\ \/ part = "prepare" /\ ask = <<"">>
       \/ part = "ask" /\ Asks
       \/ part = "reads" /\ ask = <<"">>
       \/ part = "images" /\ ask = <<"">>
       \/ part = "local" /\ ask = <<"">>
       \/ part = "saves" /\ ask = <<"">>
    /\ IF part = "saves" THEN Saves!Init ELSE NoSaves
    /\ IF part = "reads" THEN Reads!Init ELSE NoReads
    /\ CASE part = "images" -> Images!Init [] part = "local" -> Local!Init [] OTHER -> NoPlugins
Steps ==
    /\ UNCHANGED <<part, ask>>
    /\ \/ part = "prepare" /\ Next /\ UNCHANGED <<vReads, vPlugins, vSaves>>
       \/ part = "reads" /\ Reads!Next /\ UNCHANGED <<vPlugins, vSaves, vars>>
       \/ part = "images" /\ Images!Next /\ UNCHANGED <<vReads, vSaves, vars>>
       \/ part = "local" /\ Local!Next /\ UNCHANGED <<vReads, vSaves, vars>>
       \/ part = "saves" /\ Saves!Next /\ UNCHANGED <<vReads, vPlugins, vars>>
       \/ (part \in {"ask", "reads", "images", "local", "saves"} \/ runs = MaxRuns) /\ UNCHANGED <<vReads, vPlugins, vSaves, vars>>

PartsSpec == Begin /\ [][Steps]_allVars

(***************************************************************************)
(* Properties: those of the modules, each over the inputs of its part.       *)
(***************************************************************************)
\* A read that closes without an error returned one version of the file (treefs/tree.go).
ReadsOneMoment == part = "reads" => Reads!ReadsOneMoment
\* A tag names only releases that can be installed and run (plugins/publish.go).
ReleaseWhole == (part = "images" => Images!ReleaseWhole) /\ (part = "local" => Local!ReleaseWhole)
\* A plugin that runs is the one that its declaration or its lock entry pins (plugins/store.go, local.go).
RunsPinned == (part = "images" => Images!RunsPinned) /\ (part = "local" => Local!RunsPinned)
\* An installation of local files holds what was on disk at one moment (plugins/local.go).
InstalledWasOnDisk == part = "local" => Local!InstalledWasOnDisk
\* What an update writes to the lock has been loaded once (plugins/store.go).
LockedLoaded == (part = "images" => Images!LockedLoaded) /\ (part = "local" => Local!LockedLoaded)
\* A plugin that is locked and installed runs without a registry (plugins/store.go).
InstalledNeedsNoRegistry == [][part = "images" => Images!InstalledSuffices]_vPlugins

\* What a save leaves at any moment is a lock of entries that were to be in it (lockfile.go).
LoadsMeanwhile == part = "saves" => Saves!LoadsMeanwhile
\* An entry that a save does not change is never absent (lockfile.go).
OthersUntouched == part = "saves" => Saves!OthersUntouched
\* What a save that ended has written is what loads, and all that is left (lockfile.go).
SavedLoads == part = "saves" => Saves!SavedLoads
\* Validation accepts the locks that a run uses (lockfile.go).
ComparedRuns == ask[1] = "compared" => Saves!ComparedRuns(ask[2], ask[3], ask[4])

\* A matched link is the one of the highest version, in whatever order links appear (discovery.go).
LinkIsHighest == ask[1] = "links" => Sel!LinkIsHighest(ask[2])
\* A release is the newest published one, and its asset a declared one with its digest (github.go).
ReleaseIsNewest == ask[1] = "releases" => Sel!ReleaseIsNewest(ask[2], ask[3], ask[4])
\* A bottle runs on the machine it is chosen for, and no newer one does (homebrew.go).
BottleRuns == ask[1] = "bottles" => Sel!BottleRuns(ask[2], ask[3], ask[4])
\* An installer claims no identity of another kind through inheritance (winget.go).
ClaimsOwnIdentity == ask[1] = "installers" => Sel!ClaimsOwnIdentity(ask[2], ask[3])
\* A local input is accepted exactly when its path never leaves the project (local.go).
InsideProject == ask[1] = "paths" => Sel!InsideProject(ask[2], ask[3])
\* Private headers reach the declared origin alone, whatever redirects say (http_source.go).
Confined == ask[1] = "hops" => Sel!Confined(ask[2])
\* An enumeration of Jamf that succeeds is the collection as it was at one moment (client.go).
ListsAll == ask[1] = "lists" => Jamf!ListsAll(ask[2], ask[3])
\* Deriving policies and patches keeps declared values and changes nothing the second time (jamf/derive.go).
DerivedSettles == ask[1] = "derive" => Jamf!DerivedSettles(ask[2], ask[3])
\* A Classic update leaves every setting as declared and everything else as it was (classic.go).
UpdateSettles == ask[1] = "update" => Jamf!UpdateSettles(ask[2], ask[3], "1", ask[4], [i \in {"-1", "1", "2"} |-> "f" \o i])
\* Marking notes keeps their text, leaves one marker, and changes nothing again (marker.go).
MarkingSettles == ask[1] = "notes" => Jamf!MarkingSettles(ask[2], "me")
\* After a patch the next plan is empty, and undeclared fields are as they were (intune/object.go).
PatchSettles == ask[1] = "patch" => Intune!PatchSettles(ask[2], ask[3])
\* A derivation sets or clears every field it owns, and no declared one (intune/ownership.go).
DerivationOwns == ask[1] = "installer" => Intune!DerivationOwns(ask[2], ask[3])
\* Validation without an artifact refuses nothing that a run accepts (intune/metadata.go).
EarlyIsLenient == ask[1] = "early" => Intune!EarlyIsLenient(ask[2], ask[3], ask[4], ask[5])
\* The minimum macOS never refuses a machine that meets the requirement (intune/derive.go).
MinimumIsFloor == ask[1] = "minimum" => Intune!MinimumIsFloor(ask[2])
\* What a Mac derivation accepts can be created and detected (intune/derive.go).
MacIsDetectable == ask[1] = "mac" => Intune!MacIsDetectable(ask[2], ask[3], ask[4], <<14, 2>>)
\* Detection rules accepted early stay accepted and have values to compare with (intune/detection.go).
RulesCompare == ask[1] = "rules" => Intune!RulesCompare(ask[2], ask[3])
\* The walk of relationships accepts exactly the sound changes, and applies them alone (relationships.go).
RelationsSound == ask[1] = "relations" =>
    Rel!RelationsSound(ask[2], 1, ask[3], ask[4], 1..3, [dependencies |-> 3, supersedes |-> 2])
\* Assignments converge and keep the filters that are not declared (assignment.go).
AssignmentsSettle == ask[1] = "assignments" => Rel!AssignmentsSettle(ask[2], ask[3])
\* A run cut off at any request is completed by the next, with one category of a name (categories.go).
CategoriesConverge == ask[1] = "categories" => Rel!CategoriesConverge(ask[2], ask[3], ask[4], ask[5])
\* The closure of the roots is complete, dependency-first, and refused for cycles alone (resources.go).
ClosureOrdered == ask[1] = "closure" => Cat!ClosureOrdered(ask[2], ask[3])
\* An inherited input has the owners its paths lead to (engine/input.go).
OwnersExact == ask[1] = "owners" => Cat!OwnersExact(ask[2], 1, "b")
\* Only roots whose preparation is as it was at the base are left out (changed.go).
ChangedExactly == ask[1] = "changed" => Cat!ChangedExactly(ask[2], ask[3], ask[4], [k \in 1..3 |-> 0], ask[5])
\* An accepted publication finds its peers and can be ordered after them (composition.go).
AcceptedResolves == ask[1] = "publications" => Cat!AcceptedResolves(ask[2], ask[3], ask[4])
\* Two settings are one connection when they differ in credentials alone (composition.go).
IdentityIsConnection == ask[1] = "connections" => Cat!IdentityIsConnection(ask[2], ask[3], ask[4], ask[5])
\* No machine that a requirement rules out meets the derived minimum (minimum.go).
MinimumCovers == ask[1] = "requirements" => Cat!MinimumCovers(ask[2], ask[3])
\* An extraction writes each member where it is listed, and nothing else (archive.go).
ExtractsWhatItLists == ask[1] = "extract" => Tree!ExtractsWhatItLists(ask[2], ask[3])
\* An extraction that succeeds has lost no code signature (archive.go).
SignaturesKept == ask[1] = "extract" => Tree!SignaturesKept(ask[2], ask[3])
\* A packed tree is extracted and indexed as it was (treefs/tree.go).
RoundTrips == ask[1] = "pack" => Tree!RoundTrips(ask[2], ask[3])
\* A stored tree answers a path as its files on disk would (tarfs.go).
LooksUpAsHost == ask[1] = "lookup" => \A root \in {<<>>, <<1>>} : (root = <<>> \/ (root \in DOMAIN ask[2] /\ ask[2][root].kind = "dir")) => Tree!LooksUpAsHost(ask[2], root, ask[3])
\* A selection stays below the root of its contents and follows nothing (contents.go).
SelectsInside == ask[1] = "lookup" => \A root \in {<<>>, <<1>>} : Tree!SelectsInside(ask[2], root, ask[3])
\* Operations of another SDK version are unavailable and spoil no others (describe.go).
OthersUnavailable == ask[1] = "describe" => Ops!OthersUnavailable(ask[2], ask[3])
\* A plugin that fails to load leaves nothing registered, and takes no name (operations.go).
FailedLeaveNoTrace == ask[1] = "plugins" => Ops!FailedLeaveNoTrace(ask[2])
\* A handler gets exactly the settings that its method may see (protocol.go, registry.go).
HandlerConfigured == ask[1] = "calls" => Ops!HandlerConfigured(ask[2], ask[3], ask[4])
\* An input is read the same from what it is written as (plugin.go).
InputRoundTrips == ask[1] = "inputs" => Ops!InputRoundTrips(ask[2])
\* The host takes a result for good exactly when the handler gave it (protocol.go).
AnswersAsHandled == ask[1] = "exchange" => Ops!AnswersAsHandled(ask[2], ask[3], ask[4], ask[5])
\* How a pipe cuts the messages changes nothing, at the size limit neither (protocol.go).
CutsDoNotMatter == ask[1] = "cuts" => Ops!CutsDoNotMatter(ask[2], ask[3], ask[4])
\* No application or package goes in whose publisher was neither checked nor put on record (macpkg, signature.go).
SubjectsAccounted == ask[1] = "signed" => Mac!SubjectsAccounted(ask[2], ask[3], ask[4])
\* Derived expectations, declared, are what verification accepts (signature.go).
DerivedHolds == ask[1] = "signed" => Mac!DerivedHolds(ask[2], ask[3], ask[4])
\* A package holds what is declared, placed through no link and over nothing (pkgbuild/layout.go).
StagedAsDeclared == ask[1] = "layouts" => Mac!StagedAsDeclared(ask[2], ask[3])
\* No chain of links leads out of a built package (pkgbuild/links.go).
LinksStayInside == ask[1] = "layouts" => Mac!LinksStayInside(ask[2], ask[3])
\* Each selector matched something, and without one there was a single choice (macsoftware/prepare.go).
SelectorsHeeded == ask[1] = "software" => Soft!SelectorsHeeded(ask[2], ask[3])
\* Every application that is published was verified (macsoftware/prepare.go).
PublishedVerified == ask[1] = "software" => Soft!PublishedVerified(ask[2], ask[3])
\* An accepted layout is written on Windows as it is here (windowssoftware/layout.go).
LayoutPortable == ask[1] = "windows" => Win!LayoutPortable(ask[3], ask[4])
\* The installer that runs is the only one meant (windowssoftware/selection.go).
SetupUnambiguous == ask[1] = "windows" => Win!SetupUnambiguous(ask[2], ask[3], ask[4])
\* The managed version describes the installer that runs (windowssoftware.go).
VersionOfSetup == ask[1] = "windows" => Win!VersionOfSetup(ask[2], ask[3], ask[4])
\* An application is detected where Munki copies it (munki/subjects.go).
DetectsWhereCopied == ask[1] = "items" => MunkiItem!DetectsWhereCopied(ask[4], ask[5])
\* Over any earlier document the derived fields are those of a new item (munki/derive.go).
NothingLeftOver == ask[1] = "items" => MunkiItem!NothingLeftOver(ask[2], ask[3], ask[4], ask[5])
\* An item removes what it copies (munkirepo/munki.go).
RemovesWhatItCopies == ask[1] = "items" => MunkiItem!RemovesWhatItCopies(ask[2], ask[3], ask[4], ask[5])
\* A derived removal can be published (munki/derive.go).
DerivedRemovalHolds == ask[1] = "items" => MunkiItem!DerivedRemovalHolds(ask[4], ask[5])
\* Every file of a selected app that was to be kept is written, and nothing else of a volume (extract.go).
KeptAreWritten == ask[1] = "image" => Tree!KeptAreWritten(ask[2], <<1>>, ask[3])

(***************************************************************************)
(* What the run checks: the properties above, one formula for each subject. *)
(***************************************************************************)
\* What runs as a plugin was published whole, pinned and reviewed, loads offline once installed, and
\* answers what its handlers answered (internal/plugins, engine/operations.go, plugin/protocol.go).
PluginsSound ==
    /\ [](/\ ReleaseWhole /\ RunsPinned /\ InstalledWasOnDisk /\ LockedLoaded
         /\ OthersUnavailable /\ FailedLeaveNoTrace /\ HandlerConfigured
         /\ InputRoundTrips /\ AnswersAsHandled /\ CutsDoNotMatter)
    /\ InstalledNeedsNoRegistry
\* A source is chosen as its declaration says, from where it may come (source/discovery.go, github.go,
\* homebrew.go, winget.go, local.go, http_source.go).
SelectionSound ==
    LinkIsHighest /\ ReleaseIsNewest /\ BottleRuns /\ ClaimsOwnIdentity /\ InsideProject /\ Confined
\* Metadata that was derived and published is what is read back, so that the next plan is empty
\* (internal/jamf, internal/intune).
MetadataSettles ==
    /\ ListsAll /\ DerivedSettles /\ UpdateSettles /\ MarkingSettles
    /\ PatchSettles /\ DerivationOwns /\ EarlyIsLenient /\ MinimumIsFloor /\ MacIsDetectable /\ RulesCompare
    /\ RelationsSound /\ AssignmentsSettle /\ CategoriesConverge
\* A command works on all that it has to, in an order that can be followed, and finds the lock that was
\* written, whichever way a save ended (internal/engine, internal/lockfile).
CatalogSound ==
    /\ LoadsMeanwhile /\ OthersUntouched /\ SavedLoads /\ ComparedRuns
    /\ ClosureOrdered /\ OwnersExact /\ ChangedExactly /\ AcceptedResolves /\ IdentityIsConnection /\ MinimumCovers
\* Trees come out as they went in, and no path leads out of them (internal/archive, diskimage, contents, treefs).
TreesSound ==
    /\ ReadsOneMoment /\ ExtractsWhatItLists /\ SignaturesKept /\ RoundTrips
    /\ LooksUpAsHost /\ SelectsInside /\ KeptAreWritten
\* What is built, signed, detected and removed is the software that was declared (internal/macpkg, pkgbuild,
\* signature, macsoftware, windowssoftware, munki).
SoftwareSound ==
    /\ SubjectsAccounted /\ DerivedHolds /\ StagedAsDeclared /\ LinksStayInside
    /\ SelectorsHeeded /\ PublishedVerified
    /\ LayoutPortable /\ SetupUnambiguous /\ VersionOfSetup
    /\ DetectsWhereCopied /\ NothingLeftOver /\ RemovesWhatItCopies /\ DerivedRemovalHolds
=============================================================================
