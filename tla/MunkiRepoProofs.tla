--------------------------- MODULE MunkiRepoProofs ---------------------------
(***************************************************************************)
(* Proofs about MunkiRepo, for every set of processes, families, versions,  *)
(* catalogs and publications, and every number of interruptions and edits.  *)
(***************************************************************************)
EXTENDS MunkiRepo, WellFoundedInduction, FiniteSetTheorems, TLAPS

Holding == {"reading"} \cup Writing

\* .stemma.lock has at most one holder: the process inside reconcile().
LockInv ==
    /\ \A p \in Proc : p \in lock <=> pc[p] \in Holding
    /\ \A p, q \in lock : p = q

\* Every document, like every catalog entry, names bytes that are there.
Documented == \A i \in Item : info[i] # NoDoc => files[info[i].loc] # 0

\* No other item installs the bytes at the place the apply publishes to.
Alone(p) == \A i \in Item \ {req[p].item} : info[i] # NoDoc => info[i].loc # want.loc

\* The catalogs the applied item was in or is in, and what each must hold.
Span == CatalogsOf(old) \cup {All} \cup want.cats
Entry(c) == IF Listed(want, c) THEN want ELSE NoDoc

\* What the holder may rely on at each point of its apply.
ApplyAt(p) ==
    /\ pc[p] = "content" => want \in Doc /\ Alone(p)
    /\ pc[p] = "catalogs" => want \in Doc /\ files[want.loc] = want.hash
    /\ pc[p] \in {"content", "catalogs"} =>
           /\ victim = {}
           /\ \A c \in Span : c \in due \/ catalogs[c][req[p].item] = Entry(c)
    /\ pc[p] \in Published =>
           /\ want \in Doc /\ info[req[p].item] = want /\ files[want.loc] = want.hash
           /\ req[p].item \notin victims \cup victim
           /\ \A c \in Span : catalogs[c][req[p].item] = Entry(c)
ApplyInv == \A p \in Proc : ApplyAt(p)

RepoInv == TypeOK /\ LockInv /\ Documented /\ InstallersAvailable /\ ApplyInv

\* A request is a well-formed publication.
LEMMA RequestType ==
    ASSUME NEW q \in Request
    PROVE  /\ q.item \in Item /\ q.cats \in SUBSET Catalog /\ q.base \in Base
           /\ q.hash \in Content /\ q.hash \in Nat \ {0} /\ q.keep \in Nat
BY ConstantsAssumption

\* The least of some natural numbers is one of them.
LEMMA MinMember ==
    ASSUME NEW S \in SUBSET Nat, S # {}
    PROVE  Min(S) \in S
<1> DEFINE R == OpToRel(<, Nat)
<1>1. IsWellFoundedOn(R, Nat)
  BY NatLessThanWellFounded
<1>2. \A y, x \in Nat : y < x => <<y, x>> \in R
  BY DEF OpToRel
<1> HIDE DEF R
<1>3. PICK x \in S : \A y \in S : ~ (<<y, x>> \in R)
  BY <1>1, WFMin
<1>4. ASSUME NEW y \in S PROVE x <= y
  <2>1. <<y, x>> \notin R
    BY <1>3
  <2>2. x \in Nat /\ y \in Nat
    OBVIOUS
  <2>3. ~ (y < x)
    BY <1>2, <2>1, <2>2
  <2>4. QED
    BY <2>2, <2>3
<1>5. QED
  BY <1>4 DEF Min

\* freeName() and an adopted document both give a place under pkgs/.
LEMMA LocationType ==
    ASSUME TypeOK, NEW q \in Request, HasLocation(q)
    PROVE  Location(q) \in Loc
<1>1. CASE info[q.item] # NoDoc
  BY <1>1, RequestType DEF Location, TypeOK, Doc
<1>2. CASE info[q.item] = NoDoc
  <2>1. Usable(q) # {} /\ Usable(q) \in SUBSET Nat /\ Usable(q) \subseteq 0..MaxCopies
    BY <1>2, ConstantsAssumption DEF HasLocation, Usable
  <2>2. Min(Usable(q)) \in 0..MaxCopies
    BY <2>1, MinMember
  <2>3. QED
    BY <1>2, <2>2, RequestType DEF Location, Loc
<1>3. QED
  BY <1>1, <1>2

\* The desired document is a document.
LEMMA DesiredType ==
    ASSUME TypeOK, NEW q \in Request, HasLocation(q)
    PROVE  Desired(q) \in Doc /\ Desired(q).loc = Location(q) /\ Desired(q).hash = q.hash
<1>1. Location(q) \in Loc
  BY LocationType
<1>2. info[q.item] # NoDoc => info[q.item].cats \in SUBSET Catalog
  BY RequestType DEF TypeOK, Doc
<1>3. QED
  BY <1>1, <1>2, RequestType, ConstantsAssumption DEF Desired, Doc

\* The absence of a document is no document, and a document has bytes to name.
LEMMA DocFacts ==
    /\ NoDoc \notin Doc
    /\ \A d \in Doc : d.hash # 0 /\ d.loc \in Loc /\ d.cats \in SUBSET Catalog /\ d.hash \in Content
BY ConstantsAssumption DEF Doc, NoDoc

\* Writing a catalog entry leaves a catalog.
LEMMA MergedType ==
    ASSUME TypeOK, NEW c \in Index, NEW i \in Item, NEW d \in Doc \cup {NoDoc}
    PROVE  /\ Merged(c, i, d) \in [Item -> Doc \cup {NoDoc}]
           /\ \A j \in Item : Merged(c, i, d)[j] = IF j = i THEN IF Listed(d, c) THEN d ELSE NoDoc ELSE catalogs[c][j]
BY DEF TypeOK, Merged

\* A catalog that needs no change holds the entry already.
LEMMA UnchangedEntry ==
    ASSUME TypeOK, NEW c \in Index, NEW i \in Item, NEW d \in Doc \cup {NoDoc}, Merged(c, i, d) = catalogs[c]
    PROVE  catalogs[c][i] = IF Listed(d, c) THEN d ELSE NoDoc
BY MergedType


\* Every step keeps the type of every variable.
LEMMA TypeStep ==
    TypeOK /\ [Next]_vars => TypeOK'
<1> SUFFICES ASSUME TypeOK, [Next]_vars PROVE TypeOK'
  OBVIOUS
<1>1. ASSUME NEW p \in Proc, NEW q \in Request, Start(p, q)
      PROVE  TypeOK'
  BY <1>1 DEF TypeOK, Writing, Start, Goto, repo, refs, apply
<1>2. ASSUME NEW p \in Proc, Acquire(p)
      PROVE  TypeOK'
  BY <1>2 DEF TypeOK, Writing, Acquire, Goto, repo, refs, apply
<1>3. ASSUME NEW p \in Proc, Refuse(p)
      PROVE  TypeOK'
  BY <1>3 DEF TypeOK, Writing, Refuse, Goto, repo, refs, apply
<1>4. ASSUME NEW p \in Proc, Decide(p)
      PROVE  TypeOK'
  <2>1. req[p] \in Request /\ HasLocation(req[p])
    BY <1>4 DEF TypeOK, Decide
  <2>2. want' \in Doc
    BY <1>4, <2>1, DesiredType DEF Decide
  <2>3. old' \in Doc \cup {NoDoc}
    BY <1>4, <2>1, RequestType DEF TypeOK, Decide
  <2>4. due' \in SUBSET Index
    <3>1. CatalogsOf(info[req[p].item]) \subseteq Catalog /\ CatalogsOf(Desired(req[p])) \subseteq Catalog
      BY <2>1, RequestType, DesiredType, DocFacts DEF TypeOK, CatalogsOf, NoDoc
    <3>2. QED
      BY <1>4, <3>1 DEF Decide, CatalogChanges, Index
  <2>5. pc' \in [Proc -> {"idle", "locking", "reading"} \cup Writing] /\ victims' \in SUBSET Item /\ victim' \in SUBSET Item /\ vdoc' \in Doc \cup {NoDoc}
    BY <1>4 DEF TypeOK, Writing, Decide, Goto
  <2>6. UNCHANGED <<info, catalogs, files, pins, names, lock, req, leased, faults, env>>
    BY <1>4 DEF Decide, repo, refs
  <2>7. QED
    BY <2>2, <2>3, <2>4, <2>5, <2>6 DEF TypeOK
<1>5. ASSUME NEW p \in Proc, PublishContent(p)
      PROVE  TypeOK'
  <2>1. want.hash \in Content \cup {0}
    BY DocFacts DEF TypeOK, NoDoc
  <2>2. files' \in [Loc -> Content \cup {0}]
    BY <1>5, <2>1 DEF TypeOK, PublishContent
  <2>3. QED
    BY <1>5, <2>2 DEF TypeOK, Writing, PublishContent, Goto, repo, refs, apply
<1>6. ASSUME NEW p \in Proc, NEW c \in Index, WriteCatalog(p, c)
      PROVE  TypeOK'
  <2>1. req[p].item \in Item /\ want \in Doc \cup {NoDoc}
    BY RequestType DEF TypeOK
  <2>2. Merged(c, req[p].item, want) \in [Item -> Doc \cup {NoDoc}]
    BY <2>1, MergedType
  <2>3. catalogs' \in [Index -> [Item -> Doc \cup {NoDoc}]]
    BY <1>6, <2>2 DEF TypeOK, WriteCatalog
  <2>4. QED
    BY <1>6, <2>3 DEF TypeOK, WriteCatalog, refs
<1>7. ASSUME NEW p \in Proc, WritePkginfo(p)
      PROVE  TypeOK'
  <2>1. req[p].item \in Item /\ want \in Doc \cup {NoDoc}
    BY RequestType DEF TypeOK
  <2>2. info' \in [Item -> Doc \cup {NoDoc}] /\ victims' \in SUBSET Item
    BY <1>7, <2>1 DEF TypeOK, WritePkginfo, BeyondKeep, Others
  <2>3. QED
    BY <1>7, <2>2 DEF TypeOK, Writing, WritePkginfo, Goto, refs
<1>8. ASSUME NEW p \in Proc, NEW i \in Item, PruneKeep(p, i)
      PROVE  TypeOK'
  BY <1>8 DEF TypeOK, Writing, PruneKeep, repo, refs, apply
<1>9. ASSUME NEW p \in Proc, NEW i \in Item, PruneBegin(p, i)
      PROVE  TypeOK'
  <2>1. due' \in SUBSET Index
    <3>1. CatalogsOf(info[i]) \subseteq Catalog /\ CatalogsOf(NoDoc) \subseteq Catalog
      BY DocFacts DEF TypeOK, CatalogsOf, NoDoc
    <3>2. QED
      BY <1>9, <3>1 DEF PruneBegin, CatalogChanges, Index
  <2>2. QED
    BY <1>9, <2>1 DEF TypeOK, Writing, PruneBegin, Goto, repo, refs
<1>10. ASSUME NEW p \in Proc, NEW i \in Item, NEW c \in Index, PruneCatalog(p, i, c)
      PROVE  TypeOK'
  <2>1. Merged(c, i, NoDoc) \in [Item -> Doc \cup {NoDoc}]
    BY MergedType
  <2>2. catalogs' \in [Index -> [Item -> Doc \cup {NoDoc}]]
    BY <1>10, <2>1 DEF TypeOK, PruneCatalog
  <2>3. QED
    BY <1>10, <2>2 DEF TypeOK, PruneCatalog, refs
<1>11. ASSUME NEW p \in Proc, NEW i \in Item, PrunePkginfo(p, i)
      PROVE  TypeOK'
  BY <1>11 DEF TypeOK, Writing, PrunePkginfo, Goto, repo, refs, apply
<1>12. ASSUME NEW p \in Proc, PruneInstaller(p)
      PROVE  TypeOK'
  BY <1>12 DEF TypeOK, Writing, PruneInstaller, Goto, repo, refs, apply
<1>13. ASSUME NEW p \in Proc, Finish(p)
      PROVE  TypeOK'
  BY <1>13 DEF TypeOK, Writing, Finish, Goto, repo, refs, apply
<1>14. ASSUME NEW p \in Proc, Interrupt(p)
      PROVE  TypeOK'
  BY <1>14 DEF TypeOK, Writing, Interrupt, repo, refs, apply
<1>15. ASSUME NEW i \in Item, Pin(i)
      PROVE  TypeOK'
  BY <1>15 DEF TypeOK, Writing, Pin, Edits, repo, refs, apply
<1>16. ASSUME NEW f \in Family, PinName(f)
      PROVE  TypeOK'
  BY <1>16 DEF TypeOK, Writing, PinName, Edits, repo, refs, apply
<1>17. ASSUME NEW i \in Item, NEW d \in Doc, Import(i, d)
      PROVE  TypeOK'
  <2>1. info' \in [Item -> Doc \cup {NoDoc}]
    BY <1>17 DEF TypeOK, Import
  <2>2. files' \in [Loc -> Content \cup {0}]
    BY <1>17, DocFacts DEF TypeOK, Import
  <2>3. catalogs' \in [Index -> [Item -> Doc \cup {NoDoc}]]
    BY <1>17, <2>1 DEF Import
  <2>4. QED
    BY <1>17, <2>1, <2>2, <2>3 DEF TypeOK, Import, Edits, refs, apply
<1>18. CASE UNCHANGED vars
  BY <1>18 DEF TypeOK, Writing, vars, repo, refs, apply
<1>19. QED
  BY <1>1, <1>2, <1>3, <1>4, <1>5, <1>6, <1>7, <1>8, <1>9, <1>10, <1>11, <1>12, <1>13, <1>14, <1>15, <1>16, <1>17, <1>18 DEF Next, Step, Admin

\* Every step keeps the lock with the process inside reconcile().
LEMMA LockStep ==
    TypeOK /\ LockInv /\ [Next]_vars => LockInv'
<1> SUFFICES ASSUME TypeOK, LockInv, [Next]_vars PROVE LockInv'
  OBVIOUS
<1>1. ASSUME NEW p \in Proc, NEW q \in Request, Start(p, q)
      PROVE  LockInv'
  BY <1>1 DEF TypeOK, LockInv, Holding, Writing, Start, Goto, repo, refs, apply
<1>2. ASSUME NEW p \in Proc, Acquire(p)
      PROVE  LockInv'
  BY <1>2 DEF TypeOK, LockInv, Holding, Writing, Acquire, Goto, repo, refs, apply
<1>3. ASSUME NEW p \in Proc, Refuse(p)
      PROVE  LockInv'
  BY <1>3 DEF TypeOK, LockInv, Holding, Writing, Refuse, Goto, repo, refs, apply
<1>4. ASSUME NEW p \in Proc, Decide(p)
      PROVE  LockInv'
  BY <1>4 DEF TypeOK, LockInv, Holding, Writing, Decide, Goto, repo, refs, apply
<1>5. ASSUME NEW p \in Proc, PublishContent(p)
      PROVE  LockInv'
  BY <1>5 DEF TypeOK, LockInv, Holding, Writing, PublishContent, Goto, repo, refs, apply
<1>6. ASSUME NEW p \in Proc, NEW c \in Index, WriteCatalog(p, c)
      PROVE  LockInv'
  BY <1>6 DEF TypeOK, LockInv, Holding, Writing, WriteCatalog, repo, refs, apply
<1>7. ASSUME NEW p \in Proc, WritePkginfo(p)
      PROVE  LockInv'
  BY <1>7 DEF TypeOK, LockInv, Holding, Writing, WritePkginfo, Goto, repo, refs, apply
<1>8. ASSUME NEW p \in Proc, NEW i \in Item, PruneKeep(p, i)
      PROVE  LockInv'
  BY <1>8 DEF TypeOK, LockInv, Holding, Writing, PruneKeep, repo, refs, apply
<1>9. ASSUME NEW p \in Proc, NEW i \in Item, PruneBegin(p, i)
      PROVE  LockInv'
  BY <1>9 DEF TypeOK, LockInv, Holding, Writing, PruneBegin, Goto, repo, refs, apply
<1>10. ASSUME NEW p \in Proc, NEW i \in Item, NEW c \in Index, PruneCatalog(p, i, c)
      PROVE  LockInv'
  BY <1>10 DEF TypeOK, LockInv, Holding, Writing, PruneCatalog, repo, refs, apply
<1>11. ASSUME NEW p \in Proc, NEW i \in Item, PrunePkginfo(p, i)
      PROVE  LockInv'
  BY <1>11 DEF TypeOK, LockInv, Holding, Writing, PrunePkginfo, Goto, repo, refs, apply
<1>12. ASSUME NEW p \in Proc, PruneInstaller(p)
      PROVE  LockInv'
  BY <1>12 DEF TypeOK, LockInv, Holding, Writing, PruneInstaller, Goto, repo, refs, apply
<1>13. ASSUME NEW p \in Proc, Finish(p)
      PROVE  LockInv'
  BY <1>13 DEF TypeOK, LockInv, Holding, Writing, Finish, Goto, repo, refs, apply
<1>14. ASSUME NEW p \in Proc, Interrupt(p)
      PROVE  LockInv'
  BY <1>14 DEF TypeOK, LockInv, Holding, Writing, Interrupt, repo, refs, apply
<1>15. ASSUME NEW i \in Item, Pin(i)
      PROVE  LockInv'
  BY <1>15 DEF TypeOK, LockInv, Holding, Writing, Pin, Edits, repo, refs, apply
<1>16. ASSUME NEW f \in Family, PinName(f)
      PROVE  LockInv'
  BY <1>16 DEF TypeOK, LockInv, Holding, Writing, PinName, Edits, repo, refs, apply
<1>17. ASSUME NEW i \in Item, NEW d \in Doc, Import(i, d)
      PROVE  LockInv'
  BY <1>17 DEF TypeOK, LockInv, Holding, Writing, Import, Edits, repo, refs, apply
<1>18. CASE UNCHANGED vars
  BY <1>18 DEF TypeOK, LockInv, Holding, Writing, vars, repo, refs, apply
<1>19. QED
  BY <1>1, <1>2, <1>3, <1>4, <1>5, <1>6, <1>7, <1>8, <1>9, <1>10, <1>11, <1>12, <1>13, <1>14, <1>15, <1>16, <1>17, <1>18 DEF Next, Step, Admin

\* Every step leaves the bytes of every document in place.
LEMMA DocumentedStep ==
    RepoInv /\ [Next]_vars => Documented'
<1> SUFFICES ASSUME RepoInv, [Next]_vars PROVE Documented'
  OBVIOUS
<1>1. ASSUME NEW p \in Proc, NEW q \in Request, Start(p, q)
      PROVE  Documented'
  BY <1>1 DEF RepoInv, TypeOK, Documented, Start, Goto, repo, refs, apply
<1>2. ASSUME NEW p \in Proc, Acquire(p)
      PROVE  Documented'
  BY <1>2 DEF RepoInv, TypeOK, Documented, Acquire, Goto, repo, refs, apply
<1>3. ASSUME NEW p \in Proc, Refuse(p)
      PROVE  Documented'
  BY <1>3 DEF RepoInv, TypeOK, Documented, Refuse, Goto, repo, refs, apply
<1>4. ASSUME NEW p \in Proc, Decide(p)
      PROVE  Documented'
  BY <1>4 DEF RepoInv, TypeOK, Documented, Decide, Goto, repo, refs, apply
<1>5. ASSUME NEW p \in Proc, PublishContent(p)
      PROVE  Documented'
  <2>1. want.hash # 0
    BY <1>5, DocFacts DEF RepoInv, ApplyInv, ApplyAt, PublishContent, Goto
  <2>2. QED
    BY <1>5, <2>1, DocFacts DEF RepoInv, TypeOK, Documented, PublishContent
<1>6. ASSUME NEW p \in Proc, NEW c \in Index, WriteCatalog(p, c)
      PROVE  Documented'
  BY <1>6 DEF RepoInv, TypeOK, Documented, WriteCatalog, repo, refs, apply
<1>7. ASSUME NEW p \in Proc, WritePkginfo(p)
      PROVE  Documented'
  <2>1. want \in Doc /\ files[want.loc] = want.hash /\ want.hash # 0
    BY <1>7, DocFacts DEF RepoInv, ApplyInv, ApplyAt, WritePkginfo, Goto
  <2>2. QED
    BY <1>7, <2>1 DEF RepoInv, TypeOK, Documented, WritePkginfo
<1>8. ASSUME NEW p \in Proc, NEW i \in Item, PruneKeep(p, i)
      PROVE  Documented'
  BY <1>8 DEF RepoInv, TypeOK, Documented, PruneKeep, repo, refs, apply
<1>9. ASSUME NEW p \in Proc, NEW i \in Item, PruneBegin(p, i)
      PROVE  Documented'
  BY <1>9 DEF RepoInv, TypeOK, Documented, PruneBegin, Goto, repo, refs, apply
<1>10. ASSUME NEW p \in Proc, NEW i \in Item, NEW c \in Index, PruneCatalog(p, i, c)
      PROVE  Documented'
  BY <1>10 DEF RepoInv, TypeOK, Documented, PruneCatalog, repo, refs, apply
<1>11. ASSUME NEW p \in Proc, NEW i \in Item, PrunePkginfo(p, i)
      PROVE  Documented'
  BY <1>11 DEF RepoInv, TypeOK, Documented, PrunePkginfo, Goto, repo, refs, apply
<1>12. ASSUME NEW p \in Proc, PruneInstaller(p)
      PROVE  Documented'
  <2>1. CASE Referenced(vdoc.loc)
    BY <1>12, <2>1 DEF RepoInv, Documented, PruneInstaller
  <2>2. CASE ~Referenced(vdoc.loc)
    <3>1. \A i \in Item : info[i] # NoDoc => info[i].loc # vdoc.loc
      BY <2>2 DEF Referenced
    <3>2. QED
      BY <1>12, <2>2, <3>1, DocFacts DEF RepoInv, TypeOK, Documented, PruneInstaller
  <2>3. QED
    BY <2>1, <2>2
<1>13. ASSUME NEW p \in Proc, Finish(p)
      PROVE  Documented'
  BY <1>13 DEF RepoInv, TypeOK, Documented, Finish, Goto, repo, refs, apply
<1>14. ASSUME NEW p \in Proc, Interrupt(p)
      PROVE  Documented'
  BY <1>14 DEF RepoInv, TypeOK, Documented, Interrupt, repo, refs, apply
<1>15. ASSUME NEW i \in Item, Pin(i)
      PROVE  Documented'
  BY <1>15 DEF RepoInv, TypeOK, Documented, Pin, Edits, repo, refs, apply
<1>16. ASSUME NEW f \in Family, PinName(f)
      PROVE  Documented'
  BY <1>16 DEF RepoInv, TypeOK, Documented, PinName, Edits, repo, refs, apply
<1>17. ASSUME NEW i \in Item, NEW d \in Doc, Import(i, d)
      PROVE  Documented'
  <2>1. d.hash # 0 /\ d.loc \in Loc
    BY DocFacts
  <2>2. QED
    BY <1>17, <2>1, DocFacts DEF RepoInv, TypeOK, Documented, Import
<1>18. CASE UNCHANGED vars
  BY <1>18 DEF RepoInv, TypeOK, Documented, vars, repo, refs, apply
<1>19. QED
  BY <1>1, <1>2, <1>3, <1>4, <1>5, <1>6, <1>7, <1>8, <1>9, <1>10, <1>11, <1>12, <1>13, <1>14, <1>15, <1>16, <1>17, <1>18 DEF Next, Step, Admin

\* Every step leaves the bytes of every catalog entry in place.
LEMMA AvailableStep ==
    RepoInv /\ [Next]_vars => InstallersAvailable'
<1> SUFFICES ASSUME RepoInv, [Next]_vars PROVE InstallersAvailable'
  OBVIOUS
<1>1. ASSUME NEW p \in Proc, NEW q \in Request, Start(p, q)
      PROVE  InstallersAvailable'
  BY <1>1 DEF RepoInv, TypeOK, InstallersAvailable, Start, Goto, repo, refs, apply
<1>2. ASSUME NEW p \in Proc, Acquire(p)
      PROVE  InstallersAvailable'
  BY <1>2 DEF RepoInv, TypeOK, InstallersAvailable, Acquire, Goto, repo, refs, apply
<1>3. ASSUME NEW p \in Proc, Refuse(p)
      PROVE  InstallersAvailable'
  BY <1>3 DEF RepoInv, TypeOK, InstallersAvailable, Refuse, Goto, repo, refs, apply
<1>4. ASSUME NEW p \in Proc, Decide(p)
      PROVE  InstallersAvailable'
  BY <1>4 DEF RepoInv, TypeOK, InstallersAvailable, Decide, Goto, repo, refs, apply
<1>5. ASSUME NEW p \in Proc, PublishContent(p)
      PROVE  InstallersAvailable'
  <2>1. want.hash # 0
    BY <1>5, DocFacts DEF RepoInv, ApplyInv, ApplyAt, PublishContent, Goto
  <2>2. QED
    BY <1>5, <2>1, DocFacts DEF RepoInv, TypeOK, InstallersAvailable, PublishContent
<1>6. ASSUME NEW p \in Proc, NEW c \in Index, WriteCatalog(p, c)
      PROVE  InstallersAvailable'
  <2>1. want \in Doc /\ files[want.loc] = want.hash /\ want.hash # 0 /\ req[p].item \in Item
    BY <1>6, DocFacts, RequestType DEF RepoInv, TypeOK, ApplyInv, ApplyAt, WriteCatalog
  <2>2. \A j \in Item : catalogs'[c][j] = IF j = req[p].item THEN IF Listed(want, c) THEN want ELSE NoDoc ELSE catalogs[c][j]
    BY <1>6, <2>1, MergedType DEF RepoInv, TypeOK, WriteCatalog
  <2>3. \A k \in Index \ {c} : catalogs'[k] = catalogs[k]
    BY <1>6 DEF RepoInv, TypeOK, WriteCatalog
  <2>4. files' = files
    BY <1>6 DEF WriteCatalog
  <2>5. QED
    BY <2>1, <2>2, <2>3, <2>4 DEF RepoInv, InstallersAvailable
<1>7. ASSUME NEW p \in Proc, WritePkginfo(p)
      PROVE  InstallersAvailable'
  BY <1>7 DEF RepoInv, TypeOK, InstallersAvailable, WritePkginfo, Goto, repo, refs, apply
<1>8. ASSUME NEW p \in Proc, NEW i \in Item, PruneKeep(p, i)
      PROVE  InstallersAvailable'
  BY <1>8 DEF RepoInv, TypeOK, InstallersAvailable, PruneKeep, repo, refs, apply
<1>9. ASSUME NEW p \in Proc, NEW i \in Item, PruneBegin(p, i)
      PROVE  InstallersAvailable'
  BY <1>9 DEF RepoInv, TypeOK, InstallersAvailable, PruneBegin, Goto, repo, refs, apply
<1>10. ASSUME NEW p \in Proc, NEW i \in Item, NEW c \in Index, PruneCatalog(p, i, c)
      PROVE  InstallersAvailable'
  <2>1. \A j \in Item : catalogs'[c][j] = IF j = i THEN NoDoc ELSE catalogs[c][j]
    BY <1>10, MergedType DEF RepoInv, TypeOK, PruneCatalog, Listed
  <2>2. \A k \in Index \ {c} : catalogs'[k] = catalogs[k]
    BY <1>10 DEF RepoInv, TypeOK, PruneCatalog
  <2>3. files' = files
    BY <1>10 DEF PruneCatalog
  <2>4. QED
    BY <2>1, <2>2, <2>3 DEF RepoInv, InstallersAvailable
<1>11. ASSUME NEW p \in Proc, NEW i \in Item, PrunePkginfo(p, i)
      PROVE  InstallersAvailable'
  BY <1>11 DEF RepoInv, TypeOK, InstallersAvailable, PrunePkginfo, Goto, repo, refs, apply
<1>12. ASSUME NEW p \in Proc, PruneInstaller(p)
      PROVE  InstallersAvailable'
  <2>1. CASE Referenced(vdoc.loc)
    BY <1>12, <2>1 DEF RepoInv, InstallersAvailable, PruneInstaller
  <2>2. CASE ~Referenced(vdoc.loc)
    <3>1. \A k \in Index, j \in Item : catalogs[k][j] # NoDoc => catalogs[k][j].loc # vdoc.loc
      BY <2>2 DEF Referenced
    <3>2. \A k \in Index, j \in Item : catalogs[k][j] # NoDoc => catalogs[k][j].loc \in Loc
      BY DocFacts DEF RepoInv, TypeOK
    <3>3. QED
      BY <1>12, <2>2, <3>1, <3>2 DEF RepoInv, TypeOK, InstallersAvailable, PruneInstaller
  <2>3. QED
    BY <2>1, <2>2
<1>13. ASSUME NEW p \in Proc, Finish(p)
      PROVE  InstallersAvailable'
  BY <1>13 DEF RepoInv, TypeOK, InstallersAvailable, Finish, Goto, repo, refs, apply
<1>14. ASSUME NEW p \in Proc, Interrupt(p)
      PROVE  InstallersAvailable'
  BY <1>14 DEF RepoInv, TypeOK, InstallersAvailable, Interrupt, repo, refs, apply
<1>15. ASSUME NEW i \in Item, Pin(i)
      PROVE  InstallersAvailable'
  BY <1>15 DEF RepoInv, TypeOK, InstallersAvailable, Pin, Edits, repo, refs, apply
<1>16. ASSUME NEW f \in Family, PinName(f)
      PROVE  InstallersAvailable'
  BY <1>16 DEF RepoInv, TypeOK, InstallersAvailable, PinName, Edits, repo, refs, apply
<1>17. ASSUME NEW i \in Item, NEW d \in Doc, Import(i, d)
      PROVE  InstallersAvailable'
  <2>1. Documented'
    BY DocumentedStep
  <2>2. \A c \in Index, j \in Item : catalogs'[c][j] = NoDoc \/ catalogs'[c][j] = info'[j]
    BY <1>17 DEF Import
  <2>3. QED
    BY <2>1, <2>2 DEF Documented, InstallersAvailable
<1>18. CASE UNCHANGED vars
  BY <1>18 DEF RepoInv, TypeOK, InstallersAvailable, vars, repo, refs, apply
<1>19. QED
  BY <1>1, <1>2, <1>3, <1>4, <1>5, <1>6, <1>7, <1>8, <1>9, <1>10, <1>11, <1>12, <1>13, <1>14, <1>15, <1>16, <1>17, <1>18 DEF Next, Step, Admin

\* Whatever the holder does, it disturbs no other apply.
LEMMA OthersIdle ==
    ASSUME RepoInv, NEW p \in Proc, pc[p] \in Holding, NEW r \in Proc, r # p,
           pc'[r] = pc[r]
    PROVE  ApplyAt(r)'
<1>1. pc[r] \notin Holding
  BY DEF RepoInv, LockInv
<1>2. QED
  BY <1>1 DEF ApplyAt, Holding, Writing, Published

\* No apply is inside the lock when it is free.
LEMMA FreeIdle ==
    ASSUME RepoInv, lock = {}, NEW r \in Proc, pc'[r] = pc[r]
    PROVE  ApplyAt(r)'
<1>1. pc[r] \notin Holding
  BY DEF RepoInv, LockInv
<1>2. QED
  BY <1>1 DEF ApplyAt, Holding, Writing, Published

\* A catalog of the span is a catalog.
LEMMA SpanType ==
    ASSUME TypeOK
    PROVE  Span \subseteq Index /\ CatalogsOf(old) \subseteq Catalog /\ CatalogsOf(want) \subseteq Catalog
BY DocFacts DEF TypeOK, Span, CatalogsOf, Index, NoDoc


\* Every step keeps what each apply relies on.
LEMMA ApplyStep ==
    RepoInv /\ [Next]_vars => ApplyInv'
<1> SUFFICES ASSUME RepoInv, [Next]_vars PROVE ApplyInv'
  OBVIOUS
<1>1. ASSUME NEW p \in Proc, NEW q \in Request, Start(p, q)
      PROVE  ApplyInv'
  <2>1. ASSUME NEW r \in Proc PROVE ApplyAt(r)'
    BY <1>1 DEF RepoInv, TypeOK, ApplyInv, ApplyAt, Alone, Span, Entry, Published, Start, Goto, repo, apply
  <2>2. QED
    BY <2>1 DEF ApplyInv
<1>2. ASSUME NEW p \in Proc, Acquire(p)
      PROVE  ApplyInv'
  <2>1. ASSUME NEW r \in Proc PROVE ApplyAt(r)'
    BY <1>2 DEF RepoInv, TypeOK, ApplyInv, ApplyAt, Alone, Span, Entry, Published, Acquire, Goto, repo, apply
  <2>2. QED
    BY <2>1 DEF ApplyInv
<1>3. ASSUME NEW p \in Proc, Refuse(p)
      PROVE  ApplyInv'
  <2>1. pc[p] \in Holding /\ \A r \in Proc \ {p} : pc'[r] = pc[r]
    BY <1>3 DEF RepoInv, TypeOK, Holding, Writing, Refuse, Goto
  <2>2. ApplyAt(p)'
    BY <1>3 DEF RepoInv, TypeOK, ApplyAt, Published, Refuse, Goto
  <2>3. QED
    BY <2>1, <2>2, OthersIdle DEF ApplyInv
<1>4. ASSUME NEW p \in Proc, Decide(p)
      PROVE  ApplyInv'
  <2>1. pc[p] \in Holding /\ \A r \in Proc \ {p} : pc'[r] = pc[r]
    BY <1>4 DEF RepoInv, TypeOK, Holding, Writing, Decide, Goto
  <2>2. ApplyAt(p)'
    <3>1. req[p] \in Request /\ req[p].item \in Item /\ HasLocation(req[p]) /\ TypeOK
      BY <1>4, RequestType DEF RepoInv, TypeOK, Decide
    <3>2. want' \in Doc /\ want'.loc = Location(req[p]) /\ want'.hash = req[p].hash
      BY <1>4, <3>1, DesiredType DEF Decide
    <3>3. pc'[p] = "content" => Alone(p)'
      BY <1>4, <3>1, <3>2 DEF TypeOK, Decide, Goto, SharedInstaller, Alone, repo
    <3>4. pc'[p] = "catalogs" => files'[want'.loc] = want'.hash
      BY <1>4, <3>1, <3>2 DEF TypeOK, Decide, Goto, ContentNeeded, repo
    <3>5. ASSUME NEW c \in Span' PROVE c \in due' \/ catalogs'[c][req'[p].item] = Entry(c)'
      <4>1. TypeOK'
        BY TypeStep DEF RepoInv
      <4>2. c \in Index /\ c \in CatalogsOf(old') \cup {All} \cup want'.cats
        BY <4>1, <3>2, DocFacts DEF TypeOK, Span, CatalogsOf, Index, NoDoc
      <4>3. CASE Merged(c, req[p].item, want') = catalogs[c]
        <5>1. catalogs[c][req[p].item] = IF Listed(want', c) THEN want' ELSE NoDoc
          BY <3>1, <3>2, <4>2, <4>3, UnchangedEntry
        <5>2. QED
          BY <1>4, <5>1 DEF Decide, Entry, Listed, repo
      <4>4. CASE Merged(c, req[p].item, want') # catalogs[c]
        <5>1. c \in CatalogsOf(old') \cup CatalogsOf(want') \cup {All}
          BY <4>2, <3>2, DocFacts DEF CatalogsOf
        <5>2. due' = CatalogChanges(req[p].item, old', want')
          BY <1>4 DEF Decide
        <5>3. QED
          BY <4>4, <5>1, <5>2 DEF CatalogChanges
      <4>5. QED
        BY <4>3, <4>4
    <3>6. pc'[p] \in {"content", "catalogs"} /\ victim' = {}
      BY <1>4 DEF RepoInv, TypeOK, Decide, Goto
    <3>7. QED
      BY <3>2, <3>3, <3>4, <3>5, <3>6 DEF ApplyAt, Published
  <2>3. QED
    BY <2>1, <2>2, OthersIdle DEF ApplyInv
<1>5. ASSUME NEW p \in Proc, PublishContent(p)
      PROVE  ApplyInv'
  <2>1. pc[p] \in Holding /\ \A r \in Proc \ {p} : pc'[r] = pc[r]
    BY <1>5 DEF RepoInv, TypeOK, Holding, Writing, PublishContent, Goto
  <2>2. ApplyAt(p)'
    <3>1. want \in Doc /\ want.loc \in Loc
      BY <1>5, DocFacts DEF RepoInv, ApplyInv, ApplyAt, PublishContent, Goto
    <3>2. files'[want.loc] = want.hash /\ pc'[p] = "catalogs" /\ pc[p] = "content"
      BY <1>5, <3>1 DEF RepoInv, TypeOK, PublishContent, Goto
    <3>3. UNCHANGED <<want, old, due, catalogs, req, victim>>
      BY <1>5 DEF PublishContent, apply
    <3>4. victim = {} /\ \A c \in Span : c \in due \/ catalogs[c][req[p].item] = Entry(c)
      BY <3>2 DEF RepoInv, ApplyInv, ApplyAt
    <3>5. QED
      BY <3>1, <3>2, <3>3, <3>4 DEF ApplyAt, Published, Span, Entry, Listed, CatalogsOf
  <2>3. QED
    BY <2>1, <2>2, OthersIdle DEF ApplyInv
<1>6. ASSUME NEW p \in Proc, NEW c \in Index, WriteCatalog(p, c)
      PROVE  ApplyInv'
  <2>1. pc[p] \in Holding /\ \A r \in Proc \ {p} : pc'[r] = pc[r]
    BY <1>6 DEF RepoInv, TypeOK, Holding, Writing, WriteCatalog
  <2>2. ApplyAt(p)'
    <3>1. pc[p] = "catalogs" /\ UNCHANGED <<pc, want, old, req, files, victim>>
      BY <1>6 DEF WriteCatalog
    <3>2. want \in Doc /\ files[want.loc] = want.hash /\ req[p].item \in Item /\ victim = {}
      BY <3>1, RequestType DEF RepoInv, TypeOK, ApplyInv, ApplyAt
    <3>3. ASSUME NEW k \in Span PROVE k \in due' \/ catalogs'[k][req[p].item] = Entry(k)
      <4>1. k \in Index /\ (k \in due \/ catalogs[k][req[p].item] = Entry(k))
        BY <3>1, SpanType DEF RepoInv, ApplyInv, ApplyAt
      <4>2. CASE k = c
        <5>1. catalogs'[c] = Merged(c, req[p].item, want)
          BY <1>6 DEF RepoInv, TypeOK, WriteCatalog
        <5>2. QED
          BY <4>2, <5>1, <3>2, MergedType DEF RepoInv, Entry
      <4>3. CASE k # c
        BY <1>6, <4>1, <4>3 DEF RepoInv, TypeOK, WriteCatalog
      <4>4. QED
        BY <4>2, <4>3
    <3>4. QED
      BY <3>1, <3>2, <3>3 DEF ApplyAt, Published, Span, Entry, Listed, CatalogsOf
  <2>3. QED
    BY <2>1, <2>2, OthersIdle DEF ApplyInv
<1>7. ASSUME NEW p \in Proc, WritePkginfo(p)
      PROVE  ApplyInv'
  <2>1. pc[p] \in Holding /\ \A r \in Proc \ {p} : pc'[r] = pc[r]
    BY <1>7 DEF RepoInv, TypeOK, Holding, Writing, WritePkginfo, Goto
  <2>2. ApplyAt(p)'
    <3>1. pc[p] = "catalogs" /\ due = {} /\ pc'[p] = "pruning" /\ UNCHANGED <<want, old, req, files, catalogs, victim>>
      BY <1>7 DEF RepoInv, TypeOK, WritePkginfo, Goto
    <3>2. want \in Doc /\ files[want.loc] = want.hash /\ req[p].item \in Item
      BY <3>1, RequestType DEF RepoInv, TypeOK, ApplyInv, ApplyAt
    <3>3. \A c \in Span : catalogs[c][req[p].item] = Entry(c)
      BY <3>1 DEF RepoInv, ApplyInv, ApplyAt
    <3>4. info'[req[p].item] = want /\ req[p].item \notin victims'
      BY <1>7, <3>2 DEF RepoInv, TypeOK, WritePkginfo, BeyondKeep, Others
    <3>5. victim = {}
      BY <3>1 DEF RepoInv, ApplyInv, ApplyAt
    <3>6. QED
      BY <3>1, <3>2, <3>3, <3>4, <3>5 DEF ApplyAt, Published, Span, Entry, Listed, CatalogsOf
  <2>3. QED
    BY <2>1, <2>2, OthersIdle DEF ApplyInv
<1>8. ASSUME NEW p \in Proc, NEW i \in Item, PruneKeep(p, i)
      PROVE  ApplyInv'
  <2>1. pc[p] \in Holding /\ \A r \in Proc \ {p} : pc'[r] = pc[r]
    BY <1>8 DEF RepoInv, TypeOK, Holding, Writing, PruneKeep
  <2>2. ApplyAt(p)'
    BY <1>8 DEF RepoInv, TypeOK, ApplyInv, ApplyAt, Published, Span, Entry, Listed, CatalogsOf, PruneKeep, repo
  <2>3. QED
    BY <2>1, <2>2, OthersIdle DEF ApplyInv
<1>9. ASSUME NEW p \in Proc, NEW i \in Item, PruneBegin(p, i)
      PROVE  ApplyInv'
  <2>1. pc[p] \in Holding /\ \A r \in Proc \ {p} : pc'[r] = pc[r]
    BY <1>9 DEF RepoInv, TypeOK, Holding, Writing, PruneBegin, Goto
  <2>2. ApplyAt(p)'
    BY <1>9 DEF RepoInv, TypeOK, ApplyInv, ApplyAt, Published, Span, Entry, Listed, CatalogsOf, PruneBegin, NextVictim, Goto, repo
  <2>3. QED
    BY <2>1, <2>2, OthersIdle DEF ApplyInv
<1>10. ASSUME NEW p \in Proc, NEW i \in Item, NEW c \in Index, PruneCatalog(p, i, c)
      PROVE  ApplyInv'
  <2>1. pc[p] \in Holding /\ \A r \in Proc \ {p} : pc'[r] = pc[r]
    BY <1>10 DEF RepoInv, TypeOK, Holding, Writing, PruneCatalog
  <2>2. ApplyAt(p)'
    <3>1. pc[p] = "unlisting" /\ victim = {i} /\ UNCHANGED <<pc, want, old, req, files, info, victims, victim>>
      BY <1>10 DEF PruneCatalog
    <3>2. req[p].item # i /\ req[p].item \in Item
      BY <3>1, RequestType DEF RepoInv, TypeOK, ApplyInv, ApplyAt, Published
    <3>3. ASSUME NEW k \in Span PROVE catalogs'[k][req[p].item] = catalogs[k][req[p].item]
      <4>1. k \in Index
        BY SpanType DEF RepoInv
      <4>2. catalogs'[c] = Merged(c, i, NoDoc)
        BY <1>10 DEF RepoInv, TypeOK, PruneCatalog
      <4>3. k # c => catalogs'[k] = catalogs[k]
        BY <1>10, <4>1 DEF RepoInv, TypeOK, PruneCatalog
      <4>4. Merged(c, i, NoDoc)[req[p].item] = catalogs[c][req[p].item]
        BY <3>2, MergedType DEF RepoInv
      <4>5. QED
        BY <4>2, <4>3, <4>4
    <3>4. QED
      BY <3>1, <3>3 DEF RepoInv, ApplyInv, ApplyAt, Published, Span, Entry, Listed, CatalogsOf
  <2>3. QED
    BY <2>1, <2>2, OthersIdle DEF ApplyInv
<1>11. ASSUME NEW p \in Proc, NEW i \in Item, PrunePkginfo(p, i)
      PROVE  ApplyInv'
  <2>1. pc[p] \in Holding /\ \A r \in Proc \ {p} : pc'[r] = pc[r]
    BY <1>11 DEF RepoInv, TypeOK, Holding, Writing, PrunePkginfo, Goto
  <2>2. ApplyAt(p)'
    <3>1. pc[p] = "unlisting" /\ pc'[p] = "releasing" /\ victim = {i}
      BY <1>11 DEF RepoInv, TypeOK, PrunePkginfo, Goto
    <3>2. UNCHANGED <<want, old, req, files, catalogs, victims, victim>>
      BY <1>11 DEF PrunePkginfo, apply
    <3>3. req[p].item # i /\ req[p].item \in Item
      BY <3>1, RequestType DEF RepoInv, TypeOK, ApplyInv, ApplyAt, Published
    <3>4. info'[req[p].item] = info[req[p].item]
      BY <1>11, <3>3 DEF RepoInv, TypeOK, PrunePkginfo
    <3>5. QED
      BY <3>1, <3>2, <3>4 DEF RepoInv, ApplyInv, ApplyAt, Published, Span, Entry, Listed, CatalogsOf
  <2>3. QED
    BY <2>1, <2>2, OthersIdle DEF ApplyInv
<1>12. ASSUME NEW p \in Proc, PruneInstaller(p)
      PROVE  ApplyInv'
  <2>1. pc[p] \in Holding /\ \A r \in Proc \ {p} : pc'[r] = pc[r]
    BY <1>12 DEF RepoInv, TypeOK, Holding, Writing, PruneInstaller, Goto
  <2>2. ApplyAt(p)'
    <3>1. pc[p] = "releasing" /\ pc'[p] = "pruning" /\ victim' = {}
      BY <1>12 DEF RepoInv, TypeOK, PruneInstaller, Goto
    <3>2. UNCHANGED <<want, old, req, info, catalogs, victims>>
      BY <1>12 DEF PruneInstaller
    <3>3. want \in Doc /\ info[req[p].item] = want /\ req[p].item \in Item
      BY <3>1, RequestType DEF RepoInv, TypeOK, ApplyInv, ApplyAt, Published
    <3>4. files'[want.loc] = files[want.loc]
      BY <1>12, <3>3, DocFacts DEF RepoInv, TypeOK, PruneInstaller, Referenced
    <3>5. QED
      BY <3>1, <3>2, <3>4 DEF RepoInv, ApplyInv, ApplyAt, Published, Span, Entry, Listed, CatalogsOf
  <2>3. QED
    BY <2>1, <2>2, OthersIdle DEF ApplyInv
<1>13. ASSUME NEW p \in Proc, Finish(p)
      PROVE  ApplyInv'
  <2>1. pc[p] \in Holding /\ \A r \in Proc \ {p} : pc'[r] = pc[r]
    BY <1>13 DEF RepoInv, TypeOK, Holding, Writing, Finish, Goto
  <2>2. ApplyAt(p)'
    BY <1>13 DEF RepoInv, TypeOK, ApplyAt, Published, Finish, Goto
  <2>3. QED
    BY <2>1, <2>2, OthersIdle DEF ApplyInv
<1>14. ASSUME NEW p \in Proc, Interrupt(p)
      PROVE  ApplyInv'
  <2>1. ASSUME NEW r \in Proc PROVE ApplyAt(r)'
    BY <1>14 DEF RepoInv, TypeOK, ApplyInv, ApplyAt, Alone, Span, Entry, Published, Interrupt, repo, apply
  <2>2. QED
    BY <2>1 DEF ApplyInv
<1>15. ASSUME NEW i \in Item, Pin(i)
      PROVE  ApplyInv'
  BY <1>15, FreeIdle DEF ApplyInv, Pin, Edits
<1>16. ASSUME NEW f \in Family, PinName(f)
      PROVE  ApplyInv'
  BY <1>16, FreeIdle DEF ApplyInv, PinName, Edits
<1>17. ASSUME NEW i \in Item, NEW d \in Doc, Import(i, d)
      PROVE  ApplyInv'
  BY <1>17, FreeIdle DEF ApplyInv, Import, Edits
<1>18. CASE UNCHANGED vars
  BY <1>18 DEF RepoInv, ApplyInv, ApplyAt, Alone, Span, Entry, Listed, CatalogsOf, Published, vars, repo, refs, apply
<1>19. QED
  BY <1>1, <1>2, <1>3, <1>4, <1>5, <1>6, <1>7, <1>8, <1>9, <1>10, <1>11, <1>12, <1>13, <1>14, <1>15, <1>16, <1>17, <1>18 DEF Next, Step, Admin

\* The empty repository satisfies the invariant.
LEMMA InvInit ==
    Init => RepoInv
<1> SUFFICES ASSUME Init PROVE RepoInv
  OBVIOUS
<1>1. TypeOK
  BY ConstantsAssumption DEF Init, TypeOK, Writing, Index
<1>2. LockInv
  BY DEF Init, LockInv, Holding, Writing
<1>3. Documented /\ InstallersAvailable
  BY DEF Init, Documented, InstallersAvailable, Index
<1>4. ApplyInv
  BY DEF Init, ApplyInv, ApplyAt, Published
<1>5. QED
  BY <1>1, <1>2, <1>3, <1>4 DEF RepoInv

\* The invariant is inductive.
LEMMA InvStep ==
    RepoInv /\ [Next]_vars => RepoInv'
<1>1. RepoInv => TypeOK /\ LockInv
  BY DEF RepoInv
<1>2. QED
  BY <1>1, TypeStep, LockStep, DocumentedStep, AvailableStep, ApplyStep DEF RepoInv

\* The invariant holds in every state of every behaviour of the repository.
LEMMA Invariant ==
    Spec => []RepoInv
BY InvInit, InvStep, PTL DEF Spec

\* Every variable keeps its type, whatever is published, interrupted or edited
\* (munkirepo/munki.go:211).
THEOREM TypeCorrect ==
    Spec => []TypeOK
<1>1. RepoInv => TypeOK
  BY DEF RepoInv
<1>2. QED
  BY <1>1, Invariant, PTL

\* No catalog ever names an installer that is not there (munkirepo/munki.go:426,
\* retention.go:56): at every moment, and so for every client, across any number
\* of interrupted applies, retries, prunes and imports.
THEOREM InstallersSafe ==
    Spec => []InstallersAvailable
<1>1. RepoInv => InstallersAvailable
  BY DEF RepoInv
<1>2. QED
  BY <1>1, Invariant, PTL

\* When an apply reaches retention its document, its bytes and its entry in
\* every catalog it was in or is in agree (munkirepo/munki.go:426-464), and
\* pruning other items keeps it so.
THEOREM PublishedSafe ==
    Spec => []PublishedWhole
<1>1. RepoInv => PublishedWhole
  BY DEF RepoInv, ApplyInv, ApplyAt, PublishedWhole, Span, Entry
<1>2. QED
  BY <1>1, Invariant, PTL

\* The bytes a document installs change only while that item itself is applied
\* (munkirepo/munki.go:364, retention.go:56).
THEOREM SharedBytesSafe ==
    Spec => SharedBytesKept
<1> DEFINE Kept ==
      \A i \in Item :
          info[i] # NoDoc /\ files[info[i].loc] # 0 /\ files'[info[i].loc] # files[info[i].loc]
              => \E p \in lock : req[p].item = i
<1>1. RepoInv /\ [Next]_vars => [Kept]_vars
  <2> SUFFICES ASSUME RepoInv, Next PROVE Kept
    BY DEF vars
  <2> SUFFICES ASSUME NEW i \in Item, info[i] # NoDoc, files[info[i].loc] # 0,
                      files'[info[i].loc] # files[info[i].loc]
               PROVE  \E p \in lock : req[p].item = i
    OBVIOUS
  <2>1. info[i].loc \in Loc
    BY DocFacts DEF RepoInv, TypeOK
  <2>2. ASSUME NEW p \in Proc, PublishContent(p)
        PROVE  \E r \in lock : req[r].item = i
    <3>1. pc[p] = "content" /\ p \in lock
      BY <2>2 DEF RepoInv, LockInv, Holding, Writing, PublishContent, Goto
    <3>2. info[i].loc = want.loc
      BY <2>1, <2>2 DEF RepoInv, TypeOK, PublishContent
    <3>3. req[p].item = i
      BY <3>1, <3>2 DEF RepoInv, ApplyInv, ApplyAt, Alone
    <3>4. QED
      BY <3>1, <3>3
  <2>3. ASSUME NEW p \in Proc, PruneInstaller(p)
        PROVE  FALSE
    BY <2>1, <2>3 DEF RepoInv, TypeOK, PruneInstaller, Referenced
  <2>4. ASSUME NEW j \in Item, NEW d \in Doc, Import(j, d)
        PROVE  FALSE
    BY <2>1, <2>4 DEF RepoInv, TypeOK, Import
  <2>5. CASE files' = files
    BY <2>5
  <2>6. \/ files' = files
        \/ \E p \in Proc : PublishContent(p) \/ PruneInstaller(p)
        \/ \E j \in Item, d \in Doc : Import(j, d)
    BY DEF Next, Step, Admin, Start, Acquire, Refuse, Decide, WriteCatalog, WritePkginfo, PruneKeep,
           PruneBegin, PruneCatalog, PrunePkginfo, Finish, Interrupt, Pin, PinName, repo
  <2>7. QED
    BY <2>2, <2>3, <2>4, <2>5, <2>6
<1>2. QED
  BY <1>1, Invariant, PTL DEF Spec, SharedBytesKept

(***************************************************************************)
(* Retention.  The holder judges all candidates at once, then removes them  *)
(* newest first: those it has not removed yet keep enough newer ones.       *)
(***************************************************************************)
\* The other versions of the item that p publishes, and those its policy gives up.
Rest(p) == Others(req[p].item)
Beyond(p, v) ==
    /\ v \in Rest(p) /\ req[p].keep # 0
    /\ Cardinality(Newer(v, Rest(p))) >= req[p].keep - 1

\* Candidates are beyond what is kept; the one being removed is newer than those
\* still waiting, and no reference protects it.
RetireAt(p) ==
    pc[p] \in Published =>
        /\ \A v \in victims : Beyond(p, v)
        /\ pc[p] = "unlisting" =>
               \A v \in victim : Beyond(p, v) /\ ~Protected(v, want) /\ \A w \in victims : w[2] < v[2]
RetireInv == \A p \in Proc : RetireAt(p)

\* An item is its family and its version.
LEMMA ItemPairs ==
    ASSUME NEW i \in Item
    PROVE  i = <<i[1], i[2]>> /\ i[2] \in Nat
<1>1. PICK f \in Family, n \in Version : i = <<f, n>>
  BY DEF Item
<1>2. QED
  BY <1>1, ConstantsAssumption

\* A repository holds finitely many documents.
Stocked == {i \in Item : info[i] # NoDoc}
Finite == IsFiniteSet(Stocked)

\* One step changes one document.
LEMMA InfoChanges ==
    ASSUME TypeOK, [Next]_vars
    PROVE  info' = info \/ \E i \in Item : \A j \in Item \ {i} : info'[j] = info[j]
<1> DEFINE Changed == info' = info \/ \E i \in Item : \A j \in Item \ {i} : info'[j] = info[j]
<1>1. ASSUME NEW p \in Proc, WritePkginfo(p) PROVE Changed
  <2>1. req[p].item \in Item
    BY RequestType DEF TypeOK
  <2>2. QED
    BY <1>1, <2>1 DEF TypeOK, WritePkginfo
<1>2. ASSUME NEW p \in Proc, NEW i \in Item, PrunePkginfo(p, i) PROVE Changed
  BY <1>2 DEF TypeOK, PrunePkginfo
<1>3. ASSUME NEW i \in Item, NEW d \in Doc, Import(i, d) PROVE Changed
  BY <1>3 DEF TypeOK, Import
<1>4. CASE info' = info
  BY <1>4
<1>5. \/ info' = info
      \/ \E p \in Proc : WritePkginfo(p) \/ \E i \in Item : PrunePkginfo(p, i)
      \/ \E i \in Item, d \in Doc : Import(i, d)
  BY DEF Next, Step, Admin, Start, Acquire, Refuse, Decide, PublishContent, WriteCatalog, PruneKeep,
         PruneBegin, PruneCatalog, PruneInstaller, Finish, Interrupt, Pin, PinName, repo, vars
<1>6. QED
  BY <1>1, <1>2, <1>3, <1>5

\* And so the documents stay finitely many.
LEMMA FiniteStep ==
    TypeOK /\ Finite /\ [Next]_vars => Finite'
<1> SUFFICES ASSUME TypeOK, Finite, [Next]_vars PROVE Finite'
  OBVIOUS
<1>1. CASE info' = info
  <2>1. Stocked' = Stocked
    BY <1>1 DEF Stocked
  <2>2. QED
    BY <2>1 DEF Finite
<1>2. ASSUME NEW i \in Item, \A j \in Item \ {i} : info'[j] = info[j] PROVE Finite'
  <2>1. Stocked' \subseteq Stocked \cup {i}
    BY <1>2 DEF Stocked
  <2>2. IsFiniteSet(Stocked \cup {i})
    BY FS_AddElement DEF Finite
  <2>3. QED
    BY <2>1, <2>2, FS_Subset DEF Finite
<1>3. QED
  BY <1>1, <1>2, InfoChanges

\* What stays newer than a candidate counts for those older than it.
LEMMA NewerKept ==
    ASSUME Finite, NEW p \in Proc, NEW v, NEW T \in SUBSET Item, NEW w, NEW k \in Int,
           T \subseteq Rest(p), Newer(v, Rest(p)) \subseteq Newer(w, T),
           Cardinality(Newer(v, Rest(p))) >= k
    PROVE  Cardinality(Newer(w, T)) >= k
<1>1. Newer(w, T) \subseteq Stocked
  BY DEF Rest, Others, Newer, Stocked
<1>2. IsFiniteSet(Newer(w, T))
  BY <1>1, FS_Subset DEF Finite
<1>3. Cardinality(Newer(v, Rest(p))) <= Cardinality(Newer(w, T)) /\ IsFiniteSet(Newer(v, Rest(p)))
  BY <1>2, FS_Subset
<1>4. Cardinality(Newer(v, Rest(p))) \in Nat /\ Cardinality(Newer(w, T)) \in Nat
  BY <1>2, <1>3, FS_CardinalityType
<1>5. QED
  BY <1>3, <1>4

\* A step that changes no document and no request leaves who is beyond.
LEMMA SameBeyond ==
    ASSUME UNCHANGED <<info, req>>, NEW p \in Proc
    PROVE  \A v : Beyond(p, v)' <=> Beyond(p, v)
<1>1. Rest(p)' = Rest(p)
  BY DEF Rest, Others
<1>2. QED
  BY <1>1 DEF Beyond

\* An apply that another step does not concern keeps what it judged.
LEMMA RetireFrame ==
    ASSUME UNCHANGED <<info, req, victims, victim, want, pins, names>>, NEW p \in Proc, RetireAt(p),
           pc'[p] \in Published => pc'[p] = pc[p]
    PROVE  RetireAt(p)'
<1>1. \A v : Beyond(p, v)' <=> Beyond(p, v)
  BY SameBeyond
<1>2. \A v : Protected(v, want)' <=> Protected(v, want)
  BY DEF Protected
<1>3. QED
  BY <1>1, <1>2 DEF RetireAt

\* Every step keeps what the holder judged about the items it retires.
LEMMA RetireStep ==
    RepoInv /\ Finite /\ RetireInv /\ [Next]_vars => RetireInv'
<1> SUFFICES ASSUME RepoInv, Finite, RetireInv, [Next]_vars PROVE RetireInv'
  OBVIOUS
<1> TypeOK /\ LockInv /\ ApplyInv
  BY DEF RepoInv
<1>a. \A p \in Proc : RetireAt(p) /\ req[p] \in Request /\ req[p].item \in Item /\ req[p].keep \in Nat
  BY RequestType DEF TypeOK, RetireInv
\* Who does not hold the lock judges nothing.
<1>b. ASSUME NEW p \in Proc, pc[p] \in Holding, NEW r \in Proc \ {p}, pc'[r] = pc[r] PROVE RetireAt(r)'
  BY <1>b DEF LockInv, RetireAt, Published, Holding, Writing
<1>c. ASSUME lock = {}, NEW r \in Proc, pc'[r] = pc[r] PROVE RetireAt(r)'
  BY <1>c DEF LockInv, RetireAt, Published, Holding, Writing
<1>1. ASSUME NEW p \in Proc, NEW q \in Request, Start(p, q) PROVE RetireInv'
  <2>1. ASSUME NEW r \in Proc PROVE RetireAt(r)'
    <3>1. CASE r = p
      BY <1>1, <3>1 DEF TypeOK, Start, Goto, RetireAt, Published
    <3>2. CASE r # p
      <4>1. req'[r] = req[r] /\ pc'[r] = pc[r] /\ UNCHANGED <<info, victims, victim, want, pins, names>>
        BY <1>1, <3>2 DEF TypeOK, Start, Goto, repo, refs, apply
      <4>2. Rest(r)' = Rest(r)
        BY <4>1 DEF Rest, Others
      <4>3. \A v : (Beyond(r, v)' <=> Beyond(r, v)) /\ (Protected(v, want)' <=> Protected(v, want))
        BY <4>1, <4>2 DEF Beyond, Protected
      <4>4. QED
        BY <1>a, <4>1, <4>3 DEF RetireAt
    <3>3. QED
      BY <3>1, <3>2
  <2>2. QED
    BY <2>1 DEF RetireInv
<1>2. ASSUME NEW p \in Proc, Acquire(p) \/ Refuse(p) \/ Finish(p) \/ Interrupt(p) PROVE RetireInv'
  <2>1. /\ UNCHANGED <<info, req, victims, victim, want, pins, names>>
        /\ \A r \in Proc : pc'[r] \in Published => pc'[r] = pc[r]
    BY <1>2 DEF TypeOK, Acquire, Refuse, Finish, Interrupt, Goto, repo, refs, apply, Published
  <2>2. QED
    BY <1>a, <2>1, RetireFrame DEF RetireInv
<1>3. ASSUME NEW p \in Proc, Decide(p) \/ PublishContent(p) PROVE RetireInv'
  <2>1. pc[p] \in Holding /\ pc'[p] \notin Published /\ \A r \in Proc \ {p} : pc'[r] = pc[r]
    BY <1>3 DEF TypeOK, Decide, PublishContent, Goto, Holding, Writing, Published
  <2>2. RetireAt(p)'
    BY <2>1 DEF RetireAt
  <2>3. QED
    BY <1>b, <2>1, <2>2 DEF RetireInv
<1>4. ASSUME NEW p \in Proc, NEW c \in Index, WriteCatalog(p, c) \/ \E i \in Item : PruneCatalog(p, i, c) PROVE RetireInv'
  <2>1. UNCHANGED <<info, req, victims, victim, want, pins, names, pc>>
    BY <1>4 DEF WriteCatalog, PruneCatalog, refs
  <2>2. QED
    BY <1>a, <2>1, RetireFrame DEF RetireInv
<1>5. ASSUME NEW p \in Proc, WritePkginfo(p) PROVE RetireInv'
  <2>1. /\ pc[p] = "catalogs" /\ pc'[p] = "pruning" /\ \A r \in Proc \ {p} : pc'[r] = pc[r]
        /\ req' = req /\ victims' = BeyondKeep(req[p].item, req[p].keep)
        /\ info' = [info EXCEPT ![req[p].item] = want]
    BY <1>5 DEF TypeOK, WritePkginfo, Goto
  <2>2. Rest(p)' = Rest(p)
    BY <1>a, <2>1 DEF Rest, Others, TypeOK
  <2>3. \A v \in victims' : Beyond(p, v)'
    BY <2>1, <2>2 DEF Beyond, BeyondKeep, Rest
  <2>4. RetireAt(p)'
    BY <2>1, <2>3 DEF RetireAt
  <2>5. pc[p] \in Holding
    BY <2>1 DEF Holding, Writing
  <2>6. QED
    BY <1>b, <2>1, <2>4, <2>5 DEF RetireInv
<1>6. ASSUME NEW p \in Proc, NEW i \in Item, PruneKeep(p, i) PROVE RetireInv'
  <2>1. UNCHANGED <<info, req, victim, want, pins, names, pc>> /\ victims' = victims \ {i} /\ pc[p] = "pruning"
    BY <1>6 DEF PruneKeep, repo, refs
  <2>2. \A v : Beyond(p, v)' <=> Beyond(p, v)
    BY <2>1, SameBeyond
  <2>3. RetireAt(p)'
    BY <1>a, <2>1, <2>2 DEF RetireAt
  <2>4. pc[p] \in Holding
    BY <2>1 DEF Holding, Writing
  <2>5. QED
    BY <1>b, <2>1, <2>3, <2>4 DEF RetireInv
<1>7. ASSUME NEW p \in Proc, NEW i \in Item, PruneBegin(p, i) PROVE RetireInv'
  <2>1. /\ UNCHANGED <<info, req, want, pins, names>>
        /\ victims' = victims \ {i} /\ victim' = {i} /\ NextVictim(i) /\ ~Protected(i, want)
        /\ pc[p] = "pruning" /\ pc'[p] = "unlisting" /\ \A r \in Proc \ {p} : pc'[r] = pc[r]
    BY <1>7 DEF TypeOK, PruneBegin, Goto, repo, refs
  <2>2. \A v : Beyond(p, v)' <=> Beyond(p, v)
    BY <2>1, SameBeyond
  <2>3. \A v \in victims : Beyond(p, v) /\ v \in Item /\ v[1] = req[p].item[1]
    BY <1>a, <2>1 DEF RetireAt, Published, Beyond, Rest, Others
  <2>4. ASSUME NEW w \in victims \ {i} PROVE w[2] < i[2]
    <3>1. i \in victims /\ w \notin Newer(i, victims)
      BY <2>1 DEF NextVictim
    <3>2. ~(w[2] > i[2])
      BY <3>1 DEF Newer
    <3>3. w \in Item /\ i \in Item /\ w[1] = i[1] /\ w # i
      BY <2>3, <3>1
    <3>4. w[2] \in Nat /\ i[2] \in Nat /\ w[2] # i[2]
      BY <3>3, ItemPairs
    <3>5. QED
      BY <3>2, <3>4
  <2>5. ~Protected(i, want)'
    BY <2>1 DEF Protected
  <2>6. Beyond(p, i)
    BY <2>1, <2>3 DEF NextVictim
  <2>7. RetireAt(p)'
    BY <2>1, <2>2, <2>3, <2>4, <2>5, <2>6 DEF RetireAt
  <2>8. pc[p] \in Holding
    BY <2>1 DEF Holding, Writing
  <2>9. QED
    BY <1>b, <2>1, <2>7, <2>8 DEF RetireInv
<1>8. ASSUME NEW p \in Proc, NEW i \in Item, PrunePkginfo(p, i) PROVE RetireInv'
  <2>1. /\ UNCHANGED <<req, victims>> /\ victim = {i} /\ info' = [info EXCEPT ![i] = NoDoc]
        /\ pc[p] = "unlisting" /\ pc'[p] = "releasing" /\ \A r \in Proc \ {p} : pc'[r] = pc[r]
    BY <1>8 DEF TypeOK, PrunePkginfo, Goto, apply
  <2>2. Beyond(p, i) /\ \A w \in victims : w[2] < i[2] /\ Beyond(p, w) /\ w \in Item
    BY <1>a, <2>1 DEF RetireAt, Published, TypeOK
  <2>3. Rest(p)' = Rest(p) \ {i}
    BY <1>a, <2>1 DEF Rest, Others, TypeOK
  <2>4. ASSUME NEW w \in victims PROVE Beyond(p, w)'
    <3>0. w[2] < i[2] /\ w[2] \in Nat /\ i[2] \in Nat
      BY <2>2, ItemPairs
    <3>1. w # i /\ w \in Rest(p)' /\ req[p].keep - 1 \in Int
      BY <1>a, <2>2, <2>3, <3>0 DEF Beyond
    <3>2. Newer(i, Rest(p)) \subseteq Newer(w, Rest(p) \ {i})
      <4>1. ASSUME NEW j \in Rest(p), j[2] > i[2] PROVE j # i /\ j[2] > w[2]
        <5>1. j \in Item /\ w[2] < i[2] /\ w \in Item
          BY <2>2 DEF Rest, Others
        <5>2. j[2] \in Nat /\ i[2] \in Nat /\ w[2] \in Nat
          BY <5>1, ItemPairs
        <5>3. QED
          BY <4>1, <5>1, <5>2
      <4>2. QED
        BY <4>1 DEF Newer
    <3>3. Rest(p) \ {i} \in SUBSET Item /\ Cardinality(Newer(i, Rest(p))) >= req[p].keep - 1
      BY <2>2 DEF Rest, Others, Beyond
    <3>4. Cardinality(Newer(w, Rest(p) \ {i})) >= req[p].keep - 1
      BY <3>1, <3>2, <3>3, NewerKept
    <3>5. QED
      BY <2>1, <2>2, <2>3, <3>1, <3>4 DEF Beyond
  <2>5. RetireAt(p)'
    BY <2>1, <2>4 DEF RetireAt
  <2>6. pc[p] \in Holding
    BY <2>1 DEF Holding, Writing
  <2>7. QED
    BY <1>b, <2>1, <2>5, <2>6 DEF RetireInv
<1>9. ASSUME NEW p \in Proc, PruneInstaller(p) PROVE RetireInv'
  <2>1. /\ UNCHANGED <<info, req, victims>>
        /\ pc[p] = "releasing" /\ pc'[p] = "pruning" /\ \A r \in Proc \ {p} : pc'[r] = pc[r]
    BY <1>9 DEF TypeOK, PruneInstaller, Goto
  <2>2. \A v : Beyond(p, v)' <=> Beyond(p, v)
    BY <2>1, SameBeyond
  <2>3. RetireAt(p)'
    BY <1>a, <2>1, <2>2 DEF RetireAt, Published
  <2>4. pc[p] \in Holding
    BY <2>1 DEF Holding, Writing
  <2>5. QED
    BY <1>b, <2>1, <2>3, <2>4 DEF RetireInv
<1>10. CASE Admin
  <2>1. lock = {} /\ pc' = pc
    BY <1>10 DEF Admin, Pin, PinName, Import, Edits
  <2>2. QED
    BY <1>c, <2>1 DEF RetireInv
<1>11. CASE UNCHANGED vars
  <2>1. UNCHANGED <<info, req, victims, victim, want, pins, names, pc>>
    BY <1>11 DEF vars, repo, refs, apply
  <2>2. QED
    BY <1>a, <2>1, RetireFrame DEF RetireInv
<1>12. QED
  BY <1>1, <1>2, <1>3, <1>4, <1>5, <1>6, <1>7, <1>8, <1>9, <1>10, <1>11 DEF Next, Step

\* retention.go:19, 94: across interruptions, retries and edits by administrators,
\* an item goes only when retention was asked for, nothing refers to it, and keep-1
\* newer ones and the current item stay, however many went before it.
THEOREM RetentionSafe ==
    Spec => [][RetiresSound]_vars
<1> DEFINE Inv == RepoInv /\ Finite /\ RetireInv
<1>1. Init => Finite /\ RetireInv
  <2> SUFFICES ASSUME Init PROVE Finite /\ RetireInv
    OBVIOUS
  <2>1. Stocked = {}
    BY DEF Init, Stocked
  <2>2. QED
    BY <2>1, FS_EmptySet DEF Init, Finite, RetireInv, RetireAt, Published
<1>2. RepoInv /\ Finite /\ RetireInv /\ [Next]_vars => Finite' /\ RetireInv'
  BY FiniteStep, RetireStep DEF RepoInv
<1>3. RepoInv /\ Finite /\ RetireInv /\ [Next]_vars => [RetiresSound]_vars
  <2> SUFFICES ASSUME RepoInv, RetireInv, Next, NEW i \in Item, info[i] # NoDoc, info'[i] = NoDoc
               PROVE  /\ i \notin pins
                      /\ \E p \in lock : LET current == req[p].item IN
                          /\ current # i /\ info[current] # NoDoc /\ req[p].keep # 0
                          /\ i[1] \in names => info[i].cats = info[current].cats
                          /\ Cardinality(Newer(i, Others(current))) >= req[p].keep - 1
    BY DEF RetiresSound, vars
  <2>1. PICK p \in Proc : PrunePkginfo(p, i)
    <3>1. ASSUME NEW p \in Proc, WritePkginfo(p) PROVE FALSE
      <4>1. want \in Doc /\ info' = [info EXCEPT ![req[p].item] = want]
        BY <3>1 DEF RepoInv, ApplyInv, ApplyAt, WritePkginfo, Goto
      <4>2. QED
        BY <4>1, DocFacts DEF RepoInv, TypeOK
    <3>2. ASSUME NEW j \in Item, NEW d \in Doc, Import(j, d) PROVE FALSE
      BY <3>2, DocFacts DEF RepoInv, TypeOK, Import
    <3>3. ASSUME NEW p \in Proc, NEW j \in Item, PrunePkginfo(p, j) PROVE j = i
      BY <3>3 DEF RepoInv, TypeOK, PrunePkginfo
    <3>4. \/ info' = info
          \/ \E p \in Proc : WritePkginfo(p) \/ \E j \in Item : PrunePkginfo(p, j)
          \/ \E j \in Item, d \in Doc : Import(j, d)
      BY DEF Next, Step, Admin, Start, Acquire, Refuse, Decide, PublishContent, WriteCatalog, PruneKeep,
             PruneBegin, PruneCatalog, PruneInstaller, Finish, Interrupt, Pin, PinName, repo
    <3>5. QED
      BY <3>1, <3>2, <3>3, <3>4
  <2>2. pc[p] = "unlisting" /\ victim = {i}
    BY <2>1 DEF PrunePkginfo, Goto
  <2>3. p \in lock /\ want \in Doc /\ info[req[p].item] = want /\ req[p].item # i
    BY <2>2 DEF RepoInv, LockInv, Holding, Writing, ApplyInv, ApplyAt, Published
  <2>4. Beyond(p, i) /\ ~Protected(i, want)
    BY <2>2 DEF RetireInv, RetireAt, Published
  <2>5. i \notin pins /\ (i[1] \in names => info[i].cats = info[req[p].item].cats)
    BY <2>3, <2>4 DEF Protected
  <2>6. info[req[p].item] # NoDoc /\ req[p].keep # 0 /\ Cardinality(Newer(i, Others(req[p].item))) >= req[p].keep - 1
    BY <2>3, <2>4, DocFacts DEF Beyond, Rest
  <2>7. QED
    BY <2>3, <2>5, <2>6
<1>4. QED
  BY <1>1, <1>2, <1>3, Invariant, PTL DEF Spec

=============================================================================
