------------------------- MODULE PreparationProofs -------------------------
(***************************************************************************)
(* Preparation with a cache implements preparation without one.  What it      *)
(* prepares from, the files of a tree, the code of plugins and the documents    *)
(* of the lock, follows in the second, third and fourth parts: TreeReads,      *)
(* Plugins and LockDocuments, instantiated.                                 *)
(***************************************************************************)
EXTENDS Preparation, Integers, SequenceTheorems, TLAPS

\* Requests with one fingerprint have one outcome: they differ in metadata alone.
LEMMA KeyDecides ==
    ASSUME NEW r \in Request, NEW s \in Request, KeyOf(r) = KeyOf(s)
    PROVE  Outcome[r] = Outcome[s]
<1>1. s = [r EXCEPT !.metadata = s.metadata]
  BY DEF Request, KeyOf
<1>2. s.metadata \in Metadata
  BY DEF Request
<1> QED BY <1>1, <1>2, MetadataAssumption

\* A fingerprint is a key of the index.
LEMMA KeyType == ASSUME NEW r \in Request PROVE KeyOf(r) \in Key
BY DEF KeyOf, Key, Request

\* The type invariant, whether commands derive or not.
Typed ==
    /\ TypeOK
    /\ \A p \in Proc : (pc[p] = "remember" => made[p] \in Output) /\ (pc[p] = "verify" => made[p] # Nothing)

\* What a run has in hand, and what the cache holds, is the outcome of the request.
Honest(p) ==
    /\ ~derive[p]
    /\ pc[p] \in {"verify", "remember"} /\ intact[p] => made[p] = Outcome[req[p]]
    /\ pc[p] = "remember" => intact[p] /\ made[p] \in Output
    /\ pc[p] \notin {"verify", "remember"} => intact[p]
CacheTruthful ==
    \A k \in Key : cached[k] # Nothing => \A r \in Request : KeyOf(r) = k => cached[k] = Outcome[r]
CacheInv == Typed /\ CacheTruthful /\ \A p \in Proc : Honest(p)

\* Ending a command keeps the types it touches.
LEMMA FinishType ==
    ASSUME TypeOK, NEW p \in Proc, NEW from, NEW answer \in Output \cup {"refused", "failed"},
           Finish(p, from, answer)
    PROVE  /\ pc' \in [Proc -> {"idle", "recall", "run", "verify", "remember"}]
           /\ req' \in [Proc -> Request \cup {Nothing}] /\ \A q \in Proc : req'[q] = Nothing <=> pc'[q] = "idle"
           /\ derive' \in [Proc -> BOOLEAN] /\ intact' \in [Proc -> BOOLEAN]
           /\ made' \in [Proc -> Output \cup {Nothing, "refused"}] /\ runs' \in 0..MaxRuns
           /\ result' \in [Proc -> Output \cup {Nothing, "refused", "failed"}]
           /\ pc'[p] = "idle" /\ \A q \in Proc \ {p} : pc'[q] = pc[q] /\ made'[q] = made[q]
BY DEF TypeOK, Finish, Goto

\* The type invariant holds at first.
LEMMA InitTyped == Init => Typed
BY ConstantsAssumption DEF Init, Typed, TypeOK

\* Every step preserves the type invariant.
LEMMA NextTyped == Typed /\ [Next]_vars => Typed'
<1> SUFFICES ASSUME Typed, [Next]_vars PROVE Typed' OBVIOUS
<1> USE DEF Typed
<1>0. CASE UNCHANGED vars BY <1>0 DEF vars, TypeOK
<1>1. ASSUME NEW p \in Proc, NEW r \in Request, NEW d \in BOOLEAN, Start(p, r, d) PROVE Typed'
  BY <1>1, ConstantsAssumption DEF Start, Goto, TypeOK
<1>2. ASSUME NEW p \in Proc, Recall(p) PROVE Typed'
  <2>1. req[p] \in Request BY <1>2 DEF Recall, TypeOK
  <2>2. KeyOf(req[p]) \in Key BY <2>1, KeyType
  <2>3. cached[KeyOf(req[p])] # Nothing BY <1>2 DEF Recall, Complete
  <2>4. cached[KeyOf(req[p])] \in Output BY <2>2, <2>3 DEF TypeOK
  <2> QED BY <1>2, <2>4, FinishType DEF Recall, TypeOK
<1>3. ASSUME NEW p \in Proc, Miss(p) PROVE Typed'
  BY <1>3 DEF Miss, Goto, TypeOK
<1>4. ASSUME NEW p \in Proc, Operate(p) PROVE Typed'
  <2>1. req[p] \in Request BY <1>4 DEF Operate, Goto, TypeOK
  <2>2. Outcome[req[p]] \in Output \cup {"refused"} /\ Observation[req[p]] \in Output
    BY <2>1, ConstantsAssumption
  <2>3. /\ made' \in [Proc -> Output \cup {Nothing, "refused"}] /\ intact' \in [Proc -> BOOLEAN]
        /\ made'[p] # Nothing
    <3>1. CASE UNCHANGED intact /\ made' = [made EXCEPT ![p] = IF derive[p] THEN Observation[req[p]] ELSE Outcome[req[p]]]
      BY <3>1, <2>2, ConstantsAssumption DEF TypeOK
    <3>2. CASE intact' = [intact EXCEPT ![p] = FALSE] /\ \E o \in Output : made' = [made EXCEPT ![p] = o]
      BY <3>2, ConstantsAssumption DEF TypeOK
    <3> QED BY <1>4, <3>1, <3>2 DEF Operate
  <2>4. pc' = [pc EXCEPT ![p] = "verify"] /\ \A q \in Proc \ {p} : made'[q] = made[q]
    BY <1>4 DEF Operate, Goto, TypeOK
  <2>5. pc[p] = "run" BY <1>4 DEF Operate, Goto
  <2>6. UNCHANGED <<cached, payloads, req, derive, result, derived, tainted, runs>> BY <1>4 DEF Operate
  <2> QED BY <2>3, <2>4, <2>5, <2>6 DEF TypeOK
<1>5. ASSUME NEW p \in Proc, Modified(p) PROVE Typed'
  BY <1>5, FinishType DEF Modified, TypeOK
<1>6. ASSUME NEW p \in Proc, Refuse(p) PROVE Typed'
  BY <1>6, FinishType DEF Refuse, TypeOK
<1>7. ASSUME NEW p \in Proc, Import(p) PROVE Typed'
  BY <1>7, ConstantsAssumption DEF Import, Goto, TypeOK
<1>8. ASSUME NEW p \in Proc, Remember(p) PROVE Typed'
  <2>1. req[p] \in Request /\ made[p] \in Output BY <1>8 DEF Remember, TypeOK
  <2>2. KeyOf(req[p]) \in Key BY <2>1, KeyType
  <2> QED BY <1>8, <2>1, <2>2, FinishType DEF Remember, TypeOK
<1>9. ASSUME NEW p \in Proc, Interrupt(p) PROVE Typed'
  BY <1>9, FinishType DEF Interrupt, TypeOK
<1>10. ASSUME NEW o \in Output, Collect(o) PROVE Typed'
  BY <1>10 DEF Collect, TypeOK
<1> QED BY <1>0, <1>1, <1>2, <1>3, <1>4, <1>5, <1>6, <1>7, <1>8, <1>9, <1>10 DEF Next, Step

\* Every variable keeps its type, and exactly the idle processes have no request,
\* for any number of processes, requests and outputs.
THEOREM TypeCorrect == Spec => []TypeOK
<1>1. Typed => TypeOK BY DEF Typed
<1> QED BY <1>1, InitTyped, NextTyped, PTL DEF Spec

\* The cache is empty at first, hence truthful.
LEMMA InitHonest == ~Derives /\ Init => CacheInv
BY InitTyped, ConstantsAssumption DEF Init, Typed, CacheInv, CacheTruthful, Honest

\* A command that ends leaves no request and nothing made.
LEMMA FinishHonest ==
    ASSUME CacheInv, NEW p \in Proc, NEW from, NEW answer, Finish(p, from, answer)
    PROVE  \A q \in Proc : Honest(q)'
BY DEF CacheInv, Typed, TypeOK, Honest, Finish, Goto

\* Every step keeps the cache truthful and what processes made honest.
LEMMA NextHonest == ~Derives /\ CacheInv /\ [Next]_vars => CacheInv'
<1> SUFFICES ASSUME ~Derives, CacheInv, [Next]_vars PROVE CacheInv' OBVIOUS
<1>t. Typed /\ TypeOK BY DEF CacheInv, Typed
<1>u. Typed' BY <1>t, NextTyped
<1>0. CASE UNCHANGED vars BY <1>0, <1>u DEF vars, CacheInv, CacheTruthful, Honest
<1>1. ASSUME NEW p \in Proc, NEW r \in Request, NEW d \in BOOLEAN, Start(p, r, d) PROVE CacheInv'
  BY <1>1, <1>u, <1>t DEF Start, Goto, TypeOK, CacheInv, CacheTruthful, Honest
<1>2. ASSUME NEW p \in Proc, Recall(p) PROVE CacheInv'
  BY <1>2, <1>u, FinishHonest DEF Recall, CacheInv, CacheTruthful
<1>3. ASSUME NEW p \in Proc, Miss(p) PROVE CacheInv'
  BY <1>3, <1>u, <1>t DEF Miss, Goto, TypeOK, CacheInv, CacheTruthful, Honest
<1>4. ASSUME NEW p \in Proc, Operate(p) PROVE CacheInv'
  <2>1. ASSUME NEW q \in Proc PROVE Honest(q)'
    <3>1. CASE q = p
      BY <3>1, <1>4, <1>t DEF Operate, Goto, TypeOK, CacheInv, Honest
    <3>2. CASE q # p
      BY <3>2, <1>4, <1>t DEF Operate, Goto, TypeOK, CacheInv, Honest
    <3> QED BY <3>1, <3>2
  <2> QED BY <2>1, <1>4, <1>u DEF Operate, CacheInv, CacheTruthful
<1>5. ASSUME NEW p \in Proc, Modified(p) PROVE CacheInv'
  BY <1>5, <1>u, FinishHonest DEF Modified, CacheInv, CacheTruthful
<1>6. ASSUME NEW p \in Proc, Refuse(p) PROVE CacheInv'
  BY <1>6, <1>u, FinishHonest DEF Refuse, CacheInv, CacheTruthful
<1>7. ASSUME NEW p \in Proc, Import(p) PROVE CacheInv'
  <2>1. ASSUME NEW q \in Proc PROVE Honest(q)'
    <3>1. Outcome[req[p]] \in Output \cup {"refused"}
      BY <1>7, <1>t, ConstantsAssumption DEF Import, Goto, TypeOK
    <3> QED BY <3>1, <1>7, <1>t DEF Import, Verified, Goto, TypeOK, CacheInv, Honest
  <2> QED BY <2>1, <1>7, <1>u DEF Import, CacheInv, CacheTruthful
<1>8. ASSUME NEW p \in Proc, Remember(p) PROVE CacheInv'
  <2>1. req[p] \in Request /\ made[p] = Outcome[req[p]] BY <1>8, <1>t DEF Remember, TypeOK, CacheInv, Honest
  <2>2. KeyOf(req[p]) \in Key BY <2>1, KeyType
  <2>3. cached' = [cached EXCEPT ![KeyOf(req[p])] = made[p]] BY <1>8 DEF Remember
  <2>4. CacheTruthful'
    <3> SUFFICES ASSUME NEW k \in Key, cached'[k] # Nothing, NEW r \in Request, KeyOf(r) = k
                 PROVE  cached'[k] = Outcome[r]
      BY DEF CacheTruthful
    <3>1. CASE k = KeyOf(req[p]) BY <3>1, <2>1, <2>3, <1>t, KeyDecides DEF TypeOK
    <3>2. CASE k # KeyOf(req[p]) BY <3>2, <2>3, <1>t DEF TypeOK, CacheInv, CacheTruthful
    <3> QED BY <3>1, <3>2
  <2> QED BY <2>4, <1>8, <1>u, FinishHonest DEF Remember, CacheInv
<1>9. ASSUME NEW p \in Proc, Interrupt(p) PROVE CacheInv'
  BY <1>9, <1>u, FinishHonest DEF Interrupt, CacheInv, CacheTruthful
<1>10. ASSUME NEW o \in Output, Collect(o) PROVE CacheInv'
  BY <1>10, <1>u DEF Collect, CacheInv, CacheTruthful, Honest
<1> QED BY <1>0, <1>1, <1>2, <1>3, <1>4, <1>5, <1>6, <1>7, <1>8, <1>9, <1>10 DEF Next, Step

\* The refinement, step by step: every command that ends is given the outcome of its
\* own request or fails, and everything in between is invisible.
LEMMA StepImplements == ~Derives /\ CacheInv /\ [Next]_vars => [Promise!Next]_(Promise!vars)
<1> SUFFICES ASSUME ~Derives, CacheInv, [Next]_vars PROVE [Promise!Next]_(Promise!vars) OBVIOUS
<1>t. TypeOK BY DEF CacheInv, Typed
<1>0. CASE UNCHANGED vars BY <1>0 DEF vars, Promise!vars
<1>1. ASSUME NEW p \in Proc, NEW r \in Request, NEW d \in BOOLEAN, Start(p, r, d) PROVE Promise!Next
  BY <1>1, <1>t DEF Start, Goto, TypeOK, Promise!Next, Promise!Ask
<1>2. ASSUME NEW p \in Proc, Recall(p) PROVE Promise!Next
  <2>1. req[p] \in Request BY <1>2, <1>t DEF Recall, TypeOK
  <2>2. cached[KeyOf(req[p])] = Outcome[req[p]]
    BY <1>2, <2>1, KeyType DEF Recall, Complete, CacheInv, CacheTruthful
  <2>3. Promise!Answer(p)
    BY <1>2, <2>1, <2>2, ConstantsAssumption DEF Recall, Finish, Promise!Answer, Promise!Answered
  <2> QED BY <2>3 DEF Promise!Next
<1>3. ASSUME NEW p \in Proc, Miss(p) \/ Operate(p) \/ Import(p) PROVE UNCHANGED Promise!vars
  BY <1>3 DEF Miss, Operate, Import, Promise!vars
<1>4. ASSUME NEW p \in Proc, Modified(p) \/ Interrupt(p) PROVE Promise!Next
  <2>1. req[p] # Nothing BY <1>4, <1>t DEF Modified, Interrupt, TypeOK
  <2> QED BY <1>4, <2>1 DEF Modified, Interrupt, Finish, Promise!Next, Promise!Fail, Promise!Answered
<1>5. ASSUME NEW p \in Proc, Refuse(p) PROVE Promise!Next
  <2>1. req[p] # Nothing /\ Outcome[req[p]] = "refused"
    BY <1>5, <1>t DEF Refuse, Verified, TypeOK, CacheInv, Honest
  <2>2. Promise!Answer(p) BY <1>5, <2>1 DEF Refuse, Finish, Promise!Answer, Promise!Answered
  <2> QED BY <2>2 DEF Promise!Next
<1>6. ASSUME NEW p \in Proc, Remember(p) PROVE Promise!Next
  <2>1. req[p] # Nothing /\ Outcome[req[p]] = made[p]
    BY <1>6, <1>t DEF Remember, TypeOK, CacheInv, Honest
  <2>2. Promise!Answer(p) BY <1>6, <2>1 DEF Remember, Finish, Promise!Answer, Promise!Answered
  <2> QED BY <2>2 DEF Promise!Next
<1>7. ASSUME NEW o \in Output, Collect(o) PROVE UNCHANGED Promise!vars
  BY <1>7 DEF Collect, Promise!vars
<1> QED BY <1>0, <1>1, <1>2, <1>3, <1>4, <1>5, <1>6, <1>7 DEF Next, Step

\* "reuses cached outputs" (resources.go:337): as long as no command derives
\* signatures, no command can tell the shared cache, its collector and whatever
\* interrupts others from running the operation for every request.
THEOREM CacheTransparent == ~Derives => (Spec => Uncached)
<1> SUFFICES ASSUME ~Derives PROVE Spec => Uncached OBVIOUS
<1>1. Init => CacheInv BY InitHonest
<1>2. CacheInv /\ [Next]_vars => CacheInv' BY NextHonest
<1>3. Init => Promise!Init BY DEF Init, Promise!Init
<1>4. CacheInv /\ [Next]_vars => [Promise!Next]_(Promise!vars) BY StepImplements
<1> QED BY <1>1, <1>2, <1>3, <1>4, PTL DEF Spec, Uncached, Promise!Spec

(***************************************************************************)
(* TreeReads: a file is read while others edit its tree.                     *)
(***************************************************************************)
CONSTANT MaxEdits
VARIABLES top, entry, dirs, files, readPc, seen, handle, open, read, named, edits
Reads == INSTANCE TreeReads WITH pc <- readPc

\* The steps of a read from one on.
FromCloseEntry == {"closeEntry", "closeDir", "closeDirHeld", "closeRoot"}
FromMore == {"more", "closeHeld"} \cup FromCloseEntry
FromEntry == {"fileEntry", "read"} \cup FromMore
FromHeld == {"fileHeld"} \cup FromEntry
FromOpen == {"open"} \cup FromHeld
FromFile == {"file"} \cup FromOpen
DirHeld == {"dirEntry", "dirHeld"} \cup FromFile
\* Of a tree and of a read, with what d/f named so far.
ReadTyped ==
    /\ top \in Nat /\ entry \in [kind : Reads!Kind, at : Reads!Object]
    /\ dirs \in [Reads!Object -> [version : Nat, f : [kind : Reads!Kind, at : Reads!Object]]]
    /\ files \in [Reads!Object -> Nat]
    /\ readPc \in {"root", "dir", "hold"} \cup DirHeld \cup {"done", "failed"}
    /\ DOMAIN seen = {"root", "d", "f"}
    /\ Reads!Named(entry, dirs, files) \subseteq named

\* Until the root has changed, d is the directory whose version was observed; until that
\* has changed, f in it is the file that was.
DirObserved ==
    /\ readPc \in {"dir", "hold"} \cup DirHeld \cup {"done"} => seen.root \in Nat /\ top >= seen.root
    /\ readPc \in {"hold"} \cup DirHeld \cup {"done"} =>
        /\ seen.d \in Reads!Object \X Nat /\ dirs[seen.d[1]].version >= seen.d[2]
        /\ top = seen.root => entry = [kind |-> "plain", at |-> seen.d[1]]
DirOpened ==
    /\ readPc \in DirHeld \cup {"done"} => handle \in Reads!Object
    /\ readPc \in FromFile \cup {"done"} => handle = seen.d[1]
FileObserved ==
    /\ readPc \in FromOpen \cup {"done"} =>
        /\ seen.f \in Reads!Object \X Nat /\ files[seen.f[1]] >= seen.f[2]
        /\ dirs[handle].version = seen.d[2] => dirs[handle].f = [kind |-> "plain", at |-> seen.f[1]]
    /\ readPc \in FromHeld \cup {"done"} => open \in Reads!Object
    /\ readPc \in FromEntry \cup {"done"} => open = seen.f[1]
\* What was read has versions between the observed one and the file's.
Piece(x) == x \in Reads!Object \X Nat /\ x[1] = open /\ seen.f[2] <= x[2] /\ x[2] <= files[open]
PiecesRead ==
    /\ read \in Seq(Reads!Object \X Nat)
    /\ readPc \notin FromMore \cup {"done", "failed"} => read = <<>>
    /\ readPc = "more" => Len(read) = 1 /\ Piece(read[1])
    /\ readPc = "closeHeld" => Len(read) = 2 /\ Piece(read[1]) /\ Piece(read[2])
\* The checks of Close turn what was observed into what was there.
Closing ==
    /\ readPc \in FromCloseEntry \cup {"done"} => read[1] = seen.f /\ read[2] = seen.f
    /\ readPc \in {"closeEntry", "closeDir", "closeDirHeld"} =>
        (dirs[handle].version = seen.d[2] /\ top = seen.root => seen.f \in named)
    /\ readPc = "closeRoot" => (top = seen.root => seen.f \in named)
    /\ readPc = "done" => seen.f \in named
ReadInv == ReadTyped /\ DirObserved /\ DirOpened /\ FileObserved /\ PiecesRead /\ Closing

\* A pair is its two components.
LEMMA PairOf == ASSUME NEW S, NEW T, NEW x \in S \X T PROVE x = <<x[1], x[2]>>
OBVIOUS

\* A read that has not begun.
LEMMA ReadInit == Reads!Init => ReadInv
<1> SUFFICES ASSUME Reads!Init PROVE ReadInv OBVIOUS
<1> USE DEF Reads!Init
<1>1. ReadTyped BY DEF ReadTyped, Reads!Kind, Reads!Object
<1>2. DirObserved /\ DirOpened /\ FileObserved /\ PiecesRead /\ Closing
  BY DEF DirObserved, DirOpened, FileObserved, PiecesRead, Closing, FromCloseEntry, FromMore, FromEntry, FromHeld, FromOpen, FromFile, DirHeld
<1> QED BY <1>1, <1>2 DEF ReadInv

\* An edit moves versions forward, so that nothing observed comes back.
LEMMA EditForward ==
    ASSUME ReadTyped, Reads!Edit
    PROVE  /\ ReadTyped'
           /\ top' >= top /\ (top' = top => entry' = entry)
           /\ \A k \in Reads!Object : /\ dirs'[k].version >= dirs[k].version /\ files'[k] >= files[k]
                                      /\ dirs'[k].version = dirs[k].version => dirs'[k] = dirs[k]
           /\ named \subseteq named' /\ UNCHANGED <<readPc, seen, handle, open, read>> /\ readPc \notin {"done", "failed"}
<1> USE DEF ReadTyped, Reads!Object
<1>1. CASE \E j \in Reads!Object : files' = [files EXCEPT ![j] = @ + 1] /\ UNCHANGED <<top, entry, dirs>>
  BY <1>1 DEF Reads!Edit
<1>2. CASE \E k, j \in Reads!Object, x \in Reads!Kind :
            /\ dirs' = [dirs EXCEPT ![k] = [version |-> @.version + 1, f |-> [kind |-> x, at |-> j]]]
            /\ UNCHANGED <<top, entry, files>>
  BY <1>2 DEF Reads!Edit
<1>3. CASE \E k \in Reads!Object, x \in Reads!Kind :
            /\ top' = top + 1 /\ entry' = [kind |-> x, at |-> k] /\ UNCHANGED <<dirs, files>>
  BY <1>3 DEF Reads!Edit
<1> QED BY <1>1, <1>2, <1>3 DEF Reads!Edit

\* Whatever others edit, what the read relies on still holds.
LEMMA EditKeeps == ASSUME ReadInv, Reads!Edit PROVE ReadInv'
<1>1. ReadTyped /\ DirObserved /\ DirOpened /\ FileObserved /\ PiecesRead /\ Closing BY DEF ReadInv
<1>2. /\ ReadTyped'
      /\ top' >= top /\ (top' = top => entry' = entry)
      /\ \A k \in Reads!Object : /\ dirs'[k].version >= dirs[k].version /\ files'[k] >= files[k]
                                 /\ dirs'[k].version = dirs[k].version => dirs'[k] = dirs[k]
      /\ named \subseteq named' /\ UNCHANGED <<readPc, seen, handle, open, read>> /\ readPc \notin {"done", "failed"}
  BY <1>1, EditForward
<1>3. /\ top \in Nat /\ top' \in Nat
      /\ \A k \in Reads!Object : /\ dirs[k].version \in Nat /\ dirs'[k].version \in Nat /\ files[k] \in Nat /\ files'[k] \in Nat
  BY <1>1, <1>2 DEF ReadTyped
<1>4. DirObserved'
  <2>0. readPc \in {"dir", "hold"} \cup DirHeld => seen.root \in Nat /\ top' >= seen.root
    BY <1>1, <1>2, <1>3 DEF DirObserved
  <2> SUFFICES ASSUME readPc \in {"hold"} \cup DirHeld
      PROVE /\ seen.d \in Reads!Object \X Nat /\ dirs'[seen.d[1]].version >= seen.d[2]
            /\ top' = seen.root => entry' = [kind |-> "plain", at |-> seen.d[1]]
    BY <1>2, <2>0 DEF DirObserved
  <2>1. /\ seen.root \in Nat /\ top >= seen.root
        /\ seen.d \in Reads!Object \X Nat /\ dirs[seen.d[1]].version >= seen.d[2]
        /\ top = seen.root => entry = [kind |-> "plain", at |-> seen.d[1]]
    BY <1>1 DEF DirObserved
  <2>2. seen.d[1] \in Reads!Object /\ seen.d[2] \in Nat BY <2>1
  <2> QED BY <1>2, <1>3, <2>1, <2>2
<1>5. DirOpened' BY <1>1, <1>2 DEF DirOpened
<1>6. FileObserved'
  <2>1. ASSUME readPc \in FromOpen
        PROVE  /\ seen.f \in Reads!Object \X Nat /\ files'[seen.f[1]] >= seen.f[2]
               /\ dirs'[handle].version = seen.d[2] => dirs'[handle].f = [kind |-> "plain", at |-> seen.f[1]]
    <3>1. /\ seen.f \in Reads!Object \X Nat /\ files[seen.f[1]] >= seen.f[2]
          /\ dirs[handle].version = seen.d[2] => dirs[handle].f = [kind |-> "plain", at |-> seen.f[1]]
          /\ handle \in Reads!Object /\ handle = seen.d[1]
          /\ seen.d \in Reads!Object \X Nat /\ dirs[seen.d[1]].version >= seen.d[2]
      BY <1>1, <2>1 DEF FileObserved, DirOpened, DirObserved, DirHeld, FromFile
    <3>2. seen.f[1] \in Reads!Object /\ seen.f[2] \in Nat /\ seen.d[2] \in Nat BY <3>1
    <3> QED BY <1>2, <1>3, <3>1, <3>2
  <2> QED BY <1>1, <1>2, <2>1 DEF FileObserved
<1>7. PiecesRead'
  <2>1. ASSUME NEW x, Piece(x), readPc \in FromHeld PROVE Piece(x)'
    <3>1. open \in Reads!Object /\ x \in Reads!Object \X Nat /\ x[2] <= files[open] BY <1>1, <2>1 DEF FileObserved, Piece
    <3>2. x[2] \in Nat BY <3>1
    <3> QED BY <1>2, <1>3, <2>1, <3>1, <3>2 DEF Piece
  <2> QED BY <1>1, <1>2, <2>1 DEF PiecesRead, FromHeld, FromEntry, FromMore
<1>8. Closing'
  <2>1. ASSUME readPc \in FromCloseEntry PROVE /\ dirs'[handle].version = seen.d[2] => dirs[handle].version = seen.d[2]
                                               /\ top' = seen.root => top = seen.root
    <3>1. /\ handle \in Reads!Object /\ handle = seen.d[1] /\ seen.root \in Nat /\ top >= seen.root
          /\ seen.d \in Reads!Object \X Nat /\ dirs[seen.d[1]].version >= seen.d[2]
      BY <1>1, <2>1 DEF DirOpened, DirObserved, FromCloseEntry, FromMore, FromEntry, FromHeld, FromOpen, FromFile, DirHeld
    <3>2. seen.d[2] \in Nat BY <3>1
    <3> QED BY <1>2, <1>3, <3>1, <3>2
  <2> QED BY <1>1, <1>2, <2>1 DEF Closing, FromCloseEntry
<1> QED BY <1>2, <1>4, <1>5, <1>6, <1>7, <1>8 DEF ReadInv

\* Every system call leaves what the next ones rely on.
LEMMA ReadStep == ReadInv /\ [Reads!Next]_(Reads!vars) => ReadInv'
<1> SUFFICES ASSUME ReadInv, [Reads!Next]_(Reads!vars) PROVE ReadInv' OBVIOUS
<1>t. ReadTyped /\ DirObserved /\ DirOpened /\ FileObserved /\ PiecesRead /\ Closing BY DEF ReadInv
<1> USE DEF FromCloseEntry, FromMore, FromEntry, FromHeld, FromOpen, FromFile, DirHeld
<1> USE DEF Reads!Goto, Reads!reading, Reads!outside
<1>0. CASE UNCHANGED Reads!vars
  BY <1>0, <1>t DEF Reads!vars, ReadInv, ReadTyped, DirObserved, DirOpened, FileObserved, PiecesRead, Piece, Closing
<1>1. CASE Reads!StatRoot
  <2>1. UNCHANGED <<top, entry, dirs, files, named, handle, open, read>> /\ readPc = "root" /\ readPc' = "dir"
        /\ seen'.root = top /\ DOMAIN seen' = {"root", "d", "f"}
    BY <1>1, <1>t DEF Reads!StatRoot, ReadTyped
  <2>2. ReadTyped' /\ DirObserved'
    BY <2>1, <1>t DEF ReadTyped, DirObserved
  <2> QED BY <2>1, <2>2, <1>t DEF ReadInv, DirOpened, FileObserved, PiecesRead, Closing
<1>2. CASE Reads!StatDir
  <2>1. UNCHANGED <<top, entry, dirs, files, named, handle, open, read>> /\ readPc = "dir" /\ seen' = [seen EXCEPT !.d = Reads!DirEntry]
    BY <1>2 DEF Reads!StatDir
  <2>2. CASE entry.kind = "plain"
    <3>1. readPc' = "hold" BY <1>2, <2>2 DEF Reads!StatDir
    <3>2. seen'.d = <<entry.at, dirs[entry.at].version>> /\ seen'.root = seen.root
      BY <2>1, <2>2, <1>t DEF Reads!DirEntry, ReadTyped
    <3>3. entry.at \in Reads!Object /\ dirs[entry.at].version \in Nat /\ entry = [kind |-> "plain", at |-> entry.at]
      BY <2>2, <1>t DEF ReadTyped
    <3>4. DirObserved'
      BY <2>1, <3>1, <3>2, <3>3, <1>t DEF DirObserved, ReadTyped
    <3> QED BY <2>1, <3>1, <3>4, <1>t DEF ReadInv, ReadTyped, DirOpened, FileObserved, PiecesRead, Closing
  <2>3. CASE entry.kind # "plain"
    <3>1. readPc' = "failed" BY <1>2, <2>3 DEF Reads!StatDir
    <3> QED BY <2>1, <3>1, <1>t DEF ReadInv, ReadTyped, DirObserved, DirOpened, FileObserved, PiecesRead, Closing
  <2> QED BY <2>2, <2>3
<1>3. CASE Reads!HoldDir
  BY <1>3, <1>t DEF Reads!HoldDir, ReadInv, ReadTyped, DirObserved, DirOpened, FileObserved, PiecesRead, Closing
<1>4. CASE Reads!StatFile
  <2>1. /\ UNCHANGED <<top, entry, dirs, files, named, handle, open, read>> /\ readPc = "file" /\ readPc' \in {"open", "failed"}
        /\ seen'.root = seen.root /\ seen'.d = seen.d /\ seen'.f = Reads!FileEntry /\ DOMAIN seen' = {"root", "d", "f"}
        /\ readPc' = "open" => dirs[handle].f.kind = "plain"
    BY <1>4, <1>t DEF Reads!StatFile, ReadTyped
  <2>2. handle \in Reads!Object /\ handle = seen.d[1] BY <2>1, <1>t DEF DirOpened
  <2>3. ReadTyped' BY <2>1, <1>t DEF ReadTyped
  <2>4. DirObserved' /\ DirOpened' BY <2>1, <2>2, <1>t DEF DirObserved, DirOpened
  <2>5. ASSUME readPc' = "open"
        PROVE  /\ seen'.f \in Reads!Object \X Nat /\ files[seen'.f[1]] >= seen'.f[2]
               /\ dirs[handle].f = [kind |-> "plain", at |-> seen'.f[1]]
    <3>1. seen'.f = <<dirs[handle].f.at, files[dirs[handle].f.at]>> BY <2>1, <2>5 DEF Reads!FileEntry
    <3>2. dirs[handle].f \in [kind : Reads!Kind, at : Reads!Object] /\ dirs[handle].f.kind = "plain"
      BY <2>1, <2>2, <2>5, <1>t DEF ReadTyped
    <3>3. dirs[handle].f.at \in Reads!Object /\ files[dirs[handle].f.at] \in Nat BY <3>2, <1>t DEF ReadTyped
    <3> QED BY <3>1, <3>2, <3>3
  <2>6. FileObserved' BY <2>1, <2>5, <1>t DEF FileObserved
  <2>7. PiecesRead' /\ Closing' BY <2>1, <1>t DEF PiecesRead, Closing
  <2> QED BY <2>3, <2>4, <2>6, <2>7 DEF ReadInv
<1>5. CASE Reads!OpenFile
  BY <1>5, <1>t DEF Reads!OpenFile, ReadInv, ReadTyped, DirObserved, DirOpened, FileObserved, PiecesRead, Closing
<1>6. CASE Reads!Read
  <2>1. UNCHANGED <<top, entry, dirs, files, named, handle, open, seen>> /\ readPc \in {"read", "more"}
        /\ readPc' = (IF readPc = "read" THEN "more" ELSE "closeHeld") /\ read' = Append(read, Reads!HeldFile)
    BY <1>6 DEF Reads!Read
  <2>2. open \in Reads!Object /\ seen.f \in Reads!Object \X Nat /\ open = seen.f[1] /\ files[open] >= seen.f[2]
    BY <2>1, <1>t DEF FileObserved
  <2>3. files[open] \in Nat BY <2>2, <1>t DEF ReadTyped
  <2>4. Reads!HeldFile \in Reads!Object \X Nat /\ Piece(Reads!HeldFile)
    BY <2>2, <2>3 DEF Piece, Reads!HeldFile
  <2>5. /\ read \in Seq(Reads!Object \X Nat) /\ read' \in Seq(Reads!Object \X Nat) /\ Len(read') = Len(read) + 1
        /\ read'[Len(read) + 1] = Reads!HeldFile /\ \A i \in 1..Len(read) : read'[i] = read[i]
    BY <2>1, <2>4, <1>t, AppendProperties DEF PiecesRead
  <2>6. \A x : Piece(x) => Piece(x)' BY <2>1 DEF Piece
  <2>7. PiecesRead'
    <3>1. CASE readPc = "read"
      <4>1. Len(read) = 0 BY <3>1, <1>t DEF PiecesRead
      <4> QED BY <2>1, <2>4, <2>5, <3>1, <4>1 DEF PiecesRead, Piece
    <3>2. CASE readPc = "more"
      <4>1. Len(read) = 1 /\ Piece(read[1]) BY <3>2, <1>t DEF PiecesRead
      <4> QED BY <2>1, <2>4, <2>5, <3>2, <4>1 DEF PiecesRead, Piece
    <3> QED BY <2>1, <3>1, <3>2
  <2> QED BY <2>1, <2>7, <1>t DEF ReadInv, ReadTyped, DirObserved, DirOpened, FileObserved, Closing
<1>7. CASE Reads!Checks
  <2>1. CASE Reads!Check("dirEntry", Reads!DirEntry, seen.d, "dirHeld")
    BY <2>1, <1>t DEF Reads!Check, Reads!Same, Reads!Held, Reads!HeldFile, ReadInv, ReadTyped, DirObserved, DirOpened,
         FileObserved, PiecesRead, Piece, Closing
  <2>2. CASE Reads!Check("dirHeld", Reads!Held, seen.d, "file")
    BY <2>2, <1>t DEF Reads!Check, Reads!Same, Reads!Held, Reads!HeldFile, ReadInv, ReadTyped, DirObserved, DirOpened,
         FileObserved, PiecesRead, Piece, Closing
  <2>3. CASE Reads!Check("fileHeld", Reads!HeldFile, seen.f, "fileEntry")
    BY <2>3, <1>t DEF Reads!Check, Reads!Same, Reads!Held, Reads!HeldFile, ReadInv, ReadTyped, DirObserved, DirOpened,
         FileObserved, PiecesRead, Piece, Closing
  <2>4. CASE Reads!Check("fileEntry", Reads!FileEntry, seen.f, "read")
    BY <2>4, <1>t DEF Reads!Check, Reads!Same, Reads!Held, Reads!HeldFile, ReadInv, ReadTyped, DirObserved, DirOpened,
         FileObserved, PiecesRead, Piece, Closing
  <2> QED BY <1>7, <2>1, <2>2, <2>3, <2>4 DEF Reads!Checks
<1>8. CASE Reads!Close
  <2>1. CASE Reads!Check("closeHeld", Reads!HeldFile, seen.f, "closeEntry")
    <3>1. /\ UNCHANGED <<top, entry, dirs, files, named, handle, open, seen, read>> /\ readPc = "closeHeld" /\ readPc' \in {"closeEntry", "failed"}
          /\ readPc' = "closeEntry" => <<open, files[open]>> = seen.f
      BY <2>1 DEF Reads!Check, Reads!Same, Reads!HeldFile
    <3>2. /\ Piece(read[1]) /\ Piece(read[2])
          /\ handle = seen.d[1] /\ handle \in Reads!Object /\ open = seen.f[1] /\ open \in Reads!Object
          /\ dirs[handle].version = seen.d[2] => dirs[handle].f = [kind |-> "plain", at |-> open]
          /\ top = seen.root => entry = [kind |-> "plain", at |-> handle]
      <4>1. Piece(read[1]) /\ Piece(read[2]) BY <3>1, <1>t DEF PiecesRead
      <4>2. handle = seen.d[1] /\ handle \in Reads!Object BY <3>1, <1>t DEF DirOpened
      <4>3. open = seen.f[1] /\ open \in Reads!Object /\ (dirs[handle].version = seen.d[2] => dirs[handle].f = [kind |-> "plain", at |-> seen.f[1]])
        BY <3>1, <1>t DEF FileObserved
      <4>4. top = seen.root => entry = [kind |-> "plain", at |-> seen.d[1]] BY <3>1, <1>t DEF DirObserved
      <4> QED BY <4>1, <4>2, <4>3, <4>4
    <3>3. ASSUME readPc' = "closeEntry", NEW x, Piece(x) PROVE x = seen.f
      <4>1. seen.f = <<open, files[open]>> BY <3>1, <3>3
      <4>3. seen.f[2] = files[open] BY <4>1
      <4>2. x = <<x[1], x[2]>> /\ x[1] = open /\ x[2] \in Nat /\ x[2] <= files[open] /\ files[open] <= x[2] /\ files[open] \in Nat
        BY <3>2, <3>3, <4>3, PairOf, <1>t DEF Piece, ReadTyped
      <4> QED BY <4>1, <4>2
    <3>4. ASSUME readPc' = "closeEntry", dirs[handle].version = seen.d[2], top = seen.root PROVE seen.f \in named
      <4>1. Reads!Named(entry, dirs, files) = {<<open, files[open]>>} BY <3>2, <3>4 DEF Reads!Named
      <4> QED BY <3>1, <3>4, <4>1, <1>t DEF ReadTyped
    <3>5. Closing' BY <3>1, <3>2, <3>3, <3>4, <1>t DEF Closing, FromCloseEntry
    <3> QED BY <3>1, <3>5, <1>t DEF ReadInv, ReadTyped, DirObserved, DirOpened, FileObserved, PiecesRead
  <2>2. CASE Reads!Check("closeEntry", Reads!FileEntry, seen.f, "closeDir")
    BY <2>2, <1>t DEF Reads!Check, Reads!Same, Reads!Held, Reads!HeldFile, ReadInv, ReadTyped, DirObserved, DirOpened,
         FileObserved, PiecesRead, Piece, Closing
  <2>3. CASE Reads!Check("closeDir", Reads!DirEntry, seen.d, "closeDirHeld")
    BY <2>3, <1>t DEF Reads!Check, Reads!Same, Reads!Held, Reads!HeldFile, ReadInv, ReadTyped, DirObserved, DirOpened,
         FileObserved, PiecesRead, Piece, Closing
  <2>4. CASE Reads!Check("closeDirHeld", Reads!Held, seen.d, "closeRoot")
    BY <2>4, <1>t DEF Reads!Check, Reads!Same, Reads!Held, Reads!HeldFile, ReadInv, ReadTyped, DirObserved, DirOpened,
         FileObserved, PiecesRead, Piece, Closing
  <2>5. CASE Reads!Check("closeRoot", <<top>>, <<seen.root>>, "done")
    BY <2>5, <1>t DEF Reads!Check, Reads!Same, Reads!Held, Reads!HeldFile, ReadInv, ReadTyped, DirObserved, DirOpened,
         FileObserved, PiecesRead, Piece, Closing
  <2> QED BY <1>8, <2>1, <2>2, <2>3, <2>4, <2>5 DEF Reads!Close
<1>9. CASE Reads!Edit BY <1>9, EditKeeps
<1> QED BY <1>0, <1>1, <1>2, <1>3, <1>4, <1>5, <1>6, <1>7, <1>8, <1>9 DEF Reads!Next

\* tree.go:131: whatever others do between any two system calls, a read that closes
\* without an error returned one version of the file that d/f named meanwhile.
THEOREM ReadsAreConsistent == Reads!Spec => []Reads!ReadsOneMoment
<1>1. ReadInv => Reads!ReadsOneMoment
  BY DEF ReadInv, Closing, Reads!ReadsOneMoment
<1> QED BY <1>1, ReadInit, ReadStep, PTL DEF Reads!Spec

(***************************************************************************)
(* Plugins: releases are published, locked, installed and run.               *)
(***************************************************************************)
CONSTANTS Release, Runnable, Declarations, Job, Offline, MaxJobs, MaxFaults
VARIABLES registry, tag, pub, choice, local, locked, fetched, installs, jobs, edited, started, failures, tampered, onDisk, loaded
Store == INSTANCE Plugins WITH files <- local, entry <- locked, cache <- fetched, declared <- choice, edits <- edited, faults <- failures

\* An image is kept under its digest, a local directory under the versions of its files.
ImageKey(k) == k = <<k[1]>> /\ k[1] \in Release
LocalKey(k) == k = <<k[1], k[2]>> /\ k[1] \in Nat /\ k[2] \in Nat
IsImage(d) == d[1] # "path"

\* A release that may be named was tried, and one that is named is whole.
Published ==
    /\ registry \in [Release -> 0..3] /\ DOMAIN pub = Release
    /\ \A r \in Release : pub[r] \in {"resolve", "push", "tagged"} => r \in Runnable
    /\ tag # 0 => tag \in Runnable /\ registry[tag] = 3
\* Files only go forward, and every installation was on disk, or was changed since.
Project == choice \in Declarations /\ local \in [1..2 -> Nat] /\ local \in onDisk
InstallsSound ==
    /\ DOMAIN fetched = Store!Part
    /\ \A k \in DOMAIN installs : (Len(k) = 2 => k \in onDisk) /\ (installs[k] = k \/ k \in tampered)
\* An entry once loaded, and that of an image names a release.
EntrySound(e) ==
    /\ e # <<>> => e \in loaded
    /\ e # <<>> /\ IsImage(e[1].declaration) => ImageKey(e[1].digest)

\* A load on its way: what it was told, what it chose, and what it holds.
ImageStep == {"select", "index", "manifest", "layer", "extract"}
LocalStep == {"hashA", "hashB", "compare", "copyA", "copyB"}
Chosen == {"index", "install", "manifest", "layer", "extract", "copyA", "copyB", "place", "describe", "loaded"}
Told(x) ==
    /\ DOMAIN x = {"step", "kind", "offline", "declaration", "locked", "pin", "key", "staged", "ran"}
    /\ x.step \in ImageStep \cup LocalStep \cup Chosen \cup {"failed"} /\ x.declaration # <<>>
    /\ x.step \in ImageStep => IsImage(x.declaration)
    /\ x.step \in LocalStep => ~IsImage(x.declaration)
    /\ EntrySound(x.locked) /\ (x.kind # "update" => x.pin = Store!Pin(x.declaration, x.locked))
    /\ IsImage(x.declaration) => x.pin = <<>> \/ ImageKey(x.pin)
Chose(x) ==
    /\ x.step = "hashB" => x.key = <<x.key[1]>> /\ x.key[1] \in Nat /\ x.key[1] <= local[1]
    /\ x.step \in Chosen => /\ IsImage(x.declaration) => ImageKey(x.key)
                            /\ ~Store!Resolves(x) => x.key = x.pin
    /\ x.step \in Chosen \cup {"compare"} /\ ~IsImage(x.declaration) =>
        LocalKey(x.key) /\ x.key[1] <= local[1] /\ (local[1] = x.key[1] => x.key \in onDisk)
Holds(x) ==
    /\ x.step = "copyB" => x.staged = <<x.staged[1]>> /\ x.staged[1] \in Nat /\ (x.staged[1] = x.key[1] => x.key \in onDisk)
    /\ x.step = "place" => x.staged = x.key /\ (Len(x.key) = 2 => x.key \in onDisk)
    /\ x.step = "describe" => x.key \in DOMAIN installs /\ (x.kind = "verify" => installs[x.key] = x.key)
    /\ x.step = "loaded" => x.ran = x.key \/ (x.key \in tampered /\ x.kind # "verify")
\* What a load has fetched is there while it runs, whoever installed it meanwhile.
Good(k, parts) == \A n \in parts : fetched[<<k[1], n>>] = "good"
Fetched(x) ==
    /\ x.step = "layer" => Good(x.key, {2})
    /\ x.step = "extract" \/ (x.step = "place" /\ IsImage(x.declaration)) => Good(x.key, {1, 2})
    /\ x.step \in {"manifest", "layer"} /\ x.kind # "verify" /\ x.key \in DOMAIN installs => Good(x.key, {1, 2})
Working(x) == Told(x) /\ Chose(x) /\ Holds(x) /\ Fetched(x)
Loads == DOMAIN jobs = Job /\ \A j \in Job : jobs[j] # Store!Idle => Working(jobs[j])
StoreInv == Published /\ Project /\ InstallsSound /\ EntrySound(locked) /\ Loads

\* A directory's two files are a pair.
LEMMA FilesPair == ASSUME local \in [1..2 -> Nat] PROVE local = <<local[1], local[2]>>
OBVIOUS

\* A project that has published and loaded nothing.
LEMMA StoreInit == Store!ConstantsAssumption /\ Store!Init => StoreInv
<1> SUFFICES ASSUME Store!ConstantsAssumption, Store!Init PROVE StoreInv OBVIOUS
<1> USE DEF Store!Init
<1>1. Published BY DEF Published, Store!ConstantsAssumption
<1>2. Project BY DEF Project
<1>3. InstallsSound /\ EntrySound(locked) BY DEF InstallsSound, EntrySound
<1>4. Loads BY DEF Loads
<1> QED BY <1>1, <1>2, <1>3, <1>4 DEF StoreInv

\* What a step leaves to every load but the one that takes it.
Kept ==
    /\ \A p \in Store!Part : fetched[p] = "good" => fetched'[p] = "good"
    /\ \A k \in DOMAIN installs : k \in DOMAIN installs' /\ installs'[k] = installs[k]
    /\ \A k \in DOMAIN installs' : k \in DOMAIN installs \/ (ImageKey(k) => Good(k, {1, 2})')
    /\ tampered' = tampered /\ onDisk \subseteq onDisk' /\ loaded \subseteq loaded'
    /\ local[1] \in Nat /\ local'[1] \in Nat /\ local'[1] >= local[1]

\* A load goes on as it was, whatever others do.
LEMMA WorkingKept == ASSUME NEW x, Working(x), Kept PROVE Working(x)'
<1> USE DEF Working
<1>1. Told(x)' BY DEF Told, EntrySound, Kept, ImageKey, IsImage, Store!Pin, Store!Answers
<1>2. Chose(x)'
  BY DEF Chose, Kept, LocalKey, ImageKey, IsImage, Store!Resolves
<1>3. Holds(x)' BY DEF Holds, Kept
<1>4. Fetched(x)'
  <2>1. ASSUME NEW n \in 1..3, x.step \in Chosen, IsImage(x.declaration), fetched[<<x.key[1], n>>] = "good"
        PROVE  fetched'[<<x.key[1], n>>] = "good"
    <3>1. x.key[1] \in Release BY <2>1 DEF Chose, ImageKey
    <3>2. <<x.key[1], n>> \in Store!Part BY <3>1 DEF Store!Part
    <3> QED BY <2>1, <3>2 DEF Kept
  <2>2. x.step \in {"layer", "extract", "manifest"} => x.step \in Chosen /\ IsImage(x.declaration) /\ ImageKey(x.key)
    BY DEF Told, Chose, Chosen, ImageStep
  <2>3. x.step = "place" => x.step \in Chosen BY DEF Chosen
  <2>4. x.step = "layer" => Good(x.key, {2})' BY <2>1, <2>2 DEF Fetched, Good
  <2>5. x.step = "extract" \/ (x.step = "place" /\ IsImage(x.declaration)) => Good(x.key, {1, 2})'
    BY <2>1, <2>2, <2>3 DEF Fetched, Good
  <2>6. x.step \in {"manifest", "layer"} /\ x.kind # "verify" /\ x.key \in DOMAIN installs' => Good(x.key, {1, 2})'
    <3>1. CASE x.key \in DOMAIN installs BY <2>1, <2>2, <3>1 DEF Fetched, Good
    <3>2. CASE x.key \notin DOMAIN installs BY <2>2, <3>2 DEF Kept
    <3> QED BY <3>1, <3>2
  <2> QED BY <2>4, <2>5, <2>6 DEF Fetched, IsImage
<1> QED BY <1>1, <1>2, <1>3, <1>4

\* Nothing that loads rely on has changed.
LEMMA AllKept ==
    ASSUME Project, UNCHANGED <<local, onDisk, loaded, tampered, installs, fetched>>
    PROVE  Kept
BY DEF Kept, Project

\* A step of one load that leaves it sound leaves all loads sound.
LEMMA OneLoad ==
    ASSUME Loads, Kept, NEW j \in Job, DOMAIN jobs' = Job, \A i \in Job \ {j} : jobs'[i] = jobs[i],
           jobs'[j] = Store!Idle \/ Working(jobs[j])'
    PROVE  Loads'
<1>1. ASSUME NEW i \in Job \ {j}, jobs'[i] # Store!Idle PROVE Working(jobs[i])'
  <2>1. Working(jobs[i]) /\ jobs'[i] = jobs[i] BY <1>1 DEF Loads
  <2> QED BY <2>1, WorkingKept
<1> QED BY <1>1 DEF Loads, Store!Idle

\* What Goto and Give leave of a load.
Same(j, fields) ==
    /\ DOMAIN jobs' = Job /\ \A i \in Job \ {j} : jobs'[i] = jobs[i]
    /\ DOMAIN jobs'[j] = DOMAIN jobs[j] /\ \A f \in fields : jobs'[j][f] = jobs[j][f]
Orders == {"kind", "offline", "declaration", "locked", "pin"}
LEMMA Moved ==
    ASSUME Loads, NEW j \in Job, Told(jobs[j]), NEW to, Store!Goto(j, to)
    PROVE  Same(j, Orders \cup {"key", "staged", "ran"}) /\ jobs'[j].step = to
BY DEF Loads, Told, Same, Orders, Store!Goto
LEMMA Given ==
    ASSUME Loads, NEW j \in Job, Told(jobs[j]), NEW to, NEW f \in {"key", "staged", "ran"}, NEW v, Store!Give(j, to, f, v)
    PROVE  Same(j, Orders \cup ({"key", "staged", "ran"} \ {f})) /\ jobs'[j].step = to /\ jobs'[j][f] = v
BY DEF Loads, Told, Same, Orders, Store!Give

\* A load that reads the stores and writes none.
LEMMA LoadOnly ==
    ASSUME StoreInv, NEW j \in Job, NEW fields, Same(j, fields), Working(jobs[j])',
           UNCHANGED <<registry, tag, pub, choice, local, locked, fetched, installs, tampered, onDisk, loaded>>
    PROVE  StoreInv'
<1>1. Published' BY DEF StoreInv, Published
<1>2. Project' BY DEF StoreInv, Project
<1>3. InstallsSound' BY DEF StoreInv, InstallsSound
<1>4. EntrySound(locked)' BY DEF StoreInv, EntrySound
<1>5. Kept BY AllKept DEF StoreInv
<1>6. Loads' BY <1>5, OneLoad DEF StoreInv, Same
<1> QED BY <1>1, <1>2, <1>3, <1>4, <1>6 DEF StoreInv

\* Same, spelled out for the fields that a load was given.
LEMMA SameOrders ==
    ASSUME NEW j \in Job, NEW fields, Same(j, Orders \cup fields), Told(jobs[j])
    PROVE  /\ jobs'[j].kind = jobs[j].kind /\ jobs'[j].declaration = jobs[j].declaration
           /\ jobs'[j].locked = jobs[j].locked /\ jobs'[j].pin = jobs[j].pin
           /\ DOMAIN jobs'[j] = {"step", "kind", "offline", "declaration", "locked", "pin", "key", "staged", "ran"}
           /\ "key" \in fields => jobs'[j].key = jobs[j].key
           /\ "staged" \in fields => jobs'[j].staged = jobs[j].staged
BY DEF Same, Orders, Told

\* A load that fails keeps nothing but its orders.
LEMMA FailedSound ==
    ASSUME Loads, NEW j \in Job, Told(jobs[j]), Store!Goto(j, "failed"), UNCHANGED <<loaded, onDisk, local, installs, tampered, fetched>>
    PROVE  Same(j, Orders \cup {"key", "staged", "ran"}) /\ jobs'[j].step = "failed" /\ Working(jobs[j])'
<1>1. Same(j, Orders \cup {"key", "staged", "ran"}) /\ jobs'[j].step = "failed" BY Moved
<1>2. Told(jobs[j])' BY <1>1, SameOrders DEF Told, ImageStep, LocalStep, EntrySound, Store!Pin, Store!Answers, IsImage, ImageKey
<1>3. Chose(jobs[j])' /\ Holds(jobs[j])' /\ Fetched(jobs[j])' BY <1>1 DEF Chose, Holds, Fetched, Chosen
<1> QED BY <1>1, <1>2, <1>3 DEF Working

\* The orders of a load stay sound when it moves to a step that its declaration allows.
LEMMA ToldKept ==
    ASSUME NEW j \in Job, NEW fields, Same(j, Orders \cup fields), Told(jobs[j]), UNCHANGED loaded,
           jobs'[j].step \in ImageStep \cup LocalStep \cup Chosen \cup {"failed"},
           jobs'[j].step \in ImageStep => IsImage(jobs[j].declaration),
           jobs'[j].step \in LocalStep => ~IsImage(jobs[j].declaration)
    PROVE  Told(jobs[j])'
BY SameOrders DEF Told, EntrySound, Store!Pin, Store!Answers, IsImage, ImageKey

\* An image is chosen by its pin, or by the tag, which names a release.
LEMMA SelectSound == ASSUME Store!ConstantsAssumption, StoreInv, NEW j \in Job, Store!Select(j) PROVE StoreInv'
<1> USE DEF Store!At
<1>1. jobs[j].step = "select" /\ UNCHANGED <<registry, tag, pub, choice, local, locked, fetched, installs, tampered, onDisk, loaded>>
  BY DEF Store!Select, Store!quiet, Store!store, Store!remote, Store!project
<1>2. Loads /\ Told(jobs[j]) /\ IsImage(jobs[j].declaration)
  BY <1>1 DEF StoreInv, Loads, Working, Told, ImageStep, Store!Idle
<1>3. CASE Store!Goto(j, "failed") BY <1>1, <1>2, <1>3, FailedSound, LoadOnly
<1>4. ASSUME NEW k, ImageKey(k), Store!Give(j, "index", "key", k), ~Store!Resolves(jobs[j]) => k = jobs[j].pin PROVE StoreInv'
  <2>1. Same(j, Orders \cup {"staged", "ran"}) /\ jobs'[j].step = "index" /\ jobs'[j].key = k
    <3>1. {"key", "staged", "ran"} \ {"key"} = {"staged", "ran"} OBVIOUS
    <3> QED BY <1>2, <1>4, <3>1, Given
  <2>2. Told(jobs[j])' BY <1>1, <1>2, <2>1, ToldKept DEF ImageStep, LocalStep
  <2>3. Chose(jobs[j])' BY <1>2, <1>4, <2>1, SameOrders DEF Chose, Chosen, IsImage, ImageKey, Store!Resolves
  <2>4. Holds(jobs[j])' /\ Fetched(jobs[j])' BY <2>1 DEF Holds, Fetched
  <2> QED BY <1>1, <2>1, <2>2, <2>3, <2>4, LoadOnly DEF Working
<1>5. CASE jobs[j].pin # <<>> /\ Store!Give(j, "index", "key", jobs[j].pin)
  <2>1. ImageKey(jobs[j].pin) BY <1>2, <1>5 DEF Told
  <2> QED BY <1>4, <1>5, <2>1
<1>6. CASE Store!Resolves(jobs[j]) /\ tag # 0 /\ Store!Give(j, "index", "key", <<tag>>)
  <2>1. ImageKey(<<tag>>) BY <1>6 DEF StoreInv, Published, ImageKey, Store!ConstantsAssumption
  <2> QED BY <1>4, <1>6, <2>1
<1> QED BY <1>3, <1>5, <1>6 DEF Store!Select

\* Appending a number to one number gives the pair.
LEMMA AppendPair == ASSUME NEW a \in Nat, NEW b \in Nat PROVE Append(<<a>>, b) = <<a, b>>
<1>1. <<a>> \in Seq(Nat) /\ Len(<<a>>) = 1 OBVIOUS
<1> DEFINE s == Append(<<a>>, b)
           t == <<a, b>>
<1>2. s \in Seq(Nat) /\ Len(s) = 2 /\ s[1] = a /\ s[2] = b BY <1>1, AppendProperties
<1>3. t \in Seq(Nat) /\ Len(t) = 2 /\ t[1] = a /\ t[2] = b OBVIOUS
<1> HIDE DEF s, t
<1>4. \A i \in 1..Len(s) : s[i] = t[i]
  <2>1. \A i \in 1..Len(s) : i = 1 \/ i = 2 BY <1>2
  <2> QED BY <1>2, <1>3, <2>1
<1>5. s = t BY <1>2, <1>3, <1>4, SeqEqual
<1> QED BY <1>5 DEF s, t

\* What is hashed is what the directory held then, one file after the other.
LEMMA HashSound == ASSUME StoreInv, NEW j \in Job, Store!HashA(j) \/ Store!HashB(j) PROVE StoreInv'
<1> USE DEF Store!At
<1>1. UNCHANGED <<registry, tag, pub, choice, local, locked, fetched, installs, tampered, onDisk, loaded>> /\ jobs[j].step \in {"hashA", "hashB"}
  BY DEF Store!HashA, Store!HashB, Store!quiet, Store!store, Store!remote, Store!project
<1>2. Loads /\ Told(jobs[j]) /\ ~IsImage(jobs[j].declaration) /\ Chose(jobs[j])
  BY <1>1 DEF StoreInv, Loads, Working, Told, LocalStep, Store!Idle
<1>3. local[1] \in Nat /\ local[2] \in Nat /\ local = <<local[1], local[2]>> /\ local \in onDisk
  BY FilesPair DEF StoreInv, Project
<1>4. {"key", "staged", "ran"} \ {"key"} = {"staged", "ran"} OBVIOUS
<1>5. CASE Store!HashA(j)
  <2>1. Same(j, Orders \cup {"staged", "ran"}) /\ jobs'[j].step = "hashB" /\ jobs'[j].key = <<local[1]>>
    BY <1>2, <1>4, <1>5, Given DEF Store!HashA
  <2>2. Told(jobs[j])' BY <1>1, <1>2, <2>1, ToldKept DEF ImageStep, LocalStep
  <2>3. Chose(jobs[j])' BY <1>1, <1>3, <2>1 DEF Chose, Chosen
  <2>4. Holds(jobs[j])' /\ Fetched(jobs[j])' BY <2>1 DEF Holds, Fetched
  <2> QED BY <1>1, <2>1, <2>2, <2>3, <2>4, LoadOnly DEF Working
<1>6. CASE Store!HashB(j)
  <2>1. Same(j, Orders \cup {"staged", "ran"}) /\ jobs'[j].step = "compare" /\ jobs'[j].key = Append(jobs[j].key, local[2])
    BY <1>2, <1>4, <1>6, Given DEF Store!HashB
  <2>2. jobs[j].key = <<jobs[j].key[1]>> /\ jobs[j].key[1] \in Nat /\ jobs[j].key[1] <= local[1]
    BY <1>2, <1>6 DEF Chose, Store!HashB
  <2>3. jobs'[j].key = <<jobs[j].key[1], local[2]>>
    <3>1. Append(<<jobs[j].key[1]>>, local[2]) = <<jobs[j].key[1], local[2]>> BY <1>3, <2>2, AppendPair
    <3> QED BY <2>1, <2>2, <3>1
  <2>4. Told(jobs[j])' BY <1>1, <1>2, <2>1, ToldKept DEF ImageStep, LocalStep
  <2>5. Chose(jobs[j])'
    <3>1. jobs'[j].key[1] = jobs[j].key[1] /\ jobs'[j].key[2] = local[2] BY <2>3
    <3>2. LocalKey(jobs[j].key)' /\ jobs'[j].key[1] <= local[1] /\ (local[1] = jobs'[j].key[1] => jobs'[j].key \in onDisk)
      BY <1>3, <2>2, <2>3, <3>1 DEF LocalKey
    <3> QED BY <1>1, <2>1, <3>2 DEF Chose, Chosen
  <2>6. Holds(jobs[j])' /\ Fetched(jobs[j])' BY <2>1 DEF Holds, Fetched
  <2> QED BY <1>1, <2>1, <2>4, <2>5, <2>6, LoadOnly DEF Working
<1> QED BY <1>5, <1>6

\* What was chosen stays chosen at every step after it.
LEMMA ChoseKept ==
    ASSUME NEW j \in Job, NEW fields, Same(j, Orders \cup fields), "key" \in fields, Told(jobs[j]), Chose(jobs[j]),
           UNCHANGED <<local, onDisk>>, jobs[j].step \in Chosen, jobs'[j].step \in Chosen
    PROVE  Chose(jobs[j])'
<1>1. /\ jobs'[j].kind = jobs[j].kind /\ jobs'[j].declaration = jobs[j].declaration
      /\ jobs'[j].pin = jobs[j].pin /\ jobs'[j].key = jobs[j].key
  BY SameOrders
<1> QED BY <1>1 DEF Chose, Chosen, IsImage, ImageKey, LocalKey, Store!Resolves

\* A load runs what is installed, or sets out to install it.
LEMMA InstallSound == ASSUME StoreInv, NEW j \in Job, Store!Install(j) PROVE StoreInv'
<1> USE DEF Store!At
<1>1. UNCHANGED <<registry, tag, pub, choice, local, locked, fetched, installs, tampered, onDisk, loaded>> /\ jobs[j].step = "install"
  BY DEF Store!Install, Store!quiet, Store!store, Store!remote, Store!project
<1>2. Loads /\ Told(jobs[j]) /\ Chose(jobs[j]) /\ jobs[j].step \in Chosen
  BY <1>1 DEF StoreInv, Loads, Working, Store!Idle, Chosen
<1>3. ASSUME NEW to \in {"describe", "copyA", "manifest"}, Store!Goto(j, to),
             to = "describe" => Store!Installed(j), to = "copyA" => ~IsImage(jobs[j].declaration),
             to = "manifest" => IsImage(jobs[j].declaration) /\ ~Store!Installed(j)
      PROVE  StoreInv'
  <2>1. Same(j, Orders \cup {"key", "staged", "ran"}) /\ jobs'[j].step = to BY <1>2, <1>3, Moved
  <2>2. jobs'[j].kind = jobs[j].kind /\ jobs'[j].key = jobs[j].key BY <1>2, <2>1, SameOrders
  <2>3. Told(jobs[j])' BY <1>1, <1>2, <1>3, <2>1, ToldKept DEF ImageStep, LocalStep, Chosen
  <2>4. Chose(jobs[j])' BY <1>1, <1>2, <2>1, ChoseKept DEF Chosen
  <2>5. Holds(jobs[j])' /\ Fetched(jobs[j])' BY <1>1, <1>3, <2>1, <2>2 DEF Holds, Fetched, Store!Installed
  <2> QED BY <1>1, <2>1, <2>3, <2>4, <2>5, LoadOnly DEF Working
<1>4. CASE Store!Installed(j) BY <1>3, <1>4 DEF Store!Install
<1>5. CASE ~Store!Installed(j) /\ jobs[j].declaration[1] = "path" BY <1>3, <1>5 DEF Store!Install, IsImage
<1>6. CASE ~Store!Installed(j) /\ jobs[j].declaration[1] # "path" BY <1>3, <1>6 DEF Store!Install, IsImage
<1> QED BY <1>4, <1>5, <1>6

\* A bundle that holds the entrypoint is staged as it was fetched.
LEMMA ExtractSound == ASSUME StoreInv, NEW j \in Job, Store!Extract(j) PROVE StoreInv'
<1> USE DEF Store!At
<1>1. UNCHANGED <<registry, tag, pub, choice, local, locked, fetched, installs, tampered, onDisk, loaded>> /\ jobs[j].step = "extract"
  BY DEF Store!Extract, Store!quiet, Store!store, Store!remote, Store!project
<1>2. Loads /\ Told(jobs[j]) /\ Chose(jobs[j]) /\ jobs[j].step \in Chosen /\ IsImage(jobs[j].declaration) /\ Good(jobs[j].key, {1, 2})
  BY <1>1 DEF StoreInv, Loads, Working, Told, Store!Idle, Chosen, ImageStep, Fetched
<1>3. CASE Store!Goto(j, "failed") BY <1>1, <1>2, <1>3, FailedSound, LoadOnly
<1>4. CASE Store!Give(j, "place", "staged", jobs[j].key)
  <2>1. Same(j, Orders \cup {"key", "ran"}) /\ jobs'[j].step = "place" /\ jobs'[j].staged = jobs[j].key
    BY <1>2, <1>4 DEF Store!Give, Same, Orders, Loads, Told
  <2>2. jobs'[j].key = jobs[j].key BY <1>2, <2>1, SameOrders
  <2>3. Told(jobs[j])' BY <1>1, <1>2, <2>1, ToldKept DEF ImageStep, LocalStep, Chosen
  <2>4. Chose(jobs[j])' BY <1>1, <1>2, <2>1, ChoseKept DEF Chosen
  <2>5. ImageKey(jobs[j].key) BY <1>2 DEF Chose
  <2>6. Len(jobs[j].key) = 1 BY <2>5 DEF ImageKey
  <2>7. Holds(jobs[j])' BY <1>1, <2>1, <2>2, <2>6 DEF Holds
  <2>8. Fetched(jobs[j])' BY <1>1, <1>2, <2>1, <2>2 DEF Fetched, Good
  <2> QED BY <1>1, <2>1, <2>3, <2>4, <2>7, <2>8, LoadOnly DEF Working
<1> QED BY <1>3, <1>4 DEF Store!Extract

\* A load that resolves nothing goes on only with what is pinned.
LEMMA CompareSound == ASSUME StoreInv, NEW j \in Job, Store!Compare(j) PROVE StoreInv'
<1> USE DEF Store!At
<1>1. UNCHANGED <<registry, tag, pub, choice, local, locked, fetched, installs, tampered, onDisk, loaded>> /\ jobs[j].step = "compare"
  BY DEF Store!Compare, Store!quiet, Store!store, Store!remote, Store!project
<1>2. Loads /\ Told(jobs[j]) /\ Chose(jobs[j]) /\ ~IsImage(jobs[j].declaration)
  BY <1>1 DEF StoreInv, Loads, Working, Told, Store!Idle, Chosen, LocalStep
<1>3. CASE Store!Goto(j, "failed") BY <1>1, <1>2, <1>3, FailedSound, LoadOnly
<1>4. CASE (Store!Resolves(jobs[j]) \/ jobs[j].key = jobs[j].pin) /\ Store!Goto(j, "install")
  <2>1. Same(j, Orders \cup {"key", "staged", "ran"}) /\ jobs'[j].step = "install" BY <1>2, <1>4, Moved
  <2>2. /\ jobs'[j].kind = jobs[j].kind /\ jobs'[j].declaration = jobs[j].declaration
        /\ jobs'[j].pin = jobs[j].pin /\ jobs'[j].key = jobs[j].key
    BY <1>2, <2>1, SameOrders
  <2>3. Told(jobs[j])' BY <1>1, <1>2, <2>1, ToldKept DEF ImageStep, LocalStep, Chosen
  <2>4. Chose(jobs[j])' BY <1>1, <1>2, <1>4, <2>1, <2>2 DEF Chose, Chosen, IsImage, LocalKey, Store!Resolves
  <2>5. Holds(jobs[j])' /\ Fetched(jobs[j])' BY <2>1 DEF Holds, Fetched
  <2> QED BY <1>1, <2>1, <2>3, <2>4, <2>5, LoadOnly DEF Working
<1> QED BY <1>3, <1>4 DEF Store!Compare

\* What is copied is what was hashed, or the load fails: then it was on disk at one moment.
LEMMA CopySound == ASSUME StoreInv, NEW j \in Job, Store!CopyA(j) \/ Store!CopyB(j) PROVE StoreInv'
<1> USE DEF Store!At
<1>1. UNCHANGED <<registry, tag, pub, choice, local, locked, fetched, installs, tampered, onDisk, loaded>> /\ jobs[j].step \in {"copyA", "copyB"}
  BY DEF Store!CopyA, Store!CopyB, Store!quiet, Store!store, Store!remote, Store!project
<1>2. /\ Loads /\ Told(jobs[j]) /\ ~IsImage(jobs[j].declaration) /\ Chose(jobs[j]) /\ Holds(jobs[j]) /\ jobs[j].step \in Chosen
      /\ LocalKey(jobs[j].key) /\ (local[1] = jobs[j].key[1] => jobs[j].key \in onDisk)
  BY <1>1 DEF StoreInv, Loads, Working, Told, LocalStep, Store!Idle, Chosen, Chose
<1>3. local[1] \in Nat /\ local[2] \in Nat BY DEF StoreInv, Project
<1>4. {"key", "staged", "ran"} \ {"staged"} = {"key", "ran"} OBVIOUS
<1>5. CASE Store!CopyA(j)
  <2>1. Same(j, Orders \cup {"key", "ran"}) /\ jobs'[j].step = "copyB" /\ jobs'[j].staged = <<local[1]>>
    BY <1>2, <1>4, <1>5, Given DEF Store!CopyA
  <2>2. jobs'[j].key = jobs[j].key BY <1>2, <2>1, SameOrders
  <2>3. Told(jobs[j])' BY <1>1, <1>2, <2>1, ToldKept DEF ImageStep, LocalStep, Chosen
  <2>4. Chose(jobs[j])' BY <1>1, <1>2, <2>1, ChoseKept DEF Chosen
  <2>5. Holds(jobs[j])' /\ Fetched(jobs[j])' BY <1>1, <1>2, <1>3, <2>1, <2>2 DEF Holds, Fetched
  <2> QED BY <1>1, <2>1, <2>3, <2>4, <2>5, LoadOnly DEF Working
<1>6. CASE Store!CopyB(j)
  <2>1. CASE Store!Goto(j, "failed") BY <1>1, <1>2, <2>1, FailedSound, LoadOnly
  <2>2. CASE Append(jobs[j].staged, local[2]) = jobs[j].key /\ Store!Give(j, "place", "staged", Append(jobs[j].staged, local[2]))
    <3>1. Same(j, Orders \cup {"key", "ran"}) /\ jobs'[j].step = "place" /\ jobs'[j].staged = jobs[j].key
      BY <1>2, <2>2 DEF Store!Give, Same, Orders, Loads, Told
    <3>2. jobs'[j].key = jobs[j].key BY <1>2, <3>1, SameOrders
    <3>3. Told(jobs[j])' BY <1>1, <1>2, <3>1, ToldKept DEF ImageStep, LocalStep, Chosen
    <3>4. Chose(jobs[j])' BY <1>1, <1>2, <3>1, ChoseKept DEF Chosen
    <3>5. jobs[j].key \in onDisk
      <4>1. /\ jobs[j].staged = <<jobs[j].staged[1]>> /\ jobs[j].staged[1] \in Nat
            /\ jobs[j].staged[1] = jobs[j].key[1] => jobs[j].key \in onDisk
        BY <1>2, <1>6 DEF Holds, Store!CopyB
      <4>2. jobs[j].key = <<jobs[j].staged[1], local[2]>> BY <1>3, <2>2, <4>1, AppendPair
      <4> QED BY <4>1, <4>2
    <3>6. Holds(jobs[j])' BY <1>1, <3>1, <3>2, <3>5 DEF Holds
    <3>7. Fetched(jobs[j])' BY <1>2, <3>1, SameOrders DEF Fetched, IsImage
    <3> QED BY <1>1, <3>1, <3>3, <3>4, <3>6, <3>7, LoadOnly DEF Working
  <2> QED BY <1>6, <2>1, <2>2 DEF Store!CopyB
<1> QED BY <1>5, <1>6

\* A load runs what is installed under the key it chose.
LEMMA DescribeSound == ASSUME StoreInv, NEW j \in Job, Store!Describe(j) PROVE StoreInv'
<1> USE DEF Store!At
<1>1. UNCHANGED <<registry, tag, pub, choice, local, locked, fetched, installs, tampered, onDisk, loaded>> /\ jobs[j].step = "describe"
  BY DEF Store!Describe, Store!quiet, Store!store, Store!remote, Store!project
<1>2. Loads /\ Told(jobs[j]) /\ Chose(jobs[j]) /\ Holds(jobs[j]) /\ jobs[j].step \in Chosen
  BY <1>1 DEF StoreInv, Loads, Working, Store!Idle, Chosen
<1>3. CASE Store!Goto(j, "failed") BY <1>1, <1>2, <1>3, FailedSound, LoadOnly
<1>4. CASE Store!Give(j, "loaded", "ran", installs[jobs[j].key])
  <2>1. Same(j, Orders \cup {"key", "staged"}) /\ jobs'[j].step = "loaded" /\ jobs'[j].ran = installs[jobs[j].key]
    BY <1>2, <1>4 DEF Store!Give, Same, Orders, Loads, Told
  <2>2. jobs'[j].kind = jobs[j].kind /\ jobs'[j].key = jobs[j].key BY <1>2, <2>1, SameOrders
  <2>3. Told(jobs[j])' BY <1>1, <1>2, <2>1, ToldKept DEF ImageStep, LocalStep, Chosen
  <2>4. Chose(jobs[j])' BY <1>1, <1>2, <2>1, ChoseKept DEF Chosen
  <2>5. /\ jobs[j].key \in DOMAIN installs /\ (jobs[j].kind = "verify" => installs[jobs[j].key] = jobs[j].key)
        /\ installs[jobs[j].key] = jobs[j].key \/ jobs[j].key \in tampered
    BY <1>1, <1>2 DEF Holds, StoreInv, InstallsSound
  <2>6. Holds(jobs[j])' /\ Fetched(jobs[j])' BY <1>1, <2>1, <2>2, <2>5 DEF Holds, Fetched
  <2> QED BY <1>1, <2>1, <2>3, <2>4, <2>6, LoadOnly DEF Working
<1> QED BY <1>3, <1>4 DEF Store!Describe

\* Loads go on when none of them takes a step.
LEMMA LoadsKept == ASSUME Loads, Kept, UNCHANGED jobs PROVE Loads'
<1>1. ASSUME NEW i \in Job, jobs'[i] # Store!Idle PROVE Working(jobs[i])'
  <2>1. Working(jobs[i]) /\ jobs'[i] = jobs[i] BY <1>1 DEF Loads
  <2> QED BY <2>1, WorkingKept
<1> QED BY <1>1 DEF Loads, Store!Idle

\* What is fetched stays, and nothing that was there goes.
LEMMA FetchSound ==
    ASSUME StoreInv, NEW j \in Job, NEW at, NEW n, NEW to, Store!Fetch(j, at, n, to),
           <<at, n, to>> \in {<<"index", 3, "install">>, <<"manifest", 2, "layer">>, <<"layer", 1, "extract">>}
    PROVE  StoreInv'
<1> DEFINE p == <<jobs[j].key[1], n>>
<1>0. (at = "index" /\ n = 3 /\ to = "install") \/ (at = "manifest" /\ n = 2 /\ to = "layer") \/ (at = "layer" /\ n = 1 /\ to = "extract")
  OBVIOUS
<1>1. jobs[j].step = at /\ UNCHANGED <<registry, tag, pub, choice, local, locked, installs, tampered, onDisk, loaded>>
  BY DEF Store!Fetch, Store!At, Store!quiet, Store!remote, Store!project
<1>2. Loads /\ Told(jobs[j]) /\ Chose(jobs[j]) /\ Fetched(jobs[j]) /\ jobs[j].step \in Chosen /\ IsImage(jobs[j].declaration)
  BY <1>0, <1>1 DEF StoreInv, Loads, Working, Told, Store!Idle, Chosen, ImageStep
<1>3. CASE Store!Goto(j, "failed") /\ UNCHANGED fetched BY <1>1, <1>2, <1>3, FailedSound, LoadOnly
<1>4. CASE Store!Goto(j, to) /\ ((fetched' = fetched /\ fetched[p] = "good") \/ fetched' = [fetched EXCEPT ![p] = "good"])
  <2>1. Same(j, Orders \cup {"key", "staged", "ran"}) /\ jobs'[j].step = to BY <1>2, <1>4, Moved
  <2>2. jobs'[j].kind = jobs[j].kind /\ jobs'[j].key = jobs[j].key BY <1>2, <2>1, SameOrders
  <2>3. p \in Store!Part
    <3>1. jobs[j].key[1] \in Release BY <1>2 DEF Chose, ImageKey
    <3> QED BY <1>0, <3>1 DEF Store!Part
  <2>4. /\ DOMAIN fetched = Store!Part /\ DOMAIN fetched' = Store!Part /\ fetched'[p] = "good"
        /\ \A q \in Store!Part : fetched[q] = "good" => fetched'[q] = "good"
    BY <1>4, <2>3 DEF StoreInv, InstallsSound
  <2>5. Kept BY <1>1, <2>4 DEF Kept, StoreInv, Project
  <2>6. Told(jobs[j])' BY <1>0, <1>1, <1>2, <2>1, ToldKept DEF ImageStep, LocalStep, Chosen
  <2>7. Chose(jobs[j])' BY <1>0, <1>1, <1>2, <2>1, ChoseKept DEF Chosen
  <2>8. Holds(jobs[j])' BY <1>0, <2>1 DEF Holds
  <2>9. Fetched(jobs[j])'
    <3>1. \A m \in 1..3 : <<jobs[j].key[1], m>> \in Store!Part BY <2>3 DEF Store!Part
    <3>2. \A m \in 1..3 : fetched[<<jobs[j].key[1], m>>] = "good" => fetched'[<<jobs[j].key[1], m>>] = "good" BY <2>4, <3>1
    <3>3. ASSUME to = "layer" PROVE Fetched(jobs[j])'
      <4>1. at = "manifest" /\ n = 2 BY <1>0, <3>3
      <4> QED BY <1>1, <1>2, <2>1, <2>2, <2>4, <3>2, <3>3, <4>1 DEF Fetched, Good
    <3>4. ASSUME to = "extract" PROVE Fetched(jobs[j])'
      <4>1. at = "layer" /\ n = 1 BY <1>0, <3>4
      <4> QED BY <1>1, <1>2, <2>1, <2>2, <2>4, <3>2, <3>4, <4>1 DEF Fetched, Good
    <3>5. ASSUME to = "install" PROVE Fetched(jobs[j])' BY <2>1, <3>5 DEF Fetched
    <3> QED BY <1>0, <3>3, <3>4, <3>5
  <2>10. Loads' BY <1>2, <2>1, <2>5, <2>6, <2>7, <2>8, <2>9, OneLoad DEF Same, Working
  <2>11. Published' /\ Project' /\ EntrySound(locked)' BY <1>1 DEF StoreInv, Published, Project, EntrySound
  <2>12. InstallsSound' BY <1>1, <2>4 DEF StoreInv, InstallsSound
  <2> QED BY <2>10, <2>11, <2>12 DEF StoreInv
<1> QED
  <2>1. CASE fetched[p] = "good" BY <1>4, <2>1 DEF Store!Fetch
  <2>2. CASE fetched[p] # "good" /\ ~jobs[j].offline /\ registry[p[1]] >= n
    BY <1>4, <2>2 DEF Store!Fetch
  <2>3. CASE fetched[p] # "good" /\ ~(~jobs[j].offline /\ registry[p[1]] >= n)
    BY <1>3, <2>3 DEF Store!Fetch
  <2> QED BY <2>1, <2>2, <2>3

\* What becomes an installation is what its key says, and was on disk at one moment.
LEMMA PlaceSound == ASSUME StoreInv, NEW j \in Job, Store!Place(j) PROVE StoreInv'
<1> DEFINE key == jobs[j].key
<1>1. jobs[j].step = "place" /\ UNCHANGED <<registry, tag, pub, choice, local, locked, fetched, tampered, onDisk, loaded>>
  BY DEF Store!Place, Store!At, Store!quiet, Store!remote, Store!project
<1>2. /\ Loads /\ Told(jobs[j]) /\ Chose(jobs[j]) /\ jobs[j].step \in Chosen /\ jobs[j].staged = key /\ (Len(key) = 2 => key \in onDisk)
      /\ ImageKey(key) => Good(key, {1, 2})
  <2>1. Loads /\ Told(jobs[j]) /\ Chose(jobs[j]) /\ Holds(jobs[j]) /\ Fetched(jobs[j]) /\ jobs[j].step \in Chosen
    BY <1>1 DEF StoreInv, Loads, Working, Store!Idle, Chosen
  <2>2. ImageKey(key) => IsImage(jobs[j].declaration)
    <3>1. ~IsImage(jobs[j].declaration) => LocalKey(key) BY <2>1 DEF Chose
    <3>2. ASSUME ImageKey(key), LocalKey(key) PROVE FALSE
      <4>1. Len(key) = 1 BY <3>2 DEF ImageKey
      <4>2. Len(key) = 2 BY <3>2 DEF LocalKey
      <4> QED BY <4>1, <4>2
    <3> QED BY <3>1, <3>2
  <2> QED BY <1>1, <2>1, <2>2 DEF Holds, Fetched
<1>3. CASE Store!Goto(j, "failed") /\ UNCHANGED installs BY <1>1, <1>2, <1>3, FailedSound, LoadOnly
<1>4. CASE /\ Store!Goto(j, "describe") /\ key \in DOMAIN installs' /\ (jobs[j].kind = "verify" => installs'[key] = key)
           /\ UNCHANGED installs \/ (/\ key \notin DOMAIN installs
                                     /\ installs' = [k \in DOMAIN installs \cup {key} |-> IF k = key THEN jobs[j].staged ELSE installs[k]])
  <2>1. Same(j, Orders \cup {"key", "staged", "ran"}) /\ jobs'[j].step = "describe" BY <1>2, <1>4, Moved
  <2>2. jobs'[j].kind = jobs[j].kind /\ jobs'[j].key = key BY <1>2, <2>1, SameOrders
  <2>3. /\ \A k \in DOMAIN installs : k \in DOMAIN installs' /\ installs'[k] = installs[k]
        /\ \A k \in DOMAIN installs' : k \in DOMAIN installs \/ (k = key /\ installs'[k] = key)
    BY <1>2, <1>4
  <2>4. Kept BY <1>1, <1>2, <2>3 DEF Kept, StoreInv, Project, Good
  <2>5. Told(jobs[j])' BY <1>1, <1>2, <2>1, ToldKept DEF ImageStep, LocalStep, Chosen
  <2>6. Chose(jobs[j])' BY <1>1, <1>2, <2>1, ChoseKept DEF Chosen
  <2>7. Holds(jobs[j])' BY <1>4, <2>1, <2>2 DEF Holds
  <2>8. Fetched(jobs[j])' BY <2>1 DEF Fetched
  <2>9. Loads' BY <1>2, <2>1, <2>4, <2>5, <2>6, <2>7, <2>8, OneLoad DEF Same, Working
  <2>10. Published' /\ Project' /\ EntrySound(locked)' BY <1>1 DEF StoreInv, Published, Project, EntrySound
  <2>11. InstallsSound' BY <1>1, <1>2, <2>3 DEF StoreInv, InstallsSound
  <2> QED BY <2>9, <2>10, <2>11 DEF StoreInv
<1> QED
  <2>1. CASE key \in DOMAIN installs /\ (installs[key] = jobs[j].staged \/ jobs[j].kind # "verify")
    BY <1>2, <1>4, <2>1 DEF Store!Place
  <2>2. CASE key \in DOMAIN installs /\ ~(installs[key] = jobs[j].staged \/ jobs[j].kind # "verify")
    BY <1>3, <2>2 DEF Store!Place
  <2>3. CASE key \notin DOMAIN installs BY <1>2, <1>4, <2>3 DEF Store!Place
  <2> QED BY <2>1, <2>2, <2>3

\* A load begins with what is declared and locked.
LEMMA StartSound == ASSUME Store!ConstantsAssumption, StoreInv, NEW j \in Job, Store!Start(j) PROVE StoreInv'
<1>1. UNCHANGED <<registry, tag, pub, choice, local, locked, fetched, installs, tampered, onDisk, loaded>>
  BY DEF Store!Start, Store!quiet, Store!store, Store!remote, Store!project
<1>2. Loads /\ EntrySound(locked) /\ choice \in Declarations /\ choice # <<>>
  BY DEF StoreInv, Project, Store!Start
<1>3. PICK kind \in Store!Kind, offline \in Offline : jobs' = [jobs EXCEPT ![j] =
               [step |-> IF choice[1] = "path" THEN "hashA" ELSE "select", kind |-> kind, offline |-> offline,
                declaration |-> choice, locked |-> locked, pin |-> Store!Pin(choice, IF kind = "update" THEN <<>> ELSE locked),
                key |-> <<>>, staged |-> <<>>, ran |-> <<>>]]
  BY DEF Store!Start
<1>4. DOMAIN jobs' = Job /\ \A i \in Job \ {j} : jobs'[i] = jobs[i] BY <1>2, <1>3 DEF Loads
<1>5. /\ DOMAIN jobs'[j] = {"step", "kind", "offline", "declaration", "locked", "pin", "key", "staged", "ran"}
      /\ jobs'[j].step = IF IsImage(choice) THEN "select" ELSE "hashA"
      /\ jobs'[j].declaration = choice /\ jobs'[j].locked = locked /\ jobs'[j].kind = kind
      /\ jobs'[j].pin = Store!Pin(choice, IF kind = "update" THEN <<>> ELSE locked)
  BY <1>2, <1>3 DEF Loads, IsImage
<1>6. IsImage(choice) => jobs'[j].pin = <<>> \/ ImageKey(jobs'[j].pin)
  <2>1. CASE choice[1] = "digest"
    <3>1. choice[2] \in Release BY <1>2, <2>1 DEF Store!ConstantsAssumption
    <3>2. jobs'[j].pin = <<choice[2]>> BY <1>2, <1>5, <2>1 DEF Store!Pin
    <3> QED BY <3>1, <3>2 DEF ImageKey
  <2>2. CASE choice[1] # "digest" /\ kind = "update" BY <1>5, <2>2 DEF Store!Pin, Store!Answers
  <2>3. CASE choice[1] # "digest" /\ kind # "update"
    BY <1>2, <1>5, <2>3 DEF Store!Pin, Store!Answers, EntrySound, IsImage, ImageKey
  <2> QED BY <2>1, <2>2, <2>3
<1>7. Told(jobs[j])'
  BY <1>1, <1>2, <1>5, <1>6 DEF Told, ImageStep, LocalStep, EntrySound, IsImage, ImageKey, Store!Pin, Store!Answers
<1>8. Chose(jobs[j])' /\ Holds(jobs[j])' /\ Fetched(jobs[j])' BY <1>5 DEF Chose, Holds, Fetched, Chosen
<1>9. Loads'
  BY <1>1, <1>2, <1>4, <1>7, <1>8, AllKept, OneLoad DEF Working, StoreInv
<1>10. Published' /\ Project' /\ EntrySound(locked)' /\ InstallsSound'
  BY <1>1 DEF StoreInv, Published, Project, EntrySound, InstallsSound
<1> QED BY <1>9, <1>10 DEF StoreInv

\* A load that resolved writes the entry that loaded, or the one that was there.
LEMMA EndSound == ASSUME StoreInv, NEW j \in Job, Store!End(j) \/ Store!Interrupt(j) PROVE StoreInv'
<1>1. UNCHANGED <<registry, tag, pub, choice, local, fetched, installs, tampered, onDisk>> /\ jobs' = [jobs EXCEPT ![j] = Store!Idle]
  BY DEF Store!End, Store!Interrupt, Store!store, Store!remote, Store!project
<1>2. Loads /\ EntrySound(locked) /\ loaded \subseteq loaded' BY DEF StoreInv, Store!End, Store!Interrupt
<1>3. Kept BY <1>1, <1>2 DEF Kept, StoreInv, Project
<1>4. Loads' BY <1>1, <1>2, <1>3, OneLoad DEF Loads
<1>5. EntrySound(locked)'
  <2>1. CASE Store!Interrupt(j) BY <1>2, <2>1 DEF Store!Interrupt, Store!project, EntrySound
  <2>2. CASE Store!End(j)
    <3>1. Working(jobs[j]) BY <1>2, <2>2 DEF Loads, Store!End, Store!Idle
    <3>2. CASE ~Store!Resolves(jobs[j]) BY <1>2, <2>2, <3>2 DEF Store!End, EntrySound, ImageKey, IsImage
    <3>3. CASE Store!Resolves(jobs[j]) /\ jobs[j].step = "loaded"
      <4>1. locked' = Store!EntryOf(jobs[j]) /\ locked' \in loaded' BY <2>2, <3>3 DEF Store!End, Store!Saved
      <4>2. IsImage(jobs[j].declaration) => ImageKey(jobs[j].key) BY <3>1, <3>3 DEF Working, Chose, Chosen
      <4> QED BY <4>1, <4>2 DEF EntrySound, Store!EntryOf, IsImage, ImageKey
    <3>4. CASE Store!Resolves(jobs[j]) /\ jobs[j].step # "loaded"
      <4>1. locked' = jobs[j].locked BY <2>2, <3>4 DEF Store!End, Store!Saved
      <4> QED BY <1>2, <3>1, <4>1 DEF EntrySound, Working, Told, IsImage, ImageKey
    <3> QED BY <3>2, <3>3, <3>4
  <2> QED BY <2>1, <2>2
<1>6. Published' /\ Project' /\ InstallsSound' BY <1>1 DEF StoreInv, Published, Project, InstallsSound
<1> QED BY <1>4, <1>5, <1>6 DEF StoreInv

\* A release is named when it was tried and all its parts are there.
LEMMA PublishSound == ASSUME Store!ConstantsAssumption, StoreInv, Store!Publish PROVE StoreInv'
<1>1. UNCHANGED <<choice, local, locked, fetched, installs, tampered, onDisk, jobs, loaded>>
  BY DEF Store!Publish, Store!store, Store!project
<1>2. Published /\ Loads /\ Project BY DEF StoreInv
<1>3. PICK r \in Release :
        \/ (Store!CheckBundles(r) \/ Store!LookUpTag(r)) /\ UNCHANGED <<registry, tag>>
        \/ Store!Push(r) /\ UNCHANGED tag
        \/ Store!TagIndex(r)
        \/ Store!Abandon(r) /\ UNCHANGED <<registry, tag>>
  BY DEF Store!Publish
<1> USE DEF Store!Publisher
<1>4. Published'
  <2>1. CASE Store!CheckBundles(r) /\ UNCHANGED <<registry, tag>> BY <1>2, <2>1 DEF Published, Store!CheckBundles
  <2>2. CASE Store!LookUpTag(r) /\ UNCHANGED <<registry, tag>> BY <1>2, <2>2 DEF Published, Store!LookUpTag
  <2>3. CASE Store!Push(r) /\ UNCHANGED tag BY <1>2, <2>3 DEF Published, Store!Push
  <2>4. CASE Store!TagIndex(r) BY <1>2, <2>4 DEF Published, Store!TagIndex
  <2>5. CASE Store!Abandon(r) /\ UNCHANGED <<registry, tag>> BY <1>2, <2>5 DEF Published, Store!Abandon
  <2> QED BY <1>3, <2>1, <2>2, <2>3, <2>4, <2>5
<1>5. Loads' BY <1>1, <1>2, AllKept, LoadsKept
<1>6. Project' /\ EntrySound(locked)' /\ InstallsSound' BY <1>1 DEF StoreInv, Project, EntrySound, InstallsSound
<1> QED BY <1>4, <1>5, <1>6 DEF StoreInv

\* People edit the project while loads go on, and the stores decay while none does.
LEMMA OthersSound == ASSUME StoreInv, Store!Edit \/ Store!Forget \/ Store!Decay PROVE StoreInv'
<1>1. UNCHANGED <<registry, tag, pub, jobs, loaded>> BY DEF Store!Edit, Store!Forget, Store!Decay, Store!remote
<1>2. Published' BY <1>1 DEF StoreInv, Published
<1>3. CASE Store!Edit
  <2>1. UNCHANGED <<locked, fetched, installs, tampered>> /\ onDisk' = onDisk \cup {local'} BY <1>3 DEF Store!Edit, Store!store
  <2>2. /\ choice' \in Declarations /\ local' \in [1..2 -> Nat]
        /\ local[1] \in Nat /\ local'[1] \in Nat /\ local'[1] >= local[1]
    BY <1>3 DEF Store!Edit, StoreInv, Project
  <2>3. Kept BY <1>1, <2>1, <2>2 DEF Kept
  <2>4. Loads' BY <1>1, <2>3, LoadsKept DEF StoreInv
  <2>5. Project' BY <2>1, <2>2 DEF Project
  <2>6. EntrySound(locked)' /\ InstallsSound' BY <1>1, <2>1 DEF StoreInv, EntrySound, InstallsSound
  <2> QED BY <1>2, <2>4, <2>5, <2>6 DEF StoreInv
<1>4. CASE Store!Forget
  <2>1. UNCHANGED <<choice, local, onDisk, fetched, installs, tampered>> /\ locked' = <<>> BY <1>4 DEF Store!Forget, Store!store
  <2>2. Loads' BY <1>1, <2>1, AllKept, LoadsKept DEF StoreInv
  <2>3. Project' /\ EntrySound(locked)' /\ InstallsSound' BY <2>1 DEF StoreInv, Project, EntrySound, InstallsSound
  <2> QED BY <1>2, <2>2, <2>3 DEF StoreInv
<1>5. CASE Store!Decay
  <2>1. UNCHANGED <<choice, local, locked, onDisk>> /\ \A j \in Job : jobs[j] = Store!Idle BY <1>5 DEF Store!Decay, Store!project
  <2>2. Loads' BY <1>1, <2>1 DEF StoreInv, Loads, Store!Idle
  <2>3. Project' /\ EntrySound(locked)' BY <1>1, <2>1 DEF StoreInv, Project, EntrySound
  <2>4. InstallsSound'
    <3>1. CASE UNCHANGED <<installs, tampered>> /\ DOMAIN fetched' = DOMAIN fetched
      BY <2>1, <3>1 DEF StoreInv, InstallsSound
    <3>2. ASSUME NEW k \in DOMAIN installs, NEW code, installs' = [installs EXCEPT ![k] = code], tampered' = tampered \cup {k}, UNCHANGED fetched
          PROVE  InstallsSound'
      BY <2>1, <3>2 DEF StoreInv, InstallsSound
    <3>3. CASE fetched' = [p \in Store!Part |-> "absent"] /\ UNCHANGED <<installs, tampered>>
      BY <2>1, <3>3 DEF StoreInv, InstallsSound
    <3>4. CASE installs' = <<>> /\ UNCHANGED <<fetched, tampered>>
      <4>1. DOMAIN installs' = {} BY <3>4
      <4> QED BY <2>1, <3>4, <4>1 DEF StoreInv, InstallsSound
    <3> QED BY <1>5, <3>1, <3>2, <3>3, <3>4 DEF Store!Decay
  <2> QED BY <1>2, <2>2, <2>3, <2>4 DEF StoreInv
<1> QED BY <1>3, <1>4, <1>5

\* Every step of publishers, loads and people preserves the invariant.
LEMMA StoreStep == Store!ConstantsAssumption /\ StoreInv /\ [Store!Next]_(Store!vars) => StoreInv'
<1> SUFFICES ASSUME Store!ConstantsAssumption, StoreInv, [Store!Next]_(Store!vars) PROVE StoreInv' OBVIOUS
<1>0. CASE UNCHANGED Store!vars
  <2>1. UNCHANGED <<registry, tag, pub, choice, local, locked, fetched, installs, jobs, tampered, onDisk, loaded>> BY <1>0 DEF Store!vars
  <2>2. Loads' BY <2>1, AllKept, LoadsKept DEF StoreInv
  <2> QED BY <2>1, <2>2 DEF StoreInv, Published, Project, EntrySound, InstallsSound
<1>1. CASE Store!Publish BY <1>1, PublishSound
<1>2. CASE Store!Load
  <2>1. PICK j \in Job :
        \/ Store!Start(j) \/ Store!Select(j) \/ Store!Install(j) \/ Store!Extract(j) \/ Store!Compare(j)
        \/ Store!HashA(j) \/ Store!HashB(j) \/ Store!CopyA(j) \/ Store!CopyB(j)
        \/ Store!Place(j) \/ Store!Describe(j) \/ Store!End(j) \/ Store!Interrupt(j)
        \/ Store!Fetch(j, "index", 3, "install") \/ Store!Fetch(j, "manifest", 2, "layer") \/ Store!Fetch(j, "layer", 1, "extract")
    BY <1>2 DEF Store!Load
  <2>2. ASSUME Store!Fetch(j, "index", 3, "install") \/ Store!Fetch(j, "manifest", 2, "layer") \/ Store!Fetch(j, "layer", 1, "extract")
        PROVE  StoreInv'
    BY <2>2, FetchSound
  <2> QED BY <2>1, <2>2, StartSound, SelectSound, InstallSound, ExtractSound, CompareSound, HashSound, CopySound,
             PlaceSound, DescribeSound, EndSound
<1>3. CASE Store!Edit \/ Store!Forget \/ Store!Decay BY <1>3, OthersSound
<1> QED BY <1>0, <1>1, <1>2, <1>3 DEF Store!Next

\* publish.go:36: what a tag names can be installed and run, whichever publication was cut
\* off or raced with another.
THEOREM TagsNameWholeReleases == ASSUME Store!ConstantsAssumption PROVE Store!Spec => []Store!ReleaseWhole
<1>1. StoreInv => Store!ReleaseWhole BY DEF StoreInv, Published, Store!ReleaseWhole
<1>2. Store!Init => StoreInv BY StoreInit
<1>3. StoreInv /\ [Store!Next]_(Store!vars) => StoreInv' BY StoreStep
<1> QED BY <1>1, <1>2, <1>3, PTL DEF Store!Spec

\* engine/plugins.go:132: every entry of the lock loaded once.
THEOREM EntriesLoaded == ASSUME Store!ConstantsAssumption PROVE Store!Spec => []Store!LockedLoaded
<1>1. StoreInv => Store!LockedLoaded BY DEF StoreInv, EntrySound, Store!LockedLoaded
<1>2. Store!Init => StoreInv BY StoreInit
<1>3. StoreInv /\ [Store!Next]_(Store!vars) => StoreInv' BY StoreStep
<1> QED BY <1>1, <1>2, <1>3, PTL DEF Store!Spec

\* local.go:118, 148: an installation of local files holds what the directory held at one moment,
\* however many loads hash and copy while it is edited.
THEOREM CopiesWereOnDisk == ASSUME Store!ConstantsAssumption PROVE Store!Spec => []Store!InstalledWasOnDisk
<1>1. StoreInv => Store!InstalledWasOnDisk BY DEF StoreInv, InstallsSound, Store!InstalledWasOnDisk
<1>2. Store!Init => StoreInv BY StoreInit
<1>3. StoreInv /\ [Store!Next]_(Store!vars) => StoreInv' BY StoreStep
<1> QED BY <1>1, <1>2, <1>3, PTL DEF Store!Spec

\* local.go:30, store.go:138: what runs is what the declaration, or the entry made for it, pins.
THEOREM PinnedCodeRuns == ASSUME Store!ConstantsAssumption PROVE Store!Spec => []Store!RunsPinned
<1>1. StoreInv => Store!RunsPinned
  <2> SUFFICES ASSUME StoreInv, NEW j \in Job, jobs[j].step = "loaded"
      PROVE  LET x == jobs[j]
                 pinned == IF x.declaration[1] = "digest" THEN <<x.declaration[2]>>
                           ELSE IF x.locked # <<>> /\ x.locked[1].declaration = x.declaration THEN x.locked[1].digest ELSE <<>>
             IN  /\ (~Store!Resolves(x) => x.key = pinned)
                 /\ x.ran = x.key \/ (x.key \in tampered /\ x.kind # "verify")
    BY DEF Store!RunsPinned, Store!At
  <2>1. Told(jobs[j]) /\ Chose(jobs[j]) /\ Holds(jobs[j]) BY DEF StoreInv, Loads, Working, Store!Idle
  <2>2. jobs[j].ran = jobs[j].key \/ (jobs[j].key \in tampered /\ jobs[j].kind # "verify") BY <2>1 DEF Holds
  <2>3. ASSUME ~Store!Resolves(jobs[j])
        PROVE  jobs[j].key = jobs[j].pin /\ jobs[j].pin = Store!Pin(jobs[j].declaration, jobs[j].locked) /\ jobs[j].declaration # <<>>
    BY <2>1, <2>3 DEF Told, Chose, Chosen, Store!Resolves
  <2> QED BY <2>2, <2>3 DEF Store!Pin, Store!Answers
<1>2. Store!Init => StoreInv BY StoreInit
<1>3. StoreInv /\ [Store!Next]_(Store!vars) => StoreInv' BY StoreStep
<1> QED BY <1>1, <1>2, <1>3, PTL DEF Store!Spec

\* store.go:188, 380: a load fails for want of the registry only while it misses the index or the
\* installation, whatever other loads do to the stores in between.
THEOREM InstalledPluginsRunOffline ==
    ASSUME Store!ConstantsAssumption PROVE Store!Spec => [][Store!InstalledSuffices]_(Store!vars)
<1>1. StoreInv /\ [Store!Next]_(Store!vars) => [Store!InstalledSuffices]_(Store!vars)
  <2> SUFFICES ASSUME StoreInv, Store!Next, NEW j \in Job, jobs[j].step \in {"index", "manifest", "layer"}, jobs'[j].step = "failed"
      PROVE  fetched[<<jobs[j].key[1], 3>>] # "good" \/ jobs[j].key \notin DOMAIN installs \/ jobs[j].kind = "verify"
    BY DEF Store!InstalledSuffices
  <2>1. Told(jobs[j]) /\ Fetched(jobs[j]) /\ Loads BY DEF StoreInv, Loads, Working, Store!Idle
  <2>2. Store!Load BY DEF Store!Next, Store!Publish, Store!Edit, Store!Forget, Store!Decay
  <2>3. PICK i \in Job :
        \/ Store!Start(i) \/ Store!Select(i) \/ Store!Install(i) \/ Store!Extract(i) \/ Store!Compare(i)
        \/ Store!HashA(i) \/ Store!HashB(i) \/ Store!CopyA(i) \/ Store!CopyB(i)
        \/ Store!Place(i) \/ Store!Describe(i) \/ Store!End(i) \/ Store!Interrupt(i)
        \/ Store!Fetch(i, "index", 3, "install") \/ Store!Fetch(i, "manifest", 2, "layer") \/ Store!Fetch(i, "layer", 1, "extract")
    BY <2>2 DEF Store!Load
  <2>4. /\ i = j
        /\ \/ Store!Fetch(i, "index", 3, "install") \/ Store!Fetch(i, "manifest", 2, "layer") \/ Store!Fetch(i, "layer", 1, "extract")
    <3> USE DEF Store!At, Store!Goto, Store!Give, Loads
    <3>1. jobs'[j] # jobs[j] OBVIOUS
    <3>2. CASE Store!Start(i) BY <2>1, <3>1, <3>2 DEF Store!Start, Store!Idle
    <3>3. CASE Store!Select(i) \/ Store!Install(i) \/ Store!Extract(i) \/ Store!Compare(i)
      BY <2>1, <3>1, <3>3 DEF Store!Select, Store!Install, Store!Extract, Store!Compare
    <3>4. CASE Store!HashA(i) \/ Store!HashB(i) \/ Store!CopyA(i) \/ Store!CopyB(i)
      BY <2>1, <3>1, <3>4 DEF Store!HashA, Store!HashB, Store!CopyA, Store!CopyB
    <3>5. CASE Store!Place(i) \/ Store!Describe(i) BY <2>1, <3>1, <3>5 DEF Store!Place, Store!Describe
    <3>6. CASE Store!End(i) \/ Store!Interrupt(i) BY <2>1, <3>1, <3>6 DEF Store!End, Store!Interrupt, Store!Idle
    <3>7. CASE Store!Fetch(i, "index", 3, "install") \/ Store!Fetch(i, "manifest", 2, "layer") \/ Store!Fetch(i, "layer", 1, "extract")
      BY <2>1, <3>1, <3>7 DEF Store!Fetch
    <3> QED BY <2>3, <3>2, <3>3, <3>4, <3>5, <3>6, <3>7
  <2>5. /\ Store!Fetch(i, "index", 3, "install") => fetched[<<jobs[j].key[1], 3>>] # "good" /\ jobs[j].step = "index"
        /\ Store!Fetch(i, "manifest", 2, "layer") => fetched[<<jobs[j].key[1], 2>>] # "good" /\ jobs[j].step = "manifest"
        /\ Store!Fetch(i, "layer", 1, "extract") => fetched[<<jobs[j].key[1], 1>>] # "good" /\ jobs[j].step = "layer"
    BY <2>1, <2>4 DEF Store!Fetch, Store!Goto, Store!At, Loads, Told
  <2>6. CASE jobs[j].step = "index"
    BY <2>4, <2>5, <2>6
  <2>7. CASE jobs[j].step = "manifest"
    <3>1. fetched[<<jobs[j].key[1], 2>>] # "good" BY <2>4, <2>5, <2>7
    <3> QED BY <2>1, <2>7, <3>1 DEF Fetched, Good
  <2>8. CASE jobs[j].step = "layer"
    <3>1. fetched[<<jobs[j].key[1], 1>>] # "good" BY <2>4, <2>5, <2>8
    <3> QED BY <2>1, <2>8, <3>1 DEF Fetched, Good
  <2> QED BY <2>6, <2>7, <2>8
<1>2. Store!Init => StoreInv BY StoreInit
<1>3. StoreInv /\ [Store!Next]_(Store!vars) => StoreInv' BY StoreStep
<1> QED BY <1>1, <1>2, <1>3, PTL DEF Store!Spec

(***************************************************************************)
(* The documents of a lock.  Names that the file system takes for one name are  *)
(* one name on the disk, and the documents of a lock differ even without case:   *)
(* what a save writes then replaces one document and leaves the others.        *)
(***************************************************************************)
CONSTANTS Locks, Lower, MaxSaves
VARIABLES folds, docs, folders, hidden, goal, previous, saving, stale, climbing, todo, left, ended, saves, cuts
Saves == INSTANCE LockDocuments WITH dirs <- folders, base <- previous, whole <- ended, faults <- cuts

\* Paths, and what the disk has under one.
Name == (DOMAIN Lower) \X Int
Path == {p \in Seq(Name) : Len(p) <= 4}
Present == folders \cup DOMAIN docs

\* No two names of a directory are one name to the file system, and what is yet to be
\* removed or written is of the lock that is being saved.
DiskSound == Present \subseteq Path /\ \A e, f \in Present : Saves!Same(e, f) => e = f
SaveSound ==
    /\ saving => goal \in Locks /\ Saves!CheckPaths(Saves!Documents(goal)) /\ todo \subseteq Saves!Documents(goal)
    /\ saving => stale \cap Saves!Documents(goal) = {}
    /\ ~saving => stale = {} /\ todo = {} /\ climbing = {}
SaveInv == DiskSound /\ SaveSound /\ Saves!OthersUntouched

\* Names that fold to one have one length.
LEMMA FoldLength == ASSUME NEW p \in Path, NEW q \in Path, Saves!Same(p, q) PROVE Len(p) = Len(q)
<1>1. Len(p) \in Nat /\ Len(q) \in Nat /\ DOMAIN p = 1..Len(p) /\ DOMAIN q = 1..Len(q) BY LenProperties DEF Path
<1>2. DOMAIN p = DOMAIN q
  <2>1. CASE p = q BY <2>1
  <2>2. CASE Saves!Folded(p) = Saves!Folded(q)
    <3>1. DOMAIN Saves!Folded(p) = DOMAIN p /\ DOMAIN Saves!Folded(q) = DOMAIN q BY DEF Saves!Folded
    <3> QED BY <2>2, <3>1
  <2> QED BY <2>1, <2>2 DEF Saves!Same
<1>3. \A i \in Nat : i \in 1..Len(p) <=> i \in 1..Len(q) BY <1>1, <1>2
<1>4. ~(Len(p) < Len(q)) /\ ~(Len(q) < Len(p)) BY <1>1, <1>3
<1>5. \A m, n \in Nat : ~(m < n) /\ ~(n < m) => m = n OBVIOUS
<1> QED BY <1>1, <1>4, <1>5

\* Same is an equivalence.
LEMMA SameOften ==
    /\ \A p : Saves!Same(p, p)
    /\ \A p, q : Saves!Same(p, q) => Saves!Same(q, p)
    /\ \A p, q, r : Saves!Same(p, q) /\ Saves!Same(q, r) => Saves!Same(p, r)
BY DEF Saves!Same

\* A path of which the first names are exchanged for the same ones is the same path.
LEMMA SameConcat ==
    ASSUME NEW p \in Path, NEW k \in 0..Len(p), NEW e \in Path, Saves!Same(e, SubSeq(p, 1, k))
    PROVE  /\ e \o SubSeq(p, k + 1, Len(p)) \in Path /\ Len(e \o SubSeq(p, k + 1, Len(p))) = Len(p)
           /\ Len(e) = k /\ Saves!Same(e \o SubSeq(p, k + 1, Len(p)), p)
<1> DEFINE a == SubSeq(p, 1, k)
           b == SubSeq(p, k + 1, Len(p))
           c == e \o b
<1>1. p \in Seq(Name) /\ Len(p) \in Nat /\ Len(p) <= 4 /\ k \in Nat /\ DOMAIN p = 1..Len(p) /\ \A i \in 1..Len(p) : p[i] \in Name
  BY LenProperties, ElementOfSeq DEF Path
<1>2. a \in Seq(Name) /\ Len(a) = k /\ \A i \in 1..k : a[i] = p[i]
  <2>1. \A i \in 1..k : p[i] \in Name BY <1>1
  <2> QED BY <1>1, <2>1, SubSeqProperties
<1>3. b \in Seq(Name) /\ Len(b) = Len(p) - k /\ \A i \in 1..(Len(p) - k) : b[i] = p[k + i]
  <2>1. \A i \in (k + 1)..Len(p) : p[i] \in Name BY <1>1
  <2>2. /\ b \in Seq(Name) /\ Len(b) = IF k + 1 <= Len(p) THEN Len(p) - (k + 1) + 1 ELSE 0
        /\ \A i \in 1 .. (Len(p) - (k + 1) + 1) : b[i] = p[(k + 1) + i - 1]
    BY <1>1, <2>1, SubSeqProperties
  <2>3. Len(b) = Len(p) - k
    <3>1. \A m, n \in Nat : m <= n => (IF m + 1 <= n THEN n - (m + 1) + 1 ELSE 0) = n - m OBVIOUS
    <3>2. k <= Len(p) BY <1>1
    <3> QED BY <1>1, <2>2, <3>1, <3>2
  <2>4. ASSUME NEW i \in 1..(Len(p) - k) PROVE b[i] = p[k + i]
    <3>1. i \in 1 .. (Len(p) - (k + 1) + 1) /\ (k + 1) + i - 1 = k + i BY <1>1
    <3> QED BY <2>2, <3>1
  <2> QED BY <2>2, <2>3, <2>4
<1>4. Len(e) = k
  <2>1. a \in Path BY <1>1, <1>2 DEF Path
  <2> QED BY <1>2, <2>1, FoldLength
<1> HIDE DEF a, b
<1>5. c \in Seq(Name) /\ Len(c) = Len(p) /\ \A i \in 1..Len(p) : c[i] = IF i <= k THEN e[i] ELSE p[i]
  <2>1. e \in Seq(Name) BY DEF Path
  <2>2. c \in Seq(Name) /\ Len(c) = Len(e) + Len(b) /\ \A i \in 1..(Len(e) + Len(b)) : c[i] = IF i <= Len(e) THEN e[i] ELSE b[i - Len(e)]
    BY <1>3, <2>1, ConcatProperties
  <2>3. \A i \in 1..Len(p) : i > k => b[i - k] = p[i] BY <1>1, <1>3
  <2> QED BY <1>1, <1>3, <1>4, <2>2, <2>3
<1>6. Saves!Same(c, p)
  <2>1. CASE e = a
    <3>1. \A i \in 1..Len(p) : c[i] = p[i] BY <1>1, <1>2, <1>5, <2>1
    <3>2. c = p BY <1>1, <1>5, <3>1, SeqEqual
    <3> QED BY <3>2, SameOften
  <2>2. CASE folds /\ Saves!Folded(e) = Saves!Folded(a)
    <3>1. DOMAIN e = 1..k /\ DOMAIN a = 1..k /\ DOMAIN c = 1..Len(p)
      BY <1>1, <1>2, <1>4, <1>5, LenProperties DEF Path
    <3>2. \A i \in 1..k : <<Lower[e[i][1]], e[i][2]>> = <<Lower[a[i][1]], a[i][2]>>
      <4>1. \A i \in 1..k : Saves!Folded(e)[i] = <<Lower[e[i][1]], e[i][2]>> /\ Saves!Folded(a)[i] = <<Lower[a[i][1]], a[i][2]>>
        BY <3>1 DEF Saves!Folded
      <4> QED BY <2>2, <4>1
    <3>3. \A i \in 1..Len(p) : <<Lower[c[i][1]], c[i][2]>> = <<Lower[p[i][1]], p[i][2]>>
      <4> SUFFICES ASSUME NEW i \in 1..Len(p) PROVE <<Lower[c[i][1]], c[i][2]>> = <<Lower[p[i][1]], p[i][2]>> OBVIOUS
      <4>1. CASE i <= k
        <5>1. i \in 1..k BY <1>1, <4>1
        <5>2. c[i] = e[i] /\ a[i] = p[i] BY <1>2, <1>5, <4>1, <5>1
        <5> QED BY <3>2, <5>1, <5>2
      <4>2. CASE i > k
        <5>1. c[i] = p[i] BY <1>1, <1>5, <4>2
        <5> QED BY <5>1
      <4>3. i <= k \/ i > k BY <1>1
      <4> QED BY <4>1, <4>2, <4>3
    <3>4. Saves!Folded(c) = Saves!Folded(p) BY <1>1, <3>1, <3>3 DEF Saves!Folded
    <3> QED BY <2>2, <3>4 DEF Saves!Same
  <2> QED BY <2>1, <2>2 DEF Saves!Same, a
<1> QED BY <1>1, <1>4, <1>5, <1>6 DEF Path, b

\* The beginnings of a path are paths.
LEMMA BeginningIsPath ==
    ASSUME NEW p \in Path, NEW k \in 0..Len(p)
    PROVE  SubSeq(p, 1, k) \in Path /\ Len(SubSeq(p, 1, k)) = k /\ \A i \in 1..k : SubSeq(p, 1, k)[i] = p[i]
<1>1. p \in Seq(Name) /\ Len(p) \in Nat /\ Len(p) <= 4 /\ k \in Nat /\ k <= Len(p) /\ \A i \in 1..Len(p) : p[i] \in Name
  BY LenProperties, ElementOfSeq DEF Path
<1>2. \A i \in 1..k : p[i] \in Name BY <1>1
<1>3. \A n \in Nat : (IF 1 <= n THEN n - 1 + 1 ELSE 0) = n /\ n - 1 + 1 = n OBVIOUS
<1>4. SubSeq(p, 1, k) \in Seq(Name) /\ Len(SubSeq(p, 1, k)) = k /\ \A i \in 1..k : SubSeq(p, 1, k)[i] = p[i]
  <2>1. /\ SubSeq(p, 1, k) \in Seq(Name) /\ Len(SubSeq(p, 1, k)) = IF 1 <= k THEN k - 1 + 1 ELSE 0
        /\ \A i \in 1 .. (k - 1 + 1) : SubSeq(p, 1, k)[i] = p[1 + i - 1]
    BY <1>1, <1>2, SubSeqProperties
  <2>2. \A i \in 1..k : 1 + i - 1 = i BY <1>1
  <2> QED BY <1>1, <1>3, <2>1, <2>2
<1> QED BY <1>1, <1>4 DEF Path

\* What a path leads to is the same path, and is there exactly if the path is.
LEMMA AtFinds ==
    ASSUME Present \subseteq Path, NEW p \in Path
    PROVE  /\ Saves!At(p) \in Path /\ Len(Saves!At(p)) = Len(p) /\ Saves!Same(Saves!At(p), p)
           /\ (\E e \in Present : Saves!Same(e, p)) => Saves!At(p) \in Present
<1> DEFINE There(n) == \E e \in Present : Saves!Same(e, SubSeq(p, 1, n))
           Longest(n) == (n = 0 \/ There(n)) /\ \A m \in (n + 1)..Len(p) : ~There(m)
           k == CHOOSE n \in 0..Len(p) : Longest(n)
           e == CHOOSE x \in Present : Saves!Same(x, SubSeq(p, 1, k))
<1>1. p \in Seq(Name) /\ Len(p) \in Nat /\ Len(p) <= 4 BY LenProperties DEF Path
<1>2. Saves!At(p) = IF k = 0 THEN p ELSE e \o SubSeq(p, k + 1, Len(p)) BY DEF Saves!At, Present
<1>3. k \in 0..Len(p) /\ Longest(k)
  <2>1. \E n \in 0..Len(p) : Longest(n)
    <3> HIDE DEF There
    <3>0. \A n \in Nat : n <= 4 => n \in {0, 1, 2, 3, 4} OBVIOUS
    <3>1. Len(p) \in {0, 1, 2, 3, 4} BY <1>1, <3>0
    <3>2. CASE Len(p) = 0
      <4>1. Longest(0) BY <3>2
      <4> QED BY <3>2, <4>1
    <3>3. CASE Len(p) = 1
      <4>1. There(1) => Longest(1) BY <3>3
      <4>2. ~There(1) => Longest(0) BY <3>3
      <4> QED BY <3>3, <4>1, <4>2
    <3>4. CASE Len(p) = 2
      <4>1. There(2) => Longest(2) BY <3>4
      <4>2. There(1) /\ ~There(2) => Longest(1) BY <3>4
      <4>3. ~There(1) /\ ~There(2) => Longest(0) BY <3>4
      <4> QED BY <3>4, <4>1, <4>2, <4>3
    <3>5. CASE Len(p) = 3
      <4>1. There(3) => Longest(3) BY <3>5
      <4>2. There(2) /\ ~There(3) => Longest(2) BY <3>5
      <4>3. There(1) /\ ~There(2) /\ ~There(3) => Longest(1) BY <3>5
      <4>4. ~There(1) /\ ~There(2) /\ ~There(3) => Longest(0) BY <3>5
      <4> QED BY <3>5, <4>1, <4>2, <4>3, <4>4
    <3>6. CASE Len(p) = 4
      <4>1. There(4) => Longest(4) BY <3>6
      <4>2. There(3) /\ ~There(4) => Longest(3) BY <3>6
      <4>3. There(2) /\ ~There(3) /\ ~There(4) => Longest(2) BY <3>6
      <4>4. There(1) /\ ~There(2) /\ ~There(3) /\ ~There(4) => Longest(1) BY <3>6
      <4>5. ~There(1) /\ ~There(2) /\ ~There(3) /\ ~There(4) => Longest(0) BY <3>6
      <4> QED BY <3>6, <4>1, <4>2, <4>3, <4>4, <4>5
    <3> QED BY <3>1, <3>2, <3>3, <3>4, <3>5, <3>6
  <2> HIDE DEF Longest
  <2> QED BY <2>1
<1>4. SubSeq(p, 1, Len(p)) = p BY <1>1, SubSeqFull
<1> HIDE DEF k
<1>5. (\E x \in Present : Saves!Same(x, p)) => There(Len(p)) BY <1>4
<1>6. There(Len(p)) => k = Len(p)
  <2> HIDE DEF There
  <2> QED BY <1>1, <1>3
<1>7. CASE k = 0
  <2>1. Saves!At(p) = p BY <1>2, <1>7
  <2>2. ASSUME NEW x \in Present, Saves!Same(x, p) PROVE p \in Present
    <3>1. Len(p) = 0 BY <1>5, <1>6, <1>7, <2>2
    <3>2. x \in Seq(Name) /\ Len(x) = 0 BY <2>2, <3>1, FoldLength DEF Path
    <3>3. x = <<>> /\ p = <<>> BY <1>1, <3>1, <3>2, EmptySeq
    <3> QED BY <3>3
  <2> QED BY <2>1, <2>2, SameOften
<1>8. CASE k # 0
  <2>1. There(k) BY <1>3, <1>8
  <2>2. e \in Present /\ Saves!Same(e, SubSeq(p, 1, k)) BY <2>1
  <2> HIDE DEF e
  <2>3. Saves!At(p) = e \o SubSeq(p, k + 1, Len(p)) BY <1>2, <1>8
  <2>4. e \in Path BY <2>2
  <2>5. Saves!At(p) \in Path /\ Len(Saves!At(p)) = Len(p) /\ Saves!Same(Saves!At(p), p)
    BY <1>3, <2>2, <2>3, <2>4, SameConcat
  <2>6. ASSUME There(Len(p)) PROVE Saves!At(p) \in Present
    <3>1. k = Len(p) BY <1>6, <2>6
    <3>2. SubSeq(p, k + 1, Len(p)) = <<>> BY <1>1, <3>1, SubSeqEmpty
    <3>3. Saves!At(p) = e BY <2>3, <2>4, <3>2, ConcatEmptySeq DEF Path
    <3> QED BY <2>2, <3>3
  <2> QED BY <1>5, <2>5, <2>6
<1> QED BY <1>7, <1>8

\* Where a resource's document is, is a path of one to four names.
LEMMA DocumentIsPath ==
    ASSUME Saves!ConstantsAssumption, NEW lock \in Locks, NEW r \in DOMAIN lock
    PROVE  Saves!DocumentPath(r) \in Path /\ Len(Saves!DocumentPath(r)) # 0
<1>1. r = <<>> \/ (r \in Seq(Name) /\ Len(r) = 4) BY DEF Name, Saves!ConstantsAssumption, Saves!Plugins
<1>2. CASE r = <<>>
  <2>1. Saves!DocumentPath(r) = <<<<"plugins", 1>>>> BY <1>2 DEF Saves!DocumentPath, Saves!Plugins, Saves!PluginDocument
  <2>2. <<"plugins", 1>> \in Name BY DEF Name, Saves!ConstantsAssumption
  <2>3. <<<<"plugins", 1>>>> \in Seq(Name) /\ Len(<<<<"plugins", 1>>>>) = 1 BY <2>2
  <2> QED BY <2>1, <2>3 DEF Path
<1>3. CASE r # <<>>
  <2> DEFINE short == SubSeq(r, 3, 4)
  <2>0. r \in Seq(Name) /\ Len(r) = 4 BY <1>1, <1>3
  <2>1. short \in Seq(Name) /\ Len(short) = 2
    <3>0. \A i \in 3..4 : i \in 1..4 OBVIOUS
    <3>1. \A i \in 3..4 : r[i] \in Name BY <2>0, <3>0, ElementOfSeq
    <3>2. short \in Seq(Name) /\ Len(short) = IF 3 <= 4 THEN 4 - 3 + 1 ELSE 0 BY <3>1, SubSeqProperties
    <3> QED BY <3>2
  <2> HIDE DEF short
  <2>2. ASSUME NEW p \in Seq(Name), Len(p) \in {2, 4} PROVE Saves!Named(p, 1) \in Path /\ Len(Saves!Named(p, 1)) # 0
    <3>0. Len(p) \in 1..Len(p)
      <4>1. \A m \in {2, 4} : m \in 1..m OBVIOUS
      <4> QED BY <2>2, <4>1
    <3>1. p[Len(p)] \in Name BY <2>2, <3>0, ElementOfSeq
    <3> DEFINE n == <<p[Len(p)][1], p[Len(p)][2] + 1>>
    <3>2. n \in Name BY <3>1 DEF Name
    <3>3. Saves!Named(p, 1) = [p EXCEPT ![Len(p)] = n] BY DEF Saves!Named
    <3> HIDE DEF n
    <3>4. Saves!Named(p, 1) \in Seq(Name) /\ Len(Saves!Named(p, 1)) = Len(p) BY <2>2, <3>0, <3>2, <3>3, ExceptSeq
    <3>5. \A m \in {2, 4} : m <= 4 /\ m # 0 OBVIOUS
    <3> QED BY <2>2, <3>4, <3>5 DEF Path
  <2>3. Saves!DocumentPath(r) = Saves!Named(short, 1) \/ Saves!DocumentPath(r) = Saves!Named(r, 1)
    BY <1>3 DEF Saves!DocumentPath, Saves!Plugins, short
  <2> QED BY <2>0, <2>1, <2>2, <2>3
<1> QED BY <1>2, <1>3

\* Two documents of a lock in one place are one.
LEMMA DocumentsApart ==
    ASSUME Saves!ConstantsAssumption, NEW lock \in Locks, Saves!CheckPaths(Saves!Documents(lock)),
           NEW p \in Saves!Documents(lock), NEW q \in Saves!Documents(lock), Saves!Same(p, q)
    PROVE  p = q
<1>1. p \in Path /\ q \in Path BY DocumentIsPath DEF Saves!Documents
<1>2. ASSUME NEW d \in Saves!Documents(lock) PROVE d \in Saves!Ancestors(Saves!Documents(lock))
  <2>1. d \in Path BY <1>2, DocumentIsPath DEF Saves!Documents
  <2>2. d \in Seq(Name) /\ Len(d) \in Nat /\ SubSeq(d, 1, Len(d)) = d BY <2>1, LenProperties, SubSeqFull DEF Path
  <2>3. Len(d) \in 0..Len(d) BY <2>2
  <2>4. d \in Saves!Prefixes(d) BY <2>2, <2>3 DEF Saves!Prefixes
  <2> QED BY <1>2, <2>4 DEF Saves!Ancestors
<1> QED BY <1>2 DEF Saves!CheckPaths, Saves!Same

\* The beginnings of a path are paths, and those before the last name are shorter.
LEMMA FrontIsPath ==
    ASSUME NEW p \in Path, Len(p) # 0
    PROVE  /\ Saves!Front(p) \in Path /\ Len(Saves!Front(p)) = Len(p) - 1
           /\ \A f \in Saves!Prefixes(Saves!Front(p)) : f \in Path /\ Len(f) < Len(p)
           /\ \A f, g \in Saves!Prefixes(Saves!Front(p)) : Len(f) = Len(g) => f = g
<1>1. Len(p) \in Nat BY LenProperties DEF Path
<1>2. Len(p) - 1 \in 0..Len(p) BY <1>1
<1>3. Saves!Front(p) \in Path /\ Len(Saves!Front(p)) = Len(p) - 1 BY <1>2, BeginningIsPath DEF Saves!Front
<1>4. \A k \in 0..Len(Saves!Front(p)) : SubSeq(Saves!Front(p), 1, k) \in Path /\ Len(SubSeq(Saves!Front(p), 1, k)) = k
  BY <1>3, BeginningIsPath
<1>5. \A k \in 0..(Len(p) - 1) : k < Len(p) BY <1>1
<1>6. ASSUME NEW f \in Saves!Prefixes(Saves!Front(p))
      PROVE  f \in Path /\ Len(f) < Len(p) /\ f = SubSeq(Saves!Front(p), 1, Len(f))
  <2>1. PICK k \in 0..Len(Saves!Front(p)) : f = SubSeq(Saves!Front(p), 1, k) BY <1>6 DEF Saves!Prefixes
  <2>2. f \in Path /\ Len(f) = k BY <1>4, <2>1
  <2>3. k \in 0..(Len(p) - 1) BY <1>3, <2>1
  <2> QED BY <1>5, <2>1, <2>2, <2>3
<1> QED BY <1>3, <1>6

\* The last name of a document may take the case of its path: it is the same document.
LEMMA ReplacedIsSame ==
    ASSUME Present \subseteq Path, NEW p \in Path, Len(p) # 0
    PROVE  /\ Saves!At(Saves!Front(p)) \o <<Saves!Last(p)>> \in Path
           /\ Saves!Same(Saves!At(Saves!Front(p)) \o <<Saves!Last(p)>>, p)
<1> DEFINE k == Len(p) - 1
           e == Saves!At(Saves!Front(p))
<1>1. p \in Seq(Name) /\ Len(p) \in Nat /\ k \in 0..Len(p) /\ k + 1 = Len(p) BY LenProperties DEF Path
<1>2. e \in Path /\ Saves!Same(e, SubSeq(p, 1, k)) BY FrontIsPath, AtFinds DEF Saves!Front
<1>3. SubSeq(p, k + 1, Len(p)) = <<Saves!Last(p)>>
  <2> DEFINE s == SubSeq(p, Len(p), Len(p))
             t == <<p[Len(p)]>>
  <2>1. Len(p) \in 1..Len(p) BY <1>1
  <2>2. p[Len(p)] \in Name BY <1>1, <2>1, ElementOfSeq
  <2>3. \A i \in Len(p)..Len(p) : p[i] \in Name BY <1>1, <2>1, ElementOfSeq
  <2>4. /\ s \in Seq(Name) /\ Len(s) = IF Len(p) <= Len(p) THEN Len(p) - Len(p) + 1 ELSE 0
        /\ \A i \in 1 .. (Len(p) - Len(p) + 1) : s[i] = p[Len(p) + i - 1]
    BY <1>1, <2>3, SubSeqProperties
  <2>5. \A n \in Nat : n - n + 1 = 1 /\ n <= n /\ n + 1 - 1 = n OBVIOUS
  <2>6. Len(s) = 1 /\ s[1] = p[Len(p)] BY <1>1, <2>4, <2>5
  <2>7. t \in Seq(Name) /\ Len(t) = 1 /\ t[1] = p[Len(p)] BY <2>2
  <2>8. \A i \in 1..1 : i = 1 OBVIOUS
  <2> HIDE DEF s, t
  <2>9. s = t BY <2>4, <2>6, <2>7, <2>8, SeqEqual
  <2> QED BY <1>1, <2>9 DEF s, t, Saves!Last
<1> HIDE DEF e, k
<1>4. e \o SubSeq(p, k + 1, Len(p)) \in Path /\ Saves!Same(e \o SubSeq(p, k + 1, Len(p)), p) BY <1>1, <1>2, SameConcat
<1> QED BY <1>3, <1>4 DEF e

\* Making the directories of a document gives the disk no name twice.
LEMMA MadeDirsSound ==
    ASSUME DiskSound, NEW p \in Path, Len(p) # 0
    PROVE  /\ Saves!MadeDirs(p) \subseteq Path
           /\ \A e, f \in Present \cup Saves!MadeDirs(p) : Saves!Same(e, f) => e = f
           /\ \A e \in Saves!MadeDirs(p) : e \in folders \/ Len(e) # Len(p)
<1> DEFINE M == {Saves!At(q) : q \in Saves!Prefixes(Saves!Front(p))}
<1>1. Saves!MadeDirs(p) = folders \cup M BY DEF Saves!MadeDirs
<1>2. Present \subseteq Path /\ folders \subseteq Present /\ \A e, f \in Present : Saves!Same(e, f) => e = f BY DEF DiskSound, Present
<1>3. Len(p) \in Nat BY LenProperties DEF Path
<1>4. ASSUME NEW e \in M
      PROVE  \E q \in Saves!Prefixes(Saves!Front(p)) :
                /\ e = Saves!At(q) /\ q \in Path /\ e \in Path /\ Len(e) = Len(q) /\ Len(q) < Len(p) /\ Saves!Same(e, q)
                /\ (\E x \in Present : Saves!Same(x, q)) => e \in Present
  <2>1. PICK q \in Saves!Prefixes(Saves!Front(p)) : e = Saves!At(q) BY <1>4
  <2>2. q \in Path /\ Len(q) < Len(p) BY <2>1, FrontIsPath
  <2> QED BY <1>2, <2>1, <2>2, AtFinds
<1> HIDE DEF M
<1>5. ASSUME NEW e \in Present, NEW f \in M, Saves!Same(e, f) PROVE e = f
  <2>1. f \in Present BY <1>4, <1>5, SameOften
  <2> QED BY <1>2, <1>5, <2>1
<1>6. ASSUME NEW e \in M, NEW f \in M, Saves!Same(e, f) PROVE e = f
  <2>1. PICK q \in Saves!Prefixes(Saves!Front(p)) : e = Saves!At(q) /\ e \in Path /\ Len(e) = Len(q) BY <1>4
  <2>2. PICK r \in Saves!Prefixes(Saves!Front(p)) : f = Saves!At(r) /\ f \in Path /\ Len(f) = Len(r) BY <1>4
  <2>3. Len(e) = Len(f) BY <1>6, <2>1, <2>2, FoldLength
  <2>4. \A g, h \in Saves!Prefixes(Saves!Front(p)) : Len(g) = Len(h) => g = h BY FrontIsPath
  <2>5. Len(q) = Len(r) BY <2>1, <2>2, <2>3
  <2>6. q = r BY <2>1, <2>2, <2>4, <2>5
  <2> QED BY <2>1, <2>2, <2>6
<1>7. \A e, f \in Present \cup M : Saves!Same(e, f) => e = f BY <1>2, <1>5, <1>6, SameOften
<1>8. \A e \in M : e \in Path /\ Len(e) # Len(p)
  <2>1. \A m \in Nat : ~(m < m) OBVIOUS
  <2> QED BY <1>3, <1>4, <2>1
<1> QED BY <1>1, <1>2, <1>7, <1>8

\* A document that is written replaces the one in its place, and no other.
LEMMA ReplaceSound == ASSUME Saves!ConstantsAssumption, SaveInv, NEW p \in todo, Saves!WriteDocument(p) PROVE SaveInv'
<1> DEFINE a == Saves!At(p)
           D == Saves!Documents(goal)
<1>1. Saves!Replace(p) /\ stale = {} /\ climbing = {} BY DEF Saves!WriteDocument
<1>2. todo' = todo \ {p} /\ UNCHANGED <<folds, hidden, goal, previous, saving, stale, climbing, left, ended, saves, cuts>>
  BY <1>1 DEF Saves!Replace
<1>3. saving /\ goal \in Locks /\ Saves!CheckPaths(D) /\ p \in D BY DEF SaveInv, SaveSound
<1>4. p \in Path /\ Len(p) # 0 BY <1>3, DocumentIsPath DEF Saves!Documents
<1>5. SaveSound' BY <1>1, <1>2 DEF SaveInv, SaveSound, Saves!Documents, Saves!CheckPaths, Saves!Ancestors, Saves!Folded
<1>6. CASE UNCHANGED <<docs, folders>>
  <2>1. DiskSound' BY <1>2, <1>6 DEF SaveInv, DiskSound, Present, Saves!Same
  <2>2. Saves!OthersUntouched' BY <1>2, <1>6 DEF SaveInv, Saves!OthersUntouched, Saves!Documents, Saves!Encode
  <2> QED BY <1>5, <2>1, <2>2 DEF SaveInv
<1>7. ASSUME ~(a \in DOMAIN docs /\ docs[a] = Saves!Encode(goal)[p]), ~Saves!Blocked(p), folders' = Saves!MadeDirs(p),
             NEW q \in {a, Saves!At(Saves!Front(p)) \o <<Saves!Last(p)>>},
             docs' = [r \in (DOMAIN docs \ {a}) \cup {q} |-> IF r = q THEN Saves!Encode(goal)[p] ELSE docs[r]]
      PROVE  SaveInv'
  <2>1. DiskSound /\ Present \subseteq Path /\ (\A e, f \in Present : Saves!Same(e, f) => e = f) BY DEF SaveInv, DiskSound
  <2>2. a \in Path /\ Len(a) = Len(p) /\ Saves!Same(a, p) /\ ((\E e \in Present : Saves!Same(e, p)) => a \in Present)
    BY <1>4, <2>1, AtFinds
  <2>3. q \in Path /\ Saves!Same(q, p) BY <1>4, <1>7, <2>1, <2>2, ReplacedIsSame
  <2>4. Len(q) = Len(p) BY <1>4, <2>3, FoldLength
  <2>5. a \notin folders BY <1>7 DEF Saves!Blocked
  <2>6. DOMAIN docs' = (DOMAIN docs \ {a}) \cup {q} BY <1>7
  <2>7. /\ folders' \subseteq Path
        /\ \A e, f \in Present \cup folders' : Saves!Same(e, f) => e = f
        /\ \A e \in folders' : e \in folders \/ Len(e) # Len(p)
    BY <1>4, <1>7, <2>1, MadeDirsSound
  <2>8. ASSUME NEW e \in Present', Saves!Same(e, q) PROVE e = q
    <3>1. CASE e \in folders /\ e # q
      <4>1. Saves!Same(e, p) /\ e \in Present BY <2>3, <2>8, <3>1, SameOften DEF Present
      <4>2. a \in Present /\ Saves!Same(e, a) BY <2>2, <4>1, SameOften
      <4>3. e = a BY <2>1, <4>1, <4>2
      <4> QED BY <2>5, <3>1, <4>3
    <3>2. CASE e \in folders' /\ e \notin folders
      <4>1. e \in Path /\ Len(e) # Len(p) BY <2>7, <3>2
      <4>2. Len(e) = Len(q) BY <2>3, <2>8, <4>1, FoldLength
      <4> QED BY <2>4, <4>1, <4>2
    <3>3. CASE e \in DOMAIN docs \ {a} /\ e # q
      <4>1. Saves!Same(e, p) /\ e \in Present BY <2>3, <2>8, <3>3, SameOften DEF Present
      <4>2. a \in Present /\ Saves!Same(e, a) BY <2>2, <4>1, SameOften
      <4>3. e = a BY <2>1, <4>1, <4>2
      <4> QED BY <3>3, <4>3
    <3> QED BY <2>6, <2>8, <3>1, <3>2, <3>3 DEF Present
  <2>9. Present' \subseteq (Present \cup folders') \cup {q} BY <2>6 DEF Present
  <2>10. \A e, f \in Present' : Saves!Same(e, f) => e = f BY <2>7, <2>8, <2>9, SameOften
  <2>11. DiskSound'
    <3>1. Present' \subseteq Path BY <2>1, <2>3, <2>7, <2>9
    <3>2. \A e, f : Saves!Same(e, f)' <=> Saves!Same(e, f) BY <1>2 DEF Saves!Same
    <3> QED BY <2>10, <3>1, <3>2 DEF DiskSound, Path, Name
  <2>12. Saves!OthersUntouched'
    <3> SUFFICES ASSUME NEW o \in DOMAIN previous \cap D, previous[o] = Saves!Encode(goal)[o]
        PROVE o \in DOMAIN docs' /\ docs'[o] = previous[o]
      BY <1>2 DEF Saves!OthersUntouched, Saves!Documents, Saves!Encode
    <3>1. o \in DOMAIN docs /\ docs[o] = previous[o] BY DEF SaveInv, Saves!OthersUntouched
    <3>2. o \in Present /\ o \in D BY <3>1 DEF Present
    <3>3. Saves!Same(o, p) => o = p BY <1>3, <3>2, DocumentsApart
    <3>4. o # a
      <4> SUFFICES ASSUME o = a PROVE FALSE OBVIOUS
      <4>1. o = p BY <2>2, <3>3
      <4> QED BY <1>7, <3>1, <4>1
    <3>5. o # q
      <4> SUFFICES ASSUME o = q PROVE FALSE OBVIOUS
      <4>1. o = p BY <2>3, <3>3
      <4>2. a \in Present /\ Saves!Same(o, a) BY <2>2, <3>2, <4>1, SameOften
      <4>3. o = a BY <2>1, <3>2, <4>2
      <4> QED BY <3>4, <4>3
    <3> QED BY <1>7, <2>6, <3>1, <3>4, <3>5
  <2> QED BY <1>5, <2>11, <2>12 DEF SaveInv
<1> QED BY <1>1, <1>6, <1>7 DEF Saves!Replace

\* Every system call of a save, and whatever cuts it off, preserves the invariant.
LEMMA SaveStep == Saves!ConstantsAssumption /\ SaveInv /\ [Saves!Next]_(Saves!vars) => SaveInv'
<1> SUFFICES ASSUME Saves!ConstantsAssumption, SaveInv, [Saves!Next]_(Saves!vars) PROVE SaveInv' OBVIOUS
<1>0. ASSUME UNCHANGED <<folds, docs, goal, previous>>, Present' \subseteq Present, SaveSound' PROVE SaveInv'
  BY <1>0 DEF SaveInv, DiskSound, Path, Name, Saves!Same, Saves!Folded, Saves!OthersUntouched, Saves!Documents, Saves!Encode
<1>1. CASE UNCHANGED Saves!vars
  <2>1. SaveSound' BY <1>1 DEF SaveInv, SaveSound, Saves!vars, Saves!disk, Saves!Documents, Saves!CheckPaths, Saves!Ancestors, Saves!Folded
  <2> QED BY <1>0, <1>1, <2>1 DEF Saves!vars, Saves!disk, Present
<1>2. ASSUME NEW lock \in Locks, Saves!Begin(lock) PROVE SaveInv'
  <2>1. /\ ~saving /\ saving' = TRUE /\ Saves!CheckPaths(Saves!Documents(lock)) /\ goal' = lock /\ previous' = docs
        /\ stale' = DOMAIN docs \ Saves!Documents(lock) /\ todo' = Saves!Documents(lock) /\ UNCHANGED <<folds, docs, folders, hidden, climbing>>
    BY <1>2 DEF Saves!Begin, Saves!disk
  <2>2. DiskSound' BY <2>1 DEF SaveInv, DiskSound, Present, Path, Name, Saves!Same, Saves!Folded
  <2>3. SaveSound' BY <2>1 DEF SaveSound, Saves!Documents, Saves!CheckPaths, Saves!Ancestors, Saves!Folded
  <2>4. Saves!OthersUntouched' BY <2>1 DEF Saves!OthersUntouched
  <2> QED BY <2>2, <2>3, <2>4 DEF SaveInv
<1>3. ASSUME NEW p \in stale, Saves!RemoveStale(p) PROVE SaveInv'
  <2>1. /\ stale' = stale \ {p} /\ docs' = [q \in DOMAIN docs \ {p} |-> docs[q]]
        /\ UNCHANGED <<folds, folders, goal, previous, saving, todo>>
    BY <1>3 DEF Saves!RemoveStale
  <2>2. saving /\ p \notin Saves!Documents(goal) BY <1>3 DEF SaveInv, SaveSound
  <2>3. SaveSound' BY <2>1, <2>2 DEF SaveInv, SaveSound, Saves!Documents, Saves!CheckPaths, Saves!Ancestors, Saves!Folded
  <2>4. DiskSound' BY <2>1 DEF SaveInv, DiskSound, Present, Path, Name, Saves!Same, Saves!Folded
  <2>5. Saves!OthersUntouched' BY <2>1, <2>2 DEF SaveInv, Saves!OthersUntouched, Saves!Documents, Saves!Encode
  <2> QED BY <2>3, <2>4, <2>5 DEF SaveInv
<1>4. ASSUME NEW d \in climbing, Saves!RemoveDir(d) PROVE SaveInv'
  <2>1. folders' \subseteq folders /\ UNCHANGED <<folds, docs, goal, previous, saving, stale, todo>> BY <1>4 DEF Saves!RemoveDir
  <2>2. SaveSound' BY <1>4, <2>1 DEF SaveInv, SaveSound, Saves!Documents, Saves!CheckPaths, Saves!Ancestors, Saves!Folded
  <2> QED BY <1>0, <2>1, <2>2 DEF Present
<1>5. ASSUME NEW p \in todo, Saves!WriteDocument(p) PROVE SaveInv' BY <1>5, ReplaceSound
<1>6. CASE Saves!Finish \/ Saves!Litter
  <2>1. UNCHANGED <<folds, docs, folders, goal, previous, stale, climbing, todo>> BY <1>6 DEF Saves!Finish, Saves!Litter, Saves!disk
  <2>2. (saving' = saving \/ (saving' = FALSE /\ stale = {} /\ climbing = {} /\ todo = {})) BY <1>6 DEF Saves!Finish, Saves!Litter
  <2>3. SaveSound' BY <2>1, <2>2 DEF SaveInv, SaveSound, Saves!Documents, Saves!CheckPaths, Saves!Ancestors, Saves!Folded
  <2> QED BY <1>0, <2>1, <2>3 DEF Present
<1>7. CASE Saves!CutOff
  <2>1. /\ saving /\ saving' = FALSE /\ stale' = {} /\ climbing' = {} /\ todo' = {} /\ UNCHANGED <<folds, docs, goal, previous>>
        /\ UNCHANGED folders \/ \E p \in todo : folders' = Saves!MadeDirs(p)
    BY <1>7 DEF Saves!CutOff
  <2>2. SaveSound' BY <2>1 DEF SaveSound
  <2>3. CASE UNCHANGED folders BY <1>0, <2>1, <2>2, <2>3 DEF Present
  <2>4. ASSUME NEW p \in todo, folders' = Saves!MadeDirs(p) PROVE SaveInv'
    <3>1. p \in Path /\ Len(p) # 0 BY <2>1, <2>4, DocumentIsPath DEF SaveInv, SaveSound, Saves!Documents
    <3>2. folders' \subseteq Path /\ \A e, f \in Present \cup folders' : Saves!Same(e, f) => e = f
      BY <2>4, <3>1, MadeDirsSound DEF SaveInv
    <3>3. Present' \subseteq Present \cup folders' /\ Present \subseteq Path BY <2>1 DEF Present, SaveInv, DiskSound
    <3>4. \A e, f : Saves!Same(e, f)' <=> Saves!Same(e, f) BY <2>1 DEF Saves!Same
    <3>5. DiskSound' BY <3>2, <3>3, <3>4 DEF DiskSound, Path, Name
    <3>6. Saves!OthersUntouched' BY <2>1 DEF SaveInv, Saves!OthersUntouched, Saves!Documents, Saves!Encode
    <3> QED BY <2>2, <3>5, <3>6 DEF SaveInv
  <2> QED BY <2>1, <2>3, <2>4
<1> QED BY <1>1, <1>2, <1>3, <1>4, <1>5, <1>6, <1>7 DEF Saves!Next

\* lockfile.go:683: with or without case, whenever a save is cut off and whatever others
\* left on the disk, an entry that a save does not change is never absent.
THEOREM SavesTouchNoOther == ASSUME Saves!ConstantsAssumption PROVE Saves!Spec => []Saves!OthersUntouched
<1>1. Saves!Init => SaveInv
  <2> SUFFICES ASSUME Saves!Init PROVE SaveInv OBVIOUS
  <2>1. docs = <<>> /\ folders = {} /\ previous = <<>> /\ ~saving /\ stale = {} /\ todo = {} /\ climbing = {} BY DEF Saves!Init
  <2>2. DOMAIN docs = {} /\ DOMAIN previous = {} BY <2>1
  <2> QED BY <2>1, <2>2 DEF SaveInv, DiskSound, SaveSound, Present, Saves!OthersUntouched
<1>2. SaveInv /\ [Saves!Next]_(Saves!vars) => SaveInv' BY SaveStep
<1>3. SaveInv => Saves!OthersUntouched BY DEF SaveInv
<1> QED BY <1>1, <1>2, <1>3, PTL DEF Saves!Spec
=============================================================================
