--------------------------- MODULE SourcesProofs ---------------------------
(***************************************************************************)
(* Proofs about Sources, for any declarations of any kinds, any validators   *)
(* and any number of files and faults.  The properties are not inductive:    *)
(* that a refresh does not transfer twice rests on the index knowing every   *)
(* file that is still served and was transferred (Recorded), which rests on  *)
(* mutable inputs being observed without an asset (Addresses) and on uploads *)
(* being newer than all that was transferred (Uploads).                      *)
(***************************************************************************)
EXTENDS Sources, TLAPS, FiniteSetTheorems

(***************************************************************************)
(* What holds between two steps.                                           *)
(***************************************************************************)
Jobs == {"idle", "discover", "recall", "ask", "remember", "refreshed", "fetch", "compare", "done"}
Shaped ==
    /\ at \in [Url -> File \cup {None}] /\ page \in Answer /\ scheme \in {"strong", "weak", "date", "none"}
    /\ objects \subseteq File /\ index \in [Decl -> [Observation -> File \cup {None}]]
    /\ saved \in Answer \cup {NoAnswer} /\ shared \in Answer \cup {NoAnswer}
    /\ flight \in [leader : Decl \cup {None}, callers : SUBSET Decl]
    /\ lock \in [Decl -> {NoEntry} \cup [obs : Observation, file : File \cup {None}]]
    /\ job \in [Decl -> Jobs] /\ obs \in [Decl -> Observation] /\ got \in [Decl -> File \cup {None}]
    /\ during \in [Decl -> SUBSET (File \cup {None})] /\ vouched \in [Decl -> SUBSET File]
    /\ answers \subseteq Answer /\ moved \in [Decl -> SUBSET File]
    /\ again \subseteq Decl /\ disturbed \in BOOLEAN /\ faults \in Nat

\* Whoever waits for the metadata waits with its leader; a job past its request has a file.
Waiting ==
    /\ flight.callers = {} <=> flight.leader = None
    /\ flight.leader # None => flight.leader \in flight.callers
    /\ \A d \in flight.callers : job[d] = "discover"
    /\ \A d \in Decl : got[d] \in File \/ job[d] \notin {"remember", "refreshed", "compare"}

\* The observations of mutable inputs name no asset.
Unnamed(o) == o = <<o[1], None>>
Addresses ==
    \A d \in Decl : ~Immutable(d) => Unnamed(obs[d]) /\ (lock[d] # NoEntry => Unnamed(lock[d].obs))

\* What the address had when it was asked is known, and what was taken is of it.
Asked ==
    \A d \in Decl :
        /\ job[d] = "ask" => at[UrlOf(obs[d])] \in during[d]
        /\ job[d] \in {"remember", "refreshed"} /\ ~Immutable(d) => got[d] \in during[d] \cup vouched[d]

\* A run has used the answer it shares, and no other.
Shares == answers \subseteq {shared} /\ (shared = NoAnswer => answers = {})

\* Every upload is newer than all before it, and only what was uploaded has been transferred.
Uploads ==
    /\ at["main"] # None /\ at["main"] # at["next"]
    /\ \A d \in Decl : \A f \in moved[d] : \E v \in Url : f <= at[v]

\* While nothing was lost, what is served now and was transferred is recorded, or about to be.
Recorded ==
    ~disturbed /\ StrongTag =>
        \A d \in {e \in Decl : ~Immutable(e)} :
            /\ job[d] \in {"remember", "compare"} =>
                  got[d] = at[UrlOf(obs[d])] \/ at[UrlOf(obs[d])] \notin moved[d]
            /\ \A u \in Url : at[u] \in moved[d] =>
                  \/ index[d][<<u, None>>] = at[u]
                  \/ job[d] \in {"remember", "compare"} /\ UrlOf(obs[d]) = u

Inv == Shaped /\ Waiting /\ Addresses /\ Asked /\ Shares /\ Uploads /\ Recorded /\ RefreshTransfersOnce

(***************************************************************************)
(* What the parts of the steps do.                                         *)
(***************************************************************************)

\* The jobs that end forget what they held; the others go on.
LEMMA EndIs ==
    ASSUME Shaped, NEW ds \in SUBSET Decl, End(ds)
    PROVE  /\ job' \in [Decl -> Jobs] /\ obs' \in [Decl -> Observation] /\ got' \in [Decl -> File \cup {None}]
           /\ during' \in [Decl -> SUBSET (File \cup {None})] /\ vouched' \in [Decl -> SUBSET File]
           /\ \A d \in ds : /\ job'[d] = "done" /\ obs'[d] = Direct /\ got'[d] = None
                            /\ during'[d] = {} /\ vouched'[d] = {}
           /\ \A d \in Decl \ ds : /\ job'[d] = job[d] /\ obs'[d] = obs[d] /\ got'[d] = got[d]
                                   /\ during'[d] = during[d] /\ vouched'[d] = vouched[d]
<1>1. job' \in [Decl -> Jobs] BY DEF End, Shaped, Jobs
<1>2. obs' \in [Decl -> Observation] BY DEF End, Shaped, Direct, Observation, Url
<1>3. got' \in [Decl -> File \cup {None}] BY DEF End, Shaped
<1>4. during' \in [Decl -> SUBSET (File \cup {None})] /\ vouched' \in [Decl -> SUBSET File]
  BY DEF End, Shaped
<1> QED BY <1>1, <1>2, <1>3, <1>4 DEF End

\* One job moves on.
LEMMA GotoIs ==
    ASSUME Shaped, NEW d \in Decl, NEW s \in Jobs, Goto(d, s)
    PROVE  job' \in [Decl -> Jobs] /\ job'[d] = s /\ \A e \in Decl \ {d} : job'[e] = job[e]
BY DEF Goto, Shaped

\* What a declaration observes of an answer is an observation; a mutable input's names no asset.
LEMMA ObservedIs ==
    ASSUME ConstantsAssumption, NEW d \in Decl, NEW a \in Answer
    PROVE  Observed(d, a) \in Observation /\ (~Immutable(d) => Unnamed(Observed(d, a)))
<1>1. Kind[d] \in {"direct", "link", "release", "digest"} BY DEF ConstantsAssumption
<1>2. a = <<a[1], a[2]>> /\ a[1] \in Url /\ a[2] \in File BY DEF Answer
<1>3. CASE Kind[d] = "direct" BY <1>3 DEF Observed, Immutable, Unnamed, Direct, Observation, Url
<1>4. CASE Kind[d] = "link" BY <1>2, <1>4 DEF Observed, Immutable, Unnamed, Observation
<1>5. CASE Kind[d] \in {"release", "digest"}
  <2>1. Observed(d, a) = a BY <1>5 DEF Observed
  <2> QED BY <2>1, <1>2, <1>5 DEF Immutable, Observation
<1> QED BY <1>1, <1>3, <1>4, <1>5

\* The callers of a request resume with its answer.
LEMMA DeliverIs ==
    ASSUME ConstantsAssumption, Shaped, NEW a \in Answer, Deliver(flight.callers, a)
    PROVE  /\ job' \in [Decl -> Jobs] /\ obs' \in [Decl -> Observation] /\ answers' = answers \cup {a}
           /\ flight' \in [leader : Decl \cup {None}, callers : SUBSET Decl]
           /\ flight'.leader = None /\ flight'.callers = {}
           /\ \A d \in flight.callers : job'[d] = "recall" /\ obs'[d] = Observed(d, a)
           /\ \A d \in Decl \ flight.callers : job'[d] = job[d] /\ obs'[d] = obs[d]
           /\ flight.callers \subseteq Decl
<1>1. flight.callers \subseteq Decl BY DEF Shaped
<1>2. job' \in [Decl -> Jobs] BY DEF Deliver, Shaped, Jobs
<1>3. \A d \in Decl : Observed(d, a) \in Observation BY ObservedIs
<1>4. obs' \in [Decl -> Observation] BY <1>3 DEF Deliver, Shaped
<1>5. flight' = NoFlight /\ answers' = answers \cup {a} BY DEF Deliver
<1>6. /\ flight' \in [leader : Decl \cup {None}, callers : SUBSET Decl]
      /\ flight'.leader = None /\ flight'.callers = {}
  BY <1>5 DEF NoFlight
<1> QED BY <1>1, <1>2, <1>4, <1>5, <1>6 DEF Deliver

\* A file is transferred for one declaration.
LEMMA TransferIs ==
    ASSUME Shaped, NEW d \in Decl, NEW f \in File, Transfer(d, f)
    PROVE  /\ objects' \subseteq File /\ got' \in [Decl -> File \cup {None}] /\ moved' \in [Decl -> SUBSET File]
           /\ got'[d] = f /\ moved'[d] = moved[d] \cup {f}
           /\ \A e \in Decl \ {d} : got'[e] = got[e] /\ moved'[e] = moved[e]
BY DEF Transfer, Shaped

\* The file obtained is recorded for the observation worked from.
LEMMA IndexIs ==
    ASSUME Shaped, NEW d \in Decl, index' = [index EXCEPT ![d][obs[d]] = got[d]]
    PROVE  /\ index' \in [Decl -> [Observation -> File \cup {None}]] /\ index'[d][obs[d]] = got[d]
           /\ \A o \in Observation \ {obs[d]} : index'[d][o] = index[d][o]
           /\ \A e \in Decl \ {d} : index'[e] = index[e]
<1> DEFINE g == [index[d] EXCEPT ![obs[d]] = got[d]]
<1>1. index[d] \in [Observation -> File \cup {None}] /\ obs[d] \in Observation /\ got[d] \in File \cup {None}
  BY DEF Shaped
<1>2. /\ g \in [Observation -> File \cup {None}] /\ g[obs[d]] = got[d]
      /\ \A o \in Observation \ {obs[d]} : g[o] = index[d][o]
  BY <1>1
<1>3. index' = [index EXCEPT ![d] = g] OBVIOUS
<1> HIDE DEF g
<1>4. index' \in [Decl -> [Observation -> File \cup {None}]] /\ index'[d] = g /\ \A e \in Decl \ {d} : index'[e] = index[e]
  BY <1>2, <1>3 DEF Shaped
<1> QED BY <1>2, <1>4

\* What a job may know without a transfer is a file.
LEMMA KnownIs ==
    ASSUME ConstantsAssumption, Shaped, NEW d \in Decl
    PROVE  Known(d) \in File \cup {None} /\ (~Immutable(d) => Known(d) = None)
<1>1. obs[d] \in Observation /\ index[d][obs[d]] \in File \cup {None} BY DEF Shaped
<1>2. lock[d].file \in File \cup {None} BY DEF Shaped, NoEntry
<1>3. Pinned(d, obs[d]) \in File \cup {None} BY <1>1 DEF Pinned, Observation
<1>4. ~Immutable(d) => Pinned(d, obs[d]) = None BY DEF Immutable, Pinned
<1> QED BY <1>1, <1>2, <1>3, <1>4 DEF Known

\* So is what is recorded for the observation, and what the address serves.
LEMMA ServedIs ==
    ASSUME Shaped, NEW d \in Decl
    PROVE  /\ UrlOf(obs[d]) \in Url /\ at[UrlOf(obs[d])] \in File \cup {None}
           /\ Previous(d) \in File \cup {None} /\ None \notin File
           /\ \A f \in File : Confirmed(Previous(d), f) => Previous(d) = f
<1>1. obs[d] \in Observation /\ index[d][obs[d]] \in File \cup {None} BY DEF Shaped
<1>2. UrlOf(obs[d]) \in Url BY <1>1 DEF UrlOf, Observation
<1>3. None \notin File BY DEF None, File
<1>4. \A p, f : StrongTag /\ SameTag(p, f) => p = f BY DEF StrongTag, SameTag
<1> QED BY <1>1, <1>2, <1>3, <1>4 DEF Previous, Confirmed, Shaped

\* What is published is newer than everything before.
LEMMA PublishIs ==
    ASSUME ConstantsAssumption, Shaped, Uploads, NEW u \in Url, Publish(u)
    PROVE  \E f \in File :
               /\ at' \in [Url -> File \cup {None}] /\ at'[u] = f /\ \A v \in Url \ {u} : at'[v] = at[v]
               /\ page' = <<u, f>> /\ \A v \in Url : at[v] < f
               /\ \A d \in Decl : during'[d] = IF job[d] = "ask" /\ UrlOf(obs[d]) = u THEN during[d] \cup {f} ELSE during[d]
               /\ during' \in [Decl -> SUBSET (File \cup {None})]
<1> DEFINE P(n) == (\E v \in Url : at[v] = n) /\ \A v \in Url : at[v] <= n
           m == CHOOSE n \in File : P(n)
           f == 1 + m
<1>1. /\ Url = {"main", "next"} /\ at["main"] \in File /\ at["next"] \in File \cup {None}
      /\ \A n \in File \cup {None} : n \in Nat /\ (n # None => n \in File) /\ (n \in File => n > None)
  BY DEF Shaped, Uploads, Url, File, None
<1>2. \E n \in File : P(n)
  <2>1. CASE at["next"] <= at["main"] BY <1>1, <2>1
  <2>2. CASE ~(at["next"] <= at["main"])
    <3>1. at["next"] \in File /\ at["main"] <= at["next"] BY <1>1, <2>2
    <3> QED BY <1>1, <3>1
  <2> QED BY <2>1, <2>2
<1>3. m \in File /\ P(m) BY <1>2
<1>4. /\ f \in File /\ at' = [at EXCEPT ![u] = f] /\ page' = <<u, f>>
      /\ during' = [d \in Decl |-> IF job[d] = "ask" /\ UrlOf(obs[d]) = u THEN during[d] \cup {f} ELSE during[d]]
  BY DEF Publish
<1>5. \A v \in Url : at[v] < f BY <1>1, <1>3
<1> HIDE DEF f
<1>6. at' \in [Url -> File \cup {None}] /\ at'[u] = f /\ \A v \in Url \ {u} : at'[v] = at[v]
  BY <1>4 DEF Shaped
<1>7. during' \in [Decl -> SUBSET (File \cup {None})] BY <1>4 DEF Shaped
<1> QED BY <1>4, <1>5, <1>6, <1>7

\* The steps of one declaration that is not waiting for the metadata.
Alone(d) ==
    \/ Refresh(d) \/ Recall(d) \/ NotModified(d) \/ Download(d) \/ Remember(d)
    \/ Fetch(d) \/ FetchFile(d) \/ FetchRefused(d) \/ Compare(d) \/ Fail(d) \/ CheckOut(d)
    \/ \E accepted \in BOOLEAN : Finish(d, accepted)

\* Such a step changes nothing of another declaration, and nothing of what is published or shared.
LEMMA AloneIs ==
    ASSUME Shaped, Shaped', NEW d \in Decl, Alone(d)
    PROVE  /\ flight' = flight /\ at' = at /\ page' = page /\ scheme' = scheme
           /\ shared' = shared /\ answers' = answers /\ job[d] # "discover"
           /\ \A e \in Decl \ {d} :
                  /\ job'[e] = job[e] /\ obs'[e] = obs[e] /\ got'[e] = got[e] /\ lock'[e] = lock[e]
                  /\ during'[e] = during[e] /\ vouched'[e] = vouched[e]
                  /\ moved'[e] = moved[e] /\ index'[e] = index[e]
<1> DEFINE Others == \A e \in Decl \ {d} :
                         /\ job'[e] = job[e] /\ obs'[e] = obs[e] /\ got'[e] = got[e] /\ lock'[e] = lock[e]
                         /\ during'[e] = during[e] /\ vouched'[e] = vouched[e]
                         /\ moved'[e] = moved[e] /\ index'[e] = index[e]
           Shareds == /\ flight' = flight /\ at' = at /\ page' = page /\ scheme' = scheme
                      /\ shared' = shared /\ answers' = answers /\ job[d] # "discover"
<1>d. {d} \in SUBSET Decl OBVIOUS
<1>1. CASE Refresh(d)
  <2>1. Shareds BY <1>1 DEF Refresh, server, cache, memory, history
  <2>3. Others BY <1>1 DEF Refresh, server, cache, memory, history, Shaped, Goto
  <2> QED BY <2>1, <2>3
<1>2. CASE Recall(d)
  <2>1. Shareds BY <1>2 DEF Recall, server, cache, memory, history
  <2>3. Others BY <1>2 DEF Recall, server, cache, memory, history, Shaped, Goto
  <2> QED BY <2>1, <2>3
<1>3. CASE NotModified(d)
  <2>1. Shareds BY <1>3 DEF NotModified, server, cache, memory, history
  <2>3. Others BY <1>3 DEF NotModified, server, cache, memory, history, Shaped, Goto
  <2> QED BY <2>1, <2>3
<1>4. CASE Download(d)
  <2>1. Shareds BY <1>4 DEF Download, server, cache, memory, history
  <2>3. Others BY <1>4 DEF Download, server, cache, memory, history, Shaped, Goto, Transfer
  <2> QED BY <2>1, <2>3
<1>5. CASE Remember(d)
  <2>1. Shareds BY <1>5 DEF Remember, server, cache, memory, history
  <2>3. Others BY <1>5 DEF Remember, server, cache, memory, history, Shaped, Goto
  <2> QED BY <2>1, <2>3
<1>6. CASE Fetch(d)
  <2>1. Shareds BY <1>6 DEF Fetch, server, cache, memory, history
  <2>3. Others BY <1>6 DEF Fetch, server, cache, memory, history, Shaped, Goto
  <2> QED BY <2>1, <2>3
<1>7. CASE FetchFile(d)
  <2>1. Shareds BY <1>7 DEF FetchFile, server, cache, memory, history
  <2>3. Others BY <1>7 DEF FetchFile, server, cache, memory, history, Shaped, Goto, Transfer
  <2> QED BY <2>1, <2>3
<1>8. CASE FetchRefused(d)
  <2>1. Shareds BY <1>8 DEF FetchRefused, server, cache, memory, history
  <2>2. End({d}) BY <1>8 DEF FetchRefused
  <2>3. \A e \in Decl \ {d} : /\ job'[e] = job[e] /\ obs'[e] = obs[e] /\ got'[e] = got[e]
                              /\ during'[e] = during[e] /\ vouched'[e] = vouched[e]
    BY <2>2, <1>d, EndIs
  <2>4. \A e \in Decl \ {d} : lock'[e] = lock[e] /\ moved'[e] = moved[e] /\ index'[e] = index[e]
    BY <1>8 DEF FetchRefused, server, cache, memory, history, Shaped
  <2> QED BY <2>1, <2>3, <2>4
<1>9. CASE Compare(d)
  <2>1. Shareds BY <1>9 DEF Compare, server, cache, memory, history
  <2>2. End({d}) BY <1>9 DEF Compare
  <2>3. \A e \in Decl \ {d} : /\ job'[e] = job[e] /\ obs'[e] = obs[e] /\ got'[e] = got[e]
                              /\ during'[e] = during[e] /\ vouched'[e] = vouched[e]
    BY <2>2, <1>d, EndIs
  <2>4. \A e \in Decl \ {d} : lock'[e] = lock[e] /\ moved'[e] = moved[e] /\ index'[e] = index[e]
    BY <1>9 DEF Compare, server, cache, memory, history, Shaped
  <2> QED BY <2>1, <2>3, <2>4
<1>10. CASE Fail(d)
  <2>1. Shareds BY <1>10 DEF Fail, server, cache, memory, history, Busy
  <2>2. End({d}) BY <1>10 DEF Fail
  <2>3. \A e \in Decl \ {d} : /\ job'[e] = job[e] /\ obs'[e] = obs[e] /\ got'[e] = got[e]
                              /\ during'[e] = during[e] /\ vouched'[e] = vouched[e]
    BY <2>2, <1>d, EndIs
  <2>4. \A e \in Decl \ {d} : lock'[e] = lock[e] /\ moved'[e] = moved[e] /\ index'[e] = index[e]
    BY <1>10 DEF Fail, server, cache, memory, history, Shaped
  <2> QED BY <2>1, <2>3, <2>4
<1>11. CASE CheckOut(d)
  <2>1. Shareds BY <1>11 DEF CheckOut, server, cache, memory, history
  <2>3. Others BY <1>11 DEF CheckOut, server, cache, memory, history, Shaped
  <2> QED BY <2>1, <2>3
<1>12. CASE \E accepted \in BOOLEAN : Finish(d, accepted)
  <2>1. Shareds BY <1>12 DEF Finish, server, cache, memory, history
  <2>2. End({d}) BY <1>12 DEF Finish
  <2>3. \A e \in Decl \ {d} : /\ job'[e] = job[e] /\ obs'[e] = obs[e] /\ got'[e] = got[e]
                              /\ during'[e] = during[e] /\ vouched'[e] = vouched[e]
    BY <2>2, <1>d, EndIs
  <2>4. \A e \in Decl \ {d} : lock'[e] = lock[e] /\ moved'[e] = moved[e] /\ index'[e] = index[e]
    BY <1>12 DEF Finish, server, cache, memory, history, Shaped
  <2> QED BY <2>1, <2>3, <2>4
<1> QED BY <1>1, <1>2, <1>3, <1>4, <1>5, <1>6, <1>7, <1>8, <1>9, <1>10, <1>11, <1>12 DEF Alone

\* The file of a download is the one its address served, whether its bytes were sent or confirmed.
LEMMA DownloadIs ==
    ASSUME Shaped, NEW d \in Decl, Download(d)
    PROVE  at[UrlOf(obs[d])] \in File /\ got'[d] = at[UrlOf(obs[d])]
<1>1. /\ UrlOf(obs[d]) \in Url /\ at[UrlOf(obs[d])] \in File \cup {None}
      /\ \A f \in File : Confirmed(Previous(d), f) => Previous(d) = f
  BY ServedIs
<1>2. at[UrlOf(obs[d])] \in File BY <1>1 DEF Download
<1>3. CASE Confirmed(Previous(d), at[UrlOf(obs[d])]) BY <1>1, <1>2, <1>3 DEF Download, Shaped
<1>4. CASE Transfer(d, at[UrlOf(obs[d])]) BY <1>2, <1>4 DEF Transfer, Shaped
<1> QED BY <1>2, <1>3, <1>4 DEF Download

\* What each of them does to its own job: it goes on without a file, obtains one, keeps what
\* it has, or ends.
LEMMA AloneDoes ==
    ASSUME ConstantsAssumption, Shaped, Shaped', NEW d \in Decl, Alone(d)
    PROVE  \/ /\ job'[d] \in {"discover", "recall", "ask", "fetch"} /\ (Refresh(d) \/ Recall(d) \/ Fetch(d))
           \/ /\ job'[d] = "refreshed" /\ Recall(d) /\ got'[d] = Known(d) /\ got'[d] \in File
              /\ during' = during
           \/ /\ job'[d] = "remember" /\ NotModified(d) /\ got'[d] \in File
              /\ got'[d] = Previous(d) /\ vouched'[d] = {got'[d]}
           \/ /\ job'[d] = "remember" /\ Download(d) /\ got'[d] \in File
              /\ got'[d] = at[UrlOf(obs[d])] /\ vouched' = vouched /\ during' = during
           \/ /\ job'[d] = "compare" /\ FetchFile(d) /\ got'[d] \in File /\ got'[d] = at[UrlOf(obs[d])]
           \/ /\ job'[d] = "refreshed" /\ Remember(d) /\ got' = got /\ during' = during /\ vouched' = vouched
           \/ /\ job'[d] = "done" /\ End({d})
              /\ (FetchRefused(d) \/ Compare(d) \/ Fail(d) \/ \E accepted \in BOOLEAN : Finish(d, accepted))
           \/ job'[d] = "idle" /\ CheckOut(d) /\ job' = job /\ obs' = obs /\ got' = got
<1>s. /\ UrlOf(obs[d]) \in Url /\ at[UrlOf(obs[d])] \in File \cup {None}
      /\ Previous(d) \in File \cup {None} /\ None \notin File
      /\ \A f \in File : Confirmed(Previous(d), f) => Previous(d) = f
  BY ServedIs
<1>1. CASE Refresh(d)
  <2>1. job'[d] \in {"discover", "recall"} BY <1>1 DEF Refresh, Goto, Shaped
  <2> QED BY <2>1, <1>1
<1>2. CASE Recall(d)
  <2>1. Known(d) \in File \cup {None} BY KnownIs
  <2>2. CASE Known(d) # None
    <3>1. job'[d] = "refreshed" /\ got'[d] = Known(d) /\ during' = during
      BY <1>2, <2>2 DEF Recall, Goto, Shaped
    <3> QED BY <3>1, <2>1, <2>2, <1>2
  <2>3. CASE Known(d) = None
    <3>1. job'[d] = "ask" BY <1>2, <2>3 DEF Recall, Goto, Shaped
    <3> QED BY <3>1, <1>2
  <2> QED BY <2>2, <2>3
<1>3. CASE NotModified(d)
  <2>1. /\ job'[d] = "remember" /\ Previous(d) \in File /\ got'[d] = Previous(d) /\ vouched'[d] = {Previous(d)}
    BY <1>3, <1>s DEF NotModified, Goto, Shaped
  <2> QED BY <2>1, <1>3
<1>4. CASE Download(d)
  <2>1. job'[d] = "remember" /\ vouched' = vouched /\ during' = during BY <1>4 DEF Download, Goto, Shaped
  <2> QED BY <2>1, <1>4, DownloadIs
<1>5. CASE Remember(d)
  <2>1. job'[d] = "refreshed" /\ got' = got /\ during' = during /\ vouched' = vouched
    BY <1>5 DEF Remember, Goto, Shaped, history
  <2> QED BY <2>1, <1>5
<1>6. CASE Fetch(d)
  <2>1. job'[d] = "fetch" BY <1>6 DEF Fetch, Goto, Shaped
  <2> QED BY <2>1, <1>6
<1>7. CASE FetchFile(d)
  <2>1. job'[d] = "compare" /\ at[UrlOf(obs[d])] \in File /\ got'[d] = at[UrlOf(obs[d])]
    BY <1>7, <1>s DEF FetchFile, Goto, Transfer, Shaped
  <2> QED BY <2>1, <1>7
<1>8. CASE FetchRefused(d) \/ Compare(d) \/ Fail(d) \/ \E accepted \in BOOLEAN : Finish(d, accepted)
  <2>1. End({d}) BY <1>8 DEF FetchRefused, Compare, Fail, Finish
  <2>2. job'[d] = "done" BY <2>1 DEF End
  <2> QED BY <2>1, <2>2, <1>8
<1>9. CASE CheckOut(d)
  <2>1. job'[d] = "idle" /\ job' = job /\ obs' = obs /\ got' = got BY <1>9 DEF CheckOut
  <2> QED BY <2>1, <1>9
<1> QED BY <1>1, <1>2, <1>3, <1>4, <1>5, <1>6, <1>7, <1>8, <1>9 DEF Alone

(***************************************************************************)
(* What holds between two steps holds after each.                          *)
(***************************************************************************)

\* Every step keeps the types.
LEMMA ShapedStep == ConstantsAssumption /\ Inv /\ [Next]_vars => Shaped'
<1> SUFFICES ASSUME ConstantsAssumption, Inv, [Next]_vars PROVE Shaped' OBVIOUS
<1>s. Shaped /\ Waiting /\ Uploads BY DEF Inv
<1>j. {"idle", "discover", "recall", "ask", "remember", "refreshed", "fetch", "compare", "done"} = Jobs
  BY DEF Jobs
<1>1. ASSUME NEW d \in Decl, Refresh(d) PROVE Shaped'
  <2>1. Goto(d, IF Pages(d) THEN "discover" ELSE "recall") BY <1>1 DEF Refresh
  <2>2. job' \in [Decl -> Jobs] BY <2>1, <1>s, <1>j, GotoIs
  <2> QED BY <1>1, <1>s, <2>2 DEF Refresh, server, cache, memory, history, Shaped
<1>2. ASSUME NEW d \in Decl, Join(d) PROVE Shaped'
  <2>1. flight' \in [leader : Decl \cup {None}, callers : SUBSET Decl] BY <1>2, <1>s DEF Join, Shaped
  <2> QED BY <1>2, <1>s, <2>1 DEF Join, server, cache, memory, history, Shaped
<1>3. ASSUME RoundTripShared PROVE Shaped'
  <2>1. shared \in Answer BY <1>3, <1>s DEF RoundTripShared, Shaped
  <2>2. /\ job' \in [Decl -> Jobs] /\ obs' \in [Decl -> Observation] /\ answers' = answers \cup {shared}
        /\ flight' \in [leader : Decl \cup {None}, callers : SUBSET Decl]
    BY <1>3, <1>s, <2>1, DeliverIs DEF RoundTripShared
  <2> QED BY <1>3, <1>s, <2>1, <2>2 DEF RoundTripShared, server, cache, memory, history, Shaped
<1>4. ASSUME RoundTripAsk PROVE Shaped'
  <2>1. page \in Answer BY <1>s DEF Shaped
  <2>2. /\ job' \in [Decl -> Jobs] /\ obs' \in [Decl -> Observation] /\ answers' = answers \cup {page}
        /\ flight' \in [leader : Decl \cup {None}, callers : SUBSET Decl]
    BY <1>4, <1>s, <2>1, DeliverIs DEF RoundTripAsk
  <2> QED BY <1>4, <1>s, <2>1, <2>2 DEF RoundTripAsk, server, cache, memory, history, Shaped
<1>5. ASSUME RoundTripFails PROVE Shaped'
  <2>1. End(flight.callers) /\ flight.callers \in SUBSET Decl BY <1>5, <1>s DEF RoundTripFails, Shaped
  <2>2. /\ job' \in [Decl -> Jobs] /\ obs' \in [Decl -> Observation] /\ got' \in [Decl -> File \cup {None}]
        /\ during' \in [Decl -> SUBSET (File \cup {None})] /\ vouched' \in [Decl -> SUBSET File]
    BY <2>1, <1>s, EndIs
  <2>3. flight' \in [leader : Decl \cup {None}, callers : SUBSET Decl] BY <1>5 DEF RoundTripFails, NoFlight
  <2>4. faults' \in Nat BY <1>5, <1>s DEF RoundTripFails, Shaped
  <2> QED BY <1>5, <1>s, <2>2, <2>3, <2>4 DEF RoundTripFails, server, cache, memory, history, Shaped
<1>6. ASSUME NEW d \in Decl, Leave(d) PROVE Shaped'
  <2>1. End({d}) /\ {d} \in SUBSET Decl BY <1>6, <1>s DEF Leave, Shaped
  <2>2. /\ job' \in [Decl -> Jobs] /\ obs' \in [Decl -> Observation] /\ got' \in [Decl -> File \cup {None}]
        /\ during' \in [Decl -> SUBSET (File \cup {None})] /\ vouched' \in [Decl -> SUBSET File]
    BY <2>1, <1>s, EndIs
  <2>3. flight' \in [leader : Decl \cup {None}, callers : SUBSET Decl] BY <1>6, <1>s DEF Leave, Shaped
  <2>4. faults' \in Nat BY <1>6, <1>s DEF Leave, Shaped
  <2> QED BY <1>6, <1>s, <2>2, <2>3, <2>4 DEF Leave, server, cache, memory, history, Shaped
<1>7. ASSUME NEW d \in Decl, Recall(d) PROVE Shaped'
  <2>1. Known(d) \in File \cup {None} BY <1>s, KnownIs
  <2>2. at[UrlOf(obs[d])] \in File \cup {None} BY <1>s, ServedIs
  <2>3. job' \in [Decl -> Jobs]
    <3>1. Goto(d, "refreshed") \/ Goto(d, "ask") BY <1>7 DEF Recall
    <3> QED BY <3>1, <1>s, <1>j, GotoIs
  <2>4. got' \in [Decl -> File \cup {None}] BY <1>7, <2>1, <1>s DEF Recall, Shaped
  <2>5. during' \in [Decl -> SUBSET (File \cup {None})] BY <1>7, <2>2, <1>s DEF Recall, Shaped
  <2> QED BY <1>7, <1>s, <2>3, <2>4, <2>5 DEF Recall, server, cache, memory, history, Shaped
<1>8. ASSUME NEW d \in Decl, NotModified(d) PROVE Shaped'
  <2>1. job' \in [Decl -> Jobs] BY <1>8, <1>s, <1>j, GotoIs DEF NotModified
  <2>2. Previous(d) \in File BY <1>8, <1>s, ServedIs DEF NotModified
  <2>3. got' \in [Decl -> File \cup {None}] /\ vouched' \in [Decl -> SUBSET File]
    BY <1>8, <2>2, <1>s DEF NotModified, Shaped
  <2> QED BY <1>8, <1>s, <2>1, <2>3 DEF NotModified, server, cache, memory, history, Shaped
<1>9. ASSUME NEW d \in Decl, Download(d) PROVE Shaped'
  <2>1. job' \in [Decl -> Jobs] BY <1>9, <1>s, <1>j, GotoIs DEF Download
  <2>2. at[UrlOf(obs[d])] \in File /\ Previous(d) \in File \cup {None} BY <1>9, <1>s, ServedIs DEF Download
  <2>3. /\ objects' \subseteq File /\ got' \in [Decl -> File \cup {None}] /\ moved' \in [Decl -> SUBSET File]
        /\ again' \subseteq Decl
    <3>1. CASE Confirmed(Previous(d), at[UrlOf(obs[d])]) BY <1>9, <2>2, <3>1, <1>s DEF Download, Shaped
    <3>2. CASE Transfer(d, at[UrlOf(obs[d])]) /\ again' \in {again, again \cup {d}}
      <4>1. objects' \subseteq File /\ got' \in [Decl -> File \cup {None}] /\ moved' \in [Decl -> SUBSET File]
        BY <2>2, <3>2, <1>s, TransferIs
      <4> QED BY <4>1, <3>2, <1>s DEF Shaped
    <3> QED BY <1>9, <3>1, <3>2 DEF Download
  <2> QED BY <1>9, <1>s, <2>1, <2>3 DEF Download, server, cache, memory, history, Shaped
<1>10. ASSUME NEW d \in Decl, Remember(d) PROVE Shaped'
  <2>1. job' \in [Decl -> Jobs] BY <1>10, <1>s, <1>j, GotoIs DEF Remember
  <2>2. index' \in [Decl -> [Observation -> File \cup {None}]] BY <1>10, <1>s, IndexIs DEF Remember
  <2> QED BY <1>10, <1>s, <2>1, <2>2 DEF Remember, server, cache, memory, history, Shaped
<1>11. ASSUME NEW d \in Decl, NEW accepted \in BOOLEAN, Finish(d, accepted) PROVE Shaped'
  <2>1. End({d}) /\ {d} \in SUBSET Decl BY <1>11, <1>s DEF Finish, Shaped
  <2>2. /\ job' \in [Decl -> Jobs] /\ obs' \in [Decl -> Observation] /\ got' \in [Decl -> File \cup {None}]
        /\ during' \in [Decl -> SUBSET (File \cup {None})] /\ vouched' \in [Decl -> SUBSET File]
    BY <2>1, <1>s, EndIs
  <2>3. [obs |-> obs[d], file |-> got[d]] \in [obs : Observation, file : File \cup {None}]
    BY <1>s DEF Shaped
  <2>4. lock' \in [Decl -> {NoEntry} \cup [obs : Observation, file : File \cup {None}]]
    BY <1>11, <2>3, <1>s DEF Finish, Shaped
  <2> QED BY <1>11, <1>s, <2>2, <2>4 DEF Finish, server, cache, memory, history, Shaped
<1>12. ASSUME NEW d \in Decl, Fetch(d) PROVE Shaped'
  <2>1. job' \in [Decl -> Jobs] BY <1>12, <1>s, <1>j, GotoIs DEF Fetch
  <2>2. lock[d].obs \in Observation BY <1>12, <1>s DEF Fetch, Shaped
  <2>3. obs' \in [Decl -> Observation] BY <1>12, <2>2, <1>s DEF Fetch, Shaped
  <2> QED BY <1>12, <1>s, <2>1, <2>3 DEF Fetch, server, cache, memory, history, Shaped
<1>13. ASSUME NEW d \in Decl, FetchFile(d) PROVE Shaped'
  <2>1. job' \in [Decl -> Jobs] BY <1>13, <1>s, <1>j, GotoIs DEF FetchFile
  <2>2. at[UrlOf(obs[d])] \in File /\ Previous(d) \in File \cup {None}
    BY <1>13, <1>s, ServedIs DEF FetchFile
  <2>3. objects' \subseteq File /\ got' \in [Decl -> File \cup {None}] /\ moved' \in [Decl -> SUBSET File]
    BY <1>13, <2>2, <1>s, TransferIs DEF FetchFile
  <2> QED BY <1>13, <1>s, <2>1, <2>3 DEF FetchFile, server, cache, memory, history, Shaped
<1>14. ASSUME NEW d \in Decl, FetchRefused(d) PROVE Shaped'
  <2>1. End({d}) /\ {d} \in SUBSET Decl BY <1>14, <1>s DEF FetchRefused, Shaped
  <2>2. /\ job' \in [Decl -> Jobs] /\ obs' \in [Decl -> Observation] /\ got' \in [Decl -> File \cup {None}]
        /\ during' \in [Decl -> SUBSET (File \cup {None})] /\ vouched' \in [Decl -> SUBSET File]
    BY <2>1, <1>s, EndIs
  <2> QED BY <1>14, <1>s, <2>2 DEF FetchRefused, server, cache, memory, history, Shaped
<1>15. ASSUME NEW d \in Decl, Compare(d) PROVE Shaped'
  <2>1. End({d}) /\ {d} \in SUBSET Decl BY <1>15, <1>s DEF Compare, Shaped
  <2>2. /\ job' \in [Decl -> Jobs] /\ obs' \in [Decl -> Observation] /\ got' \in [Decl -> File \cup {None}]
        /\ during' \in [Decl -> SUBSET (File \cup {None})] /\ vouched' \in [Decl -> SUBSET File]
    BY <2>1, <1>s, EndIs
  <2>3. index' \in [Decl -> [Observation -> File \cup {None}]] BY <1>15, <1>s, IndexIs DEF Compare
  <2> QED BY <1>15, <1>s, <2>2, <2>3 DEF Compare, server, cache, memory, history, Shaped
<1>16. ASSUME NEW d \in Decl, Fail(d) PROVE Shaped'
  <2>1. End({d}) /\ {d} \in SUBSET Decl BY <1>16, <1>s DEF Fail, Shaped
  <2>2. /\ job' \in [Decl -> Jobs] /\ obs' \in [Decl -> Observation] /\ got' \in [Decl -> File \cup {None}]
        /\ during' \in [Decl -> SUBSET (File \cup {None})] /\ vouched' \in [Decl -> SUBSET File]
    BY <2>1, <1>s, EndIs
  <2>4. faults' \in Nat BY <1>16, <1>s DEF Fail, Shaped
  <2> QED BY <1>16, <1>s, <2>2, <2>4 DEF Fail, server, cache, memory, history, Shaped
<1>17. ASSUME NewRun PROVE Shaped'
  <2>1. job' \in [Decl -> Jobs] BY <1>17, <1>j DEF NewRun
  <2> QED BY <1>17, <1>s, <2>1 DEF NewRun, server, cache, memory, history, Shaped
<1>18. ASSUME Die PROVE Shaped'
  <2>1. End(Decl) /\ Decl \in SUBSET Decl BY <1>18, <1>s DEF Die, Shaped
  <2>2. /\ job' \in [Decl -> Jobs] /\ obs' \in [Decl -> Observation] /\ got' \in [Decl -> File \cup {None}]
        /\ during' \in [Decl -> SUBSET (File \cup {None})] /\ vouched' \in [Decl -> SUBSET File]
    BY <2>1, <1>s, EndIs
  <2>3. flight' \in [leader : Decl \cup {None}, callers : SUBSET Decl] BY <1>18 DEF Die, NoFlight
  <2>4. faults' \in Nat BY <1>18, <1>s DEF Die, Shaped
  <2>5. disturbed' \in BOOLEAN BY <1>18, <1>s DEF Die, Shaped
  <2> QED BY <1>18, <1>s, <2>2, <2>3, <2>4, <2>5 DEF Die, server, cache, memory, history, Shaped
<1>19. ASSUME Collect PROVE Shaped'
  <2>1. index' \in [Decl -> [Observation -> File \cup {None}]] BY <1>19 DEF Collect, NoKey
  <2>2. faults' \in Nat BY <1>19, <1>s DEF Collect, Shaped
  <2> QED BY <1>19, <1>s, <2>1, <2>2 DEF Collect, server, cache, memory, history, Shaped
<1>20. ASSUME NEW u \in Url, Publish(u) PROVE Shaped'
  <2>1. PICK f \in File : /\ at' \in [Url -> File \cup {None}] /\ page' = <<u, f>>
                          /\ during' \in [Decl -> SUBSET (File \cup {None})]
    BY <1>20, <1>s, PublishIs
  <2>2. page' \in Answer BY <2>1 DEF Answer
  <2> QED BY <1>20, <1>s, <2>1, <2>2 DEF Publish, server, cache, memory, history, Shaped
<1>21. ASSUME NEW d \in Decl, CheckOut(d) PROVE Shaped'
  <2>1. page \in Answer /\ page[2] \in File BY <1>s DEF Shaped, Answer
  <2>2. [obs |-> Observed(d, page), file |-> page[2]] \in [obs : Observation, file : File \cup {None}]
    BY <2>1, ObservedIs
  <2>3. lock' \in [Decl -> {NoEntry} \cup [obs : Observation, file : File \cup {None}]]
    BY <1>21, <2>2, <1>s DEF CheckOut, Shaped
  <2> QED BY <1>21, <1>s, <2>3 DEF CheckOut, server, cache, memory, history, Shaped
<1>22. ASSUME UNCHANGED vars PROVE Shaped'
  BY <1>22, <1>s DEF vars, server, cache, memory, history, Shaped
<1> QED BY <1>1, <1>2, <1>3, <1>4, <1>5, <1>6, <1>7, <1>8, <1>9, <1>10, <1>11, <1>12, <1>13, <1>14, <1>15,
   <1>16, <1>17, <1>18, <1>19, <1>20, <1>21, <1>22 DEF Next, Work, Answered

\* A step is one of a declaration alone, of the metadata request, of the run, or of a publisher.
LEMMA StepKinds ==
    ASSUME [Next]_vars
    PROVE  \/ \E d \in Decl : Alone(d) \/ Join(d) \/ Leave(d)
           \/ RoundTripShared \/ RoundTripAsk \/ RoundTripFails
           \/ NewRun \/ Die \/ Collect \/ UNCHANGED vars
           \/ \E u \in Url : Publish(u)
<1>1. CASE \E d \in Decl : Refresh(d) \/ Work(d) \/ Fetch(d) \/ Leave(d) \/ Fail(d) \/ CheckOut(d)
  <2>1. PICK d \in Decl : Refresh(d) \/ Work(d) \/ Fetch(d) \/ Leave(d) \/ Fail(d) \/ CheckOut(d) BY <1>1
  <2>2. Alone(d) \/ Join(d) \/ Leave(d) BY <2>1 DEF Work, Alone
  <2> QED BY <2>2
<1> QED BY <1>1 DEF Next, Answered

\* Whoever waits for the metadata waits with its leader, and who goes on has a file.
LEMMA WaitingStep == ConstantsAssumption /\ Inv /\ Shaped' /\ [Next]_vars => Waiting'
<1> SUFFICES ASSUME ConstantsAssumption, Inv, Shaped', [Next]_vars PROVE Waiting' OBVIOUS
<1>s. Shaped /\ Waiting /\ Uploads BY DEF Inv
<1>n. None \notin Decl /\ flight.callers \subseteq Decl BY <1>s DEF ConstantsAssumption, None, Shaped
<1>k. ASSUME NEW ds \in SUBSET Decl, End(ds), flight' = NoFlight PROVE Waiting'
  <2>1. /\ \A d \in ds : job'[d] = "done"
        /\ \A d \in Decl \ ds : job'[d] = job[d] /\ got'[d] = got[d]
    BY <1>k, <1>s, EndIs
  <2> QED BY <2>1, <1>k, <1>s DEF Waiting, NoFlight
<1>d. ASSUME NEW a \in Answer, Deliver(flight.callers, a), got' = got PROVE Waiting'
  <2>1. /\ flight'.leader = None /\ flight'.callers = {} /\ \A d \in flight.callers : job'[d] = "recall"
        /\ \A d \in Decl \ flight.callers : job'[d] = job[d]
    BY <1>d, <1>s, DeliverIs
  <2> QED BY <2>1, <1>d, <1>s DEF Waiting
<1>1. ASSUME NEW d \in Decl, Alone(d) PROVE Waiting'
  <2>1. flight' = flight /\ job[d] # "discover" /\ \A e \in Decl \ {d} : job'[e] = job[e] /\ got'[e] = got[e]
    BY <1>1, <1>s, AloneIs
  <2>2. got'[d] \in File \/ job'[d] \notin {"remember", "refreshed", "compare"}
    BY <1>1, <1>s, AloneDoes DEF Waiting, Remember
  <2> QED BY <2>1, <2>2, <1>s, <1>n DEF Waiting
<1>2. ASSUME NEW d \in Decl, Join(d) PROVE Waiting'
  <2>1. /\ job' = job /\ got' = got /\ job[d] = "discover"
        /\ flight'.leader = (IF flight.leader = None THEN d ELSE flight.leader)
        /\ flight'.callers = flight.callers \cup {d}
    BY <1>2 DEF Join
  <2> QED BY <2>1, <1>s, <1>n DEF Waiting
<1>3. ASSUME NEW d \in Decl, Leave(d) PROVE Waiting'
  <2>1. /\ flight'.leader = flight.leader /\ flight'.callers = flight.callers \ {d} /\ d # flight.leader
        /\ d \in flight.callers /\ End({d})
    BY <1>3, <1>s DEF Leave, Shaped
  <2>2. job'[d] = "done" /\ \A e \in Decl \ {d} : job'[e] = job[e] /\ got'[e] = got[e]
    BY <2>1, <1>s, EndIs
  <2> QED BY <2>1, <2>2, <1>s, <1>n DEF Waiting
<1>4. CASE RoundTripShared
  <2>1. shared \in Answer BY <1>4, <1>s DEF RoundTripShared, Shaped
  <2> QED BY <1>4, <2>1, <1>d DEF RoundTripShared
<1>5. CASE RoundTripAsk
  <2>1. page \in Answer BY <1>s DEF Shaped
  <2> QED BY <1>5, <2>1, <1>d DEF RoundTripAsk
<1>6. CASE RoundTripFails
  <2>1. End(flight.callers) /\ flight' = NoFlight BY <1>6 DEF RoundTripFails
  <2> QED BY <2>1, <1>n, <1>k
<1>7. CASE NewRun
  <2>1. /\ \A d \in Decl : job[d] \in {"idle", "done"} /\ job'[d] = "idle"
        /\ flight' = flight /\ got' = got
    BY <1>7 DEF NewRun
  <2> QED BY <2>1, <1>s, <1>n DEF Waiting
<1>8. CASE Die
  <2>1. End(Decl) /\ flight' = NoFlight BY <1>8 DEF Die
  <2> QED BY <2>1, <1>k
<1>9. CASE Collect BY <1>9, <1>s DEF Collect, memory, Waiting
<1>10. CASE UNCHANGED vars BY <1>10, <1>s DEF vars, memory, Waiting
<1>11. ASSUME NEW u \in Url, Publish(u) PROVE Waiting' BY <1>11, <1>s DEF Publish, memory, Waiting
<1> QED BY StepKinds, <1>1, <1>2, <1>3, <1>4, <1>5, <1>6, <1>7, <1>8, <1>9, <1>10, <1>11

\* What a mutable input is observed at names no asset.
LEMMA AddressesStep == ConstantsAssumption /\ Inv /\ Shaped' /\ [Next]_vars => Addresses'
<1> SUFFICES ASSUME ConstantsAssumption, Inv, Shaped', [Next]_vars PROVE Addresses' OBVIOUS
<1>s. Shaped /\ Addresses /\ page \in Answer BY DEF Inv, Shaped
<1>u. Unnamed(Direct) BY DEF Unnamed, Direct
<1>i. \A d \in Decl : Immutable(d)' <=> Immutable(d) BY DEF Immutable
<1>n. flight.callers \subseteq Decl BY <1>s DEF Shaped
<1>k. ASSUME NEW ds \in SUBSET Decl, End(ds), lock' = lock PROVE Addresses'
  <2>1. (\A d \in ds : obs'[d] = Direct) /\ \A d \in Decl \ ds : obs'[d] = obs[d] BY <1>k, <1>s, EndIs
  <2> QED BY <2>1, <1>k, <1>s, <1>u, <1>i DEF Addresses
<1>d. ASSUME NEW a \in Answer, Deliver(flight.callers, a), lock' = lock PROVE Addresses'
  <2>1. /\ \A d \in flight.callers : obs'[d] = Observed(d, a)
        /\ \A d \in Decl \ flight.callers : obs'[d] = obs[d]
    BY <1>d, <1>s, DeliverIs
  <2>2. \A d \in Decl : ~Immutable(d) => Unnamed(Observed(d, a)) BY <1>d, ObservedIs
  <2> QED BY <2>1, <2>2, <1>d, <1>s, <1>i DEF Addresses
<1>o. ASSUME obs' = obs, lock' = lock PROVE Addresses' BY <1>o, <1>s, <1>i DEF Addresses
<1>1. ASSUME NEW d \in Decl, Alone(d) PROVE Addresses'
  <2>1. \A e \in Decl \ {d} : obs'[e] = obs[e] /\ lock'[e] = lock[e] BY <1>1, <1>s, AloneIs
  <2>2. ~Immutable(d) => Unnamed(obs'[d]) /\ (lock'[d] # NoEntry => Unnamed(lock'[d].obs))
    <3>1. CASE Refresh(d) \/ Recall(d) \/ NotModified(d) \/ Download(d) \/ Remember(d) \/ FetchFile(d)
      <4>1. obs' = obs /\ lock' = lock
        BY <3>1 DEF Refresh, Recall, NotModified, Download, Remember, FetchFile
      <4> QED BY <4>1, <1>s DEF Addresses
    <3>2. CASE Fetch(d)
      <4>1. lock' = lock /\ lock[d] # NoEntry /\ obs'[d] = lock[d].obs BY <3>2, <1>s DEF Fetch, Shaped
      <4> QED BY <4>1, <1>s DEF Addresses
    <3>3. CASE FetchRefused(d) \/ Compare(d) \/ Fail(d)
      <4>1. End({d}) /\ lock' = lock BY <3>3 DEF FetchRefused, Compare, Fail
      <4>2. obs'[d] = Direct BY <4>1, <1>s, EndIs
      <4> QED BY <4>1, <4>2, <1>s, <1>u DEF Addresses
    <3>4. ASSUME NEW accepted \in BOOLEAN, Finish(d, accepted)
          PROVE  ~Immutable(d) => Unnamed(obs'[d]) /\ (lock'[d] # NoEntry => Unnamed(lock'[d].obs))
      <4>1. End({d}) /\ (lock'[d] = lock[d] \/ lock'[d].obs = obs[d]) BY <3>4, <1>s DEF Finish, Shaped
      <4>2. obs'[d] = Direct BY <4>1, <1>s, EndIs
      <4> QED BY <4>1, <4>2, <1>s, <1>u DEF Addresses
    <3>5. CASE CheckOut(d)
      <4>1. obs' = obs /\ lock'[d].obs = Observed(d, page) BY <3>5, <1>s DEF CheckOut, Shaped
      <4>2. ~Immutable(d) => Unnamed(Observed(d, page)) BY <1>s, ObservedIs
      <4> QED BY <4>1, <4>2, <1>s DEF Addresses
    <3> QED BY <1>1, <3>1, <3>2, <3>3, <3>4, <3>5 DEF Alone
  <2> QED BY <2>1, <2>2, <1>s, <1>i DEF Addresses
<1>2. ASSUME NEW d \in Decl, Join(d) PROVE Addresses' BY <1>2, <1>o DEF Join
<1>3. ASSUME NEW d \in Decl, Leave(d) PROVE Addresses' BY <1>3, <1>k DEF Leave
<1>4. CASE RoundTripShared
  <2>1. shared \in Answer BY <1>4, <1>s DEF RoundTripShared, Shaped
  <2> QED BY <1>4, <2>1, <1>d DEF RoundTripShared
<1>5. CASE RoundTripAsk BY <1>5, <1>s, <1>d DEF RoundTripAsk
<1>6. CASE RoundTripFails BY <1>6, <1>n, <1>k DEF RoundTripFails
<1>7. CASE NewRun BY <1>7, <1>o DEF NewRun
<1>8. CASE Die BY <1>8, <1>k DEF Die
<1>9. CASE Collect BY <1>9, <1>o DEF Collect
<1>10. CASE UNCHANGED vars BY <1>10, <1>o DEF vars
<1>11. ASSUME NEW u \in Url, Publish(u) PROVE Addresses' BY <1>11, <1>o DEF Publish
<1> QED BY StepKinds, <1>1, <1>2, <1>3, <1>4, <1>5, <1>6, <1>7, <1>8, <1>9, <1>10, <1>11

\* What an address had when it was asked stays known, and a refreshed mutable input is of it.
LEMMA AskedStep == ConstantsAssumption /\ Inv /\ Shaped' /\ [Next]_vars => Asked'
<1> SUFFICES ASSUME ConstantsAssumption, Inv, Shaped', [Next]_vars PROVE Asked' OBVIOUS
<1>s. Shaped /\ Waiting /\ Uploads /\ Asked BY DEF Inv
<1>i. \A d \in Decl : Immutable(d)' <=> Immutable(d) BY DEF Immutable
<1>n. flight.callers \subseteq Decl BY <1>s DEF Shaped
<1>k. ASSUME NEW ds \in SUBSET Decl, End(ds), at' = at PROVE Asked'
  <2>1. /\ \A d \in ds : job'[d] = "done"
        /\ \A d \in Decl \ ds : /\ job'[d] = job[d] /\ obs'[d] = obs[d] /\ got'[d] = got[d]
                                /\ during'[d] = during[d] /\ vouched'[d] = vouched[d]
    BY <1>k, <1>s, EndIs
  <2> QED BY <2>1, <1>k, <1>s, <1>i DEF Asked
<1>d. ASSUME NEW a \in Answer, Deliver(flight.callers, a), UNCHANGED <<at, got, during, vouched>> PROVE Asked'
  <2>1. /\ \A d \in flight.callers : job'[d] = "recall"
        /\ \A d \in Decl \ flight.callers : job'[d] = job[d] /\ obs'[d] = obs[d]
    BY <1>d, <1>s, DeliverIs
  <2> QED BY <2>1, <1>d, <1>s, <1>i DEF Asked
<1>o. ASSUME UNCHANGED <<at, job, obs, got, during, vouched>> PROVE Asked' BY <1>o, <1>s, <1>i DEF Asked
<1>1. ASSUME NEW d \in Decl, Alone(d) PROVE Asked'
  <2>1. /\ at' = at
        /\ \A e \in Decl \ {d} : /\ job'[e] = job[e] /\ obs'[e] = obs[e] /\ got'[e] = got[e]
                                 /\ during'[e] = during[e] /\ vouched'[e] = vouched[e]
    BY <1>1, <1>s, AloneIs
  <2> DEFINE Own ==
               /\ job'[d] = "ask" => at[UrlOf(obs'[d])] \in during'[d]
               /\ job'[d] \in {"remember", "refreshed"} /\ ~Immutable(d) => got'[d] \in during'[d] \cup vouched'[d]
  <2>2. ASSUME job'[d] \in {"discover", "recall", "ask", "fetch"} /\ (Refresh(d) \/ Recall(d) \/ Fetch(d))
       PROVE  Own
    <3>1. job'[d] = "ask" => Recall(d)
      BY <2>2, <1>s DEF Refresh, Fetch, Goto, Shaped
    <3>2. ASSUME job'[d] = "ask" PROVE at[UrlOf(obs'[d])] \in during'[d]
      <4>1. Recall(d) BY <3>1, <3>2
      <4>2. Known(d) = None
        <5>1. Known(d) # None => job'[d] = "refreshed" BY <4>1, <1>s DEF Recall, Goto, Shaped
        <5> QED BY <5>1, <3>2
      <4>3. during'[d] = {at[UrlOf(obs[d])]} /\ obs' = obs BY <4>1, <4>2, <1>s DEF Recall, Shaped
      <4> QED BY <4>3
    <3> QED BY <2>2, <3>2
  <2>3. ASSUME Recall(d) /\ got'[d] = Known(d) /\ got'[d] \in File /\ job'[d] = "refreshed" PROVE Own
    <3>1. ~Immutable(d) => Known(d) = None BY <1>s, KnownIs
    <3>2. None \notin File BY DEF None, File
    <3> QED BY <2>3, <3>1, <3>2
  <2>4. ASSUME job'[d] = "remember" /\ vouched'[d] = {got'[d]} PROVE Own BY <2>4
  <2>5. ASSUME job'[d] = "remember" /\ Download(d) /\ got'[d] = at[UrlOf(obs[d])] /\ during' = during PROVE Own
    <3>1. job[d] = "ask" BY <2>5 DEF Download
    <3> QED BY <3>1, <2>5, <1>s DEF Asked
  <2>6. ASSUME Remember(d) /\ job'[d] = "refreshed" /\ got' = got /\ during' = during /\ vouched' = vouched PROVE Own
    <3>1. job[d] = "remember" BY <2>6 DEF Remember
    <3> QED BY <3>1, <2>6, <1>s DEF Asked
  <2>7. ASSUME job'[d] \in {"compare", "done", "idle"} PROVE Own BY <2>7
  <2>8. Own BY <1>1, <1>s, AloneDoes, <2>2, <2>3, <2>4, <2>5, <2>6, <2>7
  <2> QED BY <2>1, <2>8, <1>s, <1>i DEF Asked
<1>2. ASSUME NEW d \in Decl, Join(d) PROVE Asked' BY <1>2, <1>o DEF Join, server, history
<1>3. ASSUME NEW d \in Decl, Leave(d) PROVE Asked' BY <1>3, <1>k DEF Leave, server
<1>4. CASE RoundTripShared
  <2>1. shared \in Answer BY <1>4, <1>s DEF RoundTripShared, Shaped
  <2> QED BY <1>4, <2>1, <1>d DEF RoundTripShared, server
<1>5. CASE RoundTripAsk
  <2>1. page \in Answer BY <1>s DEF Shaped
  <2> QED BY <1>5, <2>1, <1>d DEF RoundTripAsk, server
<1>6. CASE RoundTripFails BY <1>6, <1>n, <1>k DEF RoundTripFails, server
<1>7. CASE NewRun
  <2>1. \A d \in Decl : job'[d] = "idle" BY <1>7 DEF NewRun
  <2> QED BY <2>1 DEF Asked
<1>8. CASE Die BY <1>8, <1>k DEF Die, server
<1>9. CASE Collect BY <1>9, <1>o DEF Collect, server
<1>10. CASE UNCHANGED vars BY <1>10, <1>o DEF vars, server, history
<1>11. ASSUME NEW u \in Url, Publish(u) PROVE Asked'
  <2>1. PICK f \in File :
          /\ at'[u] = f /\ \A v \in Url \ {u} : at'[v] = at[v]
          /\ \A d \in Decl : during'[d] = IF job[d] = "ask" /\ UrlOf(obs[d]) = u THEN during[d] \cup {f} ELSE during[d]
    BY <1>11, <1>s, PublishIs
  <2>2. UNCHANGED <<job, obs, got, vouched>> BY <1>11 DEF Publish
  <2>3. \A d \in Decl : UrlOf(obs[d]) \in Url BY <1>s, ServedIs
  <2>4. ASSUME NEW d \in Decl, job[d] = "ask" PROVE at'[UrlOf(obs[d])] \in during'[d]
    <3>1. CASE UrlOf(obs[d]) = u BY <3>1, <2>1, <2>4
    <3>2. CASE UrlOf(obs[d]) # u BY <3>2, <2>1, <2>3, <2>4, <1>s DEF Asked
    <3> QED BY <3>1, <3>2
  <2>5. \A d \in Decl : during[d] \subseteq during'[d] BY <2>1
  <2> QED BY <2>2, <2>4, <2>5, <1>s, <1>i DEF Asked
<1> QED BY StepKinds, <1>1, <1>2, <1>3, <1>4, <1>5, <1>6, <1>7, <1>8, <1>9, <1>10, <1>11

\* A run keeps to the answer that it shares.
LEMMA SharesStep == ConstantsAssumption /\ Inv /\ Shaped' /\ [Next]_vars => Shares'
<1> SUFFICES ASSUME ConstantsAssumption, Inv, Shaped', [Next]_vars PROVE Shares' OBVIOUS
<1>s. Shaped /\ Shares /\ page \in Answer BY DEF Inv, Shaped
<1>n. NoAnswer \notin Answer BY DEF NoAnswer, Answer, Url
<1>o. ASSUME UNCHANGED <<shared, answers>> PROVE Shares' BY <1>o, <1>s DEF Shares
<1>1. ASSUME NEW d \in Decl, Alone(d) PROVE Shares' BY <1>1, <1>s, <1>o, AloneIs
<1>2. ASSUME NEW d \in Decl, Join(d) PROVE Shares' BY <1>2, <1>o DEF Join, history
<1>3. ASSUME NEW d \in Decl, Leave(d) PROVE Shares' BY <1>3, <1>o DEF Leave
<1>4. CASE RoundTripShared
  <2>1. shared # NoAnswer /\ shared' = shared /\ answers' = answers \cup {shared}
    BY <1>4 DEF RoundTripShared, Deliver
  <2> QED BY <2>1, <1>s DEF Shares
<1>5. CASE RoundTripAsk
  <2>1. shared = NoAnswer /\ shared' = page /\ answers' = answers \cup {page}
    BY <1>5 DEF RoundTripAsk, Deliver
  <2> QED BY <2>1, <1>s, <1>n DEF Shares
<1>6. CASE RoundTripFails BY <1>6, <1>o DEF RoundTripFails
<1>7. CASE NewRun BY <1>7 DEF NewRun, Shares
<1>8. CASE Die BY <1>8, <1>o DEF Die
<1>9. CASE Collect BY <1>9, <1>o DEF Collect, memory
<1>10. CASE UNCHANGED vars BY <1>10, <1>o DEF vars, memory, history
<1>11. ASSUME NEW u \in Url, Publish(u) PROVE Shares' BY <1>11, <1>o DEF Publish, memory
<1> QED BY StepKinds, <1>1, <1>2, <1>3, <1>4, <1>5, <1>6, <1>7, <1>8, <1>9, <1>10, <1>11

\* Uploads are ever newer, and only what was uploaded is transferred.
LEMMA UploadsStep == ConstantsAssumption /\ Inv /\ Shaped' /\ [Next]_vars => Uploads'
<1> SUFFICES ASSUME ConstantsAssumption, Inv, Shaped', [Next]_vars PROVE Uploads' OBVIOUS
<1>s. Shaped /\ Uploads BY DEF Inv
<1>t. Url = {"main", "next"} /\ (\A n \in File \cup {None} : n \in Nat) /\ \A f \in File : f > None
  BY DEF Url, File, None
<1>o. ASSUME UNCHANGED <<at, moved>> PROVE Uploads' BY <1>o, <1>s DEF Uploads
<1>1. ASSUME NEW d \in Decl, Alone(d) PROVE Uploads'
  <2>1. at' = at /\ \A e \in Decl \ {d} : moved'[e] = moved[e] BY <1>1, <1>s, AloneIs
  <2>2. UrlOf(obs[d]) \in Url /\ at[UrlOf(obs[d])] \in File \cup {None} BY <1>s, ServedIs
  <2>3. moved'[d] \subseteq moved[d] \cup {at[UrlOf(obs[d])]}
    <3>1. CASE moved' = moved BY <3>1
    <3>2. CASE Transfer(d, at[UrlOf(obs[d])]) BY <3>2, <1>s DEF Transfer, Shaped
    <3>3. moved' = moved \/ Transfer(d, at[UrlOf(obs[d])])
      BY <1>1 DEF Alone, Refresh, Recall, NotModified, Download, Remember, Fetch, FetchFile, FetchRefused,
         Compare, Fail, CheckOut, Finish, history
    <3> QED BY <3>1, <3>2, <3>3
  <2>4. at[UrlOf(obs[d])] <= at[UrlOf(obs[d])] BY <2>2, <1>t
  <2>5. \A f \in moved'[d] : \E v \in Url : f <= at[v] BY <2>2, <2>3, <2>4, <1>s DEF Uploads
  <2> QED BY <2>1, <2>5, <1>s DEF Uploads
<1>2. ASSUME NEW d \in Decl, Join(d) PROVE Uploads' BY <1>2, <1>o DEF Join, server, history
<1>3. ASSUME NEW d \in Decl, Leave(d) PROVE Uploads' BY <1>3, <1>o DEF Leave, server
<1>4. CASE RoundTripShared BY <1>4, <1>o DEF RoundTripShared, server
<1>5. CASE RoundTripAsk BY <1>5, <1>o DEF RoundTripAsk, server
<1>6. CASE RoundTripFails BY <1>6, <1>o DEF RoundTripFails, server
<1>7. CASE NewRun BY <1>7, <1>o DEF NewRun, server
<1>8. CASE Die BY <1>8, <1>o DEF Die, server
<1>9. CASE Collect BY <1>9, <1>o DEF Collect, server
<1>10. CASE UNCHANGED vars BY <1>10, <1>o DEF vars, server, history
<1>11. ASSUME NEW u \in Url, Publish(u) PROVE Uploads'
  <2>1. PICK f \in File : /\ at' \in [Url -> File \cup {None}] /\ at'[u] = f /\ \A v \in Url \ {u} : at'[v] = at[v]
                          /\ \A v \in Url : at[v] < f
    BY <1>11, <1>s, PublishIs
  <2>2. moved' = moved BY <1>11 DEF Publish
  <2>3. \A v \in Url : at[v] \in Nat /\ at'[v] \in Nat /\ at[v] <= at'[v]
    <3>1. \A v \in Url : at[v] \in Nat /\ at'[v] \in Nat BY <2>1, <1>s, <1>t DEF Shaped
    <3>2. ASSUME NEW v \in Url PROVE at[v] <= at'[v]
      <4>1. CASE v = u BY <4>1, <2>1, <3>1
      <4>2. CASE v # u BY <4>2, <2>1, <3>1
      <4> QED BY <4>1, <4>2
    <3> QED BY <3>1, <3>2
  <2>4. \A d \in Decl : \A g \in moved[d] : g \in Nat BY <1>s, <1>t DEF Shaped
  <2>5. \A d \in Decl : \A g \in moved'[d] : \E v \in Url : g <= at'[v]
    <3> SUFFICES ASSUME NEW d \in Decl, NEW g \in moved[d] PROVE \E v \in Url : g <= at'[v] BY <2>2
    <3>1. PICK v \in Url : g <= at[v] BY <1>s DEF Uploads
    <3>2. g \in Nat /\ at[v] \in Nat /\ at'[v] \in Nat /\ at[v] <= at'[v] BY <2>3, <2>4
    <3>3. g <= at'[v] BY <3>1, <3>2
    <3> QED BY <3>3
  <2>6. at'["main"] # None
    <3>1. CASE u = "main" BY <3>1, <2>1, <1>t
    <3>2. CASE u # "main" BY <3>2, <2>1, <1>t, <1>s DEF Uploads
    <3> QED BY <3>1, <3>2
  <2>7. at'["main"] # at'["next"]
    <3>1. CASE u = "main" BY <3>1, <2>1, <2>3, <1>t
    <3>2. CASE u = "next" BY <3>2, <2>1, <2>3, <1>t
    <3> QED BY <3>1, <3>2, <1>t
  <2> QED BY <2>5, <2>6, <2>7 DEF Uploads
<1> QED BY StepKinds, <1>1, <1>2, <1>3, <1>4, <1>5, <1>6, <1>7, <1>8, <1>9, <1>10, <1>11

\* What one declaration knows of what is served.
Mine(d) ==
    /\ job[d] \in {"remember", "compare"} => got[d] = at[UrlOf(obs[d])] \/ at[UrlOf(obs[d])] \notin moved[d]
    /\ \A u \in Url : at[u] \in moved[d] =>
          \/ index[d][<<u, None>>] = at[u]
          \/ job[d] \in {"remember", "compare"} /\ UrlOf(obs[d]) = u

\* A job that neither had a file to record nor obtains one leaves that as it is.
LEMMA QuietIs ==
    ASSUME NEW d \in Decl, Mine(d), UNCHANGED <<at, moved, index>>,
           job[d] \notin {"remember", "compare"}, job'[d] \notin {"remember", "compare"}
    PROVE  Mine(d)'
BY DEF Mine

\* A job that obtains what its address serves knows it, whether or not it was transferred.
LEMMA ObtainsIs ==
    ASSUME Shaped, Uploads, NEW d \in Decl, Mine(d), UNCHANGED <<at, obs, index>>,
           job[d] \notin {"remember", "compare"}, job'[d] \in {"remember", "compare"},
           got'[d] = at[UrlOf(obs[d])], moved'[d] \subseteq moved[d] \cup {at[UrlOf(obs[d])]}
    PROVE  Mine(d)'
<1>1. UrlOf(obs[d]) \in Url BY ServedIs
<1>2. \A u \in Url : at[u] = at[UrlOf(obs[d])] => u = UrlOf(obs[d]) BY <1>1 DEF Uploads, Url
<1>3. \A u \in Url : at[u] \in moved'[d] => index[d][<<u, None>>] = at[u] \/ UrlOf(obs[d]) = u
  BY <1>2 DEF Mine
<1> QED BY <1>3 DEF Mine

\* A job that records its file knows what its address serves from the index.
LEMMA RecordsIs ==
    ASSUME Shaped, NEW d \in Decl, Mine(d), Unnamed(obs[d]), UNCHANGED <<at, moved>>,
           index' = [index EXCEPT ![d][obs[d]] = got[d]],
           job[d] \in {"remember", "compare"}, job'[d] \notin {"remember", "compare"}
    PROVE  Mine(d)'
<1>1. UrlOf(obs[d]) \in Url BY ServedIs
<1>2. index'[d][obs[d]] = got[d] /\ \A o \in Observation \ {obs[d]} : index'[d][o] = index[d][o] BY IndexIs
<1>3. obs[d] = <<UrlOf(obs[d]), None>> /\ \A u \in Url : <<u, None>> \in Observation
  BY DEF Unnamed, UrlOf, Observation
<1>4. ASSUME NEW u \in Url, at[u] \in moved[d] PROVE index'[d][<<u, None>>] = at[u]
  <2>1. CASE u = UrlOf(obs[d])
    <3>1. got[d] = at[u] BY <1>4, <2>1 DEF Mine
    <3> QED BY <3>1, <2>1, <1>2, <1>3
  <2>2. CASE u # UrlOf(obs[d])
    <3>1. index[d][<<u, None>>] = at[u] BY <1>4, <2>2 DEF Mine
    <3>2. <<u, None>> # obs[d] BY <2>2, <1>3
    <3> QED BY <3>1, <3>2, <1>2, <1>3
  <2> QED BY <2>1, <2>2
<1> QED BY <1>4 DEF Mine

\* While nothing was lost, what is served and was transferred is recorded or about to be.
LEMMA RecordedStep == ConstantsAssumption /\ Inv /\ Shaped' /\ [Next]_vars => Recorded'
<1> SUFFICES ASSUME ConstantsAssumption, Inv, Shaped', [Next]_vars PROVE Recorded' OBVIOUS
<1>s. Shaped /\ Waiting /\ Addresses /\ Uploads /\ Recorded BY DEF Inv
<1>i. \A d \in Decl : Immutable(d)' <=> Immutable(d) BY DEF Immutable
<1>n. flight.callers \subseteq Decl BY <1>s DEF Shaped
<1>p. scheme' = scheme
  <2>1. ASSUME NEW d \in Decl, Alone(d) PROVE scheme' = scheme BY <2>1, <1>s, AloneIs
  <2> QED BY StepKinds, <2>1 DEF Join, Leave, RoundTripShared, RoundTripAsk, RoundTripFails, NewRun, Die,
     Collect, Publish, vars, server
<1>m. ~disturbed /\ StrongTag => \A d \in Decl : ~Immutable(d) => Mine(d) BY <1>s DEF Recorded, Mine
<1>g. SUFFICES ASSUME ~disturbed', StrongTag, NEW d \in Decl, ~Immutable(d) PROVE Mine(d)'
  <2>1. (StrongTag)' <=> StrongTag BY <1>p DEF StrongTag
  <2> QED BY <1>g, <2>1, <1>i DEF Recorded, Mine
<1>o. ASSUME Mine(d), UNCHANGED <<at, moved, index, job, obs, got>> PROVE Mine(d)' BY <1>o DEF Mine
<1>u. ASSUME ~disturbed PROVE Mine(d) BY <1>u, <1>g, <1>m
<1>k. ASSUME NEW ds \in SUBSET Decl, End(ds), ~disturbed, UNCHANGED <<at, moved, index>>,
             \A e \in ds : job[e] \notin {"remember", "compare"}
      PROVE  Mine(d)'
  <2>1. /\ \A e \in ds : job'[e] = "done"
        /\ \A e \in Decl \ ds : job'[e] = job[e] /\ obs'[e] = obs[e] /\ got'[e] = got[e]
    BY <1>k, <1>s, EndIs
  <2>2. CASE d \in ds BY <2>1, <2>2, <1>k, <1>u, QuietIs
  <2>3. CASE d \notin ds
    <3>1. job'[d] = job[d] /\ obs'[d] = obs[d] /\ got'[d] = got[d] BY <2>1, <2>3
    <3> QED BY <3>1, <1>k, <1>u DEF Mine
  <2> QED BY <2>2, <2>3
<1>d. ASSUME NEW a \in Answer, Deliver(flight.callers, a), ~disturbed,
             UNCHANGED <<at, moved, index, got>>
      PROVE  Mine(d)'
  <2>1. /\ \A e \in flight.callers : job'[e] = "recall"
        /\ \A e \in Decl \ flight.callers : job'[e] = job[e] /\ obs'[e] = obs[e]
    BY <1>d, <1>s, DeliverIs
  <2>2. CASE d \in flight.callers
    <3>1. job[d] = "discover" BY <2>2, <1>s DEF Waiting
    <3> QED BY <2>1, <2>2, <3>1, <1>d, <1>u, QuietIs
  <2>3. CASE d \notin flight.callers
    <3>1. job'[d] = job[d] /\ obs'[d] = obs[d] /\ got'[d] = got[d] BY <2>1, <2>3, <1>d
    <3> QED BY <3>1, <1>d, <1>u DEF Mine
  <2> QED BY <2>2, <2>3
<1>1. ASSUME NEW e \in Decl, Alone(e) PROVE Mine(d)'
  <2>1. /\ at' = at
        /\ \A c \in Decl \ {e} : /\ job'[c] = job[c] /\ obs'[c] = obs[c] /\ got'[c] = got[c]
                                 /\ moved'[c] = moved[c] /\ index'[c] = index[c]
    BY <1>1, <1>s, AloneIs
  <2>2. disturbed' = disturbed \/ disturbed' = TRUE
    BY <1>1 DEF Alone, Refresh, Recall, NotModified, Download, Remember, Fetch, FetchFile, FetchRefused,
       Compare, Fail, CheckOut, Finish, history
  <2>3. ~disturbed /\ ~Fail(e)
    <3>1. disturbed \in BOOLEAN /\ disturbed' \in BOOLEAN BY <1>s DEF Shaped
    <3> QED BY <2>2, <3>1, <1>g DEF Fail
  <2>4. Mine(d) BY <2>3, <1>u
  <2>5. CASE d # e
    <3>1. /\ job'[d] = job[d] /\ obs'[d] = obs[d] /\ got'[d] = got[d]
          /\ moved'[d] = moved[d] /\ index'[d] = index[d]
      BY <2>1, <2>5
    <3> QED BY <3>1, <2>1, <2>4 DEF Mine
  <2>6. CASE d = e
    <3>1. Alone(d) BY <1>1, <2>6
    <3>2. ASSUME Refresh(d) \/ Recall(d) \/ Fetch(d) \/ FetchRefused(d) \/ CheckOut(d)
                   \/ \E accepted \in BOOLEAN : Finish(d, accepted)
          PROVE  Mine(d)'
      <4>1. UNCHANGED <<at, moved, index>> /\ job[d] \in {"idle", "recall", "fetch", "refreshed"}
        BY <3>2 DEF Refresh, Recall, Fetch, FetchRefused, CheckOut, Finish, server, cache, history
      <4>2. job'[d] \notin {"remember", "compare"}
        BY <3>1, <3>2, <1>s, AloneDoes DEF Refresh, Recall, Fetch, FetchRefused, CheckOut, Finish,
           NotModified, Download, FetchFile
      <4> QED BY <4>1, <4>2, <2>4, QuietIs
    <3>3. ASSUME NotModified(d) PROVE Mine(d)'
      <4>1. /\ UNCHANGED <<at, obs, index, moved>> /\ job[d] = "ask" /\ job'[d] = "remember"
            /\ got'[d] = Previous(d) /\ SameTag(Previous(d), at[UrlOf(obs[d])])
        BY <3>3, <1>s DEF NotModified, server, cache, Goto, Shaped
      <4>2. Previous(d) = at[UrlOf(obs[d])] BY <4>1, <1>g DEF SameTag, StrongTag
      <4> QED BY <4>1, <4>2, <2>4, <1>s, ObtainsIs
    <3>4. ASSUME Download(d) PROVE Mine(d)'
      <4>1. /\ UNCHANGED <<at, obs, index>> /\ job[d] = "ask" /\ job'[d] = "remember"
        BY <3>4, <1>s DEF Download, server, cache, Goto, Shaped
      <4>2. got'[d] = at[UrlOf(obs[d])] BY <3>4, <1>s, DownloadIs
      <4>3. moved'[d] \subseteq moved[d] \cup {at[UrlOf(obs[d])]}
        <5>1. moved' = moved \/ Transfer(d, at[UrlOf(obs[d])]) BY <3>4 DEF Download
        <5> QED BY <5>1, <1>s DEF Transfer, Shaped
      <4> QED BY <4>1, <4>2, <4>3, <2>4, <1>s, ObtainsIs
    <3>5. ASSUME FetchFile(d) PROVE Mine(d)'
      <4>1. /\ UNCHANGED <<at, obs, index>> /\ job[d] = "fetch" /\ job'[d] = "compare"
            /\ Transfer(d, at[UrlOf(obs[d])])
        BY <3>5, <1>s DEF FetchFile, server, Goto, Shaped
      <4>2. got'[d] = at[UrlOf(obs[d])] /\ moved'[d] \subseteq moved[d] \cup {at[UrlOf(obs[d])]}
        BY <4>1, <1>s DEF Transfer, Shaped
      <4> QED BY <4>1, <4>2, <2>4, <1>s, ObtainsIs
    <3>6. ASSUME Remember(d) \/ Compare(d) PROVE Mine(d)'
      <4>1. UNCHANGED <<at, moved>> /\ job[d] \in {"remember", "compare"} /\ index' = [index EXCEPT ![d][obs[d]] = got[d]]
        BY <3>6 DEF Remember, Compare, server, history
      <4>2. job'[d] \in {"refreshed", "done"}
        BY <3>6, <1>s DEF Remember, Compare, Goto, End, Shaped
      <4>3. Unnamed(obs[d]) BY <1>g, <1>s DEF Addresses
      <4> QED BY <4>1, <4>2, <4>3, <2>4, <1>s, RecordsIs
    <3> QED BY <3>1, <3>2, <3>3, <3>4, <3>5, <3>6, <2>3, <2>6 DEF Alone
  <2> QED BY <2>5, <2>6
<1>2. ASSUME NEW e \in Decl, Join(e) PROVE Mine(d)'
  BY <1>2, <1>u, <1>g, <1>o DEF Join, server, cache, history
<1>3. ASSUME NEW e \in Decl, Leave(e) PROVE Mine(d)'
  <2>1. End({e}) /\ disturbed' = disturbed /\ UNCHANGED <<at, moved, index>> /\ e \in flight.callers
    BY <1>3 DEF Leave, server, cache
  <2>2. \A c \in {e} : job[c] \notin {"remember", "compare"} BY <2>1, <1>s DEF Waiting
  <2> QED BY <2>1, <2>2, <1>g, <1>k
<1>4. CASE RoundTripShared
  <2>1. shared \in Answer BY <1>4, <1>s DEF RoundTripShared, Shaped
  <2> QED BY <1>4, <2>1, <1>g, <1>d DEF RoundTripShared, server, cache
<1>5. CASE RoundTripAsk
  <2>1. page \in Answer BY <1>s DEF Shaped
  <2> QED BY <1>5, <2>1, <1>g, <1>d DEF RoundTripAsk, server
<1>6. CASE RoundTripFails
  <2>1. End(flight.callers) /\ disturbed' = disturbed /\ UNCHANGED <<at, moved, index>>
    BY <1>6 DEF RoundTripFails, server, cache
  <2>2. \A c \in flight.callers : job[c] \notin {"remember", "compare"} BY <1>s DEF Waiting
  <2> QED BY <2>1, <2>2, <1>n, <1>g, <1>k
<1>7. CASE NewRun
  <2>1. /\ job[d] \in {"idle", "done"} /\ job'[d] = "idle" /\ disturbed' = disturbed /\ UNCHANGED <<at, moved, index>>
    BY <1>7 DEF NewRun, server, cache
  <2> QED BY <2>1, <1>g, <1>u, QuietIs
<1>8. CASE Die
  <2>1. End(Decl) /\ UNCHANGED <<at, moved, index>> BY <1>8 DEF Die, server, cache
  <2>2. ~disturbed /\ \A c \in Decl : job[c] \notin {"remember", "compare"} BY <1>8, <1>g DEF Die, Busy
  <2> QED BY <2>1, <2>2, <1>k
<1>9. CASE Collect BY <1>9, <1>g DEF Collect
<1>10. CASE UNCHANGED vars BY <1>10, <1>u, <1>g, <1>o DEF vars, server, cache, history
<1>11. ASSUME NEW u \in Url, Publish(u) PROVE Mine(d)'
  <2>1. PICK f \in File : /\ at'[u] = f /\ \A v \in Url \ {u} : at'[v] = at[v]
                          /\ \A v \in Url : at[v] < f
    BY <1>11, <1>s, PublishIs
  <2>2. UNCHANGED <<job, obs, got, index, moved, disturbed>> BY <1>11 DEF Publish, cache
  <2>3. f \notin moved[d]
    <3> SUFFICES ASSUME f \in moved[d] PROVE FALSE OBVIOUS
    <3>1. PICK v \in Url : f <= at[v] BY <1>s DEF Uploads
    <3>2. f \in Nat /\ at[v] \in Nat BY <1>s DEF Shaped, File, None
    <3> QED BY <3>1, <3>2, <2>1
  <2>4. Mine(d) /\ UrlOf(obs[d]) \in Url BY <2>2, <1>g, <1>u, <1>s, ServedIs
  <2> QED BY <2>1, <2>2, <2>3, <2>4 DEF Mine
<1> QED BY StepKinds, <1>1, <1>2, <1>3, <1>4, <1>5, <1>6, <1>7, <1>8, <1>9, <1>10, <1>11

\* A mutable input that was transferred and recorded is confirmed, not transferred again.
LEMMA TransfersStep == ConstantsAssumption /\ Inv /\ Shaped' /\ [Next]_vars => RefreshTransfersOnce'
<1> SUFFICES ASSUME ConstantsAssumption, Inv, Shaped', [Next]_vars PROVE RefreshTransfersOnce' OBVIOUS
<1>s. Shaped /\ Addresses /\ Recorded /\ RefreshTransfersOnce BY DEF Inv
<1>i. \A d \in Decl : Immutable(d)' <=> Immutable(d) BY DEF Immutable
<1>b. again \subseteq Decl /\ disturbed \in BOOLEAN /\ disturbed' \in BOOLEAN BY <1>s DEF Shaped
<1>o. ASSUME scheme' = scheme, again' = again, disturbed => disturbed' PROVE RefreshTransfersOnce'
  <2>1. (StrongTag)' <=> StrongTag BY <1>o DEF StrongTag
  <2> QED BY <2>1, <1>o, <1>s, <1>i, <1>b DEF RefreshTransfersOnce
<1>1. ASSUME NEW d \in Decl, Alone(d) PROVE RefreshTransfersOnce'
  <2>1. scheme' = scheme BY <1>1, <1>s, AloneIs
  <2>2. CASE Download(d)
    <3> DEFINE f == at[UrlOf(obs[d])]
    <3>1. /\ job[d] = "ask" /\ f # None /\ disturbed' = disturbed
          /\ \/ again' = again
             \/ again' = again \cup {d} /\ f \in moved[d] /\ ~Confirmed(Previous(d), f)
      BY <2>2 DEF Download
    <3>2. CASE again' = again BY <3>1, <3>2, <2>1, <1>o
    <3>3. CASE again' = again \cup {d} /\ f \in moved[d] /\ ~Confirmed(Previous(d), f)
      <4>1. ~disturbed /\ StrongTag => Immutable(d)
        <5> SUFFICES ASSUME ~disturbed, StrongTag, ~Immutable(d) PROVE FALSE OBVIOUS
        <5>1. UrlOf(obs[d]) \in Url BY <1>s, ServedIs
        <5>2. index[d][<<UrlOf(obs[d]), None>>] = f BY <5>1, <3>1, <3>3, <1>s DEF Recorded
        <5>3. obs[d] = <<UrlOf(obs[d]), None>> BY <1>s DEF Addresses, Unnamed, UrlOf
        <5>4. Previous(d) = f BY <5>2, <5>3 DEF Previous, HasTag, StrongTag
        <5> QED BY <5>4, <3>1, <3>3 DEF Confirmed, SameTag
      <4>2. (StrongTag)' <=> StrongTag BY <2>1 DEF StrongTag
      <4> QED BY <4>1, <4>2, <3>1, <3>3, <1>s, <1>i, <1>b DEF RefreshTransfersOnce
    <3> QED BY <3>1, <3>2, <3>3
  <2>3. CASE ~Download(d)
    <3>1. again' = again /\ (disturbed => disturbed')
      BY <1>1, <2>3 DEF Alone, Refresh, Recall, NotModified, Remember, Fetch, FetchFile, FetchRefused,
         Compare, Fail, CheckOut, Finish, history
    <3> QED BY <3>1, <2>1, <1>o
  <2> QED BY <2>2, <2>3
<1>2. ASSUME NEW d \in Decl, Join(d) PROVE RefreshTransfersOnce' BY <1>2, <1>o DEF Join, server, history
<1>3. ASSUME NEW d \in Decl, Leave(d) PROVE RefreshTransfersOnce' BY <1>3, <1>o DEF Leave, server
<1>4. CASE RoundTripShared BY <1>4, <1>o DEF RoundTripShared, server
<1>5. CASE RoundTripAsk BY <1>5, <1>o DEF RoundTripAsk, server
<1>6. CASE RoundTripFails BY <1>6, <1>o DEF RoundTripFails, server
<1>7. CASE NewRun BY <1>7, <1>o DEF NewRun, server
<1>8. CASE Die BY <1>8, <1>o DEF Die, server
<1>9. CASE Collect BY <1>9, <1>o DEF Collect, server
<1>10. CASE UNCHANGED vars BY <1>10, <1>o DEF vars, server, history
<1>11. ASSUME NEW u \in Url, Publish(u) PROVE RefreshTransfersOnce' BY <1>11, <1>o DEF Publish
<1> QED BY StepKinds, <1>1, <1>2, <1>3, <1>4, <1>5, <1>6, <1>7, <1>8, <1>9, <1>10, <1>11

\* The parts hold at first.
LEMMA InitIs == ConstantsAssumption /\ Init => Inv
<1> SUFFICES ASSUME ConstantsAssumption, Init PROVE Inv OBVIOUS
<1>t. /\ Url = {"main", "next"} /\ 1 \in File /\ Direct \in Observation /\ NoAnswer \notin Answer
      /\ Schemes \subseteq {"strong", "weak", "date", "none"} /\ None \notin File
  <2>1. Url = {"main", "next"} /\ 1 \in File /\ None \notin File BY DEF ConstantsAssumption, Url, File, None
  <2>2. Direct \in Observation BY <2>1 DEF Direct, Observation
  <2>3. NoAnswer \notin Answer BY <2>1 DEF NoAnswer, Answer
  <2> QED BY <2>1, <2>2, <2>3 DEF ConstantsAssumption
<1>1. Shaped
  <2>1. at \in [Url -> File \cup {None}] /\ page \in Answer /\ scheme \in {"strong", "weak", "date", "none"}
    BY <1>t DEF Init, Answer
  <2>2. index \in [Decl -> [Observation -> File \cup {None}]] BY DEF Init, NoKey
  <2>3. flight \in [leader : Decl \cup {None}, callers : SUBSET Decl] BY DEF Init, NoFlight
  <2>4. job \in [Decl -> Jobs] BY DEF Init, Jobs
  <2>5. faults \in Nat BY DEF Init
  <2> QED BY <1>t, <2>1, <2>2, <2>3, <2>4, <2>5 DEF Init, Shaped
<1>2. Waiting BY DEF Init, Waiting, NoFlight
<1>3. Addresses BY DEF Init, Addresses, Unnamed, Direct
<1>4. Asked BY DEF Init, Asked
<1>5. Shares BY DEF Init, Shares
<1>6. Uploads BY <1>t DEF Init, Uploads, None
<1>7. Recorded BY DEF Init, Recorded
<1>8. RefreshTransfersOnce BY DEF Init, RefreshTransfersOnce
<1> QED BY <1>1, <1>2, <1>3, <1>4, <1>5, <1>6, <1>7, <1>8 DEF Inv

\* They hold of every behaviour.
LEMMA AlwaysInv == ConstantsAssumption => (Spec => []Inv)
<1> SUFFICES ASSUME ConstantsAssumption PROVE Spec => []Inv OBVIOUS
<1>1. Init => Inv BY InitIs
<1>2. Inv /\ [Next]_vars => Inv'
  <2> SUFFICES ASSUME Inv, [Next]_vars PROVE Inv' OBVIOUS
  <2>1. Shaped' BY ShapedStep
  <2>2. Waiting' /\ Addresses' /\ Asked' BY <2>1, WaitingStep, AddressesStep, AskedStep
  <2>3. Shares' /\ Uploads' BY <2>1, SharesStep, UploadsStep
  <2>4. Recorded' /\ RefreshTransfersOnce' BY <2>1, RecordedStep, TransfersStep
  <2> QED BY <2>1, <2>2, <2>3, <2>4 DEF Inv
<1> QED BY <1>1, <1>2, PTL DEF Spec

(***************************************************************************)
(* The properties.                                                         *)
(***************************************************************************)

\* Every variable keeps its type, and nobody waits without a leader.
THEOREM TypesSafe == ConstantsAssumption => (Spec => []TypeOK)
<1>1. Inv => TypeOK BY DEF Inv, Shaped, Waiting, TypeOK
<1> QED BY <1>1, AlwaysInv, PTL

\* "the same strong ETag confirms the previous bytes without transferring them" (http.go:75):
\* what a refresh of a mutable input proposes is a file its address served while it was asked,
\* or one that the server itself confirmed.
THEOREM FreshSafe == ConstantsAssumption => (Spec => []Fresh)
<1>1. Inv => Fresh BY DEF Inv, Asked, Fresh
<1> QED BY <1>1, AlwaysInv, PTL

\* "metadataClient shares discoveries during a run" (discovery_cache.go:33): however requests
\* overlap, fail and are given up, one run works from one answer.
THEOREM AnswersSafe == ConstantsAssumption => (Spec => []OneAnswerPerRun)
<1>1. Inv => OneAnswerPerRun
  <2> SUFFICES ASSUME Inv PROVE Cardinality(answers) <= 1 BY DEF OneAnswerPerRun
  <2>1. answers = {} \/ answers = {shared} BY DEF Inv, Shares
  <2>2. Cardinality({}) = 0 /\ Cardinality({shared}) = 1 BY FS_EmptySet, FS_Singleton
  <2> QED BY <2>1, <2>2
<1> QED BY <1>1, AlwaysInv, PTL

\* "a source that moved on is proposed by the next refresh without another download"
\* (source.go:228): unless something was lost, a refresh of a mutable input behind strong
\* validators transfers no file again that was transferred and recorded.
THEOREM TransfersSafe == ConstantsAssumption => (Spec => []RefreshTransfersOnce)
<1>1. Inv => RefreshTransfersOnce BY DEF Inv
<1> QED BY <1>1, AlwaysInv, PTL
=============================================================================
