------------------------------ MODULE Sources ------------------------------
(***************************************************************************)
(* The source manager (internal/source): inputs are observed again           *)
(* (Refresh) and locked inputs are fetched (FetchLocked), through a source   *)
(* index that remembers what an observation fetched and a metadata cache     *)
(* that the jobs of a run share.  Publishers replace files in place and      *)
(* publish new ones at any moment; some servers identify bytes by a strong   *)
(* validator, some by one that two contents share, some by none; requests    *)
(* fail, callers give up, the process dies, the collector empties the cache. *)
(*                                                                         *)
(* Abstractions.  A file is the number of its upload, which is also the      *)
(* asset ID that the provider shows: no two uploads have the same bytes or   *)
(* ID.  All declarations read one metadata page.  A response is sent at one  *)
(* moment.  Two declarations never share a key of the index: the key has     *)
(* the resolver, its build and the declaration's hash (source.go:287).       *)
(***************************************************************************)
EXTENDS Integers, FiniteSets

CONSTANTS
    Decl,       \* declarations of a project
    Kind,       \* of each: "direct", "link", "release" or "digest"
    Schemes,    \* validators servers use: "strong", "weak", "date", "none"
    Loose,      \* pairs of uploads that a loose validator does not tell apart
    MaxFile,    \* bound: files ever uploaded
    MaxFaults   \* bound: failures, cancellations and collections

File == 1..MaxFile
None == 0
Url == {"main", "next"}
Answer == Url \X File
NoAnswer == <<"", None>>
Observation == Url \X (File \cup {None})

ConstantsAssumption ==
    /\ Decl \subseteq Nat \ {0} /\ Kind \in [Decl -> {"direct", "link", "release", "digest"}]
    /\ Schemes \subseteq {"strong", "weak", "date", "none"}
    /\ Loose \subseteq File \X File /\ MaxFile \in Nat \ {0} /\ MaxFaults \in Nat

VARIABLES
    at,         \* the file behind each URL
    page,       \* what the metadata page lists: a URL and its asset ID
    scheme,     \* the validators of the download server
    objects,    \* files in the object store
    index,      \* the source index: the file recorded for a declaration's observation
    saved,      \* the metadata response the index persists
    shared,     \* the metadata response this run shares
    flight,     \* callers of the one metadata request in progress, and its leader
    lock,       \* the reviewed entry of each declaration
    job,        \* what each declaration's job does
    obs,        \* the observation it works from
    got,        \* the file it obtained
    during,     \* files its URL has had since the job began its request
    vouched,    \* files the server itself confirmed to it
    answers,    \* metadata responses this run has used
    moved,      \* files that a job of the declaration has transferred
    again,      \* declarations that refreshed by transferring a file a second time
    disturbed,  \* whether anything was lost since
    faults

server == <<at, page, scheme>>
cache == <<objects, index, saved>>
memory == <<shared, flight>>
history == <<during, vouched, answers, moved, again, disturbed>>
vars == <<server, cache, memory, lock, job, obs, got, history, faults>>

NoEntry == [obs |-> NoAnswer, file |-> None]
NoFlight == [leader |-> None, callers |-> {}]
NoKey == [d \in Decl |-> [o \in Observation |-> None]]

Immutable(d) == Kind[d] \in {"release", "digest"}
Pages(d) == Kind[d] # "direct"
\* The observation of a metadata answer: a matched address, or the asset too.
Direct == <<"main", None>>
Observed(d, a) ==
    CASE Kind[d] = "direct" -> Direct
      [] Kind[d] = "link" -> <<a[1], None>>
      [] OTHER -> a
UrlOf(o) == o[1]
\* A digest that the provider publishes pins the file.
Pinned(d, o) == IF Kind[d] = "digest" THEN o[2] ELSE None

\* Whether the validators of two files agree.
SameTag(f, g) ==
    \/ f = g
    \/ scheme \in {"weak", "date"} /\ {<<f, g>>, <<g, f>>} \cap Loose # {}
HasTag == scheme # "none"
StrongTag == scheme = "strong"

Init ==
    /\ at = [u \in Url |-> IF u = "main" THEN 1 ELSE None] /\ page = <<"main", 1>>
    /\ scheme \in Schemes
    /\ objects = {} /\ index = NoKey /\ saved = NoAnswer
    /\ shared = NoAnswer /\ flight = NoFlight
    /\ lock = [d \in Decl |-> NoEntry] /\ job = [d \in Decl |-> "idle"]
    /\ obs = [d \in Decl |-> Direct] /\ got = [d \in Decl |-> None]
    /\ during = [d \in Decl |-> {}] /\ vouched = [d \in Decl |-> {}]
    /\ answers = {} /\ moved = [d \in Decl |-> {}] /\ again = {} /\ disturbed = FALSE
    /\ faults = 0

Goto(d, s) == job' = [job EXCEPT ![d] = s]
\* A run refreshes or fetches each input once; what a job held is gone.
End(ds) ==
    /\ job' = [d \in Decl |-> IF d \in ds THEN "done" ELSE job[d]]
    /\ obs' = [d \in Decl |-> IF d \in ds THEN Direct ELSE obs[d]]
    /\ got' = [d \in Decl |-> IF d \in ds THEN None ELSE got[d]]
    /\ during' = [d \in Decl |-> IF d \in ds THEN {} ELSE during[d]]
    /\ vouched' = [d \in Decl |-> IF d \in ds THEN {} ELSE vouched[d]]

(***************************************************************************)
(* Refresh.                                                                *)
(***************************************************************************)
Refresh(d) ==
    /\ job[d] = "idle"
    /\ Goto(d, IF Pages(d) THEN "discover" ELSE "recall")
    /\ UNCHANGED <<server, cache, memory, lock, obs, got, history, faults>>

\* One request serves every caller that asks while it lasts.
Join(d) ==
    /\ job[d] = "discover" /\ d \notin flight.callers
    /\ flight' = [leader |-> IF flight.leader = None THEN d ELSE flight.leader,
                  callers |-> flight.callers \cup {d}]
    /\ UNCHANGED <<server, cache, shared, lock, job, obs, got, history, faults>>

\* The callers resume with one answer.
Deliver(callers, a) ==
    /\ job' = [d \in Decl |-> IF d \in callers THEN "recall" ELSE job[d]]
    /\ obs' = [d \in Decl |-> IF d \in callers THEN Observed(d, a) ELSE obs[d]]
    /\ answers' = answers \cup {a} /\ flight' = NoFlight

\* What the run has already read is shared, whatever the server says now.
RoundTripShared ==
    /\ flight.leader # None /\ shared # NoAnswer
    /\ Deliver(flight.callers, shared)
    /\ UNCHANGED <<server, cache, shared, lock, got, during, vouched, moved, again, disturbed, faults>>

\* Mutant: the answer serves only those who asked together.
RoundTripAskUnshared ==
    /\ flight.leader # None /\ shared = NoAnswer
    /\ Deliver(flight.callers, page) /\ saved' = page
    /\ UNCHANGED <<server, objects, index, shared, lock, got, during, vouched, moved, again, disturbed, faults>>
\* Mutant: a persisted response is used as it is.
RoundTripAskSaved ==
    LET a == IF saved = NoAnswer THEN page ELSE saved IN
    /\ flight.leader # None /\ shared = NoAnswer
    /\ Deliver(flight.callers, a) /\ shared' = a /\ saved' = a
    /\ UNCHANGED <<server, objects, index, lock, got, during, vouched, moved, again, disturbed, faults>>

\* A persisted response is used only when the server confirms it.
RoundTripAsk ==
    /\ flight.leader # None /\ shared = NoAnswer
    /\ Deliver(flight.callers, page)
    /\ shared' = page /\ saved' = page
    /\ UNCHANGED <<server, objects, index, lock, got, during, vouched, moved, again, disturbed, faults>>

\* The request fails, or the caller it belongs to gives up: all its callers fail.
RoundTripFails ==
    /\ flight.leader # None /\ shared = NoAnswer /\ faults < MaxFaults
    /\ faults' = faults + 1 /\ flight' = NoFlight
    /\ End(flight.callers)
    /\ UNCHANGED <<server, cache, shared, lock, answers, moved, again, disturbed>>

\* Mutant: a leader leaves its request behind.
LeaveAny(d) ==
    /\ d \in flight.callers /\ faults < MaxFaults
    /\ faults' = faults + 1 /\ flight' = [flight EXCEPT !.callers = @ \ {d}]
    /\ End({d})
    /\ UNCHANGED <<server, cache, shared, lock, answers, moved, again, disturbed>>

\* A caller other than the leader gives up alone.
Leave(d) ==
    /\ d \in flight.callers \ {flight.leader} /\ faults < MaxFaults
    /\ faults' = faults + 1 /\ flight' = [flight EXCEPT !.callers = @ \ {d}]
    /\ End({d})
    /\ UNCHANGED <<server, cache, shared, lock, answers, moved, again, disturbed>>

\* The file is known without a transfer.
Known(d) ==
    LET o == obs[d] IN
    IF Pinned(d, o) # None THEN Pinned(d, o)
    ELSE IF ~Immutable(d) THEN None
    ELSE IF index[d][o] # None THEN index[d][o]
    ELSE IF lock[d].obs = o THEN lock[d].file ELSE None

Recall(d) ==
    /\ job[d] = "recall"
    /\ IF Known(d) # None
          THEN /\ got' = [got EXCEPT ![d] = Known(d)]
               /\ Goto(d, "refreshed") /\ UNCHANGED during
          ELSE /\ Goto(d, "ask") /\ UNCHANGED got
               /\ during' = [during EXCEPT ![d] = {at[UrlOf(obs[d])]}]
    /\ UNCHANGED <<server, cache, memory, lock, obs, vouched, answers, moved, again, disturbed, faults>>

\* The validators of the recorded file are sent with the request.
Previous(d) == IF HasTag THEN index[d][obs[d]] ELSE None

\* Mutant: any equal ETag confirms the bytes.
ConfirmedWeak(p, f) == p # None /\ scheme \in {"strong", "weak"} /\ SameTag(p, f)

\* A response that carries the same validators confirms the recorded file only when
\* they are strong; that of a date alone has no ETag.
Confirmed(p, f) == p # None /\ StrongTag /\ SameTag(p, f)

Transfer(d, f) ==
    /\ objects' = objects \cup {f} /\ got' = [got EXCEPT ![d] = f]
    /\ moved' = [moved EXCEPT ![d] = @ \cup {f}]

\* The server answers 304 to validators it recognises.
NotModified(d) ==
    LET p == Previous(d) IN
    /\ job[d] = "ask" /\ p # None /\ SameTag(p, at[UrlOf(obs[d])])
    /\ got' = [got EXCEPT ![d] = p] /\ vouched' = [vouched EXCEPT ![d] = {p}]
    /\ Goto(d, "remember")
    /\ UNCHANGED <<server, cache, memory, lock, obs, during, answers, moved, again, disturbed, faults>>

\* A server may ignore them and send the file.
Download(d) ==
    LET f == at[UrlOf(obs[d])] IN
    /\ job[d] = "ask" /\ f # None
    /\ IF Confirmed(Previous(d), f)
          THEN got' = [got EXCEPT ![d] = Previous(d)] /\ UNCHANGED <<objects, moved, again>>
          ELSE /\ Transfer(d, f)
               /\ again' = IF f \in moved[d] THEN again \cup {d} ELSE again
    /\ Goto(d, "remember")
    /\ UNCHANGED <<server, index, saved, memory, lock, obs, during, vouched, answers, disturbed, faults>>

Remember(d) ==
    /\ job[d] = "remember"
    /\ index' = [index EXCEPT ![d][obs[d]] = got[d]] /\ Goto(d, "refreshed")
    /\ UNCHANGED <<server, objects, saved, memory, lock, obs, got, history, faults>>

\* The new entry is reviewed and locked, or not.
Finish(d, accepted) ==
    /\ job[d] = "refreshed" /\ End({d})
    /\ lock' = IF accepted THEN [lock EXCEPT ![d] = [obs |-> obs[d], file |-> got[d]]] ELSE lock
    /\ UNCHANGED <<server, cache, memory, answers, moved, again, disturbed, faults>>

(***************************************************************************)
(* FetchLocked.                                                            *)
(***************************************************************************)
\* Content that the store holds is not fetched, nor its source observed.
Fetch(d) ==
    /\ job[d] = "idle" /\ lock[d] # NoEntry /\ lock[d].file \notin objects
    /\ Goto(d, "fetch") /\ obs' = [obs EXCEPT ![d] = lock[d].obs]
    /\ UNCHANGED <<server, cache, memory, lock, got, history, faults>>

FetchFile(d) ==
    LET f == at[UrlOf(obs[d])] IN
    /\ job[d] = "fetch" /\ f # None /\ Pinned(d, obs[d]) \in {None, f}
    /\ Transfer(d, f) /\ Goto(d, "compare")
    /\ UNCHANGED <<server, index, saved, memory, lock, obs, during, vouched, answers, again, disturbed, faults>>

\* The import refuses a file that is not the pinned one.
FetchRefused(d) ==
    /\ job[d] = "fetch" /\ Pinned(d, obs[d]) \notin {None, at[UrlOf(obs[d])]}
    /\ End({d}) /\ UNCHANGED <<server, cache, memory, lock, answers, moved, again, disturbed, faults>>

\* Mutant: only what agrees with the lock is remembered.
CompareFirst(d) ==
    /\ job[d] = "compare"
    /\ index' = IF got[d] = lock[d].file THEN [index EXCEPT ![d][obs[d]] = got[d]] ELSE index
    /\ End({d})
    /\ UNCHANGED <<server, objects, saved, memory, lock, answers, moved, again, disturbed, faults>>

\* Whatever was fetched is remembered before it is compared with the lock.
Compare(d) ==
    /\ job[d] = "compare"
    /\ index' = [index EXCEPT ![d][obs[d]] = got[d]]
    /\ End({d})
    /\ UNCHANGED <<server, objects, saved, memory, lock, answers, moved, again, disturbed, faults>>

(***************************************************************************)
(* Runs, failures and publishers.                                          *)
(***************************************************************************)
Busy == {"ask", "remember", "fetch", "compare"}

\* A transfer fails, is cut off, or cannot be recorded.
Fail(d) ==
    /\ job[d] \in Busy /\ faults < MaxFaults /\ faults' = faults + 1
    /\ End({d}) /\ disturbed' = TRUE
    /\ UNCHANGED <<server, cache, memory, lock, answers, moved, again>>

\* The next process shares no memory with the last.
NewRun ==
    /\ {job[d] : d \in Decl} \in {{"done"}, {"idle", "done"}}
    /\ job' = [d \in Decl |-> "idle"] /\ shared' = NoAnswer /\ answers' = {}
    /\ UNCHANGED <<server, cache, flight, lock, obs, got, during, vouched, moved, again, disturbed, faults>>
Die ==
    /\ \E d \in Decl : job[d] \notin {"idle", "done"}
    /\ faults < MaxFaults /\ faults' = faults + 1
    /\ disturbed' = (disturbed \/ \E d \in Decl : job[d] \in Busy)
    /\ End(Decl) /\ flight' = NoFlight
    /\ UNCHANGED <<server, cache, shared, lock, answers, moved, again>>

Collect ==
    /\ objects # {} /\ faults < MaxFaults /\ faults' = faults + 1
    /\ objects' = {} /\ index' = NoKey /\ saved' = NoAnswer /\ disturbed' = TRUE
    /\ UNCHANGED <<server, memory, lock, job, obs, got, during, vouched, answers, moved, again>>

\* The next file, in place of the newest or under a new address.
Publish(u) ==
    LET f == 1 + CHOOSE n \in File : (\E v \in Url : at[v] = n) /\ \A v \in Url : at[v] <= n IN
    /\ f \in File /\ (at[u] = None \/ u = page[1])
    /\ at' = [at EXCEPT ![u] = f] /\ page' = <<u, f>>
    /\ during' = [d \in Decl |-> IF job[d] = "ask" /\ UrlOf(obs[d]) = u THEN during[d] \cup {f} ELSE during[d]]
    /\ UNCHANGED <<scheme, cache, memory, lock, job, obs, got, vouched, answers, moved, again, disturbed, faults>>

\* A lock that was reviewed elsewhere is checked out.
CheckOut(d) ==
    /\ job[d] = "idle" /\ page[2] # lock[d].file
    /\ lock' = [lock EXCEPT ![d] = [obs |-> Observed(d, page), file |-> page[2]]]
    /\ UNCHANGED <<server, cache, memory, job, obs, got, history, faults>>

Work(d) ==
    \/ Join(d) \/ Recall(d) \/ NotModified(d) \/ Download(d) \/ Remember(d)
    \/ FetchFile(d) \/ FetchRefused(d) \/ Compare(d) \/ \E accepted \in BOOLEAN : Finish(d, accepted)
Answered == RoundTripShared \/ RoundTripAsk
Next ==
    \/ \E d \in Decl : Refresh(d) \/ Work(d) \/ Fetch(d) \/ Leave(d) \/ Fail(d) \/ CheckOut(d)
    \/ Answered \/ RoundTripFails \/ NewRun \/ Die \/ Collect
    \/ \E u \in Url : Publish(u)
Spec == Init /\ [][Next]_vars
\* Jobs proceed, and runs end.
FairSpec == Spec /\ (\A d \in Decl : WF_vars(Work(d))) /\ WF_vars(Answered) /\ SF_vars(NewRun)

(***************************************************************************)
(* Properties.                                                             *)
(***************************************************************************)
\* Every variable keeps its type; a discovery has a leader while someone waits for it, and a
\* job that goes on has a file.
TypeOK ==
    /\ at \in [Url -> File \cup {None}] /\ page \in Answer
    /\ objects \subseteq File /\ index \in [Decl -> [Observation -> File \cup {None}]]
    /\ {saved, shared} \subseteq Answer \cup {NoAnswer}
    /\ flight.callers = {} <=> flight.leader = None
    /\ \A d \in Decl : got[d] \in File \/ job[d] \notin {"remember", "refreshed", "compare"}

\* "the same strong ETag confirms the previous bytes without transferring them"
\* (http.go:75): a refreshed mutable input is a file its address served while it was
\* asked, or one that the server itself confirmed.
Fresh ==
    \A d \in Decl : job[d] = "refreshed" /\ ~Immutable(d) => got[d] \in during[d] \cup vouched[d]

\* "metadataClient shares discoveries during a run" (discovery_cache.go:33): however
\* requests overlap, fail and are given up, one run works from one answer.
OneAnswerPerRun == Cardinality(answers) <= 1

\* "a source that moved on is proposed by the next refresh without another
\* download" (source.go:228): a refresh does not transfer a file again that a fetch
\* or a refresh has transferred and recorded.
RefreshTransfersOnce == ~disturbed /\ StrongTag => \A d \in again : Immutable(d)

\* "revalidates persisted responses on the next run" (discovery_cache.go:33): once the
\* publisher is quiet, every refresh comes to propose what is published, up to what
\* the server's validators tell apart.
Latest(d) == SameTag(got[d], at[UrlOf(Observed(d, page))])
Current == \A d \in Decl : job[d] = "refreshed" => Latest(d)
CatchesUp == <>[]Current
=============================================================================
