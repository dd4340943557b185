---------------------------- MODULE Preparation ----------------------------
(***************************************************************************)
(* The preparation of a resource (internal/engine/resources.go) by commands *)
(* that share one cache: outputs are looked up by a fingerprint of what     *)
(* shapes them, and made, verified and remembered when they are not there.  *)
(*                                                                         *)
(* A request holds what the operation is given: the provider's identity,    *)
(* the resource's configuration, the inputs with their evidence, their file *)
(* modes and environment values, and the destinations' metadata, which only *)
(* publication reads.  The operation is a plugin: what it makes of a        *)
(* request, and that it makes the same of it again, is external.            *)
(***************************************************************************)
EXTENDS Naturals

CONSTANTS
    Proc,      \* processes that share the cache
    Provider, Config, Artifact, Mode, Environment, Metadata,
    Output,    \* outputs an operation may make
    Outcome,   \* what it makes of a request: outputs, or "refused"
    Observation,  \* what it makes of one when it derives signatures
    Derives,   \* whether commands derive signatures
    Nothing,
    MaxRuns    \* bound: commands

Request == [provider : Provider, config : Config, artifact : Artifact, mode : Mode,
            environment : Environment, metadata : Metadata]
Key == [provider : Provider, config : Config, artifact : Artifact, mode : Mode, environment : Environment]

ASSUME ConstantsAssumption ==
    /\ Outcome \in [Request -> Output \cup {"refused"}]
    /\ Observation \in [Request -> Output]
    /\ Nothing \notin Output \cup {"refused", "failed"} \cup Request
    /\ "refused" \notin Output
    /\ Derives \in BOOLEAN /\ MaxRuns \in Nat

\* An operation is not given the destinations' metadata.
ASSUME MetadataAssumption ==
    \A r \in Request, m \in Metadata : Outcome[[r EXCEPT !.metadata = m]] = Outcome[r]

VARIABLES
    cached,   \* outputs remembered under a key
    payloads, \* outputs whose payloads the store has
    pc,       \* what a process does next
    req,      \* the request of its command
    derive,   \* whether the command derives signatures
    made,     \* what the operation made
    intact,   \* whether it left the leased inputs as they were
    result,   \* what the last command was answered
    derived,  \* whether a derivation made that answer
    tainted,  \* the keys under which one was remembered
    runs

vars == <<cached, payloads, pc, req, derive, made, intact, result, derived, tainted, runs>>

Init ==
    /\ cached = [k \in Key |-> Nothing] /\ payloads = {} /\ runs = 0
    /\ pc = [p \in Proc |-> "idle"]
    /\ req = [p \in Proc |-> Nothing]
    /\ derive = [p \in Proc |-> FALSE]
    /\ made = [p \in Proc |-> Nothing]
    /\ intact = [p \in Proc |-> TRUE]
    /\ result = [p \in Proc |-> Nothing]
    /\ derived = [p \in Proc |-> FALSE] /\ tainted = {}

Goto(p, from, to) == pc[p] = from /\ pc' = [pc EXCEPT ![p] = to]

\* Mutant: environment values are left out of the fingerprint.
KeyOfPlain(r) ==
    [provider |-> r.provider, config |-> r.config, artifact |-> r.artifact, mode |-> r.mode,
     environment |-> CHOOSE e \in Environment : TRUE]

\* The fingerprint of everything but the metadata; the derivation is not part of it.
KeyOf(r) ==
    [provider |-> r.provider, config |-> r.config, artifact |-> r.artifact, mode |-> r.mode,
     environment |-> r.environment]

Start(p, r, d) ==
    /\ Goto(p, "idle", "recall") /\ runs < MaxRuns /\ runs' = runs + 1
    /\ d => Derives
    /\ req' = [req EXCEPT ![p] = r]
    /\ derive' = [derive EXCEPT ![p] = d]
    /\ result' = [result EXCEPT ![p] = Nothing]
    /\ derived' = [derived EXCEPT ![p] = FALSE]
    /\ UNCHANGED <<cached, payloads, made, intact, tainted>>

\* A command ends with an answer.
Finish(p, from, answer) ==
    /\ Goto(p, from, "idle")
    /\ req' = [req EXCEPT ![p] = Nothing]
    /\ made' = [made EXCEPT ![p] = Nothing]
    /\ intact' = [intact EXCEPT ![p] = TRUE]
    /\ result' = [result EXCEPT ![p] = answer]
    /\ UNCHANGED <<derive, runs>>

\* recallOutputs(): a complete record whose payloads are all there.
Complete(r) == cached[KeyOf(r)] # Nothing /\ cached[KeyOf(r)] \in payloads

\* "reuses cached outputs unless derive names a policy to observe".
Recall(p) ==
    /\ ~derive[p] /\ pc[p] = "recall" /\ Complete(req[p])
    /\ Finish(p, "recall", cached[KeyOf(req[p])])
    /\ derived' = [derived EXCEPT ![p] = KeyOf(req[p]) \in tainted]
    /\ UNCHANGED <<cached, payloads, tainted>>

Miss(p) ==
    /\ Goto(p, "recall", "run")
    /\ derive[p] \/ ~Complete(req[p])
    /\ UNCHANGED <<cached, payloads, req, derive, made, intact, result, derived, tainted, runs>>

\* The operation runs on leases of the inputs.  One that writes to them may make
\* anything.
Operate(p) ==
    /\ Goto(p, "run", "verify")
    /\ \/ /\ made' = [made EXCEPT ![p] = IF derive[p] THEN Observation[req[p]] ELSE Outcome[req[p]]]
          /\ UNCHANGED intact
       \/ /\ \E o \in Output : made' = [made EXCEPT ![p] = o]
          /\ intact' = [intact EXCEPT ![p] = FALSE]
    /\ UNCHANGED <<cached, payloads, req, derive, result, derived, tainted, runs>>

\* Mutant: the inputs are not looked at again.
VerifiedAlways(p) == TRUE

\* "resource ... modified immutable input ...".
Verified(p) == intact[p]

Modified(p) ==
    /\ pc[p] = "verify" /\ ~Verified(p)
    /\ Finish(p, "verify", "failed")
    /\ UNCHANGED <<cached, payloads, derived, tainted>>

Refuse(p) ==
    /\ pc[p] = "verify" /\ Verified(p) /\ made[p] = "refused"
    /\ Finish(p, "verify", "refused")
    /\ UNCHANGED <<cached, payloads, derived, tainted>>

\* Mutant: the error of the operation is not looked at.
ImportRefused(p) ==
    /\ Verified(p) /\ Goto(p, "verify", "remember")
    /\ payloads' = payloads \cup {made[p]}
    /\ UNCHANGED <<cached, req, derive, made, intact, result, derived, tainted, runs>>

\* importPath(): the payloads go into the store.
Import(p) ==
    /\ Verified(p) /\ made[p] # "refused" /\ Goto(p, "verify", "remember")
    /\ payloads' = payloads \cup {made[p]}
    /\ UNCHANGED <<cached, req, derive, made, intact, result, derived, tainted, runs>>

\* rememberOutputs(), for a derivation, too.
Remember(p) ==
    /\ pc[p] = "remember"
    /\ Finish(p, "remember", made[p])
    /\ cached' = [cached EXCEPT ![KeyOf(req[p])] = made[p]]
    /\ derived' = [derived EXCEPT ![p] = derive[p]]
    /\ tainted' = IF derive[p] THEN tainted \cup {KeyOf(req[p])} ELSE tainted \ {KeyOf(req[p])}
    /\ UNCHANGED payloads

\* Cancelled, killed, or failed at any of the file operations.
Interrupt(p) ==
    /\ pc[p] # "idle"
    /\ Finish(p, pc[p], "failed")
    /\ UNCHANGED <<cached, payloads, derived, tainted>>

\* The collector, which a lease of any command keeps away.
Collect(o) ==
    /\ \A p \in Proc : pc[p] = "idle"
    /\ o \in payloads /\ payloads' = payloads \ {o}
    /\ UNCHANGED <<cached, pc, req, derive, made, intact, result, derived, tainted, runs>>

Step(p) == Recall(p) \/ Miss(p) \/ Operate(p) \/ Modified(p) \/ Refuse(p) \/ Import(p) \/ Remember(p)
Next ==
    \/ \E p \in Proc :
        \/ \E r \in Request, d \in BOOLEAN : Start(p, r, d)
        \/ Step(p) \/ Interrupt(p)
    \/ \E o \in Output : Collect(o)
Spec == Init /\ [][Next]_vars

\* Every variable keeps its type, and a process holds a request exactly while it works.
TypeOK ==
    /\ cached \in [Key -> Output \cup {Nothing}] /\ payloads \subseteq Output /\ runs \in 0..MaxRuns
    /\ pc \in [Proc -> {"idle", "recall", "run", "verify", "remember"}]
    /\ req \in [Proc -> Request \cup {Nothing}] /\ \A p \in Proc : req[p] = Nothing <=> pc[p] = "idle"
    /\ derive \in [Proc -> BOOLEAN] /\ intact \in [Proc -> BOOLEAN]
    /\ made \in [Proc -> Output \cup {Nothing, "refused"}]
    /\ result \in [Proc -> Output \cup {Nothing, "refused", "failed"}]
    /\ derived \in [Proc -> BOOLEAN] /\ tainted \subseteq Key

\* What a command that enforces its signature expectations is answered was not
\* made by one that derives them ("keeps its outputs out of the cache").
DerivedNotReused == \A p \in Proc : pc[p] = "idle" /\ ~derive[p] => ~derived[p]

(***************************************************************************)
(* Sharing a cache with other commands, other projects and the collector    *)
(* cannot be told from running the operation for every request, as long as  *)
(* no command derives signatures.                                           *)
(***************************************************************************)
Promise == INSTANCE PreparationSpec WITH request <- req
Uncached == Promise!Spec
=============================================================================
