------------------------ MODULE ReviewedPublication ------------------------
(***************************************************************************)
(* What update and apply promise the team of a project: one session at a    *)
(* time.  An update writes each document at most once, from one observation *)
(* of each declaration it loaded; an apply changes no document and builds   *)
(* every publication from the documents it began with.  There are no        *)
(* processes, no project lock, no order of work and no failures here;       *)
(* Engine is shown to implement this.                                       *)
(***************************************************************************)
CONSTANTS
    Res,          \* resources
    Publication,  \* what is published
    Parts,        \* the resources each publication is built from
    Decl,         \* declarations of inputs
    Content,      \* contents a source may provide
    None,         \* no declaration, no content
    NoEntry       \* no document

VARIABLES
    upstream,  \* what the source of a declaration provides now
    lock,      \* the lock documents
    remote,    \* the payload each publication was given last
    session    \* what the command at work loaded, read and observed

vars == <<upstream, lock, remote, session>>

Idle == [method |-> "none"]

Init ==
    /\ upstream \in [Decl -> Content]
    /\ lock = [r \in Res |-> NoEntry]
    /\ remote = [q \in Publication |-> {}]
    /\ session = Idle

Begin(m, d) ==
    /\ session = Idle
    /\ session' = [method |-> m, declared |-> d, read |-> lock, observed |-> [x \in Decl |-> None]]
    /\ UNCHANGED <<upstream, lock, remote>>

\* Finished, failed or dead: the next session finds what this one left.
End == session' = Idle /\ UNCHANGED <<upstream, lock, remote>>

Observe(d) ==
    /\ session.method = "update" /\ session.observed[d] = None
    /\ session' = [session EXCEPT !.observed[d] = upstream[d]]
    /\ UNCHANGED <<upstream, lock, remote>>

\* What an update may write for a resource.
Written(r) ==
    IF session.declared[r] = None THEN NoEntry
    ELSE [decl |-> session.declared[r], content |-> session.observed[session.declared[r]]]

Write(r) ==
    /\ session.method = "update" /\ lock[r] = session.read[r]
    /\ session.declared[r] # None => session.observed[session.declared[r]] # None
    /\ lock' = [lock EXCEPT ![r] = Written(r)]
    /\ UNCHANGED <<upstream, remote, session>>

\* Every part is declared, and its document answers the declaration.
Publish(q) ==
    /\ session.method = "apply"
    /\ \A s \in Parts[q] : session.declared[s] # None /\ session.read[s].decl = session.declared[s]
    /\ remote' = [remote EXCEPT ![q] = {<<s, session.read[s].content>> : s \in Parts[q]}]
    /\ UNCHANGED <<upstream, lock, session>>

Release(d) ==
    /\ \E c \in Content : upstream' = [upstream EXCEPT ![d] = c]
    /\ UNCHANGED <<lock, remote, session>>

Next ==
    \/ \E m \in {"update", "apply"}, d \in [Res -> Decl \cup {None}] : Begin(m, d)
    \/ End
    \/ \E d \in Decl : Observe(d) \/ Release(d)
    \/ \E r \in Res : Write(r)
    \/ \E q \in Publication : Publish(q)

Spec == Init /\ [][Next]_vars
=============================================================================
