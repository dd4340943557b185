----------------------------- MODULE Operations -----------------------------
(***************************************************************************)
(* The operations of plugins: what a plugin says it offers and what this      *)
(* Stemma takes of it (plugin/describe.go, internal/engine/plugins.go), how    *)
(* a call is checked (plugin/registry.go), and the exchange with the process  *)
(* (plugin/protocol.go).                                                    *)
(***************************************************************************)
EXTENDS Integers, Sequences, SequencesExt, FiniteSets

(***************************************************************************)
(* Describe: a plugin advertises operations, each with a name, a kind and     *)
(* perhaps a resource kind; "other" has fields that this SDK does not know.   *)
(***************************************************************************)
Interface == [resolve |-> 3, resource |-> 3, reconcile |-> 3]
VersionOf(interfaces, kind) == IF kind \in DOMAIN interfaces THEN interfaces[kind] ELSE 0
Compatible(interfaces, o) == o.kind \in DOMAIN Interface /\ VersionOf(interfaces, o.kind) = Interface[o.kind]
\* compileOperation: what a usable operation must be.
WellFormed(o) == o.kind = "resource" <=> o.resource # ""
Identified(o) == o.name # "" /\ (o.kind = "resource" => o.resource # "")
Undescribed == [ok |-> FALSE, operations |-> <<>>, unavailable |-> <<>>]
\* Mutant: every operation is read by this SDK's rules.
ReadsStrictly(interfaces, o) == TRUE
Reads(interfaces, o) == Compatible(interfaces, o)
Describe(interfaces, advertised) ==
    LET usable == SelectSeq(advertised, LAMBDA o : Compatible(interfaces, o)) IN
    IF /\ \A i \in DOMAIN advertised : Identified(advertised[i]) /\ \A j \in 1..i - 1 : advertised[j].name # advertised[i].name
       /\ \A i \in DOMAIN advertised : Reads(interfaces, advertised[i]) => advertised[i].shape = "ours" /\ WellFormed(advertised[i])
    THEN [ok |-> TRUE, operations |-> usable, unavailable |-> SelectSeq(advertised, LAMBDA o : ~Compatible(interfaces, o))]
    ELSE Undescribed
\* A plugin built against another SDK still offers the operations whose interface has
\* not changed: whatever its other operations look like, they are unavailable and
\* nothing more ("Other operations are returned as unavailable rather than failing the
\* plugin", describe.go:33).
OthersUnavailable(interfaces, advertised) ==
    LET d == Describe(interfaces, advertised)
        current == {i \in DOMAIN advertised : advertised[i].kind \in DOMAIN Interface /\ VersionOf(interfaces, advertised[i].kind) = 3}
        sane == /\ \A i \in DOMAIN advertised : Identified(advertised[i]) /\ \A j \in DOMAIN advertised : advertised[i].name = advertised[j].name => i = j
                /\ \A i \in current : advertised[i].shape = "ours" /\ WellFormed(advertised[i])
    IN  /\ d.ok = sane
        /\ d.ok => /\ ToSet(d.operations) = {advertised[i] : i \in current}
                   /\ ToSet(d.operations) \cup ToSet(d.unavailable) = ToSet(advertised)
                   /\ Len(d.operations) + Len(d.unavailable) = Len(advertised)

(***************************************************************************)
(* Registration, plugin after plugin in the order of their names.            *)
(***************************************************************************)
Native == {"file"}   \* the names of the built-in resolvers
NoneRegistered == [operations |-> {}, unavailable |-> {}, failed |-> {}]
Owned(ops, by) == {[name |-> ops[i].name, kind |-> ops[i].kind, resource |-> ops[i].resource, by |-> by] : i \in DOMAIN ops}
Collides(o, others) ==
    \/ o.kind = "resolve" /\ o.name \in Native
    \/ \E x \in others : x.name = o.name \/ (o.resource # "" /\ x.resource = o.resource)
\* Mutant: each operation is added while the next are looked at.
RegisterEach(r, described, by) ==
    LET all == described.operations \o described.unavailable
        first == SelectInSeq([i \in DOMAIN all |-> Collides(all[i], r.operations \cup r.unavailable \cup Owned(SubSeq(all, 1, i - 1), by))], LAMBDA c : c)
    IN  IF first = 0 THEN [r EXCEPT !.operations = @ \cup Owned(described.operations, by), !.unavailable = @ \cup Owned(described.unavailable, by)]
        ELSE [r EXCEPT !.operations = @ \cup Owned(SubSeq(all, 1, first - 1), by), !.failed = @ \cup {by}]
Register(r, described, by) ==
    LET all == described.operations \o described.unavailable
        collides == \E i \in DOMAIN all : Collides(all[i], r.operations \cup r.unavailable \cup Owned(SubSeq(all, 1, i - 1), by))
    IN  IF collides THEN [r EXCEPT !.failed = @ \cup {by}]
        ELSE [r EXCEPT !.operations = @ \cup Owned(described.operations, by), !.unavailable = @ \cup Owned(described.unavailable, by)]
Add(r, described, by) == IF described.ok THEN Register(r, described, by) ELSE [r EXCEPT !.failed = @ \cup {by}]
LoadOperations(plugins) ==
    FoldLeft(LAMBDA r, i : Add(r, plugins[i], i), NoneRegistered, [i \in DOMAIN plugins |-> i])
\* Whatever plugins are declared, a name and a resource kind have one provider, which
\* offers all it described; a plugin that does not load leaves no trace, so that the
\* others are what they would be without it ("fails only the runs that use what it would
\* provide", operations.go:374).
FailedLeaveNoTrace(plugins) ==
    LET r == LoadOperations(plugins)
        offered == r.operations \cup r.unavailable
        loads == SelectSeq([i \in DOMAIN plugins |-> i], LAMBDA i : i \notin r.failed)
        alone == LoadOperations([i \in DOMAIN plugins |-> IF i \in r.failed THEN Undescribed ELSE plugins[i]])
    IN  /\ \A x, y \in offered : (x.name = y.name \/ (x.resource # "" /\ x.resource = y.resource)) => x = y
        /\ r.operations \cap r.unavailable = {}
        /\ \A i \in ToSet(loads) : Owned(plugins[i].operations \o plugins[i].unavailable, i) \subseteq offered
        /\ alone.operations = r.operations /\ alone.unavailable = r.unavailable
        /\ \A x \in offered : x.by \notin r.failed

(***************************************************************************)
(* Registry.Handle: what reaches a handler.  A config lacks a default, or is   *)
(* invalid as written, or only once defaults are there.                      *)
(***************************************************************************)
Valid(config) == config \in {"full", "bare", "defaulted", "trap"}
Defaulted(config) == IF config = "bare" THEN "defaulted" ELSE IF config = "trap" THEN "trapped" ELSE config
\* Mutant: destinations' validate requests are checked too.
ConnectingAlways(o, method) == TRUE
Connecting(o, method) == o.kind # "reconcile" \/ method # "validate"
Handle(o, method, config) ==
    LET relevant == o.configured /\ Connecting(o, method) /\ (o.kind # "resource" \/ method = "discover")
        checked == relevant /\ o.kind # "resource"
        given == IF relevant THEN Defaulted(IF config = "none" THEN "bare" ELSE config) ELSE config
    IN  IF method \notin o.methods \/ (checked /\ ~(Valid(IF config = "none" THEN "bare" ELSE config) /\ Valid(given)))
        THEN [called |-> FALSE] ELSE [called |-> TRUE, config |-> given]
\* A handler that connects or resolves has its configuration, valid and with its
\* defaults; a resource's discovery gets its declaration, expressions and all; a
\* destination validates desired state with no connection settings.
HandlerConfigured(o, method, config) ==
    LET h == Handle(o, method, config) IN
    /\ h.called /\ o.configured /\ o.kind # "resource" /\ (o.kind = "resolve" \/ method \in {"plan", "apply"}) => h.config \in {"full", "defaulted"}
    /\ (o.kind = "reconcile" /\ method = "validate" /\ method \in o.methods) => h.called /\ h.config = config
    /\ (o.kind = "resource" /\ method \in o.methods) => h.called /\ (method = "run" => h.config = config)

(***************************************************************************)
(* Input.UnmarshalJSON and MarshalJSON: the fields of an input by name.       *)
(***************************************************************************)
NotRead == [ok |-> FALSE]
ReadInput(fields) ==
    LET config == [k \in DOMAIN fields \ {"resolver"} |-> fields[k]]
        guessed == IF "url" \in DOMAIN fields /\ "path" \notin DOMAIN fields THEN "http"
                   ELSE IF "path" \in DOMAIN fields /\ "url" \notin DOMAIN fields THEN "file" ELSE ""
        resolver == IF "resolver" \in DOMAIN fields THEN fields["resolver"] ELSE guessed
    IN  IF "resource" \in DOMAIN fields
        THEN IF DOMAIN fields = {"resource"} /\ fields["resource"] \notin {"null", "unnamed"}
             THEN [ok |-> TRUE, resolver |-> "", config |-> <<>>, resource |-> fields["resource"]] ELSE NotRead
        ELSE IF resolver = "" THEN NotRead ELSE [ok |-> TRUE, resolver |-> resolver, config |-> config, resource |-> ""]
\* Mutant: a resolver that could be guessed is left out.
WriteInputShort(input) ==
    IF input.resource # "" THEN [resource |-> input.resource] ELSE IF input.resolver \in {"http", "file"} THEN input.config
    ELSE [k \in DOMAIN input.config \cup {"resolver"} |-> IF k = "resolver" THEN input.resolver ELSE input.config[k]]
WriteInput(input) ==
    IF input.resource # "" THEN [resource |-> input.resource]
    ELSE [k \in DOMAIN input.config \cup {"resolver"} |-> IF k = "resolver" THEN input.resolver ELSE input.config[k]]
\* An input that was read is read the same from what it is written as, to a plugin, a
\* report or a fingerprint.
InputRoundTrips(fields) ==
    LET input == ReadInput(fields) IN
    input.ok => ReadInput(WriteInput(input)) = input /\ (input.resource = "" => input.resolver # "")

(***************************************************************************)
(* The exchange.  A message is a log record or a result of some size; a line  *)
(* over the limit is refused.  The process may leave records behind.          *)
(***************************************************************************)
Limit == 3
Result(h) == [kind |-> "result", size |-> h.size, output |-> h.output, error |-> h.error]
Record(size) == [kind |-> "log", size |-> size, output |-> "", error |-> ""]
\* responseStream.send: a record that is too large does not prevent the result.
SendSticky(s, m) == IF s.stuck \/ m.size > Limit THEN [s EXCEPT !.stuck = TRUE] ELSE [s EXCEPT !.out = Append(@, m)]
Send(s, m) == IF s.stuck \/ m.size > Limit THEN s ELSE [s EXCEPT !.out = Append(@, m)]
\* Serve: describe is answered whatever else the request has.
Answered(request) == request.object /\ (request.method = "describe" \/ request.rest = "ours")
Serve(request, h) ==
    LET logged(s, sizes) == FoldLeft(LAMBDA t, n : Send(t, Record(n)), s, sizes)
        start == [out |-> <<>>, stuck |-> FALSE]
    IN  IF Answered(request) THEN logged(Send(logged(start, h.logs), Result(h)), h.late).out
        ELSE Send(start, [kind |-> "result", size |-> 1, output |-> "", error |-> "request"]).out
\* Its bytes: pieces that name their message, and line ends.
Bytes(messages) == FlattenSeq([i \in DOMAIN messages |-> [j \in 1..messages[i].size |-> i] \o <<0>>])

Fresh == [pending |-> <<>>, result |-> <<>>, failed |-> FALSE]
Accept(r, messages, line) ==
    IF line = <<>> \/ r.result # <<>> THEN [r EXCEPT !.failed = TRUE]
    ELSE IF messages[line[1]].kind = "log" THEN r ELSE [r EXCEPT !.result = <<messages[line[1]]>>]
\* responseReader.Write, one chunk.  Mutant: only the chunk's own piece is measured.
FitsAlone(r, piece) == Len(piece) <= Limit
Fits(r, piece) == Len(r.pending) + Len(piece) <= Limit
WriteChunk(r, messages, chunk) ==
    LET pieces == FoldLeft(LAMBDA a, b : IF b = 0 THEN Append(a, <<>>) ELSE [a EXCEPT ![Len(a)] = Append(@, b)], <<<<>>>>, chunk)
        take(x, i) ==
            IF x.failed THEN x ELSE IF ~Fits(x, pieces[i]) THEN [x EXCEPT !.failed = TRUE]
            ELSE LET whole == x.pending \o pieces[i] IN
                 IF i < Len(pieces) THEN [Accept(x, messages, whole) EXCEPT !.pending = <<>>] ELSE [x EXCEPT !.pending = whole]
    IN  FoldLeft(take, r, [i \in DOMAIN pieces |-> i])
Flush(r, messages) == IF r.pending # <<>> /\ ~r.failed THEN Accept(r, messages, r.pending) ELSE r
ReadChunks(messages, chunks) == Flush(FoldLeft(LAMBDA r, c : WriteChunk(r, messages, c), Fresh, chunks), messages)
\* Run: the result, unless the reading, the caller, the operation or the process failed.
Run(messages, chunks, exit, cancelled) ==
    LET r == ReadChunks(messages, chunks)
        output == IF r.result = <<>> THEN "" ELSE r.result[1].output
    IN  [output |-> output,
         ok |-> ~r.failed /\ r.result # <<>> /\ ~cancelled /\ r.result[1].error = "" /\ exit \in {"ok", "pipes"}]

\* The host takes a result for good exactly when the handler gave it and the process
\* ended well: whatever it logged, too large or not, and whatever a describe request
\* carried.  An operation that failed keeps its partial output.  A record that a handler
\* left behind after its result is the one thing that spoils it.
AnswersAsHandled(request, h, exit, cancelled) ==
    LET messages == Serve(request, h)
        host == Run(messages, <<Bytes(messages)>>, exit, cancelled)
        late == \E i \in DOMAIN h.late : h.late[i] <= Limit
        handled == request.object /\ (request.method = "describe" \/ request.rest = "ours")
    IN  /\ host.ok <=> handled /\ h.error = "" /\ h.size <= Limit /\ ~late /\ exit # "killed" /\ ~cancelled
        /\ (handled /\ h.size <= Limit) => host.output = h.output
\* How the pipe cuts the bytes changes nothing, at the limit neither.
CutsDoNotMatter(messages, cut, again) ==
    LET bytes == Bytes(messages)
        parts == ReadChunks(messages, <<SubSeq(bytes, 1, cut), SubSeq(bytes, cut + 1, again), SubSeq(bytes, again + 1, Len(bytes))>>)
        whole == ReadChunks(messages, <<bytes>>)
    IN  cut <= again /\ again <= Len(bytes) => parts.failed = whole.failed /\ parts.result = whole.result
=============================================================================
