--------------------------- MODULE EventDispatch ---------------------------
(***************************************************************************)
(* @event: the render's thread masks and caps the payload, checks each     *)
(* transport against the allowlist and posts a copy to the one worker      *)
(* thread of its process (event.ts, transports/index.ts); the worker takes *)
(* the copies in turn and writes them to a sink (dispatch-worker.ts).      *)
(* Files are shared by all processes.  A process may end at any time: the  *)
(* worker is unref'd, what it has not written is lost.                     *)
(*                                                                         *)
(* Payloads are sequences of parts: "S" "T" in a row are a secret masking  *)
(* recognises, "E" is an expression that evaluates to one.                 *)
(* sent is history.  The definitions just before another one are mutants.  *)
(***************************************************************************)
EXTENDS Integers, Sequences, SequencesExt

CONSTANTS
    Procs,
    Documents,   \* Documents[p]: what p may render, lists of nodes [data, transports]
    Configs,     \* event configurations, and NoConfig
    NoConfig,    \* the host passed none: mai and the MCP server never do
    Paths, Urls, \* what may be configured, besides "" for nothing
    Refused,     \* the paths and URLs the transports refuse
    MAX_LENGTH,  \* 500: payloads are never longer
    Width,       \* nodes and transports of a document, at most
    MaxRenders   \* MaxRenders[p]: bound on the renders of p, for model checking only

BuiltInExternal == {"log", "vscode", "websocket", "file", "http", "db"}

Parts == {"x", "S", "T", "E", "*"}

\* Half a secret by itself is not what masking is about: halves come in pairs.
Whole(d) ==
    \A i \in DOMAIN d : /\ d[i] = "S" => i < Len(d) /\ d[i + 1] = "T"
                        /\ d[i] = "T" => i > 1 /\ d[i - 1] = "S"

ASSUME EventAssumption ==
    /\ Width \in Nat \ {0} /\ MAX_LENGTH \in Nat
    /\ MaxRenders \in [Procs -> Nat \ {0}]
    /\ \A p \in Procs : \A d \in Documents[p] :
          /\ d \in Seq([data : Seq(Parts), transports : Seq(STRING)])
          /\ Len(d) <= Width
          /\ \A n \in DOMAIN d : Len(d[n].transports) <= Width /\ Whole(d[n].data)
    /\ \A c \in Configs :
          /\ c.max_value_length \in Nat
          /\ "file" \in DOMAIN c.transports => c.transports["file"].target \in Paths \cup {""}
          /\ "http" \in DOMAIN c.transports => c.transports["http"].target \in Urls \cup {""}

VARIABLES
    cfg,       \* ctx.security.eventConfig
    doc,       \* the document each process renders
    renders,   \* renders each process began
    at,        \* [node, transport] each render is about to handle
    up,        \* the process runs
    worker,    \* its worker was created
    queue,     \* messages posted to it
    flying,    \* HTTP requests under way
    events,    \* ctx.events
    warnings,  \* ctx.warnings
    audit,     \* the entries of the audit log, which processes share
    got,       \* which copies reached each sink, in order
    sent       \* which copies each process handed over, in order

render == <<cfg, doc, renders, at, up, worker, events, warnings, audit, sent>>
vars == <<render, queue, flying, got>>

-----------------------------------------------------------------------------
(* executeEvent *)

Concat(ss) == FlattenSeq(ss)

Evaluated(d) == Concat([i \in DOMAIN d |-> IF d[i] = "E" THEN <<"S", "T">> ELSE <<d[i]>>])

Interpolated(d) == IF cfg.allow_env_interpolation THEN Evaluated(d) ELSE d

HasSecret(d) == \E i \in 1..(Len(d) - 1) : d[i] = "S" /\ d[i + 1] = "T"

\* applyMasking
Masked(d) ==
    Concat([i \in DOMAIN d |->
        IF d[i] = "S" /\ i < Len(d) /\ d[i + 1] = "T" THEN <<"*">>
        ELSE IF d[i] = "T" /\ i > 1 /\ d[i - 1] = "S" THEN <<>> ELSE <<d[i]>>])

MaxLength == IF cfg.max_value_length < MAX_LENGTH THEN cfg.max_value_length ELSE MAX_LENGTH

Capped(d) == IF Len(d) > MaxLength THEN SubSeq(d, 1, MaxLength) ELSE d

\* The payload that leaves: resolved, masked, then cut.
PayloadCutFirst(d) == Masked(Capped(Interpolated(d)))
Payload(d) == Capped(Masked(Interpolated(d)))

Node(p) == doc[p][at[p].node]
Transport(p) == Node(p).transports[at[p].transport]
Rendering(p) == up[p] /\ at[p].node \in DOMAIN doc[p]

\* At a transport of an event that is not ignored.
Handles(p) == Rendering(p) /\ cfg # NoConfig /\ Node(p).transports # <<>>

\* A copy: which one it is, and of the event what matters here.
Slot(p) == [from |-> p, render |-> renders[p], node |-> at[p].node, nth |-> at[p].transport]

Copy(p) == [slot |-> Slot(p), transport |-> Transport(p), data |-> Payload(Node(p).data)]

\* On entering a node: its warnings.
Notices(d) == (IF HasSecret(Interpolated(d)) THEN <<"masked">> ELSE <<>>)
              \o (IF Len(Masked(Interpolated(d))) > MaxLength THEN <<"truncated">> ELSE <<>>)

NoticesAt(p) == IF at[p].transport = 1 THEN Notices(Node(p).data) ELSE <<>>

\* Masking is audited whatever the transport, without the payload; what these
\* name is, with it.
Audited == {"http", "db", "websocket", "file"}

MaskAudit(p) ==
    IF at[p].transport = 1 /\ HasSecret(Interpolated(Node(p).data))
    THEN {[action |-> "MASKED", slot |-> Slot(p), data |-> <<>>]} ELSE {}

DispatchAudit(p) ==
    IF Transport(p) \in Audited
    THEN {[action |-> "ALLOWED", slot |-> Slot(p), data |-> Payload(Node(p).data)]} ELSE {}

NextNode(p) == [node |-> at[p].node + 1, transport |-> 1]

NextTransport(p) ==
    IF at[p].transport < Len(Node(p).transports)
    THEN [at[p] EXCEPT !.transport = @ + 1] ELSE NextNode(p)

Advance(p, where, notices, entries) ==
    /\ at' = [at EXCEPT ![p] = where]
    /\ warnings' = [warnings EXCEPT ![p] = @ \o notices]
    /\ audit' = audit \cup entries
    /\ UNCHANGED <<cfg, doc, renders, up>>

\* Without a configuration the directive does nothing.
Ignore(p) ==
    /\ Rendering(p) /\ cfg = NoConfig
    /\ Advance(p, NextNode(p), <<>>, {})
    /\ UNCHANGED <<worker, events, sent, queue, flying, got>>

\* `transport=,' names none: what was masked or cut is warned about all the same.
NamesNone(p) ==
    /\ Rendering(p) /\ cfg # NoConfig /\ Node(p).transports = <<>>
    /\ Advance(p, NextNode(p), NoticesAt(p), MaskAudit(p))
    /\ UNCHANGED <<worker, events, sent, queue, flying, got>>

NotAllowlistedBreaks(p) ==
    /\ Handles(p) /\ Transport(p) \notin cfg.allowed_transports
    /\ Advance(p, NextNode(p), NoticesAt(p), MaskAudit(p))
    /\ UNCHANGED <<worker, events, sent, queue, flying, got>>

\* handleNotAllowlisted: "fail" throws, and what the node's earlier transports
\* were given stays given; the walk goes on with the next node.
NotAllowlisted(p) ==
    /\ Handles(p) /\ Transport(p) \notin cfg.allowed_transports
    /\ IF cfg.onError = "fail"
       THEN Advance(p, NextNode(p), NoticesAt(p), MaskAudit(p))
       ELSE Advance(p, NextTransport(p),
                    NoticesAt(p) \o (IF cfg.onError = "warn" THEN <<"not allowlisted">> ELSE <<>>),
                    MaskAudit(p))
    /\ UNCHANGED <<worker, events, sent, queue, flying, got>>

\* fireMcp
FireMcp(p) ==
    /\ Handles(p) /\ Transport(p) \in cfg.allowed_transports
    /\ Transport(p) = "mcp"
    /\ events' = [events EXCEPT ![p] = Append(@, Copy(p))]
    /\ Advance(p, NextTransport(p), NoticesAt(p), MaskAudit(p))
    /\ UNCHANGED <<worker, sent, queue, flying, got>>

\* dispatchExternal: getWorker makes the worker at its first use; external,
\* custom and unknown transports are all posted to it.
DispatchExternal(p) ==
    /\ Handles(p) /\ Transport(p) \in cfg.allowed_transports
    /\ Transport(p) # "mcp"
    /\ worker' = [worker EXCEPT ![p] = TRUE]
    /\ queue' = [queue EXCEPT ![p] = Append(@, Copy(p))]
    /\ sent' = [sent EXCEPT ![p] = Append(@, Slot(p))]
    /\ Advance(p, NextTransport(p), NoticesAt(p), MaskAudit(p) \cup DispatchAudit(p))
    /\ UNCHANGED <<events, flying, got>>

\* Another render of a process that stays up, with a context of its own.
Render(p) ==
    /\ up[p] /\ at[p].node \notin DOMAIN doc[p] /\ renders[p] < MaxRenders[p]
    /\ renders' = [renders EXCEPT ![p] = @ + 1]
    /\ \E d \in Documents[p] : doc' = [doc EXCEPT ![p] = d]
    /\ at' = [at EXCEPT ![p] = [node |-> 1, transport |-> 1]]
    /\ events' = [events EXCEPT ![p] = <<>>]
    /\ warnings' = [warnings EXCEPT ![p] = <<>>]
    /\ UNCHANGED <<cfg, up, worker, audit, sent, queue, flying, got>>

-----------------------------------------------------------------------------
(* dispatchOne, in the worker *)

Configured(t) == IF t \in DOMAIN cfg.transports THEN cfg.transports[t] ELSE [type |-> "", target |-> ""]

\* A custom transport is dispatched again under its type, and the type's own
\* configuration: its own path and URL are not looked at.
TypeOf(t) ==
    IF t \in BuiltInExternal THEN t
    ELSE IF t \in DOMAIN cfg.transports THEN cfg.transports[t].type ELSE "unknown"

\* Where a copy for t ends up, "" when nowhere.  fireVscode names its file by
\* a session the message does not carry: one file for all.
SinkOf(t) ==
    CASE TypeOf(t) = "vscode" -> "/tmp/markdownai-events-undefined.json"
      [] TypeOf(t) \in {"file", "http"} ->
             IF Configured(TypeOf(t)).target \in Refused THEN ""
             ELSE Configured(TypeOf(t)).target
      [] TypeOf(t) \in {"log", "db"} -> "stderr"
      [] OTHER -> ""

Sinks == {"stderr", "/tmp/markdownai-events-undefined.json"} \cup Paths \cup Urls

\* A failure is caught and, unless silenced, written to stderr as text.
WorkNewestFirst(p) ==
    /\ up[p] /\ worker[p] /\ queue[p] # <<>>
    /\ queue' = [queue EXCEPT ![p] = Front(@)]
    /\ LET c == Last(queue[p]) IN
       IF TypeOf(c.transport) = "http" /\ SinkOf(c.transport) # ""
       THEN flying' = flying \cup {c} /\ UNCHANGED got
       ELSE /\ got' = IF SinkOf(c.transport) = "" THEN got
                      ELSE [got EXCEPT ![SinkOf(c.transport)] = Append(@, c.slot)]
            /\ UNCHANGED flying
    /\ UNCHANGED render

Work(p) ==
    /\ up[p] /\ worker[p] /\ queue[p] # <<>>
    /\ queue' = [queue EXCEPT ![p] = Tail(@)]
    /\ LET c == Head(queue[p]) IN
       IF TypeOf(c.transport) = "http" /\ SinkOf(c.transport) # ""
       THEN flying' = flying \cup {c} /\ UNCHANGED got
       ELSE /\ got' = IF SinkOf(c.transport) = "" THEN got
                      ELSE [got EXCEPT ![SinkOf(c.transport)] = Append(@, c.slot)]
            /\ UNCHANGED flying
    /\ UNCHANGED render

\* A request reaches the server, or fails: each on a connection of its own.
Arrives(c) ==
    /\ c \in flying
    /\ flying' = flying \ {c}
    /\ got' = [got EXCEPT ![SinkOf(c.transport)] = Append(@, c.slot)]
    /\ UNCHANGED <<render, queue>>

Fails(c) ==
    /\ c \in flying
    /\ flying' = flying \ {c}
    /\ UNCHANGED <<render, queue, got>>

\* process.exit, the end of mai, or a kill: worker and requests go with it.
Exit(p) ==
    /\ up[p]
    /\ up' = [up EXCEPT ![p] = FALSE]
    /\ queue' = [queue EXCEPT ![p] = <<>>]
    /\ flying' = { c \in flying : c.slot.from # p }
    /\ UNCHANGED <<cfg, doc, renders, at, worker, events, warnings, audit, sent, got>>

-----------------------------------------------------------------------------

Init ==
    /\ cfg \in Configs \cup {NoConfig}
    /\ doc \in { d \in [Procs -> UNION {Documents[p] : p \in Procs}] : \A p \in Procs : d[p] \in Documents[p] }
    /\ renders = [p \in Procs |-> 1]
    /\ at = [p \in Procs |-> [node |-> 1, transport |-> 1]]
    /\ up = [p \in Procs |-> TRUE]
    /\ worker = [p \in Procs |-> FALSE]
    /\ queue = [p \in Procs |-> <<>>]
    /\ flying = {}
    /\ events = [p \in Procs |-> <<>>]
    /\ warnings = [p \in Procs |-> <<>>]
    /\ audit = {}
    /\ got = [s \in Sinks |-> <<>>]
    /\ sent = [p \in Procs |-> <<>>]

Walk(p) == Ignore(p) \/ NamesNone(p) \/ NotAllowlisted(p) \/ FireMcp(p) \/ DispatchExternal(p)

Next == \/ \E p \in Procs : \/ Ignore(p) \/ NamesNone(p) \/ NotAllowlisted(p) \/ FireMcp(p)
                            \/ DispatchExternal(p) \/ Render(p) \/ Work(p) \/ Exit(p)
        \/ \E c \in flying : Arrives(c) \/ Fails(c)

Spec == Init /\ [][Next]_vars

\* Threads of a running process are scheduled.
FairSpec == Spec /\ \A p \in Procs : WF_vars(Walk(p)) /\ WF_vars(Work(p))

-----------------------------------------------------------------------------
(* Properties *)

Renders == UNION { 1..MaxRenders[p] : p \in Procs }

Slots == [from : Procs, render : Renders, node : 1..Width, nth : 1..Width]

Copies == [slot : Slots, transport : STRING, data : Seq(Parts)]

TypeOK ==
    /\ cfg \in Configs \cup {NoConfig}
    /\ DOMAIN doc = Procs /\ \A p \in Procs : doc[p] \in Documents[p]
    /\ renders \in [Procs -> Nat] /\ \A p \in Procs : renders[p] \in 1..MaxRenders[p]
    /\ at \in [Procs -> [node : 1..(Width + 1), transport : 1..Width]]
    /\ up \in [Procs -> BOOLEAN] /\ worker \in [Procs -> BOOLEAN]
    /\ queue \in [Procs -> Seq(Copies)] /\ flying \subseteq Copies
    /\ events \in [Procs -> Seq(Copies)]
    /\ warnings \in [Procs -> Seq({"masked", "truncated", "not allowlisted"})]
    /\ audit \subseteq [action : {"MASKED", "ALLOWED"}, slot : Slots, data : Seq(Parts)]
    /\ got \in [Sinks -> Seq(Slots)] /\ sent \in [Procs -> Seq(Slots)]

Clean(d) == \A i \in DOMAIN d : d[i] \notin {"S", "T"}

\* Masking is done before the cut and after the evaluation: no half of a
\* secret is left in what is handed over, returned or audited (event.ts 15-38).
NoHalfSecret ==
    /\ \A p \in Procs : \A i \in DOMAIN queue[p] : Clean(queue[p][i].data)
    /\ \A p \in Procs : \A i \in DOMAIN events[p] : Clean(events[p][i].data)
    /\ \A c \in flying : Clean(c.data)
    /\ \A e \in audit : Clean(e.data)

\* The render of p has left transport t of its node n.
Passed(p, n, t) == n < at[p].node \/ (n = at[p].node /\ t < at[p].transport)

\* The configuration lets it through: a refused transport only stops the rest
\* of its own event, and only when onError is "fail".
LetThrough(transports, t) ==
    /\ transports[t] \in cfg.allowed_transports
    /\ cfg.onError = "fail" => \A k \in 1..(t - 1) : transports[k] \in cfg.allowed_transports

Place(s) == [node |-> s.node, nth |-> s.nth]

\* What the document asks for so far, for mcp or for the worker.
Due(p, forMcp) ==
    { x \in [node : DOMAIN doc[p], nth : 1..Width] :
        LET transports == doc[p][x.node].transports IN
        /\ x.nth \in DOMAIN transports /\ Passed(p, x.node, x.nth)
        /\ cfg # NoConfig /\ LetThrough(transports, x.nth)
        /\ (transports[x.nth] = "mcp") = forMcp }

\* In the order of renders and, in one, of the text.
Earlier(a, b) ==
    \/ a.render < b.render
    \/ a.render = b.render /\ (a.node < b.node \/ (a.node = b.node /\ a.nth < b.nth))

Ordered(slots) == \A i, j \in DOMAIN slots : i < j => Earlier(slots[i], slots[j])

SlotsOf(copies) == [i \in DOMAIN copies |-> copies[i].slot]

\* Every event reaches exactly the allowed of its transports, once each,
\* whatever became of the others, and ctx.events and the messages to the worker
\* follow the document (rules 3 and 7 of the event document; event.ts 52-81).
AsTheDocumentSays ==
    /\ TypeOK
    /\ \A p \in Procs :
          /\ Ordered(SlotsOf(events[p])) /\ Ordered(sent[p])
          /\ { Place(events[p][i].slot) : i \in DOMAIN events[p] } = Due(p, TRUE)
          /\ { Place(sent[p][i]) : i \in { i \in DOMAIN sent[p] : sent[p][i].render = renders[p] } }
                = Due(p, FALSE)

Owner(c) == c.from

\* Only requests race; everything else one process writes arrives in order,
\* once, and a sink gets nothing that was not handed over (transports/index.ts
\* 12-30, dispatch-worker.ts 19-81).
Bus == INSTANCE EventBus WITH Copies <- Slots, Unordered <- Urls

ImplementsBus == Bus!Spec

=============================================================================
