---------------------------- MODULE FlowSession ----------------------------
(***************************************************************************)
(* The phase tools of the MCP server and the session table behind them.    *)
(* packages/mcp/src/session-state.ts keeps one entry per (Claude session,  *)
(* document); resolve_phase seeds the engine from that entry and stores    *)
(* what the engine leaves, next_phase does the same and drops the entry    *)
(* when it finds no further phase.  Handlers run to completion on the      *)
(* event loop, so each call is one step.                                   *)
(*                                                                         *)
(* The engine is a parameter: Outcomes(d, p, s) is the set of results that *)
(* executing document d with active phase p from scope s may have.  A      *)
(* directive may read the disk, the clock or a shell, hence a set.         *)
(*                                                                         *)
(* The definitions just before Loaded and Saved are mutants of them.       *)
(***************************************************************************)
EXTENDS Integers

CONSTANTS
    Sids,            \* the skill_session_id values of the callers
    NoSid,           \* the empty session id
    Names,           \* the spellings of a document's path callers use
    Paths,           \* absolute document paths
    FullPath,        \* FullPath[n]: resolve(cwd, n)
    Phases,          \* phase names callers ask for
    NoPhase,         \* null
    Docs,            \* parsed documents with the @markdownai header
    Unreadable,      \* what a path holds when it cannot be read
    Plain,           \* what a path holds when the header is missing
    Declared(_),     \* Declared(d): the phases document d declares
    FirstStatic(_, _), \* the first `@on complete -> phase` line of the phase
    Outcomes(_, _, _), \* see above
    Scopes,          \* the engine's { data, envFiles } pairs
    Fresh,           \* { data: {}, envFiles: {} }
    NoEntry,         \* the absence of a table entry
    NoReply,         \* no call answered since the process started
    TTL_MS,          \* idle time after which an entry expires
    MaxTime          \* bound on the clock, for model checking only

Keys == (Sids \ {NoSid}) \X Paths

Entry == [scope : Scopes, lastTouched : Nat]

Result == [scope : Scopes, chosen : Phases \cup {NoPhase}]

Reply == [tool : {"resolve_phase", "next_phase", "read_file"},
          sid : Sids, path : Paths, phase : Phases \cup {NoPhase},
          found : BOOLEAN, next : Phases \cup {NoPhase}, seed : Scopes]

ASSUME SessionAssumption ==
    /\ TTL_MS \in Nat
    /\ MaxTime \in Nat
    /\ Fresh \in Scopes
    /\ NoSid \in Sids
    /\ NoPhase \notin Phases
    /\ NoEntry \notin Entry
    /\ NoReply \notin Reply
    /\ FullPath \in [Names -> Paths]
    /\ Unreadable \notin Docs /\ Plain \notin Docs

\* What is known of the engine: it returns scopes and phase names, it always
\* returns, and the static fallback is a phase name or null.
ASSUME EngineAssumption ==
    \A d \in Docs, p \in Phases :
        /\ Declared(d) \subseteq Phases
        /\ FirstStatic(d, p) \in Phases \cup {NoPhase}
        /\ \A s \in Scopes :
              Outcomes(d, p, s) # {} /\ Outcomes(d, p, s) \subseteq Result

VARIABLES
    sessions,  \* the table: Keys -> entry
    now,       \* Date.now()
    disk,      \* what the files hold; authors edit them during a flow
    reply      \* the last answer, with the scope its render started from

vars == <<sessions, now, disk, reply>>

TypeOK ==
    /\ sessions \in [Keys -> Entry \cup {NoEntry}]
    /\ now \in Nat
    /\ disk \in [Paths -> Docs \cup {Unreadable, Plain}]
    /\ reply \in Reply \cup {NoReply}

Init ==
    /\ sessions = [k \in Keys |-> NoEntry]
    /\ now = 0
    /\ disk \in [Paths -> Docs \cup {Unreadable, Plain}]
    /\ reply = NoReply

-----------------------------------------------------------------------------
(* session-state.ts *)

Expired(e) == e # NoEntry /\ now - e.lastTouched > TTL_MS

LoadedStale(sid) == sessions

LoadedOwn(sid) ==
    [k \in Keys |-> IF k[1] = sid /\ Expired(sessions[k]) THEN NoEntry ELSE sessions[k]]

\* The table once loadSession has run: it collects every expired entry before
\* it looks its own up, and does nothing at all for an empty session id.
Loaded(sid) ==
    IF sid = NoSid THEN sessions
    ELSE [k \in Keys |-> IF Expired(sessions[k]) THEN NoEntry ELSE sessions[k]]

\* The scope the engine starts from: the entry's, or an empty one.
Seed(sid, path) ==
    IF sid # NoSid /\ Loaded(sid)[<<sid, path>>] # NoEntry
    THEN Loaded(sid)[<<sid, path>>].scope
    ELSE Fresh

\* saveSession and clearSession on the table t; no-ops without a session id.
Saved(t, sid, path, s) ==
    IF sid = NoSid THEN t
    ELSE [t EXCEPT ![<<sid, path>>] = [scope |-> s, lastTouched |-> now]]

Cleared(t, sid, path) ==
    IF sid = NoSid THEN t ELSE [t EXCEPT ![<<sid, path>>] = NoEntry]

-----------------------------------------------------------------------------
(* The tools *)

\* The file can be read, carries the header and declares the phase.
Servable(path, p) == disk[path] \in Docs /\ p \in Declared(disk[path])

Answer(tool, sid, path, p, found, next, seed) ==
    reply' = [tool |-> tool, sid |-> sid, path |-> path, phase |-> p,
              found |-> found, next |-> next, seed |-> seed]

ResolvePhase(sid, n, p) ==
    LET path == FullPath[n] IN
    /\ Servable(path, p)
    /\ \E r \in Outcomes(disk[path], p, Seed(sid, path)) :
          /\ sessions' = Saved(Loaded(sid), sid, path, r.scope)
          /\ Answer("resolve_phase", sid, path, p, TRUE, r.chosen, Seed(sid, path))
    /\ UNCHANGED <<now, disk>>

\* The transition the render chose, else the first static one of the phase.
Following(d, p, chosen) == IF chosen # NoPhase THEN chosen ELSE FirstStatic(d, p)

NextPhase(sid, n, p) ==
    LET path == FullPath[n] IN
    /\ Servable(path, p)
    /\ \E r \in Outcomes(disk[path], p, Seed(sid, path)) :
          LET next  == Following(disk[path], p, r.chosen)
              saved == Saved(Loaded(sid), sid, path, r.scope)
          IN /\ sessions' = IF next = NoPhase THEN Cleared(saved, sid, path)
                                              ELSE saved
             /\ Answer("next_phase", sid, path, p, TRUE, next, Seed(sid, path))
    /\ UNCHANGED <<now, disk>>

\* An unreadable file, no header, no such phase; or, whatever the file holds, an
\* argument that is not valid or a path that is blocked: both tools return before
\* they load the session.  The arguments that only the tools validate (those of
\* the skill) are left out, so any call may be refused.
Refuse(tool, sid, n, p) ==
    LET path == FullPath[n] IN
    /\ tool \in {"resolve_phase", "next_phase"}
    /\ Answer(tool, sid, path, p, FALSE, NoPhase, Fresh)
    /\ UNCHANGED <<sessions, now, disk>>

\* read_file and render execute the document too, but never touch the table.
ReadFile(sid, n, p) ==
    LET path == FullPath[n] IN
    /\ disk[path] \in Docs
    /\ Answer("read_file", sid, path, p, TRUE, NoPhase, Fresh)
    /\ UNCHANGED <<sessions, now, disk>>

-----------------------------------------------------------------------------
(* The surroundings *)

Tick ==
    /\ now < MaxTime
    /\ now' = now + 1
    /\ UNCHANGED <<sessions, disk, reply>>

Edit(path, d) ==
    /\ disk' = [disk EXCEPT ![path] = d]
    /\ UNCHANGED <<sessions, now, reply>>

\* stdin closes, the process exits, and the client starts another server.
Restart ==
    /\ sessions' = [k \in Keys |-> NoEntry]
    /\ reply' = NoReply
    /\ UNCHANGED <<now, disk>>

Call ==
    \E sid \in Sids, n \in Names, p \in Phases :
        \/ ResolvePhase(sid, n, p)
        \/ NextPhase(sid, n, p)
        \/ \E tool \in {"resolve_phase", "next_phase"} : Refuse(tool, sid, n, p)
        \/ ReadFile(sid, n, p)

Next ==
    \/ Call
    \/ Tick
    \/ \E path \in Paths, d \in Docs \cup {Unreadable, Plain} : Edit(path, d)
    \/ Restart

Spec == Init /\ [][Next]_vars

-----------------------------------------------------------------------------
(* Properties *)

\* What a visit of any phase of any document may leave, started from s.
Leaves(s) ==
    UNION { { r.scope : r \in Outcomes(d, p, s) } : d \in Docs, p \in Phases }

\* The entries that have not expired, whether or not they were collected.
Live == [k \in Keys |-> IF Expired(sessions[k]) THEN NoEntry ELSE sessions[k]]

View == IF reply = NoReply THEN Fresh ELSE reply.seed

Flows == INSTANCE FlowScope
            WITH Flow <- Keys, Scope <- Scopes, Released <- NoEntry,
                 TTL <- TTL_MS, held <- Live, view <- View

\* The table implements one private scope per flow: what a phase sees is what
\* the earlier phases of the same flow left and nothing of another session or
\* document, of an earlier walk that finished, of before a restart, or of an
\* entry idle for more than TTL_MS, even one no call has collected yet
\* (session-state.ts:35-62, resolve_phase.ts:75-100, next_phase.ts:59-95).
ImplementsFlowScope == Flows!Spec

Calls(tool) == reply # NoReply /\ reply.tool = tool

\* A call that loads a session leaves no expired entry behind, of its own
\* flow or of any other: the table cannot grow with dead flows as long as
\* some flow is served (session-state.ts:35-44).
LoadCollectsExpired ==
    [][ \A k \in { k \in Keys : Expired(sessions[k]) /\ sessions'[k] # NoEntry } :
          \A sid \in Sids \ {NoSid}, n \in Names, p \in Phases :
             (ResolvePhase(sid, n, p) \/ NextPhase(sid, n, p))
             => k = <<sid, FullPath[n]>> ]_vars

=============================================================================
