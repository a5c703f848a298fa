----------------------------- MODULE QueryCache -----------------------------
(***************************************************************************)
(* The executor of @db queries (db/executor.ts) over the cache of          *)
(* cache.ts, and the other way a @db directive reaches a database: the     *)
(* worker process sources.ts spawns for every directive a render meets.    *)
(*                                                                         *)
(* execute() is asynchronous.  It looks its key up in the cache, waits for *)
(* the adapter, and writes what it got: calls of one process interleave at *)
(* the wait.  Session entries are a map of the process; persisted entries  *)
(* are files all processes share.  A render blocks its process.            *)
(*                                                                         *)
(* The fields src and alone are history: the program does not keep them.   *)
(* The definitions just before another one are mutants of it.              *)
(***************************************************************************)
EXTENDS Integers, Sequences

CONSTANTS
    Directives,    \* what --directive names, "" for nothing
    Procs,         \* Node processes: the MCP server, mai render, mai cache
    Callers,       \* tasks that call execute()
    Home,          \* Home[c]: the process of a caller
    Calls,         \* names for what they call it with
    Of,            \* Of[d]: the query, connection and options of call d
    Rules,         \* Rules[n]: the security rules of a connection
    Registered,    \* connections of a supported type with an adapter
    Supported,     \* connections of a supported type
    Tables,        \* what the database may hold
    RowsOf(_, _),  \* RowsOf(d, t): what the adapter may answer to call d
    Rows,          \* rows a database may answer
    Lists,         \* lists of them
    Masked(_),     \* the rows once their JSON text was masked
    Corrupt,       \* the same, when masking left no JSON
    NoEntry, NoRender, Idle,
    TTL,           \* ttl of the persisted entries
    WORKER_MS,     \* after which the worker gives up
    MaxTime        \* bound on the clock, for model checking only

\* Queries have a plan and say whether and where they are cached; masking and
\* capping make lists of rows of lists of rows.
ASSUME CacheAssumption ==
    /\ Home \in [Callers -> Procs]
    /\ TTL \in Nat /\ WORKER_MS \in Nat /\ MaxTime \in Nat
    /\ Tables # {}
    /\ <<>> \in Lists /\ Lists \subseteq Seq(Rows)
    /\ \A l \in Lists : Masked(l) \in Lists \cup {Corrupt}
    /\ \A l \in Lists : \A n \in 0..Len(l) : SubSeq(l, 1, n) \in Lists
    /\ \A d \in Calls : Rules[Of[d].connection].max_results \in Nat
    /\ \A d \in Calls, t \in Tables : RowsOf(d, t) # {} /\ RowsOf(d, t) \subseteq Lists
    /\ NoRender \notin Nat

VARIABLES
    table,    \* what the database holds
    now,      \* Date.now()
    session,  \* SESSION_CACHE of each process: keys to entries
    files,    \* ~/.markdownai/cache: keys to entries
    task,     \* what each caller is waiting for
    reply,    \* how a call of execute() ended, if the last step ended one
    render    \* since when the render of each process waits for a worker

vars == <<table, now, session, files, task, reply, render>>

Queries == { d \in Calls : Of[d].kind = "plan" }

Shown(plan, hidden) == [f \in DOMAIN plan \ hidden |-> plan[f]]

SameKeyCoarse(d, e) ==
    /\ Of[d].connection = Of[e].connection
    /\ Shown(Of[d].plan, {"hasOr", "where"}) = Shown(Of[e].plan, {"hasOr", "where"})

\* buildDbCacheKey: the name and the address of the connection, and the plan
\* without what JSON.stringify does not show, whether its conditions are ORed.
SameKey(d, e) ==
    /\ Of[d].connection = Of[e].connection
    /\ Shown(Of[d].plan, {"hasOr"}) = Shown(Of[e].plan, {"hasOr"})

\* A key is the set of the queries it is computed for.
Key == [d \in Queries |-> { e \in Queries : SameKey(d, e) }]

Keys == { Key[d] : d \in Queries }

\* What an adapter may make of a call when the database holds t.
Answers(d, t) == IF Of[d].connection \in Registered THEN RowsOf(d, t) ELSE {<<>>}

AnyTable == CHOOSE t \in Tables : TRUE

Sources == [call : Calls, table : Tables]

Entries == [text : Lists \cup {Corrupt}, expires : Int, src : Sources]

ASSUME CacheNames == NoEntry \notin Entries

Waiting == [at : {"adapter", "result"}, call : Calls, rows : Lists,
            table : Tables, alone : BOOLEAN]

ASSUME TaskNames == Idle \notin Waiting

\* How a call ended: with rows, or with an exception and why.
Replies == {"none", "rows", "refused", "failed", "unparsable"}

TypeOK ==
    /\ table \in Tables
    /\ now \in Nat
    /\ session \in [Procs -> [Keys -> Entries \cup {NoEntry}]]
    /\ files \in [Keys -> Entries \cup {NoEntry}]
    /\ task \in [Callers -> Waiting \cup {Idle}]
    /\ reply \in Replies
    /\ render \in [Procs -> Nat \cup {NoRender}]

Init ==
    /\ table \in Tables
    /\ now = 0
    /\ session = [p \in Procs |-> [k \in Keys |-> NoEntry]]
    /\ files = [k \in Keys |-> NoEntry]
    /\ task = [c \in Callers |-> Idle]
    /\ reply = "none"
    /\ render = [p \in Procs |-> NoRender]

-----------------------------------------------------------------------------
(* cache.ts *)

Caches(d) == Of[d].kind = "plan" /\ Of[d].cache \in {"session", "persist"}

\* readCache: a session entry has no end, whatever ttl= says.
ReadCache(p, d) ==
    CASE Of[d].cache = "session" -> session[p][Key[d]]
      [] Of[d].cache = "persist" ->
             IF files[Key[d]] # NoEntry /\ now > files[Key[d]].expires
             THEN NoEntry ELSE files[Key[d]]

Entry(d, rows, t) == [text |-> Masked(rows),
                      expires |-> IF Of[d].cache = "persist" THEN now + TTL ELSE 0,
                      src |-> [call |-> d, table |-> t]]

\* writeCache
WriteCache(p, d, rows, t) ==
    IF ~ Caches(d) THEN UNCHANGED <<session, files>>
    ELSE IF Of[d].cache = "session"
    THEN session' = [session EXCEPT ![p][Key[d]] = Entry(d, rows, t)] /\ UNCHANGED files
    ELSE files' = [files EXCEPT ![Key[d]] = Entry(d, rows, t)] /\ UNCHANGED session

\* clearPersistCache: the entries of one directive, or all; all are of db.
ClearPersist(directive) ==
    files' = IF directive \in {"", "db"} THEN [k \in Keys |-> NoEntry] ELSE files

\* invalidate_cache clears the map of the server, and the files.
InvalidateCache(p, directive) ==
    /\ render[p] = NoRender
    /\ session' = [session EXCEPT ![p] = [k \in Keys |-> NoEntry]]
    /\ ClearPersist(directive)
    /\ reply' = "none" /\ UNCHANGED <<table, now, task, render>>

\* mai cache clear is a process of its own, whose map is empty: what it can
\* clear is the files, unless it is told to clear the session only.
CacheClear(onlySession, onlyPersist, directive) ==
    /\ IF onlySession => onlyPersist THEN ClearPersist(directive) ELSE UNCHANGED files
    /\ reply' = "none" /\ UNCHANGED <<table, now, session, task, render>>

-----------------------------------------------------------------------------
(* executor.ts *)

\* checkConnectionSecurity
Refused(d) ==
    LET r == Rules[Of[d].connection] IN
    \/ Of[d].plan.operation \in r.denied_operations
    \/ r.allowed_operations # {} /\ Of[d].plan.operation \notin r.allowed_operations
    \/ Of[d].plan.collection \in r.denied_collections
    \/ r.allowed_collections # {} /\ Of[d].plan.collection \notin r.allowed_collections

\* applyMaxResults
Capped(rows, d) ==
    LET max == Rules[Of[d].connection].max_results IN
    IF Len(rows) > max THEN SubSeq(rows, 1, max) ELSE rows

Returns == reply' = "rows"

Throws(why) == reply' = why

\* Another caller of the same process is out for the same key.
Rival(c, d, e) ==
    /\ e # c /\ task[e] # Idle /\ Home[e] = Home[c]
    /\ {d, task[e].call} \subseteq Queries
    /\ Key[task[e].call] = Key[d]

Wait(c, at, d, rows) ==
    task' = [e \in Callers |->
        IF e = c
        THEN [at |-> at, call |-> d, rows |-> rows, table |-> AnyTable,
              alone |-> \A o \in Callers : ~ Rival(c, d, o)]
        ELSE IF Rival(c, d, e) THEN [task[e] EXCEPT !.alone = FALSE]
        ELSE task[e]]

\* runAdapterExecute up to its await.
AskAdapter(c, d) ==
    IF Of[d].connection \notin Supported
    THEN Throws("refused") /\ UNCHANGED task
    ELSE /\ Wait(c, IF Of[d].connection \in Registered THEN "adapter" ELSE "result", d, <<>>)
         /\ reply' = "none"

ExecutePlanBlind(c, d) ==
    /\ Of[d].kind = "plan"
    /\ task[c] = Idle /\ render[Home[c]] = NoRender
    /\ IF Refused(d) THEN Throws("refused") /\ UNCHANGED task ELSE AskAdapter(c, d)
    /\ UNCHANGED <<table, now, session, files, render>>

\* executePlan up to its first await.
ExecutePlan(c, d) ==
    LET entry == ReadCache(Home[c], d) IN
    /\ Of[d].kind = "plan"
    /\ task[c] = Idle /\ render[Home[c]] = NoRender
    /\ IF Refused(d) THEN Throws("refused") /\ UNCHANGED task
       ELSE IF Caches(d) /\ entry # NoEntry
       THEN /\ IF entry.text = Corrupt THEN Throws("unparsable") ELSE Returns
            /\ UNCHANGED task
       ELSE AskAdapter(c, d)
    /\ UNCHANGED <<table, now, session, files, render>>

\* executeRaw up to its await: a text is blocked for all, denied by the rules
\* of the connection, or free.
ExecuteRaw(c, d) ==
    LET r == Rules[Of[d].connection] IN
    /\ Of[d].kind = "raw"
    /\ task[c] = Idle /\ render[Home[c]] = NoRender
    /\ IF Of[d].query = "blocked" THEN Throws("refused") /\ UNCHANGED task
       ELSE IF ~ r.allow_raw THEN Returns /\ UNCHANGED task
       ELSE IF Of[d].query \in r.denied_keywords THEN Throws("refused") /\ UNCHANGED task
       ELSE AskAdapter(c, d)
    /\ UNCHANGED <<table, now, session, files, render>>

\* The database answers; the promise is settled, its reader not yet run.
Answer(c) ==
    /\ task[c] # Idle /\ task[c].at = "adapter"
    /\ \E rows \in Answers(task[c].call, table) :
          task' = [task EXCEPT ![c].at = "result", ![c].table = table, ![c].rows = rows]
    /\ reply' = "none" /\ UNCHANGED <<table, now, session, files, render>>

FailSilent(c) ==
    /\ task[c] # Idle /\ task[c].at = "adapter" /\ render[Home[c]] = NoRender
    /\ Of[task[c].call].kind = "plan" /\ ~ Of[task[c].call].strict
    /\ Returns
    /\ UNCHANGED <<table, now, session, files, task, render>>

FailCaching(c) ==
    /\ task[c] # Idle /\ task[c].at = "adapter" /\ render[Home[c]] = NoRender
    /\ IF Of[task[c].call].kind = "raw" \/ Of[task[c].call].strict
       THEN Throws("failed") /\ UNCHANGED <<session, files>>
       ELSE /\ Returns
            /\ WriteCache(Home[c], task[c].call, <<>>, table)
    /\ task' = [task EXCEPT ![c] = Idle]
    /\ UNCHANGED <<table, now, render>>

\* The adapter rejects: no rows, and no entry.
Fail(c) ==
    /\ task[c] # Idle /\ task[c].at = "adapter" /\ render[Home[c]] = NoRender
    /\ IF Of[task[c].call].kind = "raw" \/ Of[task[c].call].strict
       THEN Throws("failed") ELSE Returns
    /\ task' = [task EXCEPT ![c] = Idle]
    /\ UNCHANGED <<table, now, session, files, render>>

\* executePlan after its await; executeRaw returns the rows as they are.
Resume(c) ==
    LET d == task[c].call
        rows == IF Of[d].kind = "raw" THEN task[c].rows ELSE Capped(task[c].rows, d)
    IN /\ task[c] # Idle /\ task[c].at = "result" /\ render[Home[c]] = NoRender
       /\ WriteCache(Home[c], d, rows, task[c].table)
       /\ Returns
       /\ task' = [task EXCEPT ![c] = Idle]
       /\ UNCHANGED <<table, now, render>>

-----------------------------------------------------------------------------
(* sources.ts and sync-worker.ts *)

\* executeDb: mocks, refused and raw queries give their lines or a warning at
\* once; a plan is given to a worker.  The cache is not consulted.
StartWorker(p) ==
    /\ render[p] = NoRender
    /\ render' = [render EXCEPT ![p] = now]
    /\ reply' = "none" /\ UNCHANGED <<table, now, session, files, task>>

\* The worker prints its rows, an error, or that the time is up, and exits; it
\* is gone before spawnSync would kill it.  What is not rows is a warning.
WorkerExits(p) ==
    /\ render[p] # NoRender
    /\ render' = [render EXCEPT ![p] = NoRender]
    /\ reply' = "none" /\ UNCHANGED <<table, now, session, files, task>>

-----------------------------------------------------------------------------
(* The surroundings *)

Change(t) ==
    /\ table' = t
    /\ reply' = "none" /\ UNCHANGED <<now, session, files, task, render>>

Tick ==
    /\ now < MaxTime
    /\ \A p \in Procs : render[p] # NoRender => now < render[p] + WORKER_MS
    /\ now' = now + 1
    /\ reply' = "none" /\ UNCHANGED <<table, session, files, task, render>>

\* A process ends and another one takes its place.
Restart(p) ==
    /\ session' = [session EXCEPT ![p] = [k \in Keys |-> NoEntry]]
    /\ task' = [c \in Callers |-> IF Home[c] = p THEN Idle ELSE task[c]]
    /\ render' = [render EXCEPT ![p] = NoRender]
    /\ reply' = "none" /\ UNCHANGED <<table, now, files>>

Next ==
    \/ \E c \in Callers, d \in Calls : ExecutePlan(c, d) \/ ExecuteRaw(c, d)
    \/ \E c \in Callers : Answer(c) \/ Fail(c) \/ Resume(c)
    \/ \E p \in Procs : StartWorker(p) \/ WorkerExits(p) \/ Restart(p)
    \/ \E p \in Procs, directive \in Directives : InvalidateCache(p, directive)
    \/ \E s, f \in BOOLEAN, directive \in Directives : CacheClear(s, f, directive)
    \/ \E t \in Tables : Change(t)
    \/ Tick

Spec == Init /\ [][Next]_vars

\* Promises that settle are read in the end, whatever else the event loop
\* runs; adapters settle; the worker's timer fires.
FairSpec ==
    /\ Spec
    /\ \A c \in Callers : SF_vars(Resume(c)) /\ WF_vars(Answer(c) \/ Fail(c))
    /\ \A p \in Procs : WF_vars(WorkerExits(p))

-----------------------------------------------------------------------------
(* Properties *)

\* The same question, but for whether its conditions are ORed: equal plans on
\* one connection.
SameQuestion(d, e) ==
    /\ Of[d].connection = Of[e].connection
    /\ \A f \in DOMAIN Of[d].plan \cup DOMAIN Of[e].plan :
          f # "hasOr" => Of[d].plan[f] = Of[e].plan[f]

Honest(k, e) ==
    e # NoEntry =>
        /\ \A d \in Queries : Key[d] = k => SameQuestion(d, e.src.call)
        /\ \E rows \in Answers(e.src.call, e.src.table) : e.text = Masked(Capped(rows, e.src.call))

\* Every entry, in memory or on disk, is a masked and capped answer of the
\* adapter to a call that asks the same: never that of a call that failed, of
\* another plan or connection, or of the call the process served meanwhile
\* (executor.ts:89-102, 130-137 and 152-178, cache.ts:50-67).
EntriesAreHonest ==
    /\ \A p \in Procs, k \in Keys : Honest(k, session[p][k])
    /\ \A k \in Keys : Honest(k, files[k])

\* Once a process has a session entry it keeps it until the cache is cleared or
\* the process ends; only a call that overlapped another call for the same key
\* may replace it, each of both having missed before the other wrote
\* (executor.ts:152-175).
SessionIsStable ==
    [][ \A p \in Procs, k \in Keys :
          (session[p][k] # NoEntry /\ session'[p][k] \notin {session[p][k], NoEntry})
          => \E c \in Callers : /\ Resume(c)
                                /\ Home[c] = p /\ Key[task[c].call] = k
                                /\ ~ task[c].alone ]_vars

\* Every call returns or throws in the end and every render goes on, however
\* the calls, the renders that block them and the clears of the cache fall
\* (executor.ts:119-179, sources.ts:345-372).
CallsEnd ==
    /\ \A c \in Callers : task[c] # Idle ~> task[c] = Idle
    /\ \A p \in Procs : render[p] # NoRender ~> render[p] = NoRender

=============================================================================
