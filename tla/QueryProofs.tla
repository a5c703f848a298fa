---------------------------- MODULE QueryProofs ----------------------------
(***************************************************************************)
(* What the @db directive asks a database, for every text, table and set   *)
(* of options, and what its cache answers, for every number of processes,  *)
(* callers, queries and tables.                                            *)
(*                                                                         *)
(* The parser is followed along the text: a parenthesis is open before a   *)
(* token exactly inside a condition that stands in parentheses (DepthIs), so *)
(* the text is cut between two conditions and nowhere else (CutsAre), and  *)
(* each part is read as what its condition means (PieceIsRead).            *)
(*                                                                         *)
(* EntriesAreHonest is not inductive: an entry is written from what a task *)
(* holds, so the invariant adds that a settled task holds the answer to    *)
(* its own call (SettledOwnAnswer).                                        *)
(*                                                                         *)
(* SessionIsStable is about steps.  What makes it true is that a call goes *)
(* out only when it missed: as long as nobody else of its process is out   *)
(* for its key, nobody can have written an entry (AloneMissed), and two    *)
(* that are out together know of each other (RivalsKnow).                  *)
(***************************************************************************)
EXTENDS QueryCache, DbDirective, NaturalLemmas, SequenceTheorems, FiniteSetTheorems

(***************************************************************************)
(* The cache                                                               *)
(***************************************************************************)

SettledOwnAnswer ==
    \A c \in Callers :
        task[c] # Idle /\ task[c].at = "result" =>
            task[c].rows \in Answers(task[c].call, task[c].table)

IInv == TypeOK /\ SettledOwnAnswer /\ EntriesAreHonest

-----------------------------------------------------------------------------
(* Operators *)

\* Equal keys mean equal questions: what Shown leaves out is hasOr alone.
LEMMA KeySays ==
    ASSUME NEW d \in Queries, NEW e \in Queries, Key[d] = Key[e]
    PROVE  SameQuestion(d, e)
<1>1. e \in Key[e]
  BY DEF Key, SameKey
<1>2. SameKey(d, e)
  BY <1>1 DEF Key
<1>. DEFINE D == Of[d].plan
            E == Of[e].plan
<1>3. Shown(D, {"hasOr"}) = Shown(E, {"hasOr"})
  BY <1>2 DEF SameKey
<1>4. DOMAIN D \ {"hasOr"} = DOMAIN E \ {"hasOr"}
  <2>1. DOMAIN Shown(D, {"hasOr"}) = DOMAIN D \ {"hasOr"}
    BY DEF Shown
  <2>2. DOMAIN Shown(E, {"hasOr"}) = DOMAIN E \ {"hasOr"}
    BY DEF Shown
  <2>. QED  BY <1>3, <2>1, <2>2
<1>5. ASSUME NEW f \in DOMAIN D \ {"hasOr"}
      PROVE  D[f] = E[f]
  <2>1. Shown(D, {"hasOr"})[f] = D[f]
    BY <1>5 DEF Shown
  <2>2. Shown(E, {"hasOr"})[f] = E[f]
    BY <1>4, <1>5 DEF Shown
  <2>. QED  BY <1>3, <2>1, <2>2
<1>. QED
  BY <1>2, <1>4, <1>5 DEF SameQuestion, SameKey

\* Capping a list of rows gives a list of rows.
LEMMA CappedIsList ==
    ASSUME NEW l \in Lists, NEW d \in Calls
    PROVE  Capped(l, d) \in Lists
<1>. DEFINE max == Rules[Of[d].connection].max_results
<1>1. max \in Nat
  BY CacheAssumption
<1>2. Len(l) \in Nat
  BY CacheAssumption
<1>3. CASE Len(l) > max
  <2>1. max \in 0..Len(l)
    BY <1>1, <1>2, <1>3
  <2>2. SubSeq(l, 1, max) \in Lists
    BY <2>1, CacheAssumption
  <2>. QED  BY <1>3, <2>2 DEF Capped
<1>4. CASE ~ (Len(l) > max)
  BY <1>4 DEF Capped
<1>. QED  BY <1>3, <1>4

\* An adapter answers with lists of rows, a missing one with none.
LEMMA AnswersAreLists ==
    ASSUME NEW d \in Calls, NEW t \in Tables
    PROVE  Answers(d, t) \subseteq Lists
BY CacheAssumption DEF Answers

\* What is written is an entry.
LEMMA EntryType ==
    ASSUME now \in Nat, NEW d \in Calls, NEW rows \in Lists, NEW t \in Tables
    PROVE  Entry(d, rows, t) \in Entries
<1>1. Masked(rows) \in Lists \cup {Corrupt}
  BY CacheAssumption
<1>2. (IF Of[d].cache = "persist" THEN now + TTL ELSE 0) \in Int
  BY CacheAssumption
<1>. QED  BY <1>1, <1>2 DEF Entry, Entries, Sources

\* An entry made of an answer to a query is honest under the query's key.
LEMMA EntryIsHonest ==
    ASSUME NEW d \in Queries, NEW t \in Tables, NEW rows \in Answers(d, t)
    PROVE  Honest(Key[d], Entry(d, Capped(rows, d), t))
BY KeySays DEF Honest, Entry, Queries

LEMMA KeyIsKey == ASSUME NEW d \in Queries PROVE Key[d] \in Keys
BY DEF Keys

\* writeCache leaves both stores well typed.
LEMMA WriteCacheType ==
    ASSUME TypeOK, NEW p \in Procs, NEW d \in Calls, NEW rows \in Lists,
           NEW t \in Tables, WriteCache(p, d, rows, t)
    PROVE  /\ session' \in [Procs -> [Keys -> Entries \cup {NoEntry}]]
           /\ files' \in [Keys -> Entries \cup {NoEntry}]
<1>. DEFINE e == Entry(d, rows, t)
<1>1. e \in Entries
  BY EntryType DEF TypeOK
<1>. HIDE DEF e
<1>2. CASE ~ Caches(d)
  BY <1>2 DEF WriteCache, TypeOK
<1>3. CASE Caches(d) /\ Of[d].cache = "session"
  <2>1. session' = [session EXCEPT ![p][Key[d]] = e] /\ UNCHANGED files
    BY <1>3 DEF WriteCache, e
  <2>. QED  BY <2>1, <1>1 DEF TypeOK
<1>4. CASE Caches(d) /\ Of[d].cache # "session"
  <2>1. files' = [files EXCEPT ![Key[d]] = e] /\ UNCHANGED session
    BY <1>4 DEF WriteCache, e
  <2>. QED  BY <2>1, <1>1 DEF TypeOK
<1>. QED  BY <1>2, <1>3, <1>4

\* writeCache of an answer to the call keeps both stores honest.
LEMMA WriteCacheHonest ==
    ASSUME TypeOK, EntriesAreHonest, NEW p \in Procs, NEW d \in Calls,
           NEW t \in Tables, NEW rows \in Answers(d, t),
           WriteCache(p, d, Capped(rows, d), t)
    PROVE  EntriesAreHonest'
<1>. DEFINE e == Entry(d, Capped(rows, d), t)
<1>1. CASE ~ Caches(d)
  BY <1>1 DEF WriteCache, EntriesAreHonest
<1>2. CASE Caches(d)
  <2>1. d \in Queries
    BY <1>2 DEF Caches, Queries
  <2>2. Honest(Key[d], e)
    BY <2>1, EntryIsHonest
  <2>. HIDE DEF e
  <2>3. CASE Of[d].cache = "session"
    <3>1. session' = [session EXCEPT ![p][Key[d]] = e] /\ UNCHANGED files
      BY <1>2, <2>3 DEF WriteCache, e
    <3>2. ASSUME NEW q \in Procs, NEW k \in Keys
          PROVE  Honest(k, session'[q][k])
      <4>1. session'[q][k] = session[q][k] \/ (k = Key[d] /\ session'[q][k] = e)
        BY <3>1 DEF TypeOK
      <4>. QED  BY <4>1, <2>2 DEF EntriesAreHonest
    <3>. QED  BY <3>1, <3>2 DEF EntriesAreHonest
  <2>4. CASE Of[d].cache # "session"
    <3>1. files' = [files EXCEPT ![Key[d]] = e] /\ UNCHANGED session
      BY <1>2, <2>4 DEF WriteCache, e
    <3>2. ASSUME NEW k \in Keys
          PROVE  Honest(k, files'[k])
      <4>1. files'[k] = files[k] \/ (k = Key[d] /\ files'[k] = e)
        BY <3>1 DEF TypeOK
      <4>. QED  BY <4>1, <2>2 DEF EntriesAreHonest
    <3>. QED  BY <3>1, <3>2 DEF EntriesAreHonest
  <2>. QED  BY <2>3, <2>4
<1>. QED  BY <1>1, <1>2

\* Clearing the files leaves what it does not clear.
LEMMA ClearingFiles ==
    ASSUME TypeOK, EntriesAreHonest, NEW directive, ClearPersist(directive)
    PROVE  /\ files' \in [Keys -> Entries \cup {NoEntry}]
           /\ \A k \in Keys : Honest(k, files'[k])
BY DEF ClearPersist, TypeOK, EntriesAreHonest, Honest

\* Emptying the map of a process leaves the maps of the others.
LEMMA ClearingSession ==
    ASSUME TypeOK, EntriesAreHonest, NEW p \in Procs,
           session' = [session EXCEPT ![p] = [k \in Keys |-> NoEntry]]
    PROVE  /\ session' \in [Procs -> [Keys -> Entries \cup {NoEntry}]]
           /\ \A q \in Procs, k \in Keys : Honest(k, session'[q][k])
<1>1. session' \in [Procs -> [Keys -> Entries \cup {NoEntry}]]
  BY DEF TypeOK
<1>2. ASSUME NEW q \in Procs, NEW k \in Keys PROVE Honest(k, session'[q][k])
  <2>1. session'[q][k] = session[q][k] \/ session'[q][k] = NoEntry
    BY DEF TypeOK
  <2>2. Honest(k, session[q][k]) /\ Honest(k, NoEntry)
    BY DEF EntriesAreHonest, Honest
  <2>. QED  BY <2>1, <2>2
<1>. QED  BY <1>1, <1>2

\* Who goes out for an answer holds none, or that of a missing adapter; who
\* was out holds what it held.
LEMMA Waits ==
    ASSUME TypeOK, SettledOwnAnswer, NEW c \in Callers, NEW d \in Calls,
           AskAdapter(c, d)
    PROVE  /\ task' \in [Callers -> Waiting \cup {Idle}]
           /\ SettledOwnAnswer'
           /\ reply' \in Replies
<1>1. AnyTable \in Tables
  BY CacheAssumption DEF AnyTable
<1>2. CASE Of[d].connection \notin Supported
  BY <1>2 DEF AskAdapter, Throws, TypeOK, Replies, SettledOwnAnswer
<1>3. CASE Of[d].connection \in Supported
  <2>. DEFINE at == IF Of[d].connection \in Registered THEN "adapter" ELSE "result"
              mine == [at |-> at, call |-> d, rows |-> <<>>, table |-> AnyTable,
                       alone |-> \A o \in Callers : ~ Rival(c, d, o)]
  <2>1. task' = [e \in Callers |-> IF e = c THEN mine
                                   ELSE IF Rival(c, d, e)
                                   THEN [task[e] EXCEPT !.alone = FALSE] ELSE task[e]]
    BY <1>3 DEF AskAdapter, Wait
  <2>2. (\A o \in Callers : ~ Rival(c, d, o)) \in BOOLEAN
    OBVIOUS
  <2>3. mine \in Waiting
    <3>1. at \in {"adapter", "result"} /\ <<>> \in Lists
      BY CacheAssumption
    <3>. QED  BY <1>1, <2>2, <3>1 DEF Waiting
  <2>4. mine.at = "result" => mine.rows \in Answers(mine.call, mine.table)
    BY DEF Answers
  <2>. HIDE DEF mine
  <2>5. ASSUME NEW e \in Callers
        PROVE  /\ task'[e] \in Waiting \cup {Idle}
               /\ task'[e] # Idle /\ task'[e].at = "result" =>
                      task'[e].rows \in Answers(task'[e].call, task'[e].table)
    <3>1. CASE e = c
      BY <3>1, <2>1, <2>3, <2>4
    <3>2. CASE e # c /\ Rival(c, d, e)
      <4>1. task'[e] = [task[e] EXCEPT !.alone = FALSE]
        BY <3>2, <2>1
      <4>2. task[e] \in Waiting /\ task[e] # Idle
        BY <3>2 DEF Rival, TypeOK
      <4>3. /\ task'[e] \in Waiting
            /\ task'[e].at = task[e].at /\ task'[e].rows = task[e].rows
            /\ task'[e].call = task[e].call /\ task'[e].table = task[e].table
        BY <4>1, <4>2 DEF Waiting
      <4>. QED  BY <4>2, <4>3 DEF SettledOwnAnswer
    <3>3. CASE e # c /\ ~ Rival(c, d, e)
      BY <3>3, <2>1 DEF SettledOwnAnswer, TypeOK
    <3>. QED  BY <3>1, <3>2, <3>3
  <2>6. task' \in [Callers -> Waiting \cup {Idle}]
    BY <2>1, <2>5
  <2>7. reply' \in Replies
    BY <1>3 DEF AskAdapter, Replies
  <2>. QED  BY <2>5, <2>6, <2>7 DEF SettledOwnAnswer
<1>. QED  BY <1>2, <1>3

\* A caller that comes back is idle; the others hold what they held.
LEMMA ComesBack ==
    ASSUME TypeOK, SettledOwnAnswer, NEW c \in Callers,
           task' = [task EXCEPT ![c] = Idle]
    PROVE  task' \in [Callers -> Waiting \cup {Idle}] /\ SettledOwnAnswer'
<1>1. task' \in [Callers -> Waiting \cup {Idle}]
  BY DEF TypeOK
<1>2. \A e \in Callers : task'[e] = task[e] \/ task'[e] = Idle
  BY DEF TypeOK
<1>. QED  BY <1>1, <1>2 DEF SettledOwnAnswer

-----------------------------------------------------------------------------
(* The invariant *)

LEMMA InitIInv == Init => IInv
BY DEF Init, IInv, TypeOK, SettledOwnAnswer, EntriesAreHonest, Honest, Replies

LEMMA NextIInv == ASSUME IInv, [Next]_vars PROVE IInv'
<1>. USE DEF IInv
<1>0. CASE UNCHANGED vars
  BY <1>0 DEF vars, TypeOK, SettledOwnAnswer, EntriesAreHonest
<1>1. ASSUME NEW c \in Callers, NEW d \in Calls, ExecutePlan(c, d)
      PROVE  IInv'
  <2>1. UNCHANGED <<table, now, session, files, render>>
    BY <1>1 DEF ExecutePlan
  <2>2. (UNCHANGED task /\ reply' \in Replies) \/ AskAdapter(c, d)
    BY <1>1 DEF ExecutePlan, Throws, Returns, Replies
  <2>3. task' \in [Callers -> Waiting \cup {Idle}] /\ SettledOwnAnswer' /\ reply' \in Replies
    <3>1. CASE UNCHANGED task /\ reply' \in Replies
      BY <3>1 DEF TypeOK, SettledOwnAnswer
    <3>2. CASE AskAdapter(c, d)
      BY <3>2, Waits
    <3>. QED  BY <2>2, <3>1, <3>2
  <2>. QED  BY <2>1, <2>3 DEF TypeOK, EntriesAreHonest
<1>2. ASSUME NEW c \in Callers, NEW d \in Calls, ExecuteRaw(c, d)
      PROVE  IInv'
  <2>1. UNCHANGED <<table, now, session, files, render>>
    BY <1>2 DEF ExecuteRaw
  <2>2. (UNCHANGED task /\ reply' \in Replies) \/ AskAdapter(c, d)
    BY <1>2 DEF ExecuteRaw, Throws, Returns, Replies
  <2>3. task' \in [Callers -> Waiting \cup {Idle}] /\ SettledOwnAnswer' /\ reply' \in Replies
    <3>1. CASE UNCHANGED task /\ reply' \in Replies
      BY <3>1 DEF TypeOK, SettledOwnAnswer
    <3>2. CASE AskAdapter(c, d)
      BY <3>2, Waits
    <3>. QED  BY <2>2, <3>1, <3>2
  <2>. QED  BY <2>1, <2>3 DEF TypeOK, EntriesAreHonest
<1>3. ASSUME NEW c \in Callers, Answer(c)
      PROVE  IInv'
  <2>0. PICK rows \in Answers(task[c].call, table) :
            task' = [task EXCEPT ![c].at = "result", ![c].table = table, ![c].rows = rows]
    BY <1>3 DEF Answer
  <2>. DEFINE mine == [task[c] EXCEPT !.at = "result", !.table = table, !.rows = rows]
  <2>1. task[c] \in Waiting
    BY <1>3 DEF Answer, TypeOK
  <2>2. rows \in Lists
    BY <2>1, AnswersAreLists DEF Waiting, TypeOK
  <2>3. task' = [task EXCEPT ![c] = mine]
    BY <2>0 DEF TypeOK
  <2>4. /\ mine \in Waiting
        /\ mine.rows = rows /\ mine.call = task[c].call /\ mine.table = table
    BY <2>1, <2>2 DEF Waiting, TypeOK
  <2>5. mine.rows \in Answers(mine.call, mine.table)
    BY <2>4
  <2>. HIDE DEF mine
  <2>6. task' \in [Callers -> Waiting \cup {Idle}]
    BY <2>3, <2>4 DEF TypeOK
  <2>7. SettledOwnAnswer'
    <3>1. \A e \in Callers : task'[e] = IF e = c THEN mine ELSE task[e]
      BY <2>3 DEF TypeOK
    <3>. QED  BY <3>1, <2>5 DEF SettledOwnAnswer
  <2>8. UNCHANGED <<table, now, session, files, render>> /\ reply' \in Replies
    BY <1>3 DEF Answer, Replies
  <2>. QED  BY <2>6, <2>7, <2>8 DEF TypeOK, EntriesAreHonest
<1>4. ASSUME NEW c \in Callers, Fail(c)
      PROVE  IInv'
  <2>1. task' \in [Callers -> Waiting \cup {Idle}] /\ SettledOwnAnswer'
    BY <1>4, ComesBack DEF Fail
  <2>2. UNCHANGED <<table, now, session, files, render>> /\ reply' \in Replies
    BY <1>4 DEF Fail, Throws, Returns, Replies
  <2>. QED  BY <2>1, <2>2 DEF TypeOK, EntriesAreHonest
<1>5. ASSUME NEW c \in Callers, Resume(c)
      PROVE  IInv'
  <2>. DEFINE d == task[c].call
              t == task[c].table
              rows == IF Of[d].kind = "raw" THEN task[c].rows ELSE Capped(task[c].rows, d)
  <2>1. /\ task[c] \in Waiting
        /\ task[c].rows \in Answers(d, t)
    BY <1>5 DEF Resume, TypeOK, SettledOwnAnswer
  <2>2. d \in Calls /\ t \in Tables /\ task[c].rows \in Lists
    BY <2>1 DEF Waiting
  <2>3. rows \in Lists
    BY <2>2, CappedIsList
  <2>4. Home[c] \in Procs
    BY CacheAssumption
  <2>5. WriteCache(Home[c], d, rows, t)
    BY <1>5 DEF Resume
  <2>6. /\ session' \in [Procs -> [Keys -> Entries \cup {NoEntry}]]
        /\ files' \in [Keys -> Entries \cup {NoEntry}]
    BY <2>2, <2>3, <2>4, <2>5, WriteCacheType
  <2>7. EntriesAreHonest'
    <3>1. CASE Caches(d)
      <4>1. rows = Capped(task[c].rows, d)
        BY <3>1 DEF Caches
      <4>2. WriteCache(Home[c], d, Capped(task[c].rows, d), t)
        BY <4>1, <2>5
      <4>. QED  BY <4>2, <2>1, <2>2, <2>4, WriteCacheHonest
    <3>2. CASE ~ Caches(d)
      BY <3>2, <2>5 DEF WriteCache, EntriesAreHonest
    <3>. QED  BY <3>1, <3>2
  <2>8. task' \in [Callers -> Waiting \cup {Idle}] /\ SettledOwnAnswer'
    BY <1>5, ComesBack DEF Resume
  <2>9. UNCHANGED <<table, now, render>> /\ reply' \in Replies
    BY <1>5 DEF Resume, Returns, Replies
  <2>. QED  BY <2>6, <2>7, <2>8, <2>9 DEF TypeOK
<1>6. ASSUME NEW p \in Procs, StartWorker(p) \/ WorkerExits(p)
      PROVE  IInv'
  BY <1>6 DEF StartWorker, WorkerExits, TypeOK, Replies, SettledOwnAnswer, EntriesAreHonest
<1>7. ASSUME NEW p \in Procs, Restart(p)
      PROVE  IInv'
  <2>1. /\ session' \in [Procs -> [Keys -> Entries \cup {NoEntry}]]
        /\ \A q \in Procs, k \in Keys : Honest(k, session'[q][k])
    BY <1>7, ClearingSession DEF Restart
  <2>2. task' = [c \in Callers |-> IF Home[c] = p THEN Idle ELSE task[c]]
    BY <1>7 DEF Restart
  <2>3. task' \in [Callers -> Waiting \cup {Idle}] /\ SettledOwnAnswer'
    BY <2>2 DEF TypeOK, SettledOwnAnswer
  <2>4. UNCHANGED <<table, now, files>> /\ reply' \in Replies
        /\ render' = [render EXCEPT ![p] = NoRender]
    BY <1>7 DEF Restart, Replies
  <2>5. EntriesAreHonest'
    BY <2>1, <2>4 DEF EntriesAreHonest
  <2>6. TypeOK'
    BY <2>1, <2>3, <2>4 DEF TypeOK
  <2>. QED  BY <2>3, <2>5, <2>6
<1>8. ASSUME NEW p \in Procs, NEW directive \in Directives, InvalidateCache(p, directive)
      PROVE  IInv'
  <2>1. /\ session' \in [Procs -> [Keys -> Entries \cup {NoEntry}]]
        /\ \A q \in Procs, k \in Keys : Honest(k, session'[q][k])
    BY <1>8, ClearingSession DEF InvalidateCache
  <2>2. /\ files' \in [Keys -> Entries \cup {NoEntry}]
        /\ \A k \in Keys : Honest(k, files'[k])
    BY <1>8, ClearingFiles DEF InvalidateCache
  <2>3. UNCHANGED <<table, now, task, render>> /\ reply' \in Replies
    BY <1>8 DEF InvalidateCache, Replies
  <2>4. SettledOwnAnswer'
    BY <2>3 DEF SettledOwnAnswer
  <2>. QED  BY <2>1, <2>2, <2>3, <2>4 DEF TypeOK, EntriesAreHonest
<1>9. ASSUME NEW s \in BOOLEAN, NEW f \in BOOLEAN, NEW directive \in Directives,
             CacheClear(s, f, directive)
      PROVE  IInv'
  <2>1. ClearPersist(directive) \/ UNCHANGED files
    BY <1>9 DEF CacheClear
  <2>2. /\ files' \in [Keys -> Entries \cup {NoEntry}]
        /\ \A k \in Keys : Honest(k, files'[k])
    BY <2>1, ClearingFiles DEF TypeOK, EntriesAreHonest
  <2>3. UNCHANGED <<table, now, session, task, render>> /\ reply' \in Replies
    BY <1>9 DEF CacheClear, Replies
  <2>4. SettledOwnAnswer'
    BY <2>3 DEF SettledOwnAnswer
  <2>. QED  BY <2>2, <2>3, <2>4 DEF TypeOK, EntriesAreHonest
<1>10. ASSUME NEW t \in Tables, Change(t)
       PROVE  IInv'
  BY <1>10 DEF Change, TypeOK, Replies, SettledOwnAnswer, EntriesAreHonest
<1>11. CASE Tick
  BY <1>11 DEF Tick, TypeOK, Replies, SettledOwnAnswer, EntriesAreHonest
<1>. QED
  BY <1>0, <1>1, <1>2, <1>3, <1>4, <1>5, <1>6, <1>7, <1>8, <1>9, <1>10, <1>11 DEF Next

-----------------------------------------------------------------------------
(* Who may replace an entry *)

\* Two callers are out for the same key of the same process.
Together(c, e) ==
    /\ c # e /\ task[c] # Idle /\ task[e] # Idle /\ Home[c] = Home[e]
    /\ task[c].call \in Queries /\ task[e].call \in Queries
    /\ Key[task[c].call] = Key[task[e].call]

RivalsKnow == \A c, e \in Callers : Together(c, e) => task[c].alone = FALSE

InSession(d) == Caches(d) /\ Of[d].cache = "session"

AloneMissed ==
    \A c \in Callers :
        task[c] # Idle /\ task[c].alone = TRUE /\ InSession(task[c].call) =>
            session[Home[c]][Key[task[c].call]] = NoEntry

StableInv == RivalsKnow /\ AloneMissed

LEMMA InitStable == Init => StableInv
BY DEF Init, StableInv, RivalsKnow, AloneMissed, Together

\* Callers that only come back, wait on or settle leave what is said of them,
\* when no session gains an entry.
LEMMA NobodyGoesOut ==
    ASSUME TypeOK, StableInv,
           \A c \in Callers :
               \/ task'[c] = Idle
               \/ task[c] # Idle /\ task'[c].call = task[c].call /\ task'[c].alone = task[c].alone,
           \A p \in Procs, k \in Keys : session'[p][k] = session[p][k] \/ session'[p][k] = NoEntry
    PROVE  StableInv'
<1>1. ASSUME NEW c \in Callers, NEW e \in Callers, Together(c, e)'
      PROVE  task'[c].alone = FALSE
  <2>1. Together(c, e)
    BY <1>1 DEF Together
  <2>. QED  BY <1>1, <2>1 DEF Together, StableInv, RivalsKnow
<1>2. ASSUME NEW c \in Callers, task'[c] # Idle, task'[c].alone = TRUE,
             InSession(task'[c].call)
      PROVE  session'[Home[c]][Key[task'[c].call]] = NoEntry
  <2>1. /\ task[c] # Idle /\ task[c].alone = TRUE
        /\ InSession(task[c].call) /\ task'[c].call = task[c].call
    BY <1>2
  <2>2. session[Home[c]][Key[task[c].call]] = NoEntry
    BY <2>1 DEF StableInv, AloneMissed
  <2>3. task[c].call \in Queries
    BY <2>1 DEF TypeOK, Waiting, InSession, Caches, Queries
  <2>4. Home[c] \in Procs /\ Key[task[c].call] \in Keys
    BY <2>3, KeyIsKey, CacheAssumption
  <2>. QED  BY <2>1, <2>2, <2>4
<1>. QED  BY <1>1, <1>2 DEF StableInv, RivalsKnow, AloneMissed, InSession, Caches

\* Who goes out tells the others out for its key, and missed if it would write
\* a session entry.
LEMMA GoesOut ==
    ASSUME TypeOK, StableInv, NEW c \in Callers, NEW d \in Calls, task[c] = Idle,
           AskAdapter(c, d), UNCHANGED session,
           InSession(d) => session[Home[c]][Key[d]] = NoEntry
    PROVE  StableInv'
<1>1. CASE Of[d].connection \notin Supported
  <2>1. UNCHANGED task
    BY <1>1 DEF AskAdapter
  <2>. QED  BY <2>1, NobodyGoesOut
<1>2. CASE Of[d].connection \in Supported
  <2>. DEFINE nobody == \A o \in Callers : ~ Rival(c, d, o)
              at == IF Of[d].connection \in Registered THEN "adapter" ELSE "result"
              mine == [at |-> at, call |-> d, rows |-> <<>>, table |-> AnyTable, alone |-> nobody]
  <2>1. task' = [e \in Callers |-> IF e = c THEN mine
                                   ELSE IF Rival(c, d, e)
                                   THEN [task[e] EXCEPT !.alone = FALSE] ELSE task[e]]
    BY <1>2 DEF AskAdapter, Wait
  <2>2. mine.call = d /\ mine.alone = nobody
    OBVIOUS
  <2>. HIDE DEF mine
  <2>3. task'[c].call = d /\ task'[c].alone = nobody
    BY <2>1, <2>2
  <2>4. ASSUME NEW e \in Callers, e # c, task'[e] # Idle
        PROVE  /\ task[e] # Idle /\ task'[e].call = task[e].call
               /\ task'[e].alone = IF Rival(c, d, e) THEN FALSE ELSE task[e].alone
    <3>1. CASE Rival(c, d, e)
      <4>1. task'[e] = [task[e] EXCEPT !.alone = FALSE]
        BY <3>1, <2>1, <2>4
      <4>2. task[e] \in Waiting /\ task[e] # Idle
        BY <3>1 DEF Rival, TypeOK
      <4>. QED  BY <3>1, <4>1, <4>2 DEF Waiting
    <3>2. CASE ~ Rival(c, d, e)
      BY <3>2, <2>1, <2>4
    <3>. QED  BY <3>1, <3>2
  <2>5. ASSUME NEW a \in Callers, NEW e \in Callers, Together(a, e)'
        PROVE  task'[a].alone = FALSE
    <3>0. /\ a # e /\ task'[a] # Idle /\ task'[e] # Idle /\ Home[a] = Home[e]
          /\ task'[a].call \in Queries /\ task'[e].call \in Queries
          /\ Key[task'[a].call] = Key[task'[e].call]
      BY <2>5 DEF Together, Queries
    <3>1. CASE a = c
      <4>1. task[e] # Idle /\ task'[e].call = task[e].call
        BY <3>0, <3>1, <2>4
      <4>2. Rival(c, d, e)
        BY <3>0, <3>1, <4>1, <2>3 DEF Rival
      <4>3. nobody = FALSE
        BY <4>2
      <4>. QED  BY <3>1, <4>3, <2>3
    <3>2. CASE a # c /\ e = c
      <4>1. task[a] # Idle /\ task'[a].call = task[a].call
        BY <3>0, <3>2, <2>4
      <4>2. Rival(c, d, a)
        BY <3>0, <3>2, <4>1, <2>3 DEF Rival
      <4>. QED  BY <3>0, <3>2, <4>2, <2>4
    <3>3. CASE a # c /\ e # c
      <4>1. /\ task[a] # Idle /\ task'[a].call = task[a].call
            /\ task[e] # Idle /\ task'[e].call = task[e].call
            /\ task'[a].alone = IF Rival(c, d, a) THEN FALSE ELSE task[a].alone
        BY <3>0, <3>3, <2>4
      <4>2. Together(a, e)
        BY <3>0, <4>1 DEF Together
      <4>3. task[a].alone = FALSE
        BY <4>2 DEF StableInv, RivalsKnow
      <4>. QED  BY <4>1, <4>3
    <3>. QED  BY <3>1, <3>2, <3>3
  <2>6. ASSUME NEW e \in Callers, task'[e] # Idle, task'[e].alone = TRUE,
               InSession(task'[e].call)
        PROVE  session'[Home[e]][Key[task'[e].call]] = NoEntry
    <3>1. CASE e = c
      BY <3>1, <2>3, <2>6
    <3>2. CASE e # c
      <4>1. /\ task[e] # Idle /\ task'[e].call = task[e].call
            /\ task'[e].alone = IF Rival(c, d, e) THEN FALSE ELSE task[e].alone
        BY <3>2, <2>4, <2>6
      <4>2. task[e].alone = TRUE /\ InSession(task[e].call)
        BY <4>1, <2>6
      <4>. QED  BY <4>1, <4>2 DEF StableInv, AloneMissed
    <3>. QED  BY <3>1, <3>2
  <2>. QED  BY <2>5, <2>6 DEF StableInv, RivalsKnow, AloneMissed, InSession, Caches
<1>. QED  BY <1>1, <1>2

\* Whose answer writes a session entry of a key is out for it, and nobody else
\* that is out for it is alone.
LEMMA ComesHome ==
    ASSUME IInv, StableInv, NEW c \in Callers, Resume(c)
    PROVE  /\ StableInv'
           /\ \A p \in Procs, k \in Keys :
                 \/ session'[p][k] = session[p][k]
                 \/ InSession(task[c].call) /\ p = Home[c] /\ k = Key[task[c].call]
<1>. DEFINE d == task[c].call
<1>1. /\ task[c] # Idle /\ task[c] \in Waiting
      /\ task' = [task EXCEPT ![c] = Idle]
  BY DEF Resume, IInv, TypeOK
<1>2. d \in Calls /\ Home[c] \in Procs
  BY <1>1, CacheAssumption DEF Waiting
<1>3. \/ UNCHANGED session
      \/ InSession(d) /\ \E e : session' = [session EXCEPT ![Home[c]][Key[d]] = e]
  BY DEF Resume, WriteCache, InSession
<1>4. \A p \in Procs, k \in Keys :
          \/ session'[p][k] = session[p][k]
          \/ InSession(d) /\ p = Home[c] /\ k = Key[d]
  <2>1. CASE UNCHANGED session
    BY <2>1
  <2>2. ASSUME InSession(d), NEW e, session' = [session EXCEPT ![Home[c]][Key[d]] = e],
               NEW p \in Procs, NEW k \in Keys, p # Home[c] \/ k # Key[d]
        PROVE  session'[p][k] = session[p][k]
    <3>1. session \in [Procs -> [Keys -> Entries \cup {NoEntry}]]
      BY DEF IInv, TypeOK
    <3>2. session'[p] = IF p = Home[c] THEN [session[p] EXCEPT ![Key[d]] = e] ELSE session[p]
      BY <2>2, <3>1
    <3>3. session[p] \in [Keys -> Entries \cup {NoEntry}]
      BY <3>1
    <3>. QED  BY <2>2, <3>2, <3>3
  <2>. QED  BY <1>3, <2>1, <2>2
<1>5. \A e \in Callers : task'[e] = IF e = c THEN Idle ELSE task[e]
  BY <1>1 DEF IInv, TypeOK
<1>6. ASSUME NEW a \in Callers, NEW e \in Callers, Together(a, e)'
      PROVE  task'[a].alone = FALSE
  <2>1. Together(a, e) /\ task'[a] = task[a]
    BY <1>5, <1>6 DEF Together
  <2>. QED  BY <2>1 DEF StableInv, RivalsKnow
<1>7. ASSUME NEW e \in Callers, task'[e] # Idle, task'[e].alone = TRUE,
             InSession(task'[e].call)
      PROVE  session'[Home[e]][Key[task'[e].call]] = NoEntry
  <2>1. e # c /\ task'[e] = task[e]
    BY <1>5, <1>7
  <2>2. session[Home[e]][Key[task[e].call]] = NoEntry
    BY <1>7, <2>1 DEF StableInv, AloneMissed
  <2>3. task[e] \in Waiting
    BY <1>7, <2>1 DEF IInv, TypeOK
  <2>4. task[e].call \in Queries
    BY <1>7, <2>1, <2>3 DEF Waiting, InSession, Caches, Queries
  <2>5. Home[e] \in Procs /\ Key[task[e].call] \in Keys
    BY <2>4, KeyIsKey, CacheAssumption
  <2>6. ASSUME InSession(d), Home[e] = Home[c], Key[task[e].call] = Key[d]
        PROVE  FALSE
    <3>1. d \in Queries
      BY <2>6, <1>2 DEF InSession, Caches, Queries
    <3>2. Together(e, c)
      BY <1>1, <1>7, <2>1, <2>4, <2>6, <3>1 DEF Together
    <3>. QED  BY <1>7, <2>1, <3>2 DEF StableInv, RivalsKnow
  <2>. QED  BY <1>4, <2>1, <2>2, <2>5, <2>6
<1>. QED  BY <1>4, <1>6, <1>7 DEF StableInv, RivalsKnow, AloneMissed, InSession, Caches

\* What the other steps do to the maps of the processes and to their callers.
LEMMA OtherSteps ==
    ASSUME IInv, [Next]_vars,
           \A c \in Callers, d \in Calls : ~ ExecutePlan(c, d) /\ ~ ExecuteRaw(c, d),
           \A c \in Callers : ~ Resume(c)
    PROVE  /\ \A c \in Callers :
                  \/ task'[c] = Idle
                  \/ task[c] # Idle /\ task'[c].call = task[c].call /\ task'[c].alone = task[c].alone
           /\ \A p \in Procs, k \in Keys :
                  session'[p][k] = session[p][k] \/ session'[p][k] = NoEntry
<1>. DEFINE Stays == \A c \in Callers :
                \/ task'[c] = Idle
                \/ task[c] # Idle /\ task'[c].call = task[c].call /\ task'[c].alone = task[c].alone
            Keeps == \A p \in Procs, k \in Keys :
                         session'[p][k] = session[p][k] \/ session'[p][k] = NoEntry
<1>0. UNCHANGED session => Keeps
  OBVIOUS
<1>1. UNCHANGED task => Stays
  OBVIOUS
<1>2. ASSUME NEW c \in Callers, Answer(c) PROVE Stays /\ Keeps
  <2>1. task[c] \in Waiting
    BY <1>2 DEF Answer, IInv, TypeOK
  <2>2. /\ task'[c].call = task[c].call /\ task'[c].alone = task[c].alone
        /\ \A e \in Callers : e # c => task'[e] = task[e]
    BY <1>2, <2>1 DEF Answer, IInv, TypeOK, Waiting
  <2>3. Stays
    BY <1>2, <2>2 DEF Answer
  <2>. QED  BY <1>0, <1>2, <2>3 DEF Answer
<1>3. ASSUME NEW c \in Callers, Fail(c) PROVE Stays /\ Keeps
  <2>1. \A e \in Callers : task'[e] = task[e] \/ task'[e] = Idle
    BY <1>3 DEF Fail, IInv, TypeOK
  <2>. QED  BY <1>0, <1>3, <2>1 DEF Fail
<1>4. ASSUME NEW p \in Procs, session' = [session EXCEPT ![p] = [k \in Keys |-> NoEntry]]
      PROVE  Keeps
  BY <1>4 DEF IInv, TypeOK
<1>5. ASSUME NEW p \in Procs, Restart(p) PROVE Stays /\ Keeps
  <2>1. Stays
    BY <1>5 DEF Restart
  <2>. QED  BY <1>4, <1>5, <2>1 DEF Restart
<1>6. ASSUME NEW p \in Procs, NEW directive \in Directives, InvalidateCache(p, directive)
      PROVE  Stays /\ Keeps
  BY <1>1, <1>4, <1>6 DEF InvalidateCache
<1>7. ASSUME NEW p \in Procs, StartWorker(p) \/ WorkerExits(p) PROVE Stays /\ Keeps
  BY <1>0, <1>1, <1>7 DEF StartWorker, WorkerExits
<1>8. ASSUME NEW s \in BOOLEAN, NEW f \in BOOLEAN, NEW directive \in Directives,
             CacheClear(s, f, directive)
      PROVE  Stays /\ Keeps
  BY <1>0, <1>1, <1>8 DEF CacheClear
<1>9. ASSUME NEW t \in Tables, Change(t) PROVE Stays /\ Keeps
  BY <1>0, <1>1, <1>9 DEF Change
<1>10. ASSUME Tick PROVE Stays /\ Keeps
  BY <1>0, <1>1, <1>10 DEF Tick
<1>11. ASSUME UNCHANGED vars PROVE Stays /\ Keeps
  BY <1>0, <1>1, <1>11 DEF vars
<1>. HIDE DEF Stays, Keeps
<1>12. ASSUME Next PROVE Stays /\ Keeps
  <2>1. \/ \E c \in Callers : Answer(c) \/ Fail(c)
        \/ \E p \in Procs : StartWorker(p) \/ WorkerExits(p) \/ Restart(p)
        \/ \E p \in Procs, directive \in Directives : InvalidateCache(p, directive)
        \/ \E s, f \in BOOLEAN, directive \in Directives : CacheClear(s, f, directive)
        \/ \E t \in Tables : Change(t)
        \/ Tick
    BY <1>12 DEF Next
  <2>2. CASE \E c \in Callers : Answer(c) \/ Fail(c)
    BY <2>2, <1>2, <1>3
  <2>3. CASE \E p \in Procs : StartWorker(p) \/ WorkerExits(p) \/ Restart(p)
    BY <2>3, <1>5, <1>7
  <2>4. CASE \E p \in Procs, directive \in Directives : InvalidateCache(p, directive)
    BY <2>4, <1>6
  <2>5. CASE \E s, f \in BOOLEAN, directive \in Directives : CacheClear(s, f, directive)
    BY <2>5, <1>8
  <2>6. CASE \E t \in Tables : Change(t)
    BY <2>6, <1>9
  <2>. QED  BY <2>1, <2>2, <2>3, <2>4, <2>5, <2>6, <1>10
<1>. QED  BY <1>11, <1>12 DEF Stays, Keeps

\* A step that replaces an entry is the end of a call that was not alone.
StepIsStable ==
    \A p \in Procs, k \in Keys :
        (session[p][k] # NoEntry /\ session'[p][k] \notin {session[p][k], NoEntry})
        => \E c \in Callers : /\ Resume(c)
                              /\ Home[c] = p /\ Key[task[c].call] = k
                              /\ ~ task[c].alone

LEMMA GoingOut ==
    ASSUME IInv, StableInv, NEW c \in Callers, NEW d \in Calls,
           ExecutePlan(c, d) \/ ExecuteRaw(c, d)
    PROVE  StableInv' /\ UNCHANGED session
<1>1. UNCHANGED session /\ task[c] = Idle
  BY DEF ExecutePlan, ExecuteRaw
<1>2. CASE UNCHANGED task
  BY <1>1, <1>2, NobodyGoesOut DEF IInv
<1>3. CASE AskAdapter(c, d) /\ (InSession(d) => session[Home[c]][Key[d]] = NoEntry)
  BY <1>1, <1>3, GoesOut DEF IInv
<1>4. ASSUME ExecutePlan(c, d), ~ UNCHANGED task
      PROVE  AskAdapter(c, d) /\ (InSession(d) => session[Home[c]][Key[d]] = NoEntry)
  <2>1. AskAdapter(c, d) /\ ~ (Caches(d) /\ ReadCache(Home[c], d) # NoEntry)
    BY <1>4 DEF ExecutePlan
  <2>2. InSession(d) => Caches(d) /\ ReadCache(Home[c], d) = session[Home[c]][Key[d]]
    BY DEF InSession, ReadCache
  <2>. QED  BY <2>1, <2>2
<1>5. ASSUME ExecuteRaw(c, d), ~ UNCHANGED task
      PROVE  AskAdapter(c, d) /\ ~ InSession(d)
  BY <1>5 DEF ExecuteRaw, InSession, Caches
<1>. QED  BY <1>1, <1>2, <1>3, <1>4, <1>5

LEMMA NextStable == ASSUME IInv, StableInv, [Next]_vars PROVE StableInv' /\ StepIsStable
<1>1. ASSUME NEW c \in Callers, NEW d \in Calls, ExecutePlan(c, d) \/ ExecuteRaw(c, d)
      PROVE  StableInv' /\ StepIsStable
  BY <1>1, GoingOut DEF StepIsStable
<1>2. ASSUME NEW c \in Callers, Resume(c)
      PROVE  StableInv' /\ StepIsStable
  <2>1. StableInv'
    BY <1>2, ComesHome
  <2>2. ASSUME NEW p \in Procs, NEW k \in Keys,
               session[p][k] # NoEntry, session'[p][k] # session[p][k]
        PROVE  Home[c] = p /\ Key[task[c].call] = k /\ ~ task[c].alone
    <3>1. InSession(task[c].call) /\ p = Home[c] /\ k = Key[task[c].call]
      BY <1>2, <2>2, ComesHome
    <3>2. task[c] # Idle /\ task[c].alone \in BOOLEAN
      BY <1>2 DEF Resume, IInv, TypeOK, Waiting
    <3>3. task[c].alone # TRUE
      BY <2>2, <3>1, <3>2 DEF StableInv, AloneMissed
    <3>. QED  BY <3>1, <3>2, <3>3
  <2>. QED  BY <1>2, <2>1, <2>2 DEF StepIsStable
<1>3. ASSUME \A c \in Callers, d \in Calls : ~ ExecutePlan(c, d) /\ ~ ExecuteRaw(c, d),
             \A c \in Callers : ~ Resume(c)
      PROVE  StableInv' /\ StepIsStable
  <2>. DEFINE Stays == \A c \in Callers :
                  \/ task'[c] = Idle
                  \/ task[c] # Idle /\ task'[c].call = task[c].call /\ task'[c].alone = task[c].alone
              Keeps == \A p \in Procs, k \in Keys :
                           session'[p][k] = session[p][k] \/ session'[p][k] = NoEntry
  <2>1. Stays /\ Keeps
    BY <1>3, OtherSteps
  <2>2. StableInv'
    BY <2>1, NobodyGoesOut DEF IInv
  <2>. QED  BY <2>1, <2>2 DEF StepIsStable
<1>. QED  BY <1>1, <1>2, <1>3

-----------------------------------------------------------------------------
(* The theorems *)

\* The state of the cache, of its callers and of the renders keeps its type.
THEOREM CacheTypeCorrect == Spec => []TypeOK
<1>1. IInv => TypeOK
  BY DEF IInv
<1>. QED  BY InitIInv, NextIInv, <1>1, PTL DEF Spec

\* Every entry of every process and every file is the masked and capped answer
\* of the adapter to a call that asks the same (executor.ts:89-178).
THEOREM EntriesAlwaysHonest == Spec => []EntriesAreHonest
<1>1. IInv => EntriesAreHonest
  BY DEF IInv
<1>. QED  BY InitIInv, NextIInv, <1>1, PTL DEF Spec

\* An entry of a process's map stays what it is until the map is emptied, but
\* for a call that was out together with another for the same key: what was
\* rendered once is rendered again (executor.ts:130-175, cache.ts:35-67).
THEOREM SessionStaysStable == Spec => SessionIsStable
<1>1. IInv /\ StableInv /\ [Next]_vars => IInv' /\ StableInv' /\ StepIsStable
  BY NextIInv, NextStable
<1>2. IInv /\ StableInv /\ [Next]_vars =>
          [\A p \in Procs, k \in Keys :
             (session[p][k] # NoEntry /\ session'[p][k] \notin {session[p][k], NoEntry})
             => \E c \in Callers : /\ Resume(c)
                                   /\ Home[c] = p /\ Key[task[c].call] = k
                                   /\ ~ task[c].alone]_vars
  BY <1>1 DEF StepIsStable
<1>. QED  BY InitIInv, InitStable, <1>1, <1>2, PTL DEF Spec, SessionIsStable

(***************************************************************************)
(* Both kinds of database give the same rows                               *)
(***************************************************************************)

LEMMA AdaptersAskTheSame ==
    ASSUME NEW p, NEW r, DOMAIN p.where \subseteq Int,
           \A i \in DOMAIN p.where :
              At(r, p.where[i].field)[1] = "number" /\ p.where[i].value[1] = "number",
           p.hasOr \/ \A i, j \in DOMAIN p.where : p.where[i].field = p.where[j].field => i = j
    PROVE  MongoMatches(p, r) <=> SqlMatches(p, r)
<1>1. ASSUME NEW i \in DOMAIN p.where
      PROVE  MongoHolds(p.where[i], r) <=> SqlHolds(p.where[i], r)
  <2>1. At(r, p.where[i].field)[1] = "number" /\ p.where[i].value[1] = "number"
    OBVIOUS
  <2>2. "null" # "number"
    OBVIOUS
  <2> QED BY <2>1, <2>2 DEF MongoHolds, SqlHolds
<1>2. \A f \in Range(p.where) : MongoHolds(f, r) <=> SqlHolds(f, r)
  BY <1>1 DEF Range
<1>3. MongoFilter(p) = Range(p.where)
  <2>1. CASE p.hasOr
    BY <2>1 DEF MongoFilter
  <2>2. CASE ~ p.hasOr
    <3>1. \A i, j \in DOMAIN p.where : j > i => p.where[j].field # p.where[i].field
      BY <2>2
    <3>2. MongoFilter(p) = { p.where[i] : i \in DOMAIN p.where }
      BY <2>2, <3>1 DEF MongoFilter
    <3> QED BY <3>2 DEF Range
  <2> QED BY <2>1, <2>2
<1> QED BY <1>2, <1>3 DEF MongoMatches, SqlMatches

LEMMA ColumnsAreShownAlike ==
    ASSUME NEW r, NEW columns,
           \A i \in DOMAIN columns : columns[i].field = columns[i].label /\ columns[i].field \in DOMAIN r
    PROVE  MongoProject(r, columns) = SqlProject(r, columns)
<1>1. CASE columns = <<>>
  BY <1>1 DEF MongoProject, SqlProject
<1>2. CASE columns # <<>>
  <2> DEFINE F == { columns[i].field : i \in DOMAIN columns }
             Projected(l) == At(r, columns[CHOOSE i \in DOMAIN columns : columns[i].label = l].field)
  <2>1. F \cap DOMAIN r = F /\ F = { columns[i].label : i \in DOMAIN columns }
    OBVIOUS
  <2>2. ASSUME NEW l \in F PROVE Projected(l) = r[l]
    <3> DEFINE i == CHOOSE i \in DOMAIN columns : columns[i].label = l
    <3>1. \E j \in DOMAIN columns : columns[j].label = l
      OBVIOUS
    <3>2. i \in DOMAIN columns /\ columns[i].label = l
      BY <3>1
    <3> HIDE DEF i
    <3>3. columns[i].field = l /\ l \in DOMAIN r
      BY <3>2
    <3>4. Projected(l) = At(r, columns[i].field)
      BY DEF i
    <3> QED BY <3>3, <3>4 DEF At
  <2>3. MongoProject(r, columns) = [f \in F |-> r[f]]
    BY <1>2, <2>1 DEF MongoProject
  <2>4. SqlProject(r, columns) = [l \in F |-> Projected(l)]
    BY <1>2, <2>1 DEF SqlProject
  <2> HIDE DEF F, Projected
  <2> QED BY <2>2, <2>3, <2>4
<1> QED BY <1>1, <1>2

LEMMA NumbersAreAggregated ==
    ASSUME NEW a, NEW s, NEW at, NEW u, NEW v,
           a.func = "count" \/ Numeric(s, at, a.field) # {}
    PROVE  Aggregated(a, s, at, u) = Aggregated(a, s, at, v)
<1> DEFINE N == Numeric(s, at, a.field)
           OneRow == CASE a.func \in {"sum", "avg"} -> Number(Total(s, N, a.field))
                   [] a.func = "min" -> Number(Min({ At(s[i], a.field)[2] : i \in N }))
                   [] a.func = "max" -> Number(Max({ At(s[i], a.field)[2] : i \in N }))
<1>1. \A z : Aggregated(a, s, at, z) =
              IF a.func = "count" THEN Number(Cardinality(at))
              ELSE IF N = {} THEN (IF a.func = "sum" THEN z ELSE Null) ELSE OneRow
  BY Zenon DEF Aggregated
<1> HIDE DEF N, OneRow
<1> QED BY <1>1 DEF N

LEMMA GroupsAreAlike ==
    ASSUME NEW p, NEW s, NEW hits, NEW u, NEW v,
           \A i \in hits : \A a \in p.aggregations :
              a.func # "count" => At(s[i], a.field)[1] = "number"
    PROVE  Grouped(p, s, hits, u) = Grouped(p, s, hits, v)
<1> DEFINE by(i) == At(s[i], p.group[1])
           at(g) == { i \in hits : by(i) = g }
           of(g, z) == { <<a, Aggregated(a, s, at(g), z)>> : a \in p.aggregations }
           G == { by(i) : i \in hits }
<1>1. ASSUME NEW g \in G, NEW a \in p.aggregations
      PROVE  Aggregated(a, s, at(g), u) = Aggregated(a, s, at(g), v)
  <2>1. CASE a.func = "count"
    <3> HIDE DEF at
    <3> QED BY <2>1, NumbersAreAggregated
  <2>2. CASE a.func # "count"
    <3>1. PICK i \in hits : by(i) = g
      OBVIOUS
    <3>2. i \in at(g)
      BY <3>1
    <3>3. At(s[i], a.field)[1] = "number"
      BY <2>2
    <3>4. i \in Numeric(s, at(g), a.field)
      BY <3>2, <3>3 DEF Numeric
    <3>5. Numeric(s, at(g), a.field) # {}
      BY <3>4
    <3> HIDE DEF at
    <3> QED BY <3>5, NumbersAreAggregated
  <2> QED BY <2>1, <2>2
<1> HIDE DEF at
<1>2. \A g \in G : of(g, u) = of(g, v)
  BY <1>1
<1>3. Grouped(p, s, hits, u) = { [by |-> g, of |-> of(g, u)] : g \in G }
  BY DEF Grouped, at
<1>4. Grouped(p, s, hits, v) = { [by |-> g, of |-> of(g, v)] : g \in G }
  BY DEF Grouped, at
<1> HIDE DEF of, G
<1>5. { [by |-> g, of |-> of(g, u)] : g \in G } = { [by |-> g, of |-> of(g, v)] : g \in G }
  BY <1>2
<1> QED BY <1>3, <1>4, <1>5

\* A sort that names no field twice orders two rows alike, wherever each of the
\* databases puts Null.
LEMMA SortsAreAlike ==
    ASSUME NEW sort, DOMAIN sort \subseteq Int,
           \A i, j \in DOMAIN sort : sort[i].field = sort[j].field => i = j,
           NEW low \in BOOLEAN, NEW a, NEW b,
           \A i \in DOMAIN sort :
              low \/ (At(a, sort[i].field)[1] # "null" /\ At(b, sort[i].field)[1] # "null")
    PROVE  Before(a, b, MongoSort(sort), TRUE) <=> Before(a, b, sort, low)
<1> DEFINE D == DOMAIN sort
           of(i) == { j \in D : sort[j].field = sort[i].field }
           last(i) == CHOOSE j \in of(i) : \A k \in of(i) : k <= j
           m == MongoSort(sort)
           y == TRUE
<1>1. \A i \in D : of(i) = {i} /\ i <= i
  OBVIOUS
<1>2. \A i \in D : last(i) = i
  <2>1. TAKE i \in D
  <2>2. i \in of(i) /\ \A k \in of(i) : k <= i
    BY <1>1
  <2>3. last(i) \in of(i)
    BY <2>2
  <2> QED BY <1>1, <2>3
<1>3. { i \in D : \A j \in of(i) : i <= j } = D
  BY <1>1
<1>4. m = [i \in { i \in D : \A j \in of(i) : i <= j } |-> [field |-> sort[i].field, dir |-> sort[last(i)].dir]]
  BY DEF MongoSort
<1>5. m = [i \in D |-> [field |-> sort[i].field, dir |-> sort[last(i)].dir]]
  <2> HIDE DEF of, last, m, D
  <2> QED BY <1>3, <1>4
<1>6. DOMAIN m = D /\ \A i \in D : m[i].field = sort[i].field /\ m[i].dir = sort[i].dir
  <2> HIDE DEF last, m, D
  <2> QED BY <1>2, <1>5
<1> HIDE DEF m, of, last, y
<1>7. ASSUME NEW i \in D
      PROVE  LET v == At(a, sort[i].field)
                 w == At(b, sort[i].field)
             IN (Less(v, w, y) <=> Less(v, w, low)) /\ (Less(w, v, y) <=> Less(w, v, low))
  <2> DEFINE v == At(a, sort[i].field)
             w == At(b, sort[i].field)
  <2>1. low \/ (v[1] # "null" /\ w[1] # "null")
    OBVIOUS
  <2> HIDE DEF v, w
  <2>2. (Less(v, w, y) <=> Less(v, w, low)) /\ (Less(w, v, y) <=> Less(w, v, low))
    <3>1. CASE low
      BY <3>1 DEF Less, y
    <3>2. CASE v[1] # "null" /\ w[1] # "null"
      BY <3>2 DEF Less
    <3> QED BY <2>1, <3>1, <3>2
  <2> QED BY <2>2 DEF v, w
<1> DEFINE Ahead(s, k, z) ==
             /\ \A l \in DOMAIN s : l < k => At(a, s[l].field) = At(b, s[l].field)
             /\ IF s[k].dir = "asc" THEN Less(At(a, s[k].field), At(b, s[k].field), z)
                                    ELSE Less(At(b, s[k].field), At(a, s[k].field), z)
<1>8. \A k \in D : Ahead(m, k, y) <=> Ahead(sort, k, low)
  <2>1. TAKE k \in D
  <2>2. (\A l \in DOMAIN m : l < k => At(a, m[l].field) = At(b, m[l].field))
        <=> (\A l \in D : l < k => At(a, sort[l].field) = At(b, sort[l].field))
    <3> HIDE DEF D
    <3> QED BY <1>6
  <2>3. m[k].field = sort[k].field /\ m[k].dir = sort[k].dir
    BY <1>6
  <2> QED BY <1>7, <2>2, <2>3
<1>9. (Before(a, b, m, y) <=> \E k \in DOMAIN m : Ahead(m, k, y))
      /\ (Before(a, b, sort, low) <=> \E k \in D : Ahead(sort, k, low))
  BY DEF Before
<1> HIDE DEF Ahead, D
<1> QED BY <1>6, <1>8, <1>9 DEF m, y

\* What a plan is made of, as far as the answers depend on it.
Sensible(p) ==
    /\ p.operation \in {"find", "one", "count", "aggregate"}
    /\ DOMAIN p.where \subseteq Int
    /\ DOMAIN p.sort \subseteq Int
    /\ p.limit = <<>> \/ p.limit[1] \in Nat

\* What remains to be provided for two adapters to agree on a plan.
Common(p, s, low) ==
    /\ \A k \in DOMAIN s :
          /\ \A i \in DOMAIN p.where : At(s[k], p.where[i].field)[1] = "number"
          /\ \A i \in DOMAIN p.columns : p.columns[i].field \in DOMAIN s[k]
          /\ \A a \in p.aggregations : a.func # "count" => At(s[k], a.field)[1] = "number"
          /\ \A i \in DOMAIN p.sort : low \/ At(s[k], p.sort[i].field)[1] # "null"
    /\ \A i \in DOMAIN p.where : p.where[i].value[1] = "number"
    /\ \A i, j \in DOMAIN p.sort : p.sort[i].field = p.sort[j].field => i = j
    /\ p.hasOr \/ \A i, j \in DOMAIN p.where : p.where[i].field = p.where[j].field => i = j
    /\ p.limit # <<0>>
    /\ \A i \in DOMAIN p.columns : p.columns[i].field = p.columns[i].label
    /\ p.operation = "one" => p.columns = <<>>

LEMMA OrdersAreAlike ==
    ASSUME NEW p, NEW s, NEW low \in BOOLEAN, Sensible(p), Common(p, s, low),
           NEW hits \in SUBSET DOMAIN s
    PROVE  Orders(s, hits, MongoSort(p.sort), TRUE) = Orders(s, hits, p.sort, low)
<1> DEFINE t == MongoSort(p.sort)
           q == p.sort
           y == TRUE
<1>1. \A i, j \in hits : Before(s[i], s[j], t, y) <=> Before(s[i], s[j], q, low)
  <2>1. TAKE i, j \in hits
  <2>2. i \in DOMAIN s /\ j \in DOMAIN s
    OBVIOUS
  <2>3. DOMAIN q \subseteq Int
    BY DEF Sensible
  <2>4. \A k, l \in DOMAIN q : q[k].field = q[l].field => k = l
    BY DEF Common
  <2>5. \A k \in DOMAIN q : low \/ (At(s[i], q[k].field)[1] # "null" /\ At(s[j], q[k].field)[1] # "null")
    BY <2>2 DEF Common
  <2> DEFINE a == s[i]
             b == s[j]
  <2> HIDE DEF q, a, b
  <2>6. \A k \in DOMAIN q : low \/ (At(a, q[k].field)[1] # "null" /\ At(b, q[k].field)[1] # "null")
    BY <2>5 DEF a, b
  <2>7. Before(a, b, MongoSort(q), TRUE) <=> Before(a, b, q, low)
    BY ONLY <2>3, <2>4, <2>6, low \in BOOLEAN, SortsAreAlike
  <2> QED BY <2>7 DEF a, b, t, y, q
<1> HIDE DEF t, q, y
<1>2. \A o \in InAnyOrder(hits) : \A i, j \in DOMAIN o : o[i] \in hits /\ o[j] \in hits
  BY DEF InAnyOrder
<1>3. \A o \in InAnyOrder(hits) : \A i, j \in DOMAIN o :
         Before(s[o[j]], s[o[i]], t, y) <=> Before(s[o[j]], s[o[i]], q, low)
  BY <1>1, <1>2
<1>4. Orders(s, hits, t, y) =
        { o \in InAnyOrder(hits) : \A i, j \in DOMAIN o : i < j => ~ Before(s[o[j]], s[o[i]], t, y) }
  BY DEF Orders
<1>5. Orders(s, hits, q, low) =
        { o \in InAnyOrder(hits) : \A i, j \in DOMAIN o : i < j => ~ Before(s[o[j]], s[o[i]], q, low) }
  BY DEF Orders
<1>6. { o \in InAnyOrder(hits) : \A i, j \in DOMAIN o : i < j => ~ Before(s[o[j]], s[o[i]], t, y) }
      = { o \in InAnyOrder(hits) : \A i, j \in DOMAIN o : i < j => ~ Before(s[o[j]], s[o[i]], q, low) }
  BY <1>3
<1> QED BY <1>4, <1>5, <1>6 DEF t, q, y

\* Only positions of the table are chosen.
LEMMA ChosenAreHits ==
    ASSUME NEW n \in Nat, NEW S \in SUBSET (1..n), NEW o \in InAnyOrder(S), NEW k \in Nat
    PROVE  o \in Seq(S) /\ FirstOnes(o, k) \in Seq(S)
<1> DEFINE c == Cardinality(S)
<1>1. c \in Nat
  <2>1. IsFiniteSet(1..n)
    BY FS_Interval
  <2>2. IsFiniteSet(S)
    BY <2>1, FS_Subset
  <2> QED BY <2>2, FS_CardinalityType
<1>2. o \in [1..c -> S]
  BY DEF InAnyOrder
<1> HIDE DEF c
<1>3. o \in Seq(S) /\ Len(o) = c
  BY <1>1, <1>2
<1>4. FirstOnes(o, k) \in Seq(S)
  <2> DEFINE m == IF k < Len(o) THEN k ELSE Len(o)
  <2>1. 1 \in Int /\ m \in Int /\ \A i \in 1..m : o[i] \in S
    BY <1>1, <1>2, <1>3
  <2>2. FirstOnes(o, k) = SubSeq(o, 1, m)
    BY DEF FirstOnes
  <2> HIDE DEF m
  <2> QED BY <2>1, <2>2, SubSeqProperties
<1> QED BY <1>3, <1>4

LEMMA AnswersAreAlike ==
    ASSUME NEW p, NEW s, s \in Seq(Range(s)), NEW d \in Dialects,
           Sensible(p), Common(p, s, NullsLow(d))
    PROVE  MongoAnswers(p, s) = SqlAnswers(p, s, d)
<1> DEFINE R == Range(s)
           D == DOMAIN s
           hits == { i \in D : MongoMatches(p, s[i]) }
           first(o) == IF p.limit = <<>> THEN o ELSE FirstOnes(o, p.limit[1])
           Displayed(f) == [i \in DOMAIN f |-> MongoProject(s[f[i]], p.columns)]
           Mongo(o) == Displayed(first(o))
           Sql(o) == [i \in DOMAIN first(o) |-> SqlProject(s[first(o)[i]], p.columns)]
           low == NullsLow(d)
           O == Orders(s, hits, p.sort, low)
<1>1. hits = { i \in D : SqlMatches(p, s[i]) }
  <2>1. ASSUME NEW k \in D PROVE MongoMatches(p, s[k]) <=> SqlMatches(p, s[k])
    <3>1. \A i \in DOMAIN p.where :
             At(s[k], p.where[i].field)[1] = "number" /\ p.where[i].value[1] = "number"
      BY DEF Common
    <3>2. p.hasOr \/ \A i, j \in DOMAIN p.where : p.where[i].field = p.where[j].field => i = j
      BY DEF Common
    <3>3. DOMAIN p.where \subseteq Int
      BY DEF Sensible
    <3> QED BY ONLY <3>1, <3>2, <3>3, AdaptersAskTheSame
  <2> QED BY <2>1
<1>2. hits \in SUBSET D /\ Len(s) \in Nat /\ D = 1..Len(s)
  <2> HIDE DEF R
  <2>1. s \in Seq(R)
    BY DEF R
  <2> QED BY <2>1
<1> HIDE DEF hits
<1>3. Orders(s, hits, MongoSort(p.sort), TRUE) = O
  <2>1. low \in BOOLEAN
    BY DEF NullsLow
  <2> HIDE DEF low
  <2>2. Common(p, s, low)
    BY DEF low
  <2> QED BY <1>2, <2>1, <2>2, OrdersAreAlike DEF D
<1>4. ASSUME NEW o \in O
      PROVE  Mongo(o) = Sql(o)
  <2>1. first(o) \in Seq(hits)
    <3>1. o \in InAnyOrder(hits)
      BY DEF Orders
    <3>2. CASE p.limit = <<>>
      <4>1. 0 \in Nat
        OBVIOUS
      <4>2. o \in Seq(hits)
        BY ONLY <1>2, <3>1, <4>1, ChosenAreHits
      <4> QED BY <3>2, <4>2
    <3>3. CASE p.limit # <<>>
      <4>1. p.limit[1] \in Nat
        BY <3>3 DEF Sensible
      <4>2. FirstOnes(o, p.limit[1]) \in Seq(hits)
        BY ONLY <1>2, <3>1, <4>1, ChosenAreHits
      <4> QED BY <3>3, <4>2
    <3> QED BY <3>2, <3>3
  <2> HIDE DEF first, O, D
  <2>2. ASSUME NEW i \in DOMAIN first(o)
        PROVE  MongoProject(s[first(o)[i]], p.columns) = SqlProject(s[first(o)[i]], p.columns)
    <3> DEFINE k == first(o)[i]
    <3>1. k \in hits
      BY <2>1, ElementOfSeq
    <3> HIDE DEF k
    <3>2. k \in DOMAIN s
      BY <1>2, <3>1 DEF D
    <3>3. \A j \in DOMAIN p.columns :
             p.columns[j].field = p.columns[j].label /\ p.columns[j].field \in DOMAIN s[k]
      BY <3>2 DEF Common
    <3>4. MongoProject(s[k], p.columns) = SqlProject(s[k], p.columns)
      BY ONLY <3>3, ColumnsAreShownAlike
    <3> QED BY <3>4 DEF k
  <2> QED BY <2>2, Zenon
<1>5. \A o : first(o) = IF p.limit \in {<<>>, <<0>>} THEN o ELSE FirstOnes(o, p.limit[1])
  BY DEF Common
<1> DEFINE MFind == { Mongo(o) : o \in O }
           SFind == { Sql(o) : o \in O }
           MOne == IF hits = {} THEN {<<>>} ELSE { << s[i] >> : i \in hits }
           SOne == IF hits = {} THEN {<<>>} ELSE { << SqlProject(s[i], p.columns) >> : i \in hits }
           MG == InAnyOrder(Grouped(p, s, hits, Number(0)))
           SG == InAnyOrder(Grouped(p, s, hits, Null))
<1>6. MFind = SFind
  <2> HIDE DEF Mongo, Sql, O
  <2> QED BY <1>4
<1>7. p.operation = "one" => MOne = SOne
  <2>1. ASSUME p.operation = "one" PROVE MOne = SOne
    <3>1. p.columns = <<>>
      BY <2>1 DEF Common
    <3>2. \A r : SqlProject(r, p.columns) = r
      BY <3>1 DEF SqlProject
    <3> QED BY <3>2
  <2> QED BY <2>1
<1>8. MG = SG
  <2>1. \A i \in hits : \A a \in p.aggregations : a.func # "count" => At(s[i], a.field)[1] = "number"
    BY <1>2 DEF Common
  <2>2. Grouped(p, s, hits, Number(0)) = Grouped(p, s, hits, Null)
    BY ONLY <2>1, GroupsAreAlike
  <2> QED BY <2>2
<1>9. { Displayed(IF p.limit \in {<<>>, <<0>>} THEN o ELSE FirstOnes(o, p.limit[1])) :
        o \in Orders(s, hits, MongoSort(p.sort), TRUE) } = MFind
  <2> HIDE DEF first, Displayed, O
  <2>1. \A o : Displayed(IF p.limit \in {<<>>, <<0>>} THEN o ELSE FirstOnes(o, p.limit[1])) = Displayed(first(o))
    BY <1>5, Zenon
  <2>2. Orders(s, hits, MongoSort(p.sort), TRUE) = O
    BY <1>3
  <2> DEFINE E(o) == Displayed(IF p.limit \in {<<>>, <<0>>} THEN o ELSE FirstOnes(o, p.limit[1]))
             F(o) == Displayed(first(o))
  <2>3. \A o : E(o) = F(o)
    BY <2>1
  <2>4. { E(o) : o \in O } = { F(o) : o \in O }
    <3> HIDE DEF E, F
    <3> QED BY <2>3
  <2> QED BY <2>2, <2>4, Zenon
<1>10. MongoAnswers(p, s) =
        CASE p.operation = "find" -> MFind
          [] p.operation = "one" -> MOne
          [] p.operation = "count" -> Counted(hits)
          [] p.operation = "aggregate" -> MG
  <2> HIDE DEF MFind
  <2> QED BY <1>9, Zenon DEF MongoAnswers, hits, D
<1>11. SqlAnswers(p, s, d) =
        CASE p.operation = "find" -> SFind
          [] p.operation = "one" -> SOne
          [] p.operation = "count" -> Counted(hits)
          [] p.operation = "aggregate" -> SG
  BY <1>1, Zenon DEF SqlAnswers, D
<1> HIDE DEF MFind, SFind, MOne, SOne, MG, SG
<1> QED BY <1>6, <1>7, <1>8, <1>10, <1>11 DEF Sensible

LEMMA TheOnlyIs ==
    ASSUME NEW ops, TheOnly(ops) # "none"
    PROVE  TheOnly(ops) \in ops
<1>1. Cardinality(ops) = 1
  BY DEF TheOnly
<1>2. ops # {}
  BY <1>1, FS_EmptySet
<1>3. TheOnly(ops) = CHOOSE op \in ops : TRUE
  BY <1>1 DEF TheOnly
<1> QED BY <1>2, <1>3

\* What the parser makes of a directive.
IsPlanOf(p, where) ==
    /\ Sensible(p)
    /\ p.where = ParseFilters(where).filters
    /\ p.hasOr = ParseFilters(where).hasOr

LEMMA PlansAreSensible ==
    ASSUME NEW o \in Options, NEW text, ParseQuery(With(o, text)).kind = "plan"
    PROVE  IsPlanOf(ParseQuery(With(o, text)), text)
<1> DEFINE a == With(o, text)
           op == DetectOperation(a)
           where == ParseFilters(Optional(a, "where"))
           aggregations == IF op = "aggregate" THEN ParseAggregateOps(a) ELSE {}
           p == ParseQuery(a)
           q == [kind |-> "plan", operation |-> op, collection |-> a[op],
                 where |-> where.filters, hasOr |-> where.hasOr,
                 sort |-> Optional(a, "sort"), limit |-> Optional(a, "limit"),
                 columns |-> Optional(a, "columns"), group |-> Optional(a, "group"),
                 aggregations |-> aggregations]
<1>1. /\ "where" \in DOMAIN a /\ a["where"] = text
      /\ "limit" \in DOMAIN a => "limit" \in DOMAIN o /\ a["limit"] = o["limit"]
      /\ "sort" \in DOMAIN a => "sort" \in DOMAIN o /\ a["sort"] = o["sort"]
  BY DEF With
<1> HIDE DEF a
<1>2. Optional(a, "where") = text
  BY <1>1 DEF Optional, Given
<1>3. Optional(a, "limit") = <<>> \/ Optional(a, "limit")[1] \in Nat
  <2>1. CASE "limit" \in DOMAIN a
    <3>1. o.limit \in Seq(Nat) /\ o.limit # <<>> /\ a["limit"] = o.limit
      BY <1>1, <2>1, DirectiveAssumption
    <3>2. o.limit[1] \in Nat
      BY <3>1
    <3> QED BY <2>1, <3>1, <3>2 DEF Optional, Given
  <2>2. CASE "limit" \notin DOMAIN a
    BY <2>2 DEF Optional, Given
  <2> QED BY <2>1, <2>2
<1>9. DOMAIN Optional(a, "sort") \subseteq Int
  <2>1. CASE "sort" \in DOMAIN a
    <3> DEFINE t == o.sort
               S == Range(t)
    <3>1. t \in Seq(S) /\ a["sort"] = t
      BY <1>1, <2>1, DirectiveAssumption
    <3> HIDE DEF t, S
    <3>2. DOMAIN t = 1..Len(t) /\ Len(t) \in Nat
      BY <3>1
    <3>3. Optional(a, "sort") = t
      BY <2>1, <3>1 DEF Optional, Given
    <3> QED BY <3>2, <3>3
  <2>2. CASE "sort" \notin DOMAIN a
    BY <2>2 DEF Optional, Given
  <2> QED BY <2>1, <2>2
<1>4. op # "none" /\ op # "raw" /\ p = q
  <2>1. None.kind # "plan" /\ [kind |-> "raw", query |-> a.raw].kind # "plan"
    BY DEF None
  <2>2. p.kind = "plan"
    BY DEF a
  <2> QED BY <2>1, <2>2, Zenon DEF ParseQuery
<1>5. op \in Operations
  <2>1. DetectOperation(a) # "none"
    BY <1>4
  <2>2. op \in Present(a)
    BY <2>1, TheOnlyIs DEF DetectOperation
  <2> QED BY <2>2 DEF Present
<1>6. p.operation \in {"find", "one", "count", "aggregate"}
  BY <1>4, <1>5 DEF Operations
<1>7. /\ p.where = ParseFilters(text).filters /\ p.hasOr = ParseFilters(text).hasOr
      /\ p.limit = Optional(a, "limit") /\ p.sort = Optional(a, "sort")
  BY <1>2, <1>4
<1>8. DOMAIN p.where \subseteq Int
  <2>1. DOMAIN p.where = DOMAIN SplitOnLogic(text)
    BY <1>7 DEF ParseFilters
  <2>2. \A t : DOMAIN SplitOnLogic(t) \subseteq Cuts(t) \cup {Len(t) + 1}
    BY DEF SplitOnLogic
  <2> QED BY <2>1, <2>2 DEF Cuts
<1> QED BY <1>3, <1>6, <1>7, <1>8, <1>9 DEF IsPlanOf, Sensible, a

(***************************************************************************)
(* A directive                                                             *)
(***************************************************************************)

DbInv ==
    /\ stored \in Stored
    /\ plan = Unparsed \/ plan = ParseQuery(args)
    /\ \E o \in Options :
          \/ \E w \in Wheres : asked = {w.says} /\ args = With(o, w.text)
          \/ \E t \in Odd : asked = {} /\ args = With(o, t)

LEMMA DirectivesGoOn ==
    (DbInit => DbInv) /\ (DbInv /\ [Parse]_dbVars => DbInv')
<1>1. DbInit => DbInv
  BY DEF DbInit, DbInv
<1>2. DbInv /\ Parse => DbInv'
  BY DEF DbInv, Parse
<1>3. DbInv /\ UNCHANGED dbVars => DbInv'
  BY DEF DbInv, dbVars
<1> QED BY <1>1, <1>2, <1>3

LEMMA PlannedIs ==
    ASSUME DbInv, Planned
    PROVE  Sensible(plan) /\ stored \in Seq(Range(stored))
<1>1. plan = ParseQuery(args)
  BY DEF DbInv, Planned, Unparsed
<1>2. \E o \in Options : \E t : args = With(o, t)
  BY DEF DbInv
<1>3. Sensible(plan)
  BY <1>1, <1>2, PlansAreSensible DEF Planned, IsPlanOf
<1> QED BY <1>3, DirectiveAssumption DEF DbInv

\* None of the differences between the two adapters applies.
Undivided(p) ==
    /\ p.hasOr \/ \A i, j \in DOMAIN p.where : p.where[i].field = p.where[j].field => i = j
    /\ p.limit # <<0>>
    /\ \A i \in DOMAIN p.columns : p.columns[i].field = p.columns[i].label
    /\ p.operation = "one" => p.columns = <<>>

LEMMA PlansAreAlike ==
    ASSUME DbInv
    PROVE  AdaptersAgree
<1>1. SUFFICES ASSUME NEW d \in Dialects, Planned, NumbersOnly, SortsAlike(d), Undivided(plan)
               PROVE  MongoAnswers(plan, stored) = SqlAnswers(plan, stored, d)
  BY DEF AdaptersAgree, Undivided
<1>2. ASSUME NEW k \in DOMAIN stored
      PROVE  /\ \A i \in DOMAIN plan.where : At(stored[k], plan.where[i].field)[1] = "number"
             /\ \A i \in DOMAIN plan.columns : plan.columns[i].field \in DOMAIN stored[k]
             /\ \A a \in plan.aggregations : a.func # "count" => At(stored[k], a.field)[1] = "number"
             /\ \A i \in DOMAIN plan.sort : NullsLow(d) \/ At(stored[k], plan.sort[i].field)[1] # "null"
  <2>0. stored[k] \in Range(stored)
    BY DEF Range
  <2>1. \A f \in Mentioned : f \in DOMAIN stored[k] /\ At(stored[k], f)[1] = "number"
    BY <1>1, <2>0 DEF NumbersOnly, At
  <2>2. /\ \A i \in DOMAIN plan.where : plan.where[i].field \in Mentioned
        /\ \A i \in DOMAIN plan.columns : plan.columns[i].field \in Mentioned
        /\ \A a \in plan.aggregations : a.func # "count" => a.field \in Mentioned
    BY DEF Mentioned
  <2>3. \A i \in DOMAIN plan.sort : NullsLow(d) \/ At(stored[k], plan.sort[i].field)[1] # "null"
    <3>1. TAKE i \in DOMAIN plan.sort
    <3>2. At(stored[k], plan.sort[i].field)[1] \in {"number"} \cup (IF NullsLow(d) THEN {"null"} ELSE {})
      BY <1>1, <2>0 DEF SortsAlike
    <3>3. "number" # "null"
      OBVIOUS
    <3> QED BY <3>2, <3>3
  <2> QED BY <2>1, <2>2, <2>3
<1>3. Common(plan, stored, NullsLow(d))
  BY <1>1, <1>2 DEF Common, NumbersOnly, Undivided, SortsAlike
<1> QED BY <1>1, <1>3, PlannedIs, AnswersAreAlike

\* Each database may return what the other may, even where a plan means
\* something else than the text says (mongodb.ts:65-139, sql-shared.ts:10-61):
\* for every text, option and table.
THEOREM AdaptersAlwaysAgree == DbSpec => []AdaptersAgree
<1>1. DbInv => AdaptersAgree
  BY PlansAreAlike
<1> QED BY <1>1, DirectivesGoOn, PTL DEF DbSpec

(***************************************************************************)
(* What the parser reads                                                   *)
(***************************************************************************)

LEMMA PartOfText ==
    ASSUME NEW s, NEW a \in Int, NEW b \in Int
    PROVE  /\ Len(SubSeq(s, a, b)) = IF a <= b THEN b - a + 1 ELSE 0
           /\ \A i \in 1..(b - a + 1) : SubSeq(s, a, b)[i] = s[a + i - 1]
<1> DEFINE S == { s[i] : i \in a..b }
<1>1. \A i \in a..b : s[i] \in S
  OBVIOUS
<1> HIDE DEF S
<1> QED BY <1>1, SubSeqProperties

\* Without its first and its last token.
LEMMA PartOfPart ==
    ASSUME NEW s, NEW a \in Int, NEW b \in Int, a < b
    PROVE  LET x == SubSeq(s, a, b) IN SubSeq(x, 2, Len(x) - 1) = SubSeq(s, a + 1, b - 1)
<1> DEFINE x == SubSeq(s, a, b)
           y == SubSeq(x, 2, Len(x) - 1)
           z == SubSeq(s, a + 1, b - 1)
           S == { s[i] : i \in a..b }
           m == b - a
<1>1. Len(x) = m + 1 /\ \A i \in 1..(m + 1) : x[i] = s[a + i - 1]
  BY PartOfText
<1>2. \A i \in a..b : s[i] \in S
  OBVIOUS
<1> HIDE DEF S
<1>3. z \in Seq(S) /\ Len(z) = m - 1 /\ \A i \in 1..(m - 1) : z[i] = s[a + i]
  <2>1. a + 1 \in Int /\ b - 1 \in Int /\ \A i \in (a + 1)..(b - 1) : s[i] \in S
    BY <1>2
  <2>2. z \in Seq(S)
    BY <2>1, SubSeqProperties
  <2>3. /\ Len(z) = IF a + 1 <= b - 1 THEN (b - 1) - (a + 1) + 1 ELSE 0
        /\ \A i \in 1..((b - 1) - (a + 1) + 1) : z[i] = s[(a + 1) + i - 1]
    BY <2>1, PartOfText
  <2>4. \A i \in 1..(m - 1) : i \in 1..((b - 1) - (a + 1) + 1) /\ (a + 1) + i - 1 = a + i
    OBVIOUS
  <2> HIDE DEF z
  <2> QED BY <2>2, <2>3, <2>4
<1> HIDE DEF x, z
<1>4. y \in Seq(S) /\ Len(y) = m - 1 /\ \A i \in 1..(m - 1) : y[i] = x[i + 1]
  <2>0. Len(x) - 1 = m /\ m \in Int
    BY <1>1
  <2>1. \A i \in 2..m : x[i] \in S
    <3>1. \A i \in 2..m : i \in 1..(m + 1) /\ a + i - 1 \in a..b
      OBVIOUS
    <3> QED BY <1>1, <1>2, <3>1
  <2> DEFINE v == SubSeq(x, 2, m)
  <2>2. v \in Seq(S)
    BY <2>0, <2>1, SubSeqProperties
  <2>3. Len(v) = (IF 2 <= m THEN m - 2 + 1 ELSE 0) /\ \A i \in 1..(m - 2 + 1) : v[i] = x[2 + i - 1]
    BY <2>0, PartOfText
  <2>4. \A i \in 1..(m - 1) : i \in 1..(m - 2 + 1) /\ 2 + i - 1 = i + 1
    OBVIOUS
  <2>5. y = v
    BY <2>0
  <2> HIDE DEF v, y
  <2> QED BY <2>2, <2>3, <2>4, <2>5
<1> HIDE DEF y
<1>5. \A i \in 1..(m - 1) : y[i] = z[i]
  <2>1. TAKE i \in 1..(m - 1)
  <2>2. i + 1 \in 1..(m + 1) /\ a + (i + 1) - 1 = a + i
    OBVIOUS
  <2> QED BY <1>1, <1>3, <1>4, <2>2
<1>6. y = z
  BY <1>3, <1>4, <1>5, SeqEqual
<1> QED BY <1>6 DEF x, y, z

\* The operators, and the marks that are none.
LEMMA OperatorsAre ==
    /\ DOMAIN Priority = 1..6 /\ Len(Priority) = 6
    /\ \A k \in 1..6 : Priority[k] \notin {"word", "(", ")"} \cup Links
    /\ \A k, l \in 1..6 : Priority[k] = Priority[l] => k = l
    /\ \A k, l \in 1..6 : <<Priority[l], Priority[k]>> \in {<<">=", ">">>, <<"<=", "<">>} => l < k
<1>1. DOMAIN Priority = 1..6 /\ Len(Priority) = 6
  BY DEF Priority
<1>2. 1..6 = {1, 2, 3, 4, 5, 6}
  OBVIOUS
<1>3. /\ Priority[1] = ">=" /\ Priority[2] = "<=" /\ Priority[3] = "!="
      /\ Priority[4] = "==" /\ Priority[5] = ">"  /\ Priority[6] = "<"
  BY DEF Priority
<1>4. \A k \in 1..6 : Priority[k] \notin {"word", "(", ")"} \cup Links
  BY <1>2, <1>3 DEF Links
<1>5. \A k, l \in 1..6 : Priority[k] = Priority[l] => k = l
  BY <1>2, <1>3
<1>6. \A k, l \in 1..6 : <<Priority[l], Priority[k]>> \in {<<">=", ">">>, <<"<=", "<">>} => l < k
  BY <1>2, <1>3
<1> QED BY <1>1, <1>4, <1>5, <1>6

\* The first position of a set of positions.
LEMMA FirstOfIs ==
    ASSUME NEW e, Len(e) \in Nat, NEW op, NEW m \in 1..Len(e), Shows(e[m], op),
           \A i \in 1..Len(e) : Shows(e[i], op) => m <= i
    PROVE  FirstOf(e, op) = m
<1> DEFINE at == { i \in 1..Len(e) : Shows(e[i], op) }
<1>1. at \in SUBSET Nat /\ m \in at /\ \A i \in at : m <= i
  OBVIOUS
<1>2. FirstOf(e, op) = Min(at)
  BY <1>1 DEF FirstOf
<1> HIDE DEF at
<1>3. Min(at) \in at /\ \A k \in at : Min(at) <= k
  BY <1>1, MinOf
<1>4. Min(at) <= m /\ m <= Min(at) /\ Min(at) \in Nat /\ m \in Nat
  BY <1>1, <1>3
<1> QED BY <1>2, <1>4

LEMMA NoneShows ==
    ASSUME NEW e, NEW op, \A i \in 1..Len(e) : ~ Shows(e[i], op)
    PROVE  FirstOf(e, op) = 0
BY DEF FirstOf

\* No operator is found before that of the condition.
PlainCondition(c) ==
    \A i \in 3..Len(c) : \A op \in Above(c[2].is) : ~ Shows(c[i], op)

\* A condition is read as what it means.
LEMMA ConditionIsRead ==
    ASSUME NEW c, IsCondition(c), PlainCondition(c)
    PROVE  ParseOneFilter(c) = Means(c)
<1> DEFINE op == c[2].is
           n == Len(c)
<1>1. n \in Nat /\ n >= 2 /\ c[1].is = "word"
  <2> DEFINE S == Range(c)
  <2>1. c \in Seq(S)
    BY DEF IsCondition
  <2> HIDE DEF S
  <2> QED BY <2>1 DEF IsCondition
<1>2. PICK k \in 1..6 : Priority[k] = op
  BY OperatorsAre DEF IsCondition, Range
<1>3. \A l \in 1..6 : ~ Shows(c[1], Priority[l])
  <2>1. TAKE l \in 1..6
  <2>2. Priority[l] # "word"
    BY OperatorsAre
  <2>3. <<"word", Priority[l]>> \notin {<<">=", ">">>, <<"<=", "<">>}
    OBVIOUS
  <2> QED BY <1>1, <2>2, <2>3 DEF Shows
<1>4. FirstOf(c, op) = 2
  <2>1. Shows(c[2], op)
    BY DEF Shows
  <2>2. \A i \in 1..n : Shows(c[i], op) => 2 <= i
    <3>1. TAKE i \in 1..n
    <3>2. i = 1 \/ 2 <= i
      OBVIOUS
    <3> QED BY <1>2, <1>3, <3>2
  <2>3. 2 \in 1..n
    BY <1>1
  <2> HIDE DEF op
  <2> QED BY <1>1, <2>1, <2>2, <2>3, FirstOfIs
<1>5. ASSUME NEW l \in 1..6, l < k
      PROVE  FirstOf(c, Priority[l]) = 0
  <2>1. Priority[l] \in Above(op)
    <3>1. \A j \in 1..6 : Priority[j] = op => l < j
      BY <1>2, <1>5, OperatorsAre
    <3> HIDE DEF op
    <3> QED BY <3>1, OperatorsAre DEF Above
  <2>2. ~ Shows(c[2], Priority[l])
    <3>1. Priority[l] # op
      BY <1>2, <1>5, OperatorsAre
    <3>2. <<op, Priority[l]>> \notin {<<">=", ">">>, <<"<=", "<">>}
      BY <1>2, <1>5, OperatorsAre
    <3> QED BY <3>1, <3>2 DEF Shows
  <2>3. \A i \in 1..n : ~ Shows(c[i], Priority[l])
    <3>1. TAKE i \in 1..n
    <3>2. i = 1 \/ i = 2 \/ i \in 3..n
      OBVIOUS
    <3>3. i \in 3..n => ~ Shows(c[i], Priority[l])
      BY <2>1 DEF PlainCondition
    <3> QED BY <1>3, <2>2, <3>2, <3>3
  <2> QED BY <2>3, NoneShows
<1>6. Min(Usable(c)) = k /\ Usable(c) # {}
  <2> DEFINE U == Usable(c)
  <2>1. U \in SUBSET Nat /\ U \subseteq 1..6
    BY OperatorsAre DEF Usable
  <2>2. k \in U
    BY <1>2, <1>4, OperatorsAre DEF Usable
  <2>3. \A l \in U : k <= l
    <3>1. TAKE l \in U
    <3>2. FirstOf(c, Priority[l]) > 1 /\ l \in 1..6
      BY <2>1 DEF Usable
    <3>3. ~ (0 > 1)
      OBVIOUS
    <3>4. ~ (l < k)
      BY <1>5, <3>2, <3>3
    <3> QED BY <2>1, <3>4
  <2> HIDE DEF U
  <2>4. Min(U) \in U /\ \A j \in U : Min(U) <= j
    BY <2>1, <2>2, MinOf
  <2>5. Min(U) <= k /\ k <= Min(U) /\ Min(U) \in Nat /\ k \in Nat
    BY <2>1, <2>2, <2>3, <2>4
  <2>6. Min(U) = k
    BY ONLY <2>5
  <2> QED BY <2>2, <2>6 DEF U
<1>7. ParseOneFilter(c) = [field |-> Name(SubSeq(c, 1, 2 - 1)), op |-> op,
                          value |-> InferValue(SubSeq(c, 2 + 1, n))]
  <2>1. Priority[Min(Usable(c))] = op
    BY <1>2, <1>6
  <2> HIDE DEF op
  <2> QED BY <1>4, <1>6, <2>1, Zenon DEF ParseOneFilter
<1>8. 2 - 1 = 1 /\ 2 + 1 = 3
  OBVIOUS
<1> QED BY <1>7, <1>8 DEF Means

(***************************************************************************)
(* Where the conditions of a text stand                                    *)
(***************************************************************************)

Laid(t, w, n) ==
    /\ w \in Seq(Range(w)) /\ Len(w) = n /\ DOMAIN w = 1..n
    /\ Len(t) = IF n = 0 THEN 0 ELSE w[n].to
    /\ \A i \in 1..n :
          /\ w[i].from \in Nat /\ w[i].to \in Nat /\ w[i].bracketed \in BOOLEAN
          /\ IsCondition(w[i].condition)
          /\ w[i].from = IF i = 1 THEN 1 ELSE w[i - 1].to + 2
          /\ First(w[i]) \in Nat /\ Final(w[i]) \in Nat
          /\ SubSeq(t, First(w[i]), Final(w[i])) = w[i].condition
          /\ w[i].bracketed => t[w[i].from].is = "(" /\ t[w[i].to].is = ")"
          /\ i < n => t[w[i].to + 1].is = w[i].then /\ w[i].then \in Links

LEMMA WheresAreLaid ==
    ASSUME NEW w \in Wheres
    PROVE  \E n \in Nat : Laid(w.text, w.says, n)
<1> DEFINE S == [condition : Conditions, from : Nat, to : Nat,
                 bracketed : BOOLEAN, then : Links \cup {"end"}]
           v == w.says
           t == w.text
           n == Len(v)
<1>1. v \in Seq(S) /\ (\A i \in DOMAIN v : v[i].then = "end" <=> i = n) /\ Spells(t, v)
  BY DirectiveAssumption
<1>2. n \in Nat /\ DOMAIN v = 1..n /\ \A i \in 1..n : v[i] \in S
  <2> HIDE DEF S, v
  <2> QED BY <1>1
<1>3. \A i \in 1..n : /\ v[i].condition \in Conditions /\ v[i].then \in Links \cup {"end"}
                      /\ v[i].from \in Nat /\ v[i].to \in Nat /\ v[i].bracketed \in BOOLEAN
  BY <1>2
<1>4. v \in Seq(Range(v)) /\ (v = <<>> <=> n = 0)
  <2>1. \A i \in 1..n : v[i] \in Range(v)
    BY <1>2 DEF Range
  <2>2. v \in [1..n -> S]
    <3> HIDE DEF S, v
    <3> QED BY <1>1 DEF n
  <2> HIDE DEF S
  <2>3. v = [i \in 1..n |-> v[i]]
    BY <2>2
  <2> DEFINE R == Range(v)
  <2>4. v \in [1..n -> R]
    <3> HIDE DEF R, v
    <3> QED BY <2>1, <2>3 DEF R
  <2>5. v \in Seq(R)
    <3> HIDE DEF R, v
    <3> QED BY <1>2, <2>4
  <2>6. v = <<>> <=> n = 0
    <3> HIDE DEF R, v
    <3> QED BY <2>5, EmptySeq DEF n
  <2> QED BY <2>5, <2>6
<1> HIDE DEF S, v, t, n
<1>5. /\ Len(t) = IF n = 0 THEN 0 ELSE v[n].to
      /\ \A i \in 1..n :
            /\ v[i].from = IF i = 1 THEN 1 ELSE v[i - 1].to + 2
            /\ First(v[i]) \in Nat /\ Final(v[i]) \in Nat
            /\ SubSeq(t, First(v[i]), Final(v[i])) = v[i].condition
            /\ v[i].bracketed => t[v[i].from].is = "(" /\ t[v[i].to].is = ")"
            /\ i < n => t[v[i].to + 1].is = v[i].then
  BY <1>1, <1>2, <1>4 DEF Spells, n
<1>6. \A i \in 1..n : IsCondition(v[i].condition)
  BY <1>3, DirectiveAssumption
<1>7. \A i \in 1..n : i < n => v[i].then \in Links
  <2>1. TAKE i \in 1..n
  <2>2. i < n => i # n
    OBVIOUS
  <2> QED BY <1>1, <1>2, <1>3, <2>2
<1>8. Laid(t, v, n)
  BY <1>2, <1>3, <1>4, <1>5, <1>6, <1>7 DEF Laid, n
<1> QED BY <1>2, <1>8 DEF t, v

\* How far a condition reaches.
Extent(t, s) ==
    /\ s.from \in Nat /\ s.to \in Nat /\ First(s) \in Nat /\ Final(s) \in Nat
    /\ s.from <= First(s) /\ First(s) < Final(s) /\ Final(s) <= s.to
    /\ s.bracketed => First(s) = s.from + 1 /\ Final(s) = s.to - 1
    /\ ~ s.bracketed => First(s) = s.from /\ Final(s) = s.to
    /\ Len(s.condition) = Final(s) - First(s) + 1
    /\ \A p \in First(s)..Final(s) : t[p] = s.condition[p - First(s) + 1]

LEMMA ExtentIs ==
    ASSUME NEW t, NEW w, NEW n \in Nat, Laid(t, w, n), NEW i \in 1..n
    PROVE  Extent(t, w[i])
<1> DEFINE s == w[i]
           a == First(s)
           b == Final(s)
           c == s.condition
<1>1. /\ s.from \in Nat /\ s.to \in Nat /\ s.bracketed \in BOOLEAN /\ a \in Nat /\ b \in Nat
      /\ SubSeq(t, a, b) = c /\ IsCondition(c)
  BY DEF Laid
<1>2. /\ s.bracketed => a = s.from + 1 /\ b = s.to - 1
      /\ ~ s.bracketed => a = s.from /\ b = s.to
  BY DEF First, Final
<1> HIDE DEF s, a, b, c
<1>3. /\ Len(c) = IF a <= b THEN b - a + 1 ELSE 0
      /\ \A k \in 1..(b - a + 1) : c[k] = t[a + k - 1]
  <2>1. a \in Int /\ b \in Int
    BY <1>1
  <2> QED BY <1>1, <2>1, PartOfText
<1>4. Len(c) >= 2
  BY <1>1 DEF IsCondition
<1>5. a < b /\ Len(c) = b - a + 1
  BY <1>1, <1>3, <1>4
<1>6. \A p \in a..b : t[p] = c[p - a + 1]
  <2>1. TAKE p \in a..b
  <2>2. p - a + 1 \in 1..(b - a + 1) /\ a + (p - a + 1) - 1 = p
    BY <1>1
  <2> QED BY <1>3, <2>2
<1>7. s.from <= a /\ b <= s.to
  BY <1>1, <1>2
<1>8. Extent(t, s)
  BY <1>1, <1>2, <1>5, <1>6, <1>7 DEF Extent, a, b, c
<1> QED BY <1>8 DEF s

LEMMA InOrder ==
    ASSUME NEW t, NEW w, NEW n \in Nat, Laid(t, w, n)
    PROVE  /\ \A i, j \in 1..n : i < j => w[i].to + 2 <= w[j].from
           /\ \A i \in 1..n : w[i].from < w[i].to /\ w[i].to <= Len(t) /\ 1 <= w[i].from
<1>1. \A i \in 1..n : w[i].from \in Nat /\ w[i].to \in Nat /\ w[i].from < w[i].to
  <2>1. TAKE i \in 1..n
  <2> DEFINE s == w[i]
  <2>2. Extent(t, s)
    BY ExtentIs
  <2> HIDE DEF s
  <2>3. s.from \in Nat /\ s.to \in Nat /\ s.from < s.to
    BY <2>2 DEF Extent
  <2> QED BY <2>3 DEF s
<1>2. ASSUME NEW i \in 1..n, i < n
      PROVE  \A j \in (i + 1)..n : w[i].to + 2 <= w[j].from
  <2> DEFINE J == { j \in Nat : w[i].to + 2 <= w[j].from }
  <2>1. i + 1 \in J
    <3>1. i + 1 \in 1..n /\ i + 1 # 1 /\ (i + 1) - 1 = i
      BY <1>2
    <3>2. w[i + 1].from = w[i].to + 2
      BY <3>1 DEF Laid
    <3> QED BY <1>1, <3>1, <3>2
  <2>2. ASSUME NEW j \in (i + 1)..n, j < n, j \in J
        PROVE  j + 1 \in J
    <3>1. j + 1 \in 1..n /\ j + 1 # 1 /\ (j + 1) - 1 = j /\ j \in 1..n
      BY <2>2
    <3>2. w[j + 1].from = w[j].to + 2
      BY <3>1 DEF Laid
    <3>3. w[i].to + 2 <= w[j].from /\ w[j].from < w[j].to
      BY <1>1, <2>2, <3>1
    <3> QED BY <1>1, <3>1, <3>2, <3>3
  <2> HIDE DEF J
  <2>3. \A j \in (i + 1)..n : j \in J
    BY <2>1, <2>2, HandedFrom
  <2> QED BY <2>3 DEF J
<1>3. \A i, j \in 1..n : i < j => w[i].to + 2 <= w[j].from
  <2>1. TAKE i, j \in 1..n
  <2>2. i < j => i < n /\ j \in (i + 1)..n
    OBVIOUS
  <2> QED BY <1>2, <2>2
<1>4. ASSUME NEW i \in 1..n PROVE w[i].to <= Len(t)
  <2>1. Len(t) = w[n].to /\ n \in 1..n
    BY DEF Laid
  <2>2. CASE i = n
    BY <1>1, <2>1, <2>2
  <2>3. CASE i # n
    <3>1. w[i].to + 2 <= w[n].from /\ w[n].from < w[n].to
      BY <1>1, <1>3, <2>1, <2>3
    <3> QED BY <1>1, <2>1, <3>1
  <2> QED BY <2>2, <2>3
<1>5. ASSUME NEW i \in 1..n PROVE 1 <= w[i].from
  <2>1. CASE i = 1
    BY <2>1 DEF Laid
  <2>2. CASE i # 1
    <3>1. i - 1 \in 1..n /\ w[i].from = w[i - 1].to + 2
      BY <2>2 DEF Laid
    <3> QED BY <1>1, <3>1
  <2> QED BY <2>1, <2>2
<1> QED BY <1>1, <1>3, <1>4, <1>5

\* Every token belongs to a condition or stands between two.
LEMMA AllCovered ==
    ASSUME NEW t, NEW w, NEW n \in Nat, Laid(t, w, n), NEW p \in 1..Len(t)
    PROVE  \/ \E i \in 1..n : p \in w[i].from..w[i].to
           \/ \E i \in 1..n : i < n /\ p = w[i].to + 1
<1> DEFINE P(q) == \/ \E i \in 1..n : q \in w[i].from..w[i].to
                   \/ \E i \in 1..n : i < n /\ q = w[i].to + 1
           J == { q \in Nat : P(q) }
           m == Len(t)
<1>0. n # 0 /\ m = w[n].to
  BY DEF Laid
<1>1. \A i \in 1..n : w[i].from \in Nat /\ w[i].to \in Nat /\ w[i].from < w[i].to
  <2>1. \A i \in 1..n : w[i].from < w[i].to
    BY InOrder
  <2>2. \A i \in 1..n : w[i].from \in Nat /\ w[i].to \in Nat
    BY DEF Laid
  <2> QED BY <2>1, <2>2
<1>2. m \in Nat
  BY <1>0, <1>1
<1>3. 1 \in J
  <2>1. 1 \in 1..n /\ w[1].from = 1
    BY <1>0 DEF Laid
  <2>2. 1 \in w[1].from..w[1].to
    BY <1>1, <2>1
  <2> QED BY <2>1, <2>2
<1>4. ASSUME NEW q \in 1..m, q < m, q \in J
      PROVE  q + 1 \in J
  <2>1. CASE \E i \in 1..n : q \in w[i].from..w[i].to
    <3>1. PICK i \in 1..n : q \in w[i].from..w[i].to
      BY <2>1
    <3>2. CASE q = w[i].to
      <4>1. i # n
        BY <1>0, <1>1, <1>4, <3>2
      <4>2. i < n /\ q + 1 = w[i].to + 1
        BY <3>2, <4>1
      <4> QED BY <4>2
    <3>3. CASE q # w[i].to
      <4>1. q + 1 \in w[i].from..w[i].to
        BY <1>1, <3>1, <3>3
      <4> QED BY <4>1
    <3> QED BY <3>2, <3>3
  <2>2. CASE \E i \in 1..n : i < n /\ q = w[i].to + 1
    <3>1. PICK i \in 1..n : i < n /\ q = w[i].to + 1
      BY <2>2
    <3>2. i + 1 \in 1..n /\ i + 1 # 1 /\ (i + 1) - 1 = i
      BY <3>1
    <3>3. w[i + 1].from = w[i].to + 2
      BY <3>2 DEF Laid
    <3>4. q + 1 \in w[i + 1].from..w[i + 1].to
      <4> DEFINE s == w[i + 1]
      <4>1. s.from \in Nat /\ s.to \in Nat /\ s.from < s.to /\ s.from = w[i].to + 2 /\ w[i].to \in Nat
        BY <1>1, <3>2, <3>3
      <4> HIDE DEF s
      <4>3. q = w[i].to + 1
        BY <3>1
      <4>4. q + 1 = s.from
        BY ONLY <4>1, <4>3
      <4>5. s.from \in s.from..s.to
        BY ONLY <4>1
      <4>2. q + 1 \in s.from..s.to
        BY <4>4, <4>5
      <4> QED BY <4>2 DEF s
    <3> QED BY <3>2, <3>4
  <2> QED BY <1>4, <2>1, <2>2
<1> HIDE DEF J, m
<1>5. \A q \in 1..m : q \in J
  BY <1>2, <1>3, <1>4, HandedFrom
<1>6. p \in J
  BY <1>5 DEF m
<1> QED BY <1>6 DEF J

\* A position is inside one condition at most.
LEMMA Apart ==
    ASSUME NEW t, NEW w, NEW n \in Nat, Laid(t, w, n), NEW i \in 1..n, NEW j \in 1..n,
           NEW q \in w[i].from..(w[i].to + 2), w[j].from < q, q <= w[j].to
    PROVE  j = i
<1>1. w[i].from \in Nat /\ w[i].to \in Nat /\ w[j].from \in Nat /\ w[j].to \in Nat
  BY DEF Laid
<1>2. (i < j => w[i].to + 2 <= w[j].from) /\ (j < i => w[j].to + 2 <= w[i].from)
  BY InOrder
<1>3. ~ (i < j)
  BY <1>1, <1>2
<1>4. ~ (j < i)
  BY <1>1, <1>2
<1> QED BY <1>3, <1>4

Within(w, n, p) == \E i \in 1..n : w[i].bracketed /\ w[i].from < p /\ p <= w[i].to

LEMMA WithinIs ==
    ASSUME NEW t, NEW w, NEW n \in Nat, Laid(t, w, n), NEW i \in 1..n,
           NEW q \in w[i].from..(w[i].to + 2)
    PROVE  Within(w, n, q) <=> (w[i].bracketed /\ w[i].from < q /\ q <= w[i].to)
<1>1. ASSUME Within(w, n, q)
      PROVE  w[i].bracketed /\ w[i].from < q /\ q <= w[i].to
  <2>1. PICK j \in 1..n : w[j].bracketed /\ w[j].from < q /\ q <= w[j].to
    BY <1>1 DEF Within
  <2>2. j = i
    BY <2>1, Apart
  <2> QED BY <2>1, <2>2
<1> QED BY <1>1 DEF Within

\* The marks of a condition count for nothing.
LEMMA ConditionsArePlain ==
    ASSUME NEW t, NEW w, NEW n \in Nat, Laid(t, w, n), NEW i \in 1..n, Plain(w[i])
    PROVE  /\ \A p \in First(w[i])..Final(w[i]) :
                 t[p].is \notin {"(", ")"} /\ (t[p].is \in Links => w[i].bracketed)
           /\ PlainCondition(w[i].condition)
<1> DEFINE s == w[i]
           c == s.condition
           m == Len(c)
<1>1. Extent(t, s)
  BY ExtentIs
<1>2. IsCondition(c)
  BY DEF Laid
<1>3. \A k \in 3..m : /\ c[k].is \notin {"(", ")"}
                      /\ \A op \in Above(c[2].is) : ~ Shows(c[k], op)
                      /\ c[k].is \in Links => s.bracketed
  BY DEF Plain
<1> HIDE DEF s, c, m
<1>4. c[1].is = "word" /\ c[2].is \in Range(Priority)
  BY <1>2 DEF IsCondition
<1>5. "word" \notin {"(", ")"} \cup Links
  BY DEF Links
<1>6. c[2].is \notin {"(", ")"} \cup Links
  <2>1. PICK k \in 1..6 : Priority[k] = c[2].is
    BY <1>4, OperatorsAre DEF Range
  <2> QED BY <2>1, OperatorsAre
<1>7. m \in Nat
  <2>1. Len(s.condition) = Final(s) - First(s) + 1 /\ First(s) \in Nat /\ Final(s) \in Nat
        /\ First(s) < Final(s)
    BY <1>1 DEF Extent
  <2> DEFINE a == First(s)
             b == Final(s)
             l == Len(s.condition)
  <2>2. l = b - a + 1 /\ a \in Nat /\ b \in Nat /\ a < b
    BY <2>1
  <2> HIDE DEF a, b, l
  <2>3. l \in Nat
    BY <2>2
  <2> QED BY <2>3 DEF l, m, c
<1>7a. \A k \in 1..m : c[k].is \notin {"(", ")"} /\ (c[k].is \in Links => s.bracketed)
  <2>2. TAKE k \in 1..m
  <2>3. k = 1 \/ k = 2 \/ k \in 3..m
    BY <1>7
  <2>4. CASE k = 1
    BY <1>4, <1>5, <2>4
  <2>5. CASE k = 2
    BY <1>6, <2>5
  <2>6. CASE k \in 3..m
    BY <1>3, <2>6
  <2> QED BY <2>3, <2>4, <2>5, <2>6
<1>8. \A p \in First(s)..Final(s) : t[p].is \notin {"(", ")"} /\ (t[p].is \in Links => s.bracketed)
  <2>1. TAKE p \in First(s)..Final(s)
  <2>2. t[p] = c[p - First(s) + 1] /\ m = Final(s) - First(s) + 1
        /\ First(s) \in Nat /\ Final(s) \in Nat
    BY <1>1 DEF Extent, c, m
  <2>3. p - First(s) + 1 \in 1..m
    BY <2>2
  <2> QED BY <1>7a, <2>2, <2>3
<1>9. PlainCondition(c)
  BY <1>3 DEF PlainCondition, m
<1> QED BY <1>8, <1>9 DEF s, c

LEMMA CountsAre ==
    ASSUME NEW t, NEW k
    PROVE  /\ CountBefore(t, 1, k) = 0
           /\ \A p \in Nat \ {0} :
                 /\ CountBefore(t, p, k) \in Nat
                 /\ CountBefore(t, p + 1, k) = CountBefore(t, p, k) + (IF t[p].is = k THEN 1 ELSE 0)
<1> DEFINE S(p) == { i \in 1..(p - 1) : t[i].is = k }
<1>1. \A p : CountBefore(t, p, k) = Cardinality(S(p))
  BY DEF CountBefore
<1>2. S(1) = {}
  OBVIOUS
<1>3. ASSUME NEW p \in Nat \ {0}
      PROVE  IsFiniteSet(S(p)) /\ Cardinality(S(p)) \in Nat
  <2> DEFINE I == 1..(p - 1)
  <2>1. IsFiniteSet(I)
    <3>1. 1 \in Int /\ p - 1 \in Int
      OBVIOUS
    <3> QED BY <3>1, FS_Interval
  <2>2. S(p) \in SUBSET I
    OBVIOUS
  <2> HIDE DEF I, S
  <2>3. IsFiniteSet(S(p))
    BY <2>1, <2>2, FS_Subset
  <2> QED BY <2>3, FS_CardinalityType
<1>4. ASSUME NEW p \in Nat \ {0}
      PROVE  Cardinality(S(p + 1)) = Cardinality(S(p)) + (IF t[p].is = k THEN 1 ELSE 0)
  <2>1. S(p + 1) = IF t[p].is = k THEN S(p) \cup {p} ELSE S(p)
    <3>1. \A i : i \in 1..((p + 1) - 1) <=> (i \in 1..(p - 1) \/ i = p)
      OBVIOUS
    <3> QED BY <3>1
  <2>2. p \notin S(p)
    OBVIOUS
  <2> HIDE DEF S
  <2>3. Cardinality(S(p) \cup {p}) = Cardinality(S(p)) + 1
    BY <1>3, <2>2, FS_AddElement
  <2> QED BY <1>3, <2>1, <2>3
<1>5. Cardinality(S(1)) = 0
  BY <1>2, FS_EmptySet
<1> HIDE DEF S
<1> QED BY <1>1, <1>3, <1>4, <1>5

LEMMA DepthsAre ==
    ASSUME NEW t
    PROVE  /\ Depth(t, 1) = 0
           /\ \A p \in Nat \ {0} :
                 /\ Depth(t, p) \in Int
                 /\ t[p].is = "(" => Depth(t, p + 1) = Depth(t, p) + 1
                 /\ t[p].is = ")" => Depth(t, p + 1) = Depth(t, p) - 1
                 /\ t[p].is \notin {"(", ")"} => Depth(t, p + 1) = Depth(t, p)
<1> DEFINE o == "("
           c == ")"
<1>1. o # c
  OBVIOUS
<1> HIDE DEF o, c
<1>2. \A p : Depth(t, p) = CountBefore(t, p, o) - CountBefore(t, p, c)
  BY DEF Depth, o, c
<1>3. CountBefore(t, 1, o) = 0 /\ CountBefore(t, 1, c) = 0
  BY CountsAre
<1>4. ASSUME NEW p \in Nat \ {0}
      PROVE  /\ Depth(t, p) \in Int
             /\ t[p].is = o => Depth(t, p + 1) = Depth(t, p) + 1
             /\ t[p].is = c => Depth(t, p + 1) = Depth(t, p) - 1
             /\ t[p].is \notin {o, c} => Depth(t, p + 1) = Depth(t, p)
  <2>1. /\ CountBefore(t, p, o) \in Nat
        /\ CountBefore(t, p + 1, o) = CountBefore(t, p, o) + (IF t[p].is = o THEN 1 ELSE 0)
    BY CountsAre
  <2>2. /\ CountBefore(t, p, c) \in Nat
        /\ CountBefore(t, p + 1, c) = CountBefore(t, p, c) + (IF t[p].is = c THEN 1 ELSE 0)
    BY CountsAre
  <2> QED BY <1>1, <1>2, <2>1, <2>2
<1>5. Depth(t, 1) = 0
  BY <1>2, <1>3
<1> QED BY <1>4, <1>5 DEF o, c

\* Outside the conditions in parentheses none is open, inside one is.
LEMMA DepthIs ==
    ASSUME NEW t, NEW w, NEW n \in Nat, Laid(t, w, n), \A i \in 1..n : Plain(w[i]),
           NEW p \in 1..Len(t)
    PROVE  Depth(t, p) = IF Within(w, n, p) THEN 1 ELSE 0
<1> DEFINE m == Len(t)
           J == { q \in Nat : Depth(t, q) = IF Within(w, n, q) THEN 1 ELSE 0 }
<1>0. n # 0 /\ m = w[n].to /\ m \in Nat
  BY DEF Laid
<1>1. \A i \in 1..n : w[i].from \in Nat /\ w[i].to \in Nat /\ w[i].from < w[i].to /\ 1 <= w[i].from
  <2>1. \A i \in 1..n : w[i].from < w[i].to /\ 1 <= w[i].from
    BY InOrder
  <2>2. \A i \in 1..n : w[i].from \in Nat /\ w[i].to \in Nat
    BY DEF Laid
  <2> QED BY <2>1, <2>2
<1>2. 1 \in J
  <2>1. ~ Within(w, n, 1)
    BY <1>1 DEF Within
  <2> QED BY <2>1, DepthsAre
<1>3. ASSUME NEW q \in 1..m, q < m, q \in J
      PROVE  q + 1 \in J
  <2>0. q \in Nat \ {0} /\ q + 1 \in Nat
    BY <1>0
  <2>1. Depth(t, q) = IF Within(w, n, q) THEN 1 ELSE 0
    BY <1>3
  <2>2. SUFFICES Depth(t, q + 1) = IF Within(w, n, q + 1) THEN 1 ELSE 0
    BY <2>0
  <2>3. CASE \E i \in 1..n : q \in w[i].from..w[i].to
    <3>1. PICK i \in 1..n : q \in w[i].from..w[i].to
      BY <2>3
    <3> DEFINE s == w[i]
    <3>2. s.from \in Nat /\ s.to \in Nat /\ s.from < s.to
      BY <1>1
    <3>3. q \in s.from..(s.to + 2) /\ q + 1 \in s.from..(s.to + 2)
      <4> DEFINE a == s.from
                 b == s.to
      <4>1. q \in a..b /\ a \in Nat /\ b \in Nat
        BY <3>1, <3>2
      <4> HIDE DEF a, b
      <4>2. q \in a..(b + 2) /\ q + 1 \in a..(b + 2)
        BY ONLY <4>1
      <4> QED BY ONLY <4>2 DEF a, b
    <3>4. Within(w, n, q) <=> (s.bracketed /\ s.from < q /\ q <= s.to)
      BY <3>3, WithinIs
    <3>5. Within(w, n, q + 1) <=> (s.bracketed /\ s.from < q + 1 /\ q + 1 <= s.to)
      BY <3>3, WithinIs
    <3>6. Extent(t, s)
      BY ExtentIs
    <3>7. s.bracketed => t[s.from].is = "(" /\ t[s.to].is = ")"
      BY DEF Laid
    <3>8. \A k \in First(s)..Final(s) : t[k].is \notin {"(", ")"}
      BY ConditionsArePlain
    <3>9. q \in s.from..s.to
      BY <3>1
    <3> HIDE DEF s
    <3>10. CASE s.bracketed /\ q = s.from
      <4>1. Depth(t, q + 1) = Depth(t, q) + 1
        BY <2>0, <3>7, <3>10, DepthsAre
      <4>2. ~ Within(w, n, q) /\ Within(w, n, q + 1)
        BY <3>2, <3>4, <3>5, <3>10
      <4> QED BY <2>1, <4>1, <4>2
    <3>11. CASE s.bracketed /\ q = s.to
      <4>1. Depth(t, q + 1) = Depth(t, q) - 1
        BY <2>0, <3>7, <3>11, DepthsAre
      <4>2. Within(w, n, q) /\ ~ Within(w, n, q + 1)
        BY <3>2, <3>4, <3>5, <3>11
      <4> QED BY <2>1, <4>1, <4>2
    <3>12. CASE ~ s.bracketed \/ (q # s.from /\ q # s.to)
      <4>1. q \in First(s)..Final(s)
        <5> DEFINE a == s.from
                   b == s.to
                   x == First(s)
                   y == Final(s)
        <5>1. /\ a \in Nat /\ b \in Nat /\ x \in Nat /\ y \in Nat /\ q \in a..b
              /\ s.bracketed => x = a + 1 /\ y = b - 1
              /\ ~ s.bracketed => x = a /\ y = b
              /\ ~ s.bracketed \/ (q # a /\ q # b)
          BY <3>2, <3>6, <3>9, <3>12 DEF Extent
        <5> HIDE DEF a, b, x, y
        <5>2. CASE s.bracketed
          <6>1. x = a + 1 /\ y = b - 1 /\ q # a /\ q # b
            BY <5>1, <5>2
          <6>2. q \in x..y
            BY <5>1, <6>1
          <6> QED BY <6>2 DEF x, y
        <5>3. CASE ~ s.bracketed
          <6>1. x = a /\ y = b
            BY <5>1, <5>3
          <6>2. q \in x..y
            BY <5>1, <6>1
          <6> QED BY <6>2 DEF x, y
        <5> QED BY <5>2, <5>3
      <4>2. Depth(t, q + 1) = Depth(t, q)
        BY <2>0, <3>8, <4>1, DepthsAre
      <4>3. Within(w, n, q) <=> Within(w, n, q + 1)
        <5>1. CASE ~ s.bracketed
          BY <3>4, <3>5, <5>1
        <5>2. CASE s.bracketed /\ q # s.from /\ q # s.to
          <6>1. s.from < q /\ q <= s.to /\ s.from < q + 1 /\ q + 1 <= s.to
            BY <3>2, <3>9, <5>2
          <6> QED BY <3>4, <3>5, <5>2, <6>1
        <5> QED BY <3>12, <5>1, <5>2
      <4> QED BY <2>1, <4>2, <4>3
    <3> QED BY <3>10, <3>11, <3>12
  <2>4. CASE \E i \in 1..n : i < n /\ q = w[i].to + 1
    <3>1. PICK i \in 1..n : i < n /\ q = w[i].to + 1
      BY <2>4
    <3> DEFINE s == w[i]
    <3>2. s.from \in Nat /\ s.to \in Nat /\ s.from < s.to /\ q = s.to + 1
      BY <1>1, <3>1
    <3>3. q \in s.from..(s.to + 2) /\ q + 1 \in s.from..(s.to + 2) /\ ~ (q <= s.to) /\ ~ (q + 1 <= s.to)
      <4> DEFINE a == s.from
                 b == s.to
      <4>1. a \in Nat /\ b \in Nat /\ a < b /\ q = b + 1
        BY <3>2
      <4> HIDE DEF a, b
      <4>2. b + 1 \in a..(b + 2) /\ (b + 1) + 1 \in a..(b + 2) /\ ~ (b + 1 <= b) /\ ~ ((b + 1) + 1 <= b)
        BY ONLY <4>1
      <4>3. q \in a..(b + 2) /\ q + 1 \in a..(b + 2) /\ ~ (q <= b) /\ ~ (q + 1 <= b)
        BY ONLY <4>1, <4>2
      <4> QED BY ONLY <4>3 DEF a, b
    <3>4. ~ Within(w, n, q)
      BY <3>3, WithinIs
    <3>5. ~ Within(w, n, q + 1)
      BY <3>3, WithinIs
    <3>6. t[q].is \in Links
      BY <3>1 DEF Laid
    <3>7. t[q].is \notin {"(", ")"}
      BY <3>6 DEF Links
    <3>8. Depth(t, q + 1) = Depth(t, q)
      BY <2>0, <3>7, DepthsAre
    <3> QED BY <2>1, <3>4, <3>5, <3>8
  <2>5. q \in 1..Len(t)
    BY <1>3
  <2> QED BY <2>3, <2>4, <2>5, AllCovered
<1> HIDE DEF J, m
<1>4. \A q \in 1..m : q \in J
  BY <1>0, <1>2, <1>3, HandedFrom
<1>5. p \in J
  BY <1>4 DEF m
<1> QED BY <1>5 DEF J

\* The parser cuts between two conditions and nowhere else.
LEMMA CutsAre ==
    ASSUME NEW t, NEW w, NEW n \in Nat, Laid(t, w, n), \A i \in 1..n : Plain(w[i])
    PROVE  \A p : p \in Cuts(t) <=> \E i \in 1..n : i < n /\ p = w[i].to + 1
<1>0. \A i \in 1..n : w[i].from \in Nat /\ w[i].to \in Nat /\ w[i].from < w[i].to /\ w[i].to <= Len(t)
  <2>1. \A i \in 1..n : w[i].from < w[i].to /\ w[i].to <= Len(t)
    BY InOrder
  <2>2. \A i \in 1..n : w[i].from \in Nat /\ w[i].to \in Nat
    BY DEF Laid
  <2> QED BY <2>1, <2>2
<1>1. ASSUME NEW i \in 1..n, i < n
      PROVE  w[i].to + 1 \in Cuts(t)
  <2> DEFINE p == w[i].to + 1
  <2>1. p \in 1..Len(t)
    <3>1. i + 1 \in 1..n /\ i < i + 1
      BY <1>1
    <3>2. w[i].to + 2 <= w[i + 1].from
      BY <3>1, InOrder
    <3> DEFINE a == w[i].to
               b == w[i + 1].from
               c == w[i + 1].to
    <3>3. a \in Nat /\ b \in Nat /\ c \in Nat /\ a + 2 <= b /\ b < c /\ c <= Len(t)
      BY <1>0, <3>1, <3>2
    <3>4. Len(t) \in Nat
      BY <3>1 DEF Laid
    <3> HIDE DEF a, b, c
    <3>5. a + 1 \in 1..Len(t)
      BY <3>3, <3>4
    <3> QED BY <3>5 DEF a
  <2>2. t[p].is \in Links
    BY <1>1 DEF Laid
  <2>3. p \in w[i].from..(w[i].to + 2) /\ ~ (p <= w[i].to)
    BY <1>0
  <2>4. ~ Within(w, n, p)
    BY <2>3, WithinIs
  <2> HIDE DEF p
  <2>5. Depth(t, p) = 0
    BY <2>1, <2>4, DepthIs
  <2>6. p \in Cuts(t)
    BY <2>1, <2>2, <2>5 DEF Cuts
  <2> QED BY <2>6 DEF p
<1>2. ASSUME NEW p \in Cuts(t)
      PROVE  \E i \in 1..n : i < n /\ p = w[i].to + 1
  <2>1. p \in 1..Len(t) /\ t[p].is \in Links /\ Depth(t, p) = 0
    BY DEF Cuts
  <2>2. SUFFICES ASSUME NEW i \in 1..n, p \in w[i].from..w[i].to
                 PROVE  FALSE
    BY <2>1, AllCovered
  <2> DEFINE s == w[i]
  <2>3. s.from \in Nat /\ s.to \in Nat /\ p \in s.from..s.to
    BY <1>0, <2>2
  <2>4. Extent(t, s)
    BY ExtentIs
  <2>5. s.bracketed => t[s.from].is = "(" /\ t[s.to].is = ")"
    BY DEF Laid
  <2>6. \A k \in First(s)..Final(s) : t[k].is \in Links => s.bracketed
    BY ConditionsArePlain
  <2>7. ~ Within(w, n, p)
    <3>1. 1 # 0
      OBVIOUS
    <3> QED BY <2>1, <3>1, DepthIs
  <2>8. ~ (s.bracketed /\ s.from < p)
    BY <2>3, <2>7 DEF Within
  <2> HIDE DEF s
  <2>9. "(" \notin Links
    BY DEF Links
  <2>10. CASE s.bracketed
    <3>1. p = s.from
      BY <2>3, <2>8, <2>10
    <3> QED BY <2>1, <2>5, <2>9, <2>10, <3>1
  <2>11. CASE ~ s.bracketed
    <3>1. p \in First(s)..Final(s)
      BY <2>3, <2>4, <2>11 DEF Extent
    <3> QED BY <2>1, <2>6, <2>11, <3>1
  <2> QED BY <2>10, <2>11
<1> QED BY <1>1, <1>2

\* Every condition of w is plain and laid out in t.
PlainlyLaid(t, w, n) == Laid(t, w, n) /\ \A i \in 1..n : Plain(w[i])

LEMMA PlacesAre ==
    ASSUME NEW t, NEW w, NEW n \in Nat, PlainlyLaid(t, w, n)
    PROVE  /\ \A i \in 1..n : /\ w[i].from \in Nat /\ w[i].to \in Nat /\ 1 <= w[i].from
                              /\ w[i].from < w[i].to /\ w[i].to <= Len(t)
           /\ \A i, j \in 1..n : i < j => w[i].to + 2 <= w[j].from
           /\ Len(t) = IF n = 0 THEN 0 ELSE w[n].to
           /\ \A p : p \in Cuts(t) <=> \E i \in 1..n : i < n /\ p = w[i].to + 1
<1>0. Laid(t, w, n) /\ \A i \in 1..n : Plain(w[i])
  BY DEF PlainlyLaid
<1>1. \A i \in 1..n : w[i].from \in Nat /\ w[i].to \in Nat
  BY <1>0 DEF Laid
<1>2. Len(t) = IF n = 0 THEN 0 ELSE w[n].to
  BY <1>0 DEF Laid
<1>3. \A p : p \in Cuts(t) <=> \E i \in 1..n : i < n /\ p = w[i].to + 1
  BY <1>0, CutsAre
<1>4. /\ \A i, j \in 1..n : i < j => w[i].to + 2 <= w[j].from
      /\ \A i \in 1..n : w[i].from < w[i].to /\ w[i].to <= Len(t) /\ 1 <= w[i].from
  BY <1>0, InOrder
<1> QED BY <1>1, <1>2, <1>3, <1>4

\* Before the end of a condition the text was last cut where it begins.
LEMMA LastCutIs ==
    ASSUME NEW t, NEW w, NEW n \in Nat, PlainlyLaid(t, w, n), NEW i \in 1..n
    PROVE  LastCut(t, w[i].to + 1) = w[i].from - 1
<1> DEFINE p == w[i].to + 1
           f == w[i].from - 1
           S == {0} \cup { c \in Cuts(t) : c < p }
<1>1. p \in Nat /\ f \in Nat /\ f < p
  BY PlacesAre
<1>2. \A c \in S : c \in 0..f
  <2>1. ASSUME NEW c \in Cuts(t), c < p PROVE c \in 0..f
    <3>1. PICK j \in 1..n : j < n /\ c = w[j].to + 1
      BY <2>1, PlacesAre
    <3>2. w[j].to \in Nat /\ w[i].to \in Nat /\ w[i].from \in Nat /\ w[j].from \in Nat
          /\ w[j].from < w[j].to /\ w[i].from < w[i].to
      BY PlacesAre
    <3>3. w[j].to < w[i].to
      BY <2>1, <3>1, <3>2
    <3>4. j # i
      BY <3>2, <3>3
    <3>5. i < j => w[i].to + 2 <= w[j].from
      BY PlacesAre
    <3>6. j < i
      BY <3>2, <3>3, <3>4, <3>5
    <3>7. w[j].to + 2 <= w[i].from
      BY <3>6, PlacesAre
    <3> QED BY <3>1, <3>2, <3>7
  <2>2. 0 \in 0..f
    BY <1>1
  <2> QED BY <2>1, <2>2
<1>3. f \in S
  <2>1. CASE i = 1
    <3>1. w[1].from = 1
      BY <2>1 DEF PlainlyLaid, Laid
    <3> QED BY <2>1, <3>1
  <2>2. CASE i # 1
    <3>1. i - 1 \in 1..n /\ i - 1 < n /\ i - 1 < i
      BY <2>2
    <3>2. w[i].from = w[i - 1].to + 2
      BY <2>2 DEF PlainlyLaid, Laid
    <3>3. w[i - 1].to \in Nat
      BY <3>1, PlacesAre
    <3>4. f = w[i - 1].to + 1
      BY <3>2, <3>3
    <3>5. f \in Cuts(t)
      BY <3>1, <3>4, PlacesAre
    <3> QED BY <1>1, <3>5
  <2> QED BY <2>1, <2>2
<1>4. LastCut(t, p) = Max(S)
  BY DEF LastCut
<1> HIDE DEF S, f, p
<1>5. Max(S) \in S /\ \A k \in S : k <= Max(S)
  <2>1. S \in SUBSET (0..f) /\ S # {}
    BY <1>2, <1>3
  <2> QED BY <1>1, <2>1, MaxOf
<1>6. f <= Max(S) /\ Max(S) \in 0..f
  BY <1>2, <1>3, <1>5
<1>7. Max(S) = f
  BY <1>1, <1>6
<1> QED BY <1>4, <1>7 DEF p, f

\* The position behind each condition.
Ends(w, n) == { w[i].to + 1 : i \in 1..n }

\* The parts of a text are its conditions with their parentheses.
LEMMA SplitIs ==
    ASSUME NEW t, NEW w, NEW n \in Nat, PlainlyLaid(t, w, n)
    PROVE  /\ DOMAIN SplitOnLogic(t) = Ends(w, n)
           /\ \A i \in 1..n : SplitOnLogic(t)[w[i].to + 1] = SubSeq(t, w[i].from, w[i].to)
<1> DEFINE end == Len(t) + 1
           more == IF LastCut(t, end) = Len(t) THEN {} ELSE {end}
           D == Cuts(t) \cup more
<1>1. SplitOnLogic(t) = [p \in D |-> SubSeq(t, LastCut(t, p) + 1, p - 1)]
  BY DEF SplitOnLogic
<1>2. CASE n = 0
  <2>1. Len(t) = 0 /\ 1..n = {}
    BY <1>2, PlacesAre
  <2>2. Cuts(t) = {}
    BY <2>1, PlacesAre
  <2>3. LastCut(t, end) = 0
    <3> DEFINE S == {0} \cup { c \in Cuts(t) : c < end }
    <3>1. S = {0}
      BY <2>2
    <3> HIDE DEF S
    <3>2. S \in SUBSET (0..1) /\ S # {} /\ 1 \in Nat
      BY <3>1
    <3>3. Max(S) \in S
      BY <3>2, MaxOf
    <3>4. Max(S) = 0
      BY <3>1, <3>3
    <3> QED BY <3>4 DEF LastCut, S
  <2>4. D = {}
    BY <2>1, <2>2, <2>3
  <2>5. Ends(w, n) = {}
    BY <2>1 DEF Ends
  <2> QED BY <1>1, <2>1, <2>4, <2>5
<1>3. CASE n # 0
  <2>1. n \in 1..n /\ Len(t) = w[n].to
    BY <1>3, PlacesAre
  <2>2. LastCut(t, end) = w[n].from - 1
    <3>1. LastCut(t, w[n].to + 1) = w[n].from - 1
      BY <2>1, LastCutIs
    <3> QED BY <2>1, <3>1
  <2>3. LastCut(t, end) # Len(t)
    <3>1. w[n].from \in Nat /\ w[n].to \in Nat /\ w[n].from < w[n].to
      BY <2>1, PlacesAre
    <3>2. w[n].from - 1 # w[n].to
      BY <3>1
    <3> QED BY <2>1, <2>2, <3>2
  <2>4. more = {w[n].to + 1}
    BY <2>1, <2>3
  <2>5. \A p : p \in D <=> p \in Ends(w, n)
    <3>1. ASSUME NEW p \in D PROVE p \in Ends(w, n)
      <4>1. CASE p \in Cuts(t)
        BY <4>1, PlacesAre DEF Ends
      <4>2. CASE p \in more
        BY <2>1, <2>4, <4>2 DEF Ends
      <4> QED BY <4>1, <4>2
    <3>2. ASSUME NEW i \in 1..n PROVE w[i].to + 1 \in D
      <4>1. CASE i = n
        BY <2>4, <4>1
      <4>2. CASE i # n
        <5>1. i < n
          BY <4>2
        <5>2. w[i].to + 1 \in Cuts(t)
          BY <5>1, PlacesAre
        <5> QED BY <5>2
      <4> QED BY <4>1, <4>2
    <3> HIDE DEF D
    <3> QED BY <3>1, <3>2 DEF Ends
  <2> HIDE DEF D
  <2>6. D = Ends(w, n)
    BY <2>5
  <2>7. ASSUME NEW i \in 1..n
        PROVE  SplitOnLogic(t)[w[i].to + 1] = SubSeq(t, w[i].from, w[i].to)
    <3> DEFINE p == w[i].to + 1
    <3>1. p \in D
      BY <2>6 DEF Ends
    <3>2. LastCut(t, p) = w[i].from - 1
      BY LastCutIs
    <3>3. LastCut(t, p) + 1 = w[i].from /\ p - 1 = w[i].to
      <4>1. w[i].from \in Nat /\ w[i].to \in Nat
        BY PlacesAre
      <4> QED BY <3>2, <4>1
    <3> HIDE DEF p
    <3>4. SplitOnLogic(t)[p] = SubSeq(t, LastCut(t, p) + 1, p - 1)
      BY <1>1, <3>1
    <3>5. SplitOnLogic(t)[p] = SubSeq(t, w[i].from, w[i].to)
      BY <3>3, <3>4, Zenon
    <3> QED BY <3>5 DEF p
  <2> QED BY <1>1, <2>6, <2>7
<1> QED BY <1>2, <1>3

\* A part is read as what its condition means, in parentheses or bare.
LEMMA PieceIsRead ==
    ASSUME NEW t, NEW w, NEW n \in Nat, PlainlyLaid(t, w, n), NEW i \in 1..n
    PROVE  ParseFilterToken(SubSeq(t, w[i].from, w[i].to)) = Means(w[i].condition)
<1> DEFINE s == w[i]
           c == s.condition
           a == s.from
           b == s.to
           x == SubSeq(t, a, b)
<1>1. Laid(t, w, n) /\ Plain(s)
  BY DEF PlainlyLaid
<1>2. a \in Nat /\ b \in Nat /\ a < b
  BY PlacesAre
<1>3. /\ IsCondition(c) /\ SubSeq(t, First(s), Final(s)) = c
      /\ s.bracketed => t[a].is = "(" /\ t[b].is = ")"
  BY <1>1 DEF Laid
<1>4. PlainCondition(c)
  <2>1. Plain(w[i])
    BY <1>1
  <2> HIDE DEF s
  <2>2. PlainCondition(w[i].condition)
    BY <1>1, <2>1, ConditionsArePlain
  <2> QED BY <2>2 DEF s
<1>5. /\ s.bracketed => First(s) = a + 1 /\ Final(s) = b - 1
      /\ ~ s.bracketed => First(s) = a /\ Final(s) = b
  BY DEF First, Final
<1> HIDE DEF s, c, a, b
<1>6. ParseOneFilter(c) = Means(c)
  BY <1>3, <1>4, ConditionIsRead
<1>7. Len(x) = b - a + 1 /\ Len(x) > 1 /\ \A k \in 1..(b - a + 1) : x[k] = t[a + k - 1]
  <2>1. a \in Int /\ b \in Int /\ a <= b /\ b - a + 1 > 1
    BY <1>2
  <2>2. /\ Len(x) = IF a <= b THEN b - a + 1 ELSE 0
        /\ \A k \in 1..(b - a + 1) : x[k] = t[a + k - 1]
    BY <2>1, PartOfText
  <2> HIDE DEF x
  <2> QED BY <2>1, <2>2
<1>8. x[1] = t[a] /\ x[Len(x)] = t[b]
  <2>1. /\ 1 \in 1..(b - a + 1) /\ b - a + 1 \in 1..(b - a + 1)
        /\ a + 1 - 1 = a /\ a + (b - a + 1) - 1 = b
    BY <1>2
  <2> HIDE DEF x
  <2> QED BY <1>7, <2>1
<1>9. CASE s.bracketed
  <2>1. SubSeq(x, 2, Len(x) - 1) = SubSeq(t, a + 1, b - 1)
    <3>1. a \in Int /\ b \in Int
      BY <1>2
    <3> QED BY <1>2, <3>1, PartOfPart
  <2>2. SubSeq(t, a + 1, b - 1) = c
    BY <1>3, <1>5, <1>9, Zenon
  <2>3. x[1].is = "(" /\ x[Len(x)].is = ")"
    BY <1>3, <1>8, <1>9
  <2> HIDE DEF x
  <2>4. ParseFilterToken(x) = ParseOneFilter(SubSeq(x, 2, Len(x) - 1))
    BY <1>7, <2>3, Zenon DEF ParseFilterToken
  <2>5. ParseFilterToken(x) = Means(c)
    BY <1>6, <2>1, <2>2, <2>4, Zenon
  <2> QED BY <2>5 DEF x, a, b, c, s
<1>10. CASE ~ s.bracketed
  <2>1. x = c
    BY <1>3, <1>5, <1>10, Zenon
  <2>2. ~ (c[1].is = "(")
    <3>1. c[1].is = "word"
      BY <1>3 DEF IsCondition
    <3> QED BY <3>1
  <2> HIDE DEF x
  <2>3. ParseFilterToken(c) = ParseOneFilter(c)
    BY <2>2, Zenon DEF ParseFilterToken
  <2>4. ParseFilterToken(x) = Means(c)
    BY <1>6, <2>1, <2>3, Zenon
  <2> QED BY <2>4 DEF x, a, b, c, s
<1> QED BY <1>9, <1>10

SomeOr(w, n) == \E i \in 1..(n - 1) : w[i].then = " || "

\* Just the conditions of w, in their order.
Reads(where, w, n) ==
    /\ DOMAIN where = Ends(w, n)
    /\ \A i \in 1..n : where[w[i].to + 1] = Means(w[i].condition)

\* What the parser makes of a text: its conditions, and whether there is an ||.
LEMMA TextIsRead ==
    ASSUME NEW t, NEW w, NEW n \in Nat, PlainlyLaid(t, w, n)
    PROVE  Reads(ParseFilters(t).filters, w, n) /\ (ParseFilters(t).hasOr <=> SomeOr(w, n))
<1> DEFINE parts == SplitOnLogic(t)
           F == ParseFilters(t).filters
<1>1. /\ F = [p \in DOMAIN parts |-> ParseFilterToken(parts[p])]
      /\ ParseFilters(t).hasOr <=> \E c \in Cuts(t) : t[c].is = " || "
  BY DEF ParseFilters
<1>2. /\ DOMAIN parts = Ends(w, n)
      /\ \A i \in 1..n : parts[w[i].to + 1] = SubSeq(t, w[i].from, w[i].to)
  BY SplitIs
<1> HIDE DEF parts, F
<1>3. DOMAIN F = Ends(w, n)
  BY <1>1, <1>2
<1>4. ASSUME NEW i \in 1..n
      PROVE  F[w[i].to + 1] = Means(w[i].condition)
  <2> DEFINE p == w[i].to + 1
  <2>1. p \in Ends(w, n) /\ parts[p] = SubSeq(t, w[i].from, w[i].to)
    BY <1>2 DEF Ends
  <2>2. ParseFilterToken(SubSeq(t, w[i].from, w[i].to)) = Means(w[i].condition)
    BY PieceIsRead
  <2> HIDE DEF p
  <2>3. F[p] = ParseFilterToken(parts[p])
    BY <1>1, <1>2, <2>1
  <2>4. F[p] = Means(w[i].condition)
    BY <2>1, <2>2, <2>3, Zenon
  <2> QED BY <2>4 DEF p
<1>5. (\E c \in Cuts(t) : t[c].is = " || ") <=> SomeOr(w, n)
  <2>1. \A i \in 1..n : i < n => t[w[i].to + 1].is = w[i].then
    BY DEF PlainlyLaid, Laid
  <2>2. \A i : i \in 1..(n - 1) <=> i \in 1..n /\ i < n
    OBVIOUS
  <2>3. \A c : c \in Cuts(t) <=> \E i \in 1..n : i < n /\ c = w[i].to + 1
    BY PlacesAre
  <2>4. ASSUME NEW c \in Cuts(t), t[c].is = " || " PROVE SomeOr(w, n)
    <3>1. PICK i \in 1..n : i < n /\ c = w[i].to + 1
      BY <2>3
    <3>2. w[i].then = " || "
      BY <2>1, <2>4, <3>1
    <3>3. i \in 1..(n - 1)
      BY <2>2, <3>1
    <3> QED BY <3>2, <3>3 DEF SomeOr
  <2>5. ASSUME NEW i \in 1..(n - 1), w[i].then = " || " PROVE \E c \in Cuts(t) : t[c].is = " || "
    <3> DEFINE c == w[i].to + 1
    <3>1. i \in 1..n /\ i < n
      BY <2>2
    <3>2. c \in Cuts(t) /\ t[c].is = " || "
      BY <2>1, <2>3, <2>5, <3>1
    <3> HIDE DEF c
    <3> QED BY <3>2
  <2> QED BY <2>4, <2>5 DEF SomeOr
<1> QED BY <1>1, <1>3, <1>4, <1>5 DEF Reads, F

\* With one connective throughout, some condition holds or all do.
LEMMA UniformSays ==
    ASSUME NEW t, NEW w, NEW n \in Nat, Laid(t, w, n), Uniform(w), n # 0, NEW T
    PROVE  Says(w, T) <=> IF SomeOr(w, n) THEN \E i \in 1..n : i \in T ELSE \A i \in 1..n : i \in T
<1>1. Len(w) = n /\ DOMAIN w = 1..n /\ w # <<>> /\ \A i \in 1..(n - 1) : w[i].then \in Links
  <2>1. Len(w) = n /\ DOMAIN w = 1..n /\ \A i \in 1..n : i < n => w[i].then \in Links
    BY DEF Laid
  <2>2. Len(<<>>) = 0
    OBVIOUS
  <2>3. \A i \in 1..(n - 1) : i \in 1..n /\ i < n
    OBVIOUS
  <2> QED BY <2>1, <2>2, <2>3
<1>2. Says(w, T) <=>
        \E i \in 1..n : /\ i > 1 => w[i - 1].then = " || "
                        /\ \A j \in i..n : (\A k \in i..(j - 1) : w[k].then = " && ") => j \in T
  BY <1>1 DEF Says
<1>3. CASE SomeOr(w, n)
  <2>1. \A i \in 1..(n - 1) : w[i].then = " || "
    <3>1. PICK l \in Links : \A i \in 1..n : i < n => w[i].then = l
      BY <1>1 DEF Uniform
    <3>2. \A i \in 1..(n - 1) : i \in 1..n /\ i < n
      OBVIOUS
    <3> QED BY <1>3, <3>1, <3>2 DEF SomeOr
  <2>2. ASSUME NEW i \in 1..n, i \in T PROVE Says(w, T)
    <3>1. i > 1 => w[i - 1].then = " || "
      <4>1. i > 1 => i - 1 \in 1..(n - 1)
        OBVIOUS
      <4> QED BY <2>1, <4>1
    <3>2. \A j \in i..n : (\A k \in i..(j - 1) : w[k].then = " && ") => j \in T
      <4>1. ASSUME NEW j \in i..n, \A k \in i..(j - 1) : w[k].then = " && " PROVE j \in T
        <5>1. CASE j = i
          BY <2>2, <5>1
        <5>2. CASE j # i
          <6>1. i \in i..(j - 1) /\ i \in 1..(n - 1)
            BY <5>2
          <6> QED BY <2>1, <4>1, <6>1
        <5> QED BY <5>1, <5>2
      <4> QED BY <4>1
    <3> QED BY <1>2, <3>1, <3>2
  <2>3. ASSUME NEW i \in 1..n, \A j \in i..n : (\A k \in i..(j - 1) : w[k].then = " && ") => j \in T
        PROVE  i \in T
    <3>1. i \in i..n /\ i..(i - 1) = {}
      OBVIOUS
    <3>2. \A k \in {} : w[k].then = " && "
      OBVIOUS
    <3> QED BY <2>3, <3>1, <3>2
  <2> QED BY <1>2, <1>3, <2>2, <2>3
<1>4. CASE ~ SomeOr(w, n)
  <2>1. \A i \in 1..(n - 1) : w[i].then = " && "
    BY <1>1, <1>4 DEF SomeOr, Links
  <2>2. ASSUME \A i \in 1..n : i \in T PROVE Says(w, T)
    <3>1. 1 \in 1..n /\ ~ (1 > 1) /\ \A j \in 1..n : j \in T
      BY <2>2
    <3> QED BY <1>2, <3>1
  <2>3. ASSUME NEW i \in 1..n, i > 1 => w[i - 1].then = " || ",
               \A j \in i..n : (\A k \in i..(j - 1) : w[k].then = " && ") => j \in T
        PROVE  \A j \in 1..n : j \in T
    <3>1. i = 1
      <4>1. SUFFICES ASSUME i > 1 PROVE FALSE
        OBVIOUS
      <4>2. i - 1 \in 1..(n - 1)
        BY <4>1
      <4>3. w[i - 1].then = " && " /\ w[i - 1].then = " || "
        BY <2>1, <2>3, <4>1, <4>2
      <4> QED BY <4>3
    <3>2. TAKE j \in 1..n
    <3>3. \A k \in 1..(j - 1) : k \in 1..(n - 1)
      OBVIOUS
    <3>4. \A k \in 1..(j - 1) : w[k].then = " && "
      BY <2>1, <3>3
    <3> QED BY <2>3, <3>1, <3>4
  <2> QED BY <1>2, <1>4, <2>2, <2>3
<1> QED BY <1>3, <1>4

LEMMA NothingSaid ==
    ASSUME NEW t, NEW w, Laid(t, w, 0), NEW T
    PROVE  Says(w, T)
<1> DEFINE R == Range(w)
<1>1. w \in Seq(R) /\ Len(w) = 0
  BY DEF Laid
<1> HIDE DEF R
<1>2. w = <<>>
  BY ONLY <1>1, EmptySeq
<1> QED BY <1>2 DEF Says

\* A plan that has just the conditions of w.
Asks(p, w, n) == Reads(p.where, w, n) /\ (p.hasOr <=> SomeOr(w, n))

LEMMA ReadsAre ==
    ASSUME NEW where, NEW w, NEW n \in Nat, Reads(where, w, n)
    PROVE  /\ DOMAIN where = {} <=> n = 0
           /\ Range(where) = { Means(w[i].condition) : i \in 1..n }
<1>1. DOMAIN where = { w[i].to + 1 : i \in 1..n }
  BY DEF Reads, Ends
<1>2. \A i \in 1..n : where[w[i].to + 1] = Means(w[i].condition)
  BY DEF Reads
<1>3. DOMAIN where = {} <=> n = 0
  <2>1. n # 0 => 1 \in 1..n
    OBVIOUS
  <2>2. n = 0 => 1..n = {}
    OBVIOUS
  <2> QED BY <1>1, <2>1, <2>2
<1>4. Range(where) = { where[p] : p \in DOMAIN where }
  BY DEF Range
<1>5. \A f : f \in Range(where) <=> \E i \in 1..n : f = Means(w[i].condition)
  BY <1>1, <1>2, <1>4
<1> QED BY <1>3, <1>5

LEMMA SqlSelects ==
    ASSUME NEW t, NEW w, NEW n \in Nat, Laid(t, w, n), Uniform(w), NEW p, Asks(p, w, n), NEW r
    PROVE  SqlMatches(p, r) <=> Says(w, SqlTrue(w, r))
<1> DEFINE T == SqlTrue(w, r)
<1>1. \A i \in 1..n : i \in T <=> SqlHolds(Means(w[i].condition), r)
  BY DEF SqlTrue, Laid
<1>0. Reads(p.where, w, n) /\ (p.hasOr <=> SomeOr(w, n))
  BY DEF Asks
<1>2. /\ DOMAIN p.where = {} <=> n = 0
      /\ Range(p.where) = { Means(w[i].condition) : i \in 1..n }
  <2> DEFINE where == p.where
  <2>1. Reads(where, w, n)
    BY <1>0
  <2> HIDE DEF where
  <2>2. /\ DOMAIN where = {} <=> n = 0
        /\ Range(where) = { Means(w[i].condition) : i \in 1..n }
    BY <2>1, ReadsAre
  <2> QED BY <2>2 DEF where
<1> HIDE DEF T
<1>3. CASE n = 0
  BY <1>2, <1>3, NothingSaid DEF SqlMatches, T
<1>4. CASE n # 0
  <2>2. SqlMatches(p, r) <=>
          IF SomeOr(w, n) THEN \E f \in Range(p.where) : SqlHolds(f, r)
                          ELSE \A f \in Range(p.where) : SqlHolds(f, r)
    BY <1>0, <1>2, <1>4 DEF SqlMatches
  <2>3. /\ (\E f \in Range(p.where) : SqlHolds(f, r)) <=> \E i \in 1..n : i \in T
        /\ (\A f \in Range(p.where) : SqlHolds(f, r)) <=> \A i \in 1..n : i \in T
    BY <1>1, <1>2
  <2>4. Says(w, T) <=> IF SomeOr(w, n) THEN \E i \in 1..n : i \in T ELSE \A i \in 1..n : i \in T
    BY <1>4, UniformSays
  <2> QED BY <2>2, <2>3, <2>4 DEF T
<1> QED BY <1>3, <1>4

LEMMA MongoSelects ==
    ASSUME NEW t, NEW w, NEW n \in Nat, PlainlyLaid(t, w, n), Uniform(w), Separate(w),
           NEW p, Asks(p, w, n), NEW r
    PROVE  MongoMatches(p, r) <=> Says(w, MongoTrue(w, r))
<1> DEFINE T == MongoTrue(w, r)
<1>1. \A i \in 1..n : i \in T <=> MongoHolds(Means(w[i].condition), r)
  BY DEF MongoTrue, PlainlyLaid, Laid
<1>0. Laid(t, w, n) /\ Reads(p.where, w, n) /\ (p.hasOr <=> SomeOr(w, n))
  BY DEF Asks, PlainlyLaid
<1>2. /\ DOMAIN p.where = {} <=> n = 0
      /\ Range(p.where) = { Means(w[i].condition) : i \in 1..n }
  <2> DEFINE where == p.where
  <2>1. Reads(where, w, n)
    BY <1>0
  <2> HIDE DEF where
  <2>2. /\ DOMAIN where = {} <=> n = 0
        /\ Range(where) = { Means(w[i].condition) : i \in 1..n }
    BY <2>1, ReadsAre
  <2> QED BY <2>2 DEF where
<1> HIDE DEF T
<1>3. CASE n = 0
  BY <1>0, <1>2, <1>3, NothingSaid DEF MongoMatches, T
<1>4. CASE n # 0
  <2>1. MongoFilter(p) = Range(p.where)
    <3>1. CASE SomeOr(w, n)
      BY <1>0, <3>1 DEF MongoFilter
    <3>2. CASE ~ SomeOr(w, n)
      <4>0. /\ DOMAIN p.where = { w[i].to + 1 : i \in 1..n }
            /\ \A i \in 1..n : p.where[w[i].to + 1] = Means(w[i].condition)
        BY <1>0 DEF Reads, Ends
      <4>1. ASSUME NEW x \in DOMAIN p.where, NEW y \in DOMAIN p.where, y > x
            PROVE  p.where[y].field # p.where[x].field
        <5>1. SUFFICES ASSUME p.where[y].field = p.where[x].field
                       PROVE  FALSE
          OBVIOUS
        <5>2. PICK i \in 1..n : x = w[i].to + 1
          BY <4>0
        <5>3. PICK j \in 1..n : y = w[j].to + 1
          BY <4>0
        <5>4. Means(w[i].condition).field = Means(w[j].condition).field
          BY <4>0, <5>1, <5>2, <5>3
        <5>5. i # j
          <6>1. w[i].to \in Nat /\ w[j].to \in Nat
            BY PlacesAre
          <6> QED BY <4>1, <5>2, <5>3, <6>1
        <5>6. DOMAIN w = 1..n /\ Len(w) = n
          BY <1>0 DEF Laid
        <5>7. \A k \in 1..n : k < n => w[k].then = " || "
          BY <5>4, <5>5, <5>6 DEF Separate
        <5>8. 1 \in 1..(n - 1) /\ 1 \in 1..n /\ 1 < n
          BY <5>5
        <5> QED BY <3>2, <5>7, <5>8 DEF SomeOr
      <4> DEFINE D == DOMAIN p.where
                 W == p.where
      <4>2. MongoFilter(p) = { W[i] : i \in { i \in D : \A j \in D : j > i => W[j].field # W[i].field } }
        BY <1>0, <3>2 DEF MongoFilter
      <4>3. { i \in D : \A j \in D : j > i => W[j].field # W[i].field } = D
        BY <4>1
      <4>4. MongoFilter(p) = { W[i] : i \in D }
        BY <4>2, <4>3, Zenon
      <4> QED BY <4>4 DEF Range
    <3> QED BY <3>1, <3>2
  <2>2. MongoMatches(p, r) <=>
          IF SomeOr(w, n) THEN \E f \in Range(p.where) : MongoHolds(f, r)
                          ELSE \A f \in Range(p.where) : MongoHolds(f, r)
    BY <1>0, <1>2, <1>4, <2>1 DEF MongoMatches
  <2>3. /\ (\E f \in Range(p.where) : MongoHolds(f, r)) <=> \E i \in 1..n : i \in T
        /\ (\A f \in Range(p.where) : MongoHolds(f, r)) <=> \A i \in 1..n : i \in T
    BY <1>1, <1>2
  <2>4. Says(w, T) <=> IF SomeOr(w, n) THEN \E i \in 1..n : i \in T ELSE \A i \in 1..n : i \in T
    BY <1>0, <1>4, UniformSays
  <2> QED BY <2>2, <2>3, <2>4 DEF T
<1> QED BY <1>3, <1>4

\* What a directive says, where it says it with one connective throughout.
LEMMA SaidPlainly ==
    ASSUME DbInv, NEW w \in asked, Uniform(w)
    PROVE  \E o \in Options, n \in Nat : \E t : args = With(o, t) /\ PlainlyLaid(t, w, n)
<1>1. PICK o \in Options, v \in Wheres : w = v.says /\ args = With(o, v.text)
  BY DEF DbInv
<1>2. PICK n \in Nat : Laid(v.text, w, n)
  BY <1>1, WheresAreLaid
<1>3. \A i \in 1..n : Plain(w[i])
  BY <1>2 DEF Uniform, Laid
<1>4. PlainlyLaid(v.text, w, n)
  BY <1>2, <1>3 DEF PlainlyLaid
<1> QED BY <1>1, <1>4, Zenon

LEMMA PlansAskWhatIsSaid ==
    ASSUME DbInv, Planned, NEW w \in asked, Uniform(w)
    PROVE  \E n \in Nat : \E t : PlainlyLaid(t, w, n) /\ Asks(plan, w, n)
<1>1. plan = ParseQuery(args)
  BY DEF DbInv, Planned, Unparsed
<1>2. PICK o \in Options, n \in Nat : \E t : args = With(o, t) /\ PlainlyLaid(t, w, n)
  BY SaidPlainly
<1>2a. PICK t : args = With(o, t) /\ PlainlyLaid(t, w, n)
  BY <1>2
<1>3. plan.where = ParseFilters(t).filters /\ plan.hasOr = ParseFilters(t).hasOr
  BY <1>1, <1>2a, PlansAreSensible DEF Planned, IsPlanOf
<1>4. Asks(plan, w, n)
  BY <1>2a, <1>3, TextIsRead DEF Asks
<1> QED BY <1>2a, <1>4

\* Which operation a directive asks for, and with what, does not depend on its
\* where=.
LEMMA WhereIsApart ==
    ASSUME NEW o, NEW x, NEW y
    PROVE  /\ DetectOperation(With(o, x)) = DetectOperation(With(o, y))
           /\ ParseAggregateOps(With(o, x)) = ParseAggregateOps(With(o, y))
           /\ \A op, g : ValidPlan(With(o, x), op, g) <=> ValidPlan(With(o, y), op, g)
<1> DEFINE a == With(o, x)
           b == With(o, y)
<1>1. DOMAIN a = DOMAIN b /\ \A k \in DOMAIN a : k # "where" => a[k] = b[k]
  BY DEF With
<1>2. "count" # "where" /\ "sum" # "where" /\ "avg" # "where" /\ "min" # "where" /\ "max" # "where"
  OBVIOUS
<1> HIDE DEF a, b
<1>3. \A k : Given(a, k) <=> Given(b, k)
  BY <1>1 DEF Given
<1>4. CountsGroups(a) <=> CountsGroups(b)
  <2>1. Given(a, "count") => a["count"] = b["count"]
    BY <1>1, <1>2 DEF Given
  <2> QED BY <1>3, <2>1 DEF CountsGroups
<1>5. Present(a) = Present(b)
  BY <1>3 DEF Present
<1>6. DetectOperation(a) = DetectOperation(b)
  BY <1>4, <1>5 DEF DetectOperation
<1>7. ParseAggregateOps(a) = ParseAggregateOps(b)
  <2> DEFINE F == {"sum", "avg", "min", "max"} \cap DOMAIN a
             G == {"sum", "avg", "min", "max"} \cap DOMAIN b
             A(f) == [func |-> f, field |-> a[f]]
             B(f) == [func |-> f, field |-> b[f]]
  <2>1. F = G
    BY <1>1
  <2>2. \A f \in F : a[f] = b[f]
    BY <1>1, <1>2
  <2>3. \A f \in F : A(f) = B(f)
    BY <2>2
  <2> HIDE DEF F, G, A, B
  <2>4. { A(f) : f \in F } = { B(f) : f \in G }
    BY <2>1, <2>3
  <2>5. (IF CountsGroups(a) THEN { [func |-> "count", field |-> "*"] } ELSE {})
        = (IF CountsGroups(b) THEN { [func |-> "count", field |-> "*"] } ELSE {})
    BY <1>4
  <2> QED BY <2>4, <2>5, Zenon DEF ParseAggregateOps, A, B, F, G
<1>8. \A op, g : ValidPlan(a, op, g) <=> ValidPlan(b, op, g)
  BY <1>3 DEF ValidPlan
<1> QED BY <1>6, <1>7, <1>8 DEF a, b

\* A directive that is refused but for its where= is refused without one.
LEMMA RefusedAnyway ==
    ASSUME NEW o, NEW t, ParseQuery(With(o, t)) = None,
           None \notin Range(ParseFilters(t).filters)
    PROVE  ParseQuery(With(o, <<>>)) = None
<1> DEFINE a == With(o, t)
           b == With(o, <<>>)
           op == DetectOperation(a)
           none == ParseFilters(<<>>)
           aggregations == IF op = "aggregate" THEN ParseAggregateOps(a) ELSE {}
<1>1. /\ op = DetectOperation(b)
      /\ aggregations = IF op = "aggregate" THEN ParseAggregateOps(b) ELSE {}
      /\ ValidPlan(a, op, aggregations) <=> ValidPlan(b, op, aggregations)
  <2> DEFINE e == <<>>
  <2> HIDE DEF e, op, aggregations
  <2>1. /\ DetectOperation(With(o, t)) = DetectOperation(With(o, e))
        /\ ParseAggregateOps(With(o, t)) = ParseAggregateOps(With(o, e))
        /\ \A k, g : ValidPlan(With(o, t), k, g) <=> ValidPlan(With(o, e), k, g)
    BY WhereIsApart
  <2>2. b = With(o, e)
    BY DEF e
  <2> HIDE DEF b
  <2>3. op = DetectOperation(b)
    BY <2>1, <2>2 DEF op
  <2>4. aggregations = IF op = "aggregate" THEN ParseAggregateOps(b) ELSE {}
    BY <2>1, <2>2 DEF aggregations
  <2>5. ValidPlan(a, op, aggregations) <=> ValidPlan(b, op, aggregations)
    BY <2>1, <2>2
  <2> QED BY <2>3, <2>4, <2>5
<1>2. Optional(a, "where") = t /\ Optional(b, "where") = <<>>
  BY DEF With, Optional, Given
<1> DEFINE refused(where, x) ==
             op # "none" /\ op # "raw" => None \in Range(where.filters) \/ ~ ValidPlan(x, op, aggregations)
<1>3. op # "raw"
  <2>1. op = "raw" => ParseQuery(a) = [kind |-> "raw", query |-> a.raw]
    BY DEF ParseQuery
  <2>2. [kind |-> "raw", query |-> a.raw] # None
    <3>1. [kind |-> "raw", query |-> a.raw].kind = "raw" /\ None.kind = "none"
      BY DEF None
    <3> QED BY <3>1
  <2> QED BY <2>1, <2>2
<1>4. op = "none" \/ ~ ValidPlan(a, op, aggregations)
  <2>1. SUFFICES ASSUME op # "none", ValidPlan(a, op, aggregations)
                 PROVE  FALSE
    OBVIOUS
  <2> DEFINE where == ParseFilters(t)
             p == [kind |-> "plan", operation |-> op, collection |-> a[op],
                   where |-> where.filters, hasOr |-> where.hasOr,
                   sort |-> Optional(a, "sort"), limit |-> Optional(a, "limit"),
                   columns |-> Optional(a, "columns"), group |-> Optional(a, "group"),
                   aggregations |-> aggregations]
  <2>2. ParseQuery(a) = IF op = "none" THEN None
                        ELSE IF op = "raw" THEN [kind |-> "raw", query |-> a.raw]
                        ELSE IF None \in Range(where.filters) \/ ~ ValidPlan(a, op, aggregations) THEN None
                        ELSE p
    BY <1>2, Zenon DEF ParseQuery
  <2>3. p.kind = "plan" /\ None.kind = "none"
    BY DEF None
  <2> HIDE DEF p, a, op, aggregations
  <2>4. ParseQuery(a) = p
    BY <1>3, <2>1, <2>2
  <2> QED BY <2>3, <2>4 DEF a
<1>5. ParseQuery(b) = None
  <2> DEFINE q == [kind |-> "plan", operation |-> op, collection |-> b[op],
                   where |-> none.filters, hasOr |-> none.hasOr,
                   sort |-> Optional(b, "sort"), limit |-> Optional(b, "limit"),
                   columns |-> Optional(b, "columns"), group |-> Optional(b, "group"),
                   aggregations |-> aggregations]
  <2>1. ParseQuery(b) = IF op = "none" THEN None
                        ELSE IF op = "raw" THEN [kind |-> "raw", query |-> b.raw]
                        ELSE IF None \in Range(none.filters) \/ ~ ValidPlan(b, op, aggregations) THEN None
                        ELSE q
    <3>1. ParseQuery(b) =
            LET op2 == DetectOperation(b)
                where == ParseFilters(Optional(b, "where"))
                ags == IF op2 = "aggregate" THEN ParseAggregateOps(b) ELSE {}
            IN IF op2 = "none" THEN None
               ELSE IF op2 = "raw" THEN [kind |-> "raw", query |-> b.raw]
               ELSE IF None \in Range(where.filters) \/ ~ ValidPlan(b, op2, ags) THEN None
               ELSE [kind |-> "plan", operation |-> op2, collection |-> b[op2],
                     where |-> where.filters, hasOr |-> where.hasOr,
                     sort |-> Optional(b, "sort"), limit |-> Optional(b, "limit"),
                     columns |-> Optional(b, "columns"), group |-> Optional(b, "group"),
                     aggregations |-> ags]
      BY Zenon DEF ParseQuery
    <3> HIDE DEF op, aggregations, b
    <3> QED BY <1>1, <1>2, <3>1, Zenon DEF none
  <2> HIDE DEF q, a, b, op, aggregations, none
  <2> QED BY <1>1, <1>3, <1>4, <2>1
<1> QED BY <1>5

\* A text that was read holds no part the parser refuses.
LEMMA NothingRefused ==
    ASSUME NEW t, NEW w, NEW n \in Nat, PlainlyLaid(t, w, n)
    PROVE  None \notin Range(ParseFilters(t).filters)
<1> DEFINE F == ParseFilters(t).filters
<1>1. Reads(F, w, n)
  BY TextIsRead
<1> HIDE DEF F
<1>2. Range(F) = { Means(w[i].condition) : i \in 1..n }
  BY <1>1, ReadsAre
<1>3. \A c : Means(c) # None
  <2>1. TAKE c
  <2>2. DOMAIN Means(c) = {"field", "op", "value"}
    BY DEF Means
  <2>3. DOMAIN None = {"kind"}
    BY DEF None
  <2>4. "kind" \notin {"field", "op", "value"}
    OBVIOUS
  <2> QED BY <2>2, <2>3, <2>4
<1> QED BY <1>2, <1>3 DEF F

\* What the text says is what each database is asked for, whatever the values
\* hold but what the parser does not take for a part of one, and no such text
\* is refused (query.ts:86-182, sql-shared.ts:10-19, mongodb.ts:101-107): for
\* every sequence of conditions with one connective throughout, each bare or in
\* parentheses, and every table.
THEOREM WhatIsSaidIsSelected == DbSpec => []SelectsWhatItSays
<1>1. DbInv => SqlSelectsWhatItSays
  <2>1. SUFFICES ASSUME DbInv, Planned, NEW w \in asked, Uniform(w), NEW r \in Range(stored)
                 PROVE  SqlMatches(plan, r) <=> Says(w, SqlTrue(w, r))
    BY DEF SqlSelectsWhatItSays
  <2>2. PICK n \in Nat : \E t : PlainlyLaid(t, w, n) /\ Asks(plan, w, n)
    BY <2>1, PlansAskWhatIsSaid
  <2>3. PICK t : PlainlyLaid(t, w, n) /\ Asks(plan, w, n)
    BY <2>2
  <2>4. Laid(t, w, n)
    BY <2>3 DEF PlainlyLaid
  <2> QED BY <2>1, <2>3, <2>4, SqlSelects
<1>2. DbInv => MongoSelectsWhatItSays
  <2>1. SUFFICES ASSUME DbInv, Planned, NEW w \in asked, Uniform(w), Separate(w), NEW r \in Range(stored)
                 PROVE  MongoMatches(plan, r) <=> Says(w, MongoTrue(w, r))
    BY DEF MongoSelectsWhatItSays
  <2>2. PICK n \in Nat : \E t : PlainlyLaid(t, w, n) /\ Asks(plan, w, n)
    BY <2>1, PlansAskWhatIsSaid
  <2>3. PICK t : PlainlyLaid(t, w, n) /\ Asks(plan, w, n)
    BY <2>2
  <2> QED BY <2>1, <2>3, MongoSelects
<1>3. DbInv => NeverRefused
  <2>1. SUFFICES ASSUME DbInv, plan = None, NEW w \in asked, Uniform(w)
                 PROVE  ParseQuery(With(args, <<>>)) = None
    BY DEF NeverRefused
  <2>2. PICK o \in Options, n \in Nat : \E t : args = With(o, t) /\ PlainlyLaid(t, w, n)
    BY <2>1, SaidPlainly
  <2>2a. PICK t : args = With(o, t) /\ PlainlyLaid(t, w, n)
    BY <2>2
  <2>3. ParseQuery(With(o, t)) = None
    <3>1. Unparsed # None
      <4>1. Unparsed.kind = "unparsed" /\ None.kind = "none"
        BY DEF Unparsed, None
      <4> QED BY <4>1
    <3> QED BY <2>1, <2>2a, <3>1 DEF DbInv
  <2>4. ParseQuery(With(o, <<>>)) = None
    BY <2>2a, <2>3, NothingRefused, RefusedAnyway
  <2>5. With(args, <<>>) = With(o, <<>>)
    BY <2>2a DEF With
  <2> QED BY <2>4, <2>5
<1>4. DbInv => SelectsWhatItSays
  BY <1>1, <1>2, <1>3 DEF SelectsWhatItSays
<1> QED BY <1>4, DirectivesGoOn, PTL DEF DbSpec

=============================================================================
