-------------------------- MODULE McpServerProofs --------------------------
(***************************************************************************)
(* First FlowSession, for every set of sessions, documents and scopes and  *)
(* every engine that meets EngineAssumption; then the server loop around   *)
(* the phase tools, for every set of lines, session ids and documents.  A  *)
(* step of the server is a step of FlowSession or leaves its variables     *)
(* alone, so that what is proved of the table holds of the server; the     *)
(* rest is about one answer per line.                                      *)
(***************************************************************************)
EXTENDS McpServer, SequenceTheorems, TLAPS

USE SessionAssumption

-----------------------------------------------------------------------------
(* What the operations on the table return. *)

\* loadSession returns a table of entries and absences.
LEMMA LoadedType ==
    ASSUME TypeOK, NEW sid \in Sids
    PROVE  Loaded(sid) \in [Keys -> Entry \cup {NoEntry}]
BY DEF TypeOK, Loaded

\* A call with a session id and a path addresses a key of the table.
LEMMA KeyType ==
    ASSUME NEW sid \in Sids, NEW n \in Names, sid # NoSid
    PROVE  <<sid, FullPath[n]>> \in Keys
BY DEF Keys

\* The engine is seeded with a scope.
LEMMA SeedType ==
    ASSUME TypeOK, NEW sid \in Sids, NEW n \in Names
    PROVE  Seed(sid, FullPath[n]) \in Scopes
<1>1. CASE sid = NoSid
  BY <1>1 DEF Seed
<1>2. CASE sid # NoSid
  BY <1>2, LoadedType, KeyType DEF Seed, Entry
<1>3. QED
  BY <1>1, <1>2

\* saveSession returns a table.
LEMMA SavedType ==
    ASSUME TypeOK, NEW sid \in Sids, NEW n \in Names, NEW s \in Scopes
    PROVE  Saved(Loaded(sid), sid, FullPath[n], s) \in [Keys -> Entry \cup {NoEntry}]
BY LoadedType DEF Saved, Entry, TypeOK

-----------------------------------------------------------------------------
(* Types *)

\* Every variable keeps its type, whatever the engine returns.
THEOREM TypeCorrect == Spec => []TypeOK
<1>1. Init => TypeOK
  BY DEF Init, TypeOK
<1>2. TypeOK /\ [Next]_vars => TypeOK'
  <2> SUFFICES ASSUME TypeOK, [Next]_vars
               PROVE  TypeOK'
    OBVIOUS
  <2>1. ASSUME NEW sid \in Sids, NEW n \in Names, NEW p \in Phases,
               ResolvePhase(sid, n, p)
        PROVE  TypeOK'
    <3>1. PICK r \in Outcomes(disk[FullPath[n]], p, Seed(sid, FullPath[n])) :
             /\ sessions' = Saved(Loaded(sid), sid, FullPath[n], r.scope)
             /\ Answer("resolve_phase", sid, FullPath[n], p, TRUE, r.chosen,
                       Seed(sid, FullPath[n]))
      BY <2>1 DEF ResolvePhase
    <3>2. r \in Result
      BY <2>1, SeedType, EngineAssumption DEF ResolvePhase, Servable
    <3>3. sessions' \in [Keys -> Entry \cup {NoEntry}]
      BY <3>1, <3>2, SavedType DEF Result
    <3>4. reply' \in Reply
      BY <3>1, <3>2, SeedType DEF Answer, Reply, Result
    <3>5. QED
      BY <2>1, <3>3, <3>4 DEF TypeOK, ResolvePhase
  <2>2. ASSUME NEW sid \in Sids, NEW n \in Names, NEW p \in Phases,
               NextPhase(sid, n, p)
        PROVE  TypeOK'
    <3> DEFINE path == FullPath[n]
               next(r) == Following(disk[path], p, r.chosen)
               saved(r) == Saved(Loaded(sid), sid, path, r.scope)
    <3>1. PICK r \in Outcomes(disk[path], p, Seed(sid, path)) :
             /\ sessions' = IF next(r) = NoPhase THEN Cleared(saved(r), sid, path)
                                                 ELSE saved(r)
             /\ Answer("next_phase", sid, path, p, TRUE, next(r), Seed(sid, path))
      BY <2>2 DEF NextPhase
    <3>2. r \in Result
      BY <2>2, SeedType, EngineAssumption DEF NextPhase, Servable
    <3>3. next(r) \in Phases \cup {NoPhase}
      BY <2>2, <3>2, EngineAssumption DEF Result, Following, NextPhase, Servable
    <3>4. saved(r) \in [Keys -> Entry \cup {NoEntry}]
      BY <3>2, SavedType DEF Result
    <3>5. sessions' \in [Keys -> Entry \cup {NoEntry}]
      BY <3>1, <3>4 DEF Cleared
    <3>6. reply' \in Reply
      BY <3>1, <3>3, SeedType DEF Answer, Reply
    <3>7. QED
      BY <2>2, <3>5, <3>6 DEF TypeOK, NextPhase
  <2>3. ASSUME NEW sid \in Sids, NEW n \in Names, NEW p \in Phases,
               NEW tool \in {"resolve_phase", "next_phase"}, Refuse(tool, sid, n, p)
        PROVE  TypeOK'
    BY <2>3 DEF TypeOK, Refuse, Answer, Reply
  <2>4. ASSUME NEW sid \in Sids, NEW n \in Names, NEW p \in Phases,
               ReadFile(sid, n, p)
        PROVE  TypeOK'
    BY <2>4 DEF TypeOK, ReadFile, Answer, Reply
  <2>5. CASE Tick
    BY <2>5 DEF TypeOK, Tick
  <2>6. ASSUME NEW path \in Paths, NEW d \in Docs \cup {Unreadable, Plain},
               Edit(path, d)
        PROVE  TypeOK'
    BY <2>6 DEF TypeOK, Edit
  <2>7. CASE Restart
    BY <2>7 DEF TypeOK, Restart
  <2>8. CASE UNCHANGED vars
    BY <2>8 DEF TypeOK, vars
  <2>9. QED
    BY <2>1, <2>2, <2>3, <2>4, <2>5, <2>6, <2>7, <2>8 DEF Next, Call
<1>3. QED
  BY <1>1, <1>2, PTL DEF Spec

-----------------------------------------------------------------------------
(* Refinement *)

\* The scope the engine is seeded with is the flow's scope in FlowScope.
LEMMA SeedIsCurrent ==
    ASSUME TypeOK, NEW sid \in Sids, NEW n \in Names, sid # NoSid
    PROVE  Seed(sid, FullPath[n]) = Flows!Current(<<sid, FullPath[n]>>)
BY KeyType DEF Seed, Loaded, Flows!Current, Live

\* Collecting expired entries is invisible, and storing an entry changes what
\* one flow holds.
LEMMA LiveAfterSave ==
    ASSUME TypeOK, NEW sid \in Sids, NEW n \in Names, sid # NoSid,
           NEW s \in Scopes, now' = now,
           sessions' = Saved(Loaded(sid), sid, FullPath[n], s)
    PROVE  Live' = [Live EXCEPT ![<<sid, FullPath[n]>>] =
                        [scope |-> s, lastTouched |-> now]]
<1> DEFINE key == <<sid, FullPath[n]>>
<1>1. key \in Keys
  BY KeyType
<1>2. sessions' = [Loaded(sid) EXCEPT ![key] = [scope |-> s, lastTouched |-> now]]
  BY DEF Saved
<1>3. ASSUME NEW k \in Keys, k # key
      PROVE  Live'[k] = Live[k]
  BY <1>2, <1>3 DEF Live, Loaded, Expired, TypeOK
<1>4. Live'[key] = [scope |-> s, lastTouched |-> now]
  BY <1>1, <1>2, LoadedType DEF Live, Expired, TypeOK
<1>5. QED
  BY <1>1, <1>3, <1>4 DEF Live

\* Clearing gives up what one flow holds.
LEMMA LiveAfterClear ==
    ASSUME TypeOK, NEW sid \in Sids, NEW n \in Names, sid # NoSid,
           NEW s \in Scopes, now' = now,
           sessions' = Cleared(Saved(Loaded(sid), sid, FullPath[n], s),
                               sid, FullPath[n])
    PROVE  Live' = [Live EXCEPT ![<<sid, FullPath[n]>>] = NoEntry]
<1> DEFINE key == <<sid, FullPath[n]>>
<1>1. key \in Keys
  BY KeyType
<1>2. sessions' = [Loaded(sid) EXCEPT ![key] = NoEntry]
  BY LoadedType DEF Saved, Cleared
<1>3. ASSUME NEW k \in Keys, k # key
      PROVE  Live'[k] = Live[k]
  BY <1>2, <1>3 DEF Live, Loaded, Expired, TypeOK
<1>4. Live'[key] = NoEntry
  BY <1>1, <1>2, LoadedType DEF Live, Expired
<1>5. QED
  BY <1>1, <1>3, <1>4 DEF Live

\* A call without a session id leaves the table as it is and sees Fresh.
LEMMA Anonymous ==
    ASSUME NEW path, NEW s
    PROVE  /\ Seed(NoSid, path) = Fresh
           /\ Saved(Loaded(NoSid), NoSid, path, s) = sessions
           /\ Cleared(sessions, NoSid, path) = sessions
BY DEF Seed, Loaded, Saved, Cleared

\* An answer other than "no reply" shows the seed.
LEMMA ViewAfterAnswer ==
    ASSUME NEW tool \in {"resolve_phase", "next_phase", "read_file"},
           NEW sid \in Sids, NEW path \in Paths, NEW p \in Phases,
           NEW found \in BOOLEAN, NEW next \in Phases \cup {NoPhase},
           NEW seed \in Scopes, Answer(tool, sid, path, p, found, next, seed)
    PROVE  View' = seed
BY DEF View, Answer, Reply

\* What a visit leaves is among Leaves.
LEMMA VisitLeaves ==
    ASSUME NEW d \in Docs, NEW p \in Phases, NEW s, NEW r \in Outcomes(d, p, s)
    PROVE  r.scope \in Leaves(s)
<1> DEFINE of(e, q) == { t.scope : t \in Outcomes(e, q, s) }
<1>1. r.scope \in of(d, p)
  OBVIOUS
<1>2. of(d, p) \in { of(e, q) : e \in Docs, q \in Phases }
  OBVIOUS
<1>3. Leaves(s) = UNION { of(e, q) : e \in Docs, q \in Phases }
  BY DEF Leaves
<1> HIDE DEF of
<1>4. QED
  BY <1>1, <1>2, <1>3

\* The table of flow entries implements one private scope per flow.
THEOREM SessionsImplementFlowScope == Spec => ImplementsFlowScope
<1>1. Init => Flows!Init
  BY DEF Init, Flows!Init, Live, View, Expired
<1>2. TypeOK /\ [Next]_vars => [Flows!Next]_(Flows!vars)
  <2> SUFFICES ASSUME TypeOK, [Next]_vars
               PROVE  [Flows!Next]_(Flows!vars)
    OBVIOUS
  <2>1. ASSUME NEW sid \in Sids, NEW n \in Names, NEW p \in Phases,
               ResolvePhase(sid, n, p)
        PROVE  Flows!Next
    <3> DEFINE path == FullPath[n]
    <3>1. PICK r \in Outcomes(disk[path], p, Seed(sid, path)) :
             /\ sessions' = Saved(Loaded(sid), sid, path, r.scope)
             /\ Answer("resolve_phase", sid, path, p, TRUE, r.chosen, Seed(sid, path))
      BY <2>1 DEF ResolvePhase
    <3>2. r \in Result
      BY <2>1, SeedType, EngineAssumption DEF ResolvePhase, Servable
    <3>3. View' = Seed(sid, path)
      BY <3>1, <3>2, SeedType, ViewAfterAnswer DEF Result
    <3>4. CASE sid = NoSid
      <4>1. UNCHANGED <<now, Live>> /\ View' = Fresh
        BY <2>1, <3>1, <3>3, <3>4, Anonymous DEF ResolvePhase, Live, Expired
      <4>2. QED
        BY <4>1 DEF Flows!Next, Flows!Aside
    <3>5. CASE sid # NoSid
      <4>1. Live' = [Live EXCEPT ![<<sid, path>>] =
                        [scope |-> r.scope, lastTouched |-> now]]
        BY <2>1, <3>1, <3>2, <3>5, LiveAfterSave DEF Result, ResolvePhase
      <4>2. r.scope \in Leaves(Seed(sid, path))
        BY <2>1, <3>1, VisitLeaves DEF ResolvePhase, Servable
      <4>3. Flows!Visit(<<sid, path>>)
        BY <2>1, <3>3, <3>5, <4>1, <4>2, SeedIsCurrent DEF Flows!Visit, ResolvePhase
      <4>4. QED
        BY <3>5, <4>3, KeyType DEF Flows!Next
    <3>6. QED
      BY <3>4, <3>5
  <2>2. ASSUME NEW sid \in Sids, NEW n \in Names, NEW p \in Phases,
               NextPhase(sid, n, p)
        PROVE  Flows!Next
    <3> DEFINE path == FullPath[n]
               next(r) == Following(disk[path], p, r.chosen)
               saved(r) == Saved(Loaded(sid), sid, path, r.scope)
    <3>1. PICK r \in Outcomes(disk[path], p, Seed(sid, path)) :
             /\ sessions' = IF next(r) = NoPhase THEN Cleared(saved(r), sid, path)
                                                 ELSE saved(r)
             /\ Answer("next_phase", sid, path, p, TRUE, next(r), Seed(sid, path))
      BY <2>2 DEF NextPhase
    <3>2. r \in Result
      BY <2>2, SeedType, EngineAssumption DEF NextPhase, Servable
    <3>3. next(r) \in Phases \cup {NoPhase}
      BY <2>2, <3>2, EngineAssumption DEF Result, Following, NextPhase, Servable
    <3>4. View' = Seed(sid, path)
      BY <3>1, <3>3, SeedType, ViewAfterAnswer
    <3>5. CASE sid = NoSid
      <4>1. UNCHANGED <<now, Live>> /\ View' = Fresh
        BY <2>2, <3>1, <3>4, <3>5, Anonymous DEF NextPhase, Live, Expired
      <4>2. QED
        BY <4>1 DEF Flows!Next, Flows!Aside
    <3>6. CASE sid # NoSid /\ next(r) = NoPhase
      <4>1. Live' = [Live EXCEPT ![<<sid, path>>] = NoEntry]
        BY <2>2, <3>1, <3>2, <3>6, LiveAfterClear DEF Result, NextPhase
      <4>2. Flows!Finish(<<sid, path>>)
        BY <2>2, <3>4, <3>6, <4>1, SeedIsCurrent DEF Flows!Finish, NextPhase
      <4>3. QED
        BY <3>6, <4>2, KeyType DEF Flows!Next
    <3>7. CASE sid # NoSid /\ next(r) # NoPhase
      <4>1. Live' = [Live EXCEPT ![<<sid, path>>] =
                        [scope |-> r.scope, lastTouched |-> now]]
        BY <2>2, <3>1, <3>2, <3>7, LiveAfterSave DEF Result, NextPhase
      <4>2. r.scope \in Leaves(Seed(sid, path))
        BY <2>2, <3>1, VisitLeaves DEF NextPhase, Servable
      <4>3. Flows!Visit(<<sid, path>>)
        BY <2>2, <3>4, <3>7, <4>1, <4>2, SeedIsCurrent DEF Flows!Visit, NextPhase
      <4>4. QED
        BY <3>7, <4>3, KeyType DEF Flows!Next
    <3>8. QED
      BY <3>5, <3>6, <3>7
  <2>3. ASSUME NEW sid \in Sids, NEW n \in Names, NEW p \in Phases,
               NEW tool \in {"resolve_phase", "next_phase"}, Refuse(tool, sid, n, p)
        PROVE  Flows!Next
    <3>1. Answer(tool, sid, FullPath[n], p, FALSE, NoPhase, Fresh)
      BY <2>3 DEF Refuse
    <3>2. FullPath[n] \in Paths
      OBVIOUS
    <3>3. tool \in {"resolve_phase", "next_phase", "read_file"}
      OBVIOUS
    <3>4. View' = Fresh
      <4> HIDE <2>3
      <4>1. QED
        BY <3>1, <3>2, <3>3, ViewAfterAnswer
    <3>5. QED
      BY <2>3, <3>4 DEF Refuse, Flows!Next, Flows!Aside, Live, Expired
  <2>4. ASSUME NEW sid \in Sids, NEW n \in Names, NEW p \in Phases,
               ReadFile(sid, n, p)
        PROVE  Flows!Next
    <3>1. View' = Fresh
      BY <2>4, ViewAfterAnswer DEF ReadFile
    <3>2. QED
      BY <2>4, <3>1 DEF ReadFile, Flows!Next, Flows!Aside, Live, Expired
  <2>5. CASE Tick
    <3>1. \A k \in Keys : sessions[k] # NoEntry => sessions[k].lastTouched \in Nat
      BY DEF TypeOK, Entry
    <3>2. Live' = [k \in Keys |->
                     IF Live[k] # NoEntry /\ now' - Live[k].lastTouched > TTL_MS
                     THEN NoEntry ELSE Live[k]]
      BY <2>5, <3>1 DEF Tick, Live, Expired, TypeOK
    <3>3. QED
      BY <2>5, <3>2 DEF Tick, TypeOK, View, Flows!Next, Flows!Elapse
  <2>6. CASE Restart
    BY <2>6 DEF Restart, Live, Expired, View, Flows!Next, Flows!Restart
  <2>7. CASE UNCHANGED <<sessions, now, reply>>
    BY <2>7 DEF Live, Expired, View, Flows!vars
  <2>8. QED
    BY <2>1, <2>2, <2>3, <2>4, <2>5, <2>6, <2>7 DEF Next, Call, Edit, vars
<1>3. QED
  BY <1>1, <1>2, TypeCorrect, PTL DEF Spec, ImplementsFlowScope, Flows!Spec

-----------------------------------------------------------------------------
(* Collection *)

\* What is stored for one flow leaves no expired entry of another.
LEMMA OnlyOwnEntryOutlives ==
    ASSUME TypeOK, NEW sid \in Sids \ {NoSid}, NEW n \in Names, NEW k \in Keys,
           Expired(sessions[k]), k # <<sid, FullPath[n]>>, NEW s
    PROVE  /\ Saved(Loaded(sid), sid, FullPath[n], s)[k] = NoEntry
           /\ Cleared(Saved(Loaded(sid), sid, FullPath[n], s), sid, FullPath[n])[k] = NoEntry
<1>1. Loaded(sid) = [j \in Keys |-> IF Expired(sessions[j]) THEN NoEntry ELSE sessions[j]]
  BY DEF Loaded
<1>2. Loaded(sid)[k] = NoEntry
  BY <1>1
<1>. DEFINE t == Saved(Loaded(sid), sid, FullPath[n], s)
            key == <<sid, FullPath[n]>>
<1>3. t = [Loaded(sid) EXCEPT ![key] = [scope |-> s, lastTouched |-> now]]
  BY DEF Saved
<1>4. t[k] = NoEntry /\ DOMAIN t = Keys
  BY <1>1, <1>2, <1>3
<1>. HIDE DEF t
<1>5. Cleared(t, sid, FullPath[n]) = [t EXCEPT ![key] = NoEntry]
  BY DEF Cleared
<1>6. Cleared(t, sid, FullPath[n])[k] = NoEntry
  BY <1>4, <1>5
<1>. QED  BY <1>4, <1>6 DEF t

\* A call that loads a session leaves no expired entry of another flow in the
\* table, so dead flows go as long as some flow is served (session-state.ts:35).
THEOREM LoadsCollectExpired == Spec => LoadCollectsExpired
<1>1. TypeOK /\ [Next]_vars =>
        [ \A k \in { k \in Keys : Expired(sessions[k]) /\ sessions'[k] # NoEntry } :
            \A sid \in Sids \ {NoSid}, n \in Names, p \in Phases :
               (ResolvePhase(sid, n, p) \/ NextPhase(sid, n, p))
               => k = <<sid, FullPath[n]>> ]_vars
  <2>. SUFFICES ASSUME TypeOK, NEW k \in Keys, Expired(sessions[k]), sessions'[k] # NoEntry,
                       NEW sid \in Sids \ {NoSid}, NEW n \in Names, NEW p \in Phases,
                       ResolvePhase(sid, n, p) \/ NextPhase(sid, n, p),
                       k # <<sid, FullPath[n]>>
                PROVE  FALSE
    OBVIOUS
  <2>1. CASE ResolvePhase(sid, n, p)
    <3>1. PICK s : sessions' = Saved(Loaded(sid), sid, FullPath[n], s)
      BY <2>1 DEF ResolvePhase
    <3>. QED  BY <3>1, OnlyOwnEntryOutlives
  <2>2. CASE NextPhase(sid, n, p)
    <3>1. PICK s : \/ sessions' = Saved(Loaded(sid), sid, FullPath[n], s)
                   \/ sessions' = Cleared(Saved(Loaded(sid), sid, FullPath[n], s), sid, FullPath[n])
      BY <2>2 DEF NextPhase
    <3>. QED  BY <3>1, OnlyOwnEntryOutlives
  <2>. QED  BY <2>1, <2>2
<1>. QED  BY <1>1, TypeCorrect, PTL DEF Spec, LoadCollectsExpired

-----------------------------------------------------------------------------
(* The server *)

\* What the server keeps besides the session table; TypeOK is FlowSession's.
ServerOwn ==
    /\ inbox \in Seq(Lines) /\ sent \in 0..MaxLines /\ closed \in BOOLEAN
    /\ status \in {"running", "exited", "killed"}
    /\ out \in Seq(JsonAnswer) /\ owed \in Seq(ServerIds)
    /\ asked \in SkillIds \cup {NoSkill}

ServerInv == ServerOwn /\ AnsweredInOrder /\ ExitsDrained /\ AnonymousStartsFresh

-----------------------------------------------------------------------------
(* Lines and answers *)

\* A session id, whatever JSON value it was, is text the table knows.
LEMMA SidType == ASSUME NEW l \in Lines PROVE SidOf(l) \in Sids
BY ServerAssumption, SessionAssumption DEF SidOf

\* An accepted call of a phase tool names a document and a phase.
LEMMA PhaseArgs ==
    ASSUME NEW l \in Lines, Accepted(l), l.tool \in {"resolve_phase", "next_phase"}
    PROVE  l.args.file \in Names /\ l.args.phase \in Phases
<1>1. Checked(l.tool) = {"file", "phase"}
  BY DEF Checked
<1>2. ValidField("file", l.args.file) /\ ValidField("phase", l.args.phase)
  BY <1>1 DEF Accepted, ValidArgs
<1>. QED  BY <1>2, ServerAssumption DEF ValidField

\* So does an accepted read_file or render.
LEMMA ReadArgs ==
    ASSUME NEW l \in Lines, Accepted(l), l.tool \in {"read_file", "render"}
    PROVE  l.args.file \in Names /\ l.args.phase \in Phases
<1>1. Checked(l.tool) = {"file"}
  BY DEF Checked
<1>2. ValidField("file", l.args.file)
  BY <1>1 DEF Accepted, ValidArgs
<1>. QED  BY <1>2, ServerAssumption DEF ValidField

\* A phase tool is a call of FlowSession.
LEMMA PhaseToolCalls ==
    ASSUME NEW l \in Lines, PhaseTool(l)
    PROVE  Call
<1>1. SidOf(l) \in Sids
  BY SidType
<1>2. CASE l.tool = "resolve_phase" /\ ResolvePhase(SidOf(l), l.args.file, l.args.phase)
  BY <1>1, <1>2, PhaseArgs DEF PhaseTool, Call
<1>3. CASE l.tool = "next_phase" /\ NextPhase(SidOf(l), l.args.file, l.args.phase)
  BY <1>1, <1>3, PhaseArgs DEF PhaseTool, Call
<1>4. CASE Refuse(l.tool, SidOf(l), l.args.file, l.args.phase)
  <2>1. l.tool \in {"resolve_phase", "next_phase"}
    BY <1>4 DEF Refuse
  <2>2. l.args.file \in Names /\ l.args.phase \in Phases
    BY <2>1, PhaseArgs DEF PhaseTool
  <2>. QED  BY <1>1, <1>4, <2>1, <2>2 DEF Call
<1>5. CASE l.tool \in {"read_file", "render"} /\ ReadFile(SidOf(l), l.args.file, l.args.phase)
  BY <1>1, <1>5, ReadArgs DEF PhaseTool, Call
<1>. QED  BY <1>2, <1>3, <1>4, <1>5 DEF PhaseTool

\* How a line is answered: not at all, or once with the id it is due.
LEMMA OneAnswer ==
    ASSUME NEW l \in Lines, HandleLine(l)
    PROVE  \/ Due(l) = <<>> /\ out' = out /\ Quiet
           \/ \E id \in ServerIds, code \in {ParseError, InternalError, InvalidParams, NotFound, Success} :
                 /\ Due(l) = <<id>>
                 /\ out' = out \o <<[id |-> id, code |-> code]>>
                 /\ code # Success => Quiet
                 /\ Quiet \/ PhaseTool(l)
<1>. DEFINE Says(id, code) == out' = out \o <<[id |-> id, code |-> code]>>
<1>1. \A id, code : Answers(id, code) <=> Says(id, code)
  BY DEF Answers, Respond, McpLogThrows
<1>2. l.id \in ServerIds /\ Null \in ServerIds
  BY ServerAssumption DEF ServerIds
<1>3. CASE Skip(l)
  BY <1>3 DEF Skip, Due
<1>4. CASE Unparsed(l)
  <2>1. Due(l) = <<Null>>
    BY <1>4 DEF Unparsed, Due
  <2>. QED  BY <1>1, <1>2, <1>4, <2>1 DEF Unparsed
<1>5. ASSUME NEW code \in {ParseError, InternalError, InvalidParams, NotFound, Success},
             Answers(l.id, code), code # Success => Quiet, Quiet \/ PhaseTool(l),
             \/ l.form = "scalar"
             \/ l.form = "request" /\ l.method # "notifications/initialized"
      PROVE  \E id \in ServerIds, c \in {ParseError, InternalError, InvalidParams, NotFound, Success} :
                 /\ Due(l) = <<id>>
                 /\ out' = out \o <<[id |-> id, code |-> c]>>
                 /\ c # Success => Quiet
                 /\ Quiet \/ PhaseTool(l)
  <2>1. Due(l) = <<l.id>>
    BY <1>5 DEF Due
  <2>. QED  BY <1>1, <1>2, <1>5, <2>1
<1>6. CASE UnknownMethod(l)
  BY <1>5, <1>6 DEF UnknownMethod
<1>7. CASE Describe(l)
  BY <1>5, <1>7 DEF Describe
<1>8. CASE BadEnvelope(l)
  BY <1>5, <1>8 DEF BadEnvelope, IsCall
<1>9. CASE UnknownTool(l)
  BY <1>5, <1>9 DEF UnknownTool, IsCall
<1>10. CASE BadArguments(l)
  BY <1>5, <1>10 DEF BadArguments, IsCall
<1>11. CASE Threw(l)
  BY <1>5, <1>11 DEF Threw, Accepted, IsCall
<1>12. CASE PhaseTool(l)
  <2>1. Answers(l.id, Success) /\ l.form = "request" /\ l.method = "tools/call"
    BY <1>12 DEF PhaseTool, Accepted, IsCall
  <2>. QED  BY <1>5, <1>12, <2>1
<1>13. CASE PlainTool(l)
  BY <1>5, <1>13 DEF PlainTool, Accepted, IsCall
<1>. QED
  BY <1>3, <1>4, <1>6, <1>7, <1>8, <1>9, <1>10, <1>11, <1>12, <1>13 DEF HandleLine

-----------------------------------------------------------------------------
(* The server is a client of the session table *)

\* Every step of the server is a step of FlowSession, or leaves it alone.
LEMMA ServerStep ==
    ASSUME ServerOwn, [ServerNext]_serverVars
    PROVE  [Next]_vars
<1>1. CASE UNCHANGED serverVars
  BY <1>1 DEF serverVars
<1>2. CASE Handle
  <2>1. Head(inbox) \in Lines
    BY <1>2, HeadTailProperties DEF Handle, ServerOwn
  <2>2. HandleLine(Head(inbox))
    BY <1>2 DEF Handle
  <2>3. Quiet \/ PhaseTool(Head(inbox))
    BY <2>1, <2>2, OneAnswer
  <2>. QED  BY <2>1, <2>3, PhaseToolCalls DEF Quiet, Next
<1>3. ASSUME NEW l \in Lines, Send(l) PROVE [Next]_vars
  BY <1>3 DEF Send
<1>4. CASE CloseInput \/ Exit \/ Kill
  BY <1>4 DEF CloseInput, Exit, Kill
<1>5. CASE Start
  BY <1>5 DEF Start, Next
<1>6. CASE Surroundings
  BY <1>6 DEF Surroundings, Next
<1>. QED  BY <1>1, <1>2, <1>3, <1>4, <1>5, <1>6 DEF ServerNext

\* A process that starts has read and written nothing.
LEMMA FromNothing ==
    ASSUME NEW i, NEW o, NEW w, i = <<>>, o = <<>>, w = <<>>
    PROVE  /\ i \in Seq(Lines) /\ o \in Seq(JsonAnswer) /\ w \in Seq(ServerIds)
           /\ 0 \in 0..MaxLines
           /\ Len(o) = Len(w) /\ DOMAIN w = {} /\ DOMAIN o = {}
<1>1. MaxLines \in Nat
  BY ServerAssumption
<1>2. i \in Seq(Lines) /\ o \in Seq(JsonAnswer) /\ w \in Seq(ServerIds)
  BY EmptySeq
<1>3. Len(<<>>) = 0 /\ DOMAIN <<>> = {}
  OBVIOUS
<1>. QED  BY <1>1, <1>2, <1>3

\* What the server keeps is well typed from the start.
LEMMA ServerInitInv == ServerInit => ServerInv
<1>. SUFFICES ASSUME ServerInit PROVE ServerInv
  OBVIOUS
<1>1. ServerOwn
  BY FromNothing DEF ServerInit, ServerOwn
<1>2. AnsweredInOrder /\ ExitsDrained /\ AnonymousStartsFresh
  BY DEF ServerInit, Init, AnsweredInOrder, ExitsDrained, AnonymousStartsFresh
<1>. QED  BY <1>1, <1>2 DEF ServerInv

\* An answer added on both sides keeps both in step.
LEMMA InStep ==
    ASSUME ServerOwn, AnsweredInOrder, NEW id \in ServerIds,
           NEW code \in {ParseError, InternalError, InvalidParams, NotFound, Success},
           out' = out \o <<[id |-> id, code |-> code]>>, owed' = owed \o <<id>>
    PROVE  /\ out' \in Seq(JsonAnswer) /\ owed' \in Seq(ServerIds)
           /\ AnsweredInOrder'
           /\ DOMAIN out' \ DOMAIN out = {Len(out) + 1}
           /\ out'[Len(out) + 1].code = code
<1>. DEFINE a == [id |-> id, code |-> code]
<1>1. a \in JsonAnswer
  BY DEF JsonAnswer, ParseError, InternalError, InvalidParams, NotFound, Success
<1>2. a.id = id /\ a.code = code
  OBVIOUS
<1>. HIDE DEF a
<1>3. /\ Append(out, a) \in Seq(JsonAnswer)
      /\ Len(Append(out, a)) = Len(out) + 1
      /\ \A i \in 1..Len(out) : Append(out, a)[i] = out[i]
      /\ Append(out, a)[Len(out) + 1] = a
      /\ Append(out, a) = out \o <<a>>
  BY <1>1, AppendProperties, AppendIsConcat DEF ServerOwn
<1>4. /\ Append(owed, id) \in Seq(ServerIds)
      /\ Len(Append(owed, id)) = Len(owed) + 1
      /\ \A i \in 1..Len(owed) : Append(owed, id)[i] = owed[i]
      /\ Append(owed, id)[Len(owed) + 1] = id
      /\ Append(owed, id) = owed \o <<id>>
  BY AppendProperties, AppendIsConcat DEF ServerOwn
<1>5. out' = Append(out, a) /\ owed' = Append(owed, id)
  BY <1>3, <1>4 DEF a
<1>6. Len(out) = Len(owed) /\ Len(out) \in Nat
  BY DEF AnsweredInOrder, ServerOwn
<1>7. /\ DOMAIN out = 1..Len(out) /\ DOMAIN owed = 1..Len(owed)
      /\ DOMAIN out' = 1..(Len(out) + 1) /\ DOMAIN owed' = 1..(Len(owed) + 1)
  <2>1. DOMAIN Append(out, a) = 1..Len(Append(out, a)) /\ DOMAIN out = 1..Len(out)
    BY <1>3, LenProperties DEF ServerOwn
  <2>2. DOMAIN Append(owed, id) = 1..Len(Append(owed, id)) /\ DOMAIN owed = 1..Len(owed)
    BY <1>4, LenProperties DEF ServerOwn
  <2>. QED  BY <1>3, <1>4, <1>5, <2>1, <2>2
<1>8. \A i \in 1..(Len(owed) + 1) : out'[i].id = owed'[i]
  <2>1. ASSUME NEW i \in 1..Len(owed) PROVE out'[i].id = owed'[i]
    BY <1>3, <1>4, <1>5, <1>6, <1>7 DEF AnsweredInOrder
  <2>2. out'[Len(owed) + 1].id = owed'[Len(owed) + 1]
    BY <1>2, <1>3, <1>4, <1>5, <1>6
  <2>. QED  BY <1>6, <2>1, <2>2
<1>9. AnsweredInOrder'
  BY <1>3, <1>4, <1>5, <1>6, <1>7, <1>8 DEF AnsweredInOrder
<1>10. DOMAIN out' \ DOMAIN out = {Len(out) + 1}
  BY <1>6, <1>7
<1>. QED  BY <1>2, <1>3, <1>4, <1>5, <1>9, <1>10

\* A caller without an id is answered from an empty scope.
LEMMA FreshSeed ==
    ASSUME NEW l \in Lines, PhaseTool(l), l.args.skill = NoSkill
    PROVE  reply'.seed = Fresh
<1>1. SidOf(l) = NoSid
  BY DEF SidOf
<1>2. \A path : Seed(NoSid, path) = Fresh
  BY DEF Seed
<1>3. ASSUME ResolvePhase(NoSid, l.args.file, l.args.phase)
      PROVE  reply'.seed = Fresh
  BY <1>2, <1>3 DEF ResolvePhase, Answer
<1>4. ASSUME NextPhase(NoSid, l.args.file, l.args.phase)
      PROVE  reply'.seed = Fresh
  BY <1>2, <1>4 DEF NextPhase, Answer
<1>5. ASSUME Refuse(l.tool, NoSid, l.args.file, l.args.phase)
      PROVE  reply'.seed = Fresh
  BY <1>5 DEF Refuse, Answer
<1>6. ASSUME ReadFile(NoSid, l.args.file, l.args.phase)
      PROVE  reply'.seed = Fresh
  BY <1>6 DEF ReadFile, Answer
<1>. QED
  BY <1>1, <1>3, <1>4, <1>5, <1>6, Zenon DEF PhaseTool

LEMMA ServerNextInv ==
    ASSUME ServerInv, [ServerNext]_serverVars
    PROVE  ServerInv'
<1>. USE DEF ServerInv
<1>1. CASE UNCHANGED serverVars
  BY <1>1 DEF serverVars, vars, serverOnly, ServerOwn, AnsweredInOrder, ExitsDrained,
              AnonymousStartsFresh
<1>2. CASE Handle
  <2>. DEFINE l == Head(inbox)
  <2>1. l \in Lines /\ Tail(inbox) \in Seq(Lines)
    BY <1>2, HeadTailProperties DEF Handle, ServerOwn
  <2>2. /\ HandleLine(l) /\ inbox' = Tail(inbox) /\ owed' = owed \o Due(l)
        /\ UNCHANGED <<sent, closed, status>> /\ status = "running"
    BY <1>2 DEF Handle
  <2>. HIDE DEF l
  <2>3. out' \in Seq(JsonAnswer) /\ owed' \in Seq(ServerIds) /\ AnsweredInOrder'
    <3>1. CASE Due(l) = <<>> /\ out' = out
      <4>1. owed' = owed
        BY <2>2, <3>1, ConcatEmptySeq DEF ServerOwn
      <4>. QED  BY <3>1, <4>1 DEF ServerOwn, AnsweredInOrder
    <3>2. ASSUME NEW id \in ServerIds,
                 NEW code \in {ParseError, InternalError, InvalidParams, NotFound, Success},
                 Due(l) = <<id>>, out' = out \o <<[id |-> id, code |-> code]>>
          PROVE  out' \in Seq(JsonAnswer) /\ owed' \in Seq(ServerIds) /\ AnsweredInOrder'
      <4>1. owed' = owed \o <<id>>
        BY <2>2, <3>2
      <4>. QED  BY <3>2, <4>1, InStep
    <3>. QED  BY <2>1, <2>2, <3>1, <3>2, OneAnswer
  <2>4. Quiet \/ PhaseTool(l)
    BY <2>1, <2>2, OneAnswer
  <2>5. asked' \in SkillIds \cup {NoSkill}
    <3>1. CASE Quiet
      BY <3>1 DEF Quiet, ServerOwn
    <3>2. CASE PhaseTool(l)
      BY <2>1, <3>2, ServerAssumption DEF PhaseTool
    <3>. QED  BY <2>4, <3>1, <3>2
  <2>6. AnonymousStartsFresh'
    <3>1. CASE Quiet
      BY <3>1 DEF Quiet, vars, AnonymousStartsFresh
    <3>2. CASE PhaseTool(l)
      <4>1. asked' = l.args.skill
        BY <3>2 DEF PhaseTool
      <4>. QED  BY <2>1, <3>2, <4>1, FreshSeed DEF AnonymousStartsFresh
    <3>. QED  BY <2>4, <3>1, <3>2
  <2>7. ServerOwn'
    BY <2>1, <2>2, <2>3, <2>5 DEF ServerOwn
  <2>8. ExitsDrained'
    BY <2>2 DEF ExitsDrained
  <2>. QED  BY <2>3, <2>6, <2>7, <2>8
<1>3. ASSUME NEW l \in Lines, Send(l) PROVE ServerInv'
  <2>1. Append(inbox, l) \in Seq(Lines)
    BY AppendProperties DEF ServerOwn
  <2>2. sent + 1 \in 0..MaxLines
    BY <1>3, ServerAssumption DEF Send, ServerOwn
  <2>3. ServerOwn'
    BY <1>3, <2>1, <2>2 DEF Send, ServerOwn
  <2>. QED
    BY <1>3, <2>3 DEF Send, vars, AnsweredInOrder, ExitsDrained, AnonymousStartsFresh
<1>4. CASE CloseInput \/ Exit \/ Kill
  BY <1>4 DEF CloseInput, Exit, Kill, vars, ServerOwn, AnsweredInOrder, ExitsDrained,
              AnonymousStartsFresh
<1>5. CASE Start
  <2>1. /\ inbox' = <<>> /\ sent' = 0 /\ closed' = FALSE /\ status' = "running"
        /\ out' = <<>> /\ owed' = <<>> /\ asked' = NoSkill /\ reply' = NoReply
    BY <1>5 DEF Start, Restart
  <2>2. /\ inbox' \in Seq(Lines) /\ out' \in Seq(JsonAnswer) /\ owed' \in Seq(ServerIds)
        /\ 0 \in 0..MaxLines /\ Len(out') = Len(owed') /\ DOMAIN owed' = {}
    BY <2>1, FromNothing
  <2>3. ServerOwn'
    BY <2>1, <2>2 DEF ServerOwn
  <2>4. AnsweredInOrder'
    BY <2>2 DEF AnsweredInOrder
  <2>. QED  BY <2>1, <2>3, <2>4 DEF ExitsDrained, AnonymousStartsFresh
<1>6. CASE Surroundings
  BY <1>6 DEF Surroundings, Tick, Edit, serverOnly, ServerOwn, AnsweredInOrder,
              ExitsDrained, AnonymousStartsFresh
<1>. QED  BY <1>1, <1>2, <1>3, <1>4, <1>5, <1>6 DEF ServerNext

\* Only an answer can be an error, and an error is answered quietly.
LEMMA ErrorsAreQuiet ==
    ASSUME ServerInv, [ServerNext]_serverVars,
           NEW i \in DOMAIN out' \ DOMAIN out, out'[i].code # Success
    PROVE  sessions' = sessions
<1>1. CASE Handle
  <2>1. Head(inbox) \in Lines
    BY <1>1, HeadTailProperties DEF Handle, ServerInv, ServerOwn
  <2>2. HandleLine(Head(inbox)) /\ owed' = owed \o Due(Head(inbox))
    BY <1>1 DEF Handle
  <2>3. CASE out' = out
    BY <2>3
  <2>4. ASSUME NEW id \in ServerIds,
               NEW code \in {ParseError, InternalError, InvalidParams, NotFound, Success},
               Due(Head(inbox)) = <<id>>, out' = out \o <<[id |-> id, code |-> code]>>,
               code # Success => Quiet
        PROVE  Quiet
    <3>1. owed' = owed \o <<id>>
      BY <2>2, <2>4
    <3>2. i = Len(out) + 1 /\ out'[Len(out) + 1].code = code
      BY <2>4, <3>1, InStep DEF ServerInv
    <3>. QED  BY <2>4, <3>2
  <2>5. Quiet
    BY <2>1, <2>2, <2>3, <2>4, OneAnswer
  <2>. QED  BY <2>5 DEF Quiet, vars
<1>2. CASE UNCHANGED out
  BY <1>2
<1>3. CASE Start
  <2>1. DOMAIN out' = {}
    BY <1>3 DEF Start
  <2>. QED  BY <2>1
<1>4. Handle \/ UNCHANGED out \/ Start
  BY DEF ServerNext, serverVars, serverOnly, Send, CloseInput, Exit, Kill, Surroundings
<1>. QED  BY <1>1, <1>2, <1>3, <1>4

-----------------------------------------------------------------------------
(* The theorems *)

\* Whatever lines it is sent, the server is a FlowSession: what holds of the
\* session table holds of it (server.ts:81-166).
THEOREM ServerIsFlowSession == ServerSpec => Spec
<1>1. ServerInit => Init
  BY DEF ServerInit
<1>2. ServerInv => ServerOwn
  BY DEF ServerInv
<1>. QED
  BY <1>1, <1>2, ServerInitInv, ServerNextInv, ServerStep, PTL DEF ServerSpec, Spec

\* Behind JSON-RPC, with lines in any order, errors, ends of stdin and kills,
\* the table still keeps one private, expiring scope per flow.
THEOREM ServerImplementsFlowScope == ServerSpec => ImplementsFlowScope
BY ServerIsFlowSession, SessionsImplementFlowScope, PTL

\* Each line has its one answer with its id, in order, and a server that ends
\* by itself owes none (server.ts:51-74, 169-255).
THEOREM EveryLineIsAnswered == ServerSpec => []AnsweredAsDue
<1>1. TypeOK /\ ServerInv => AnsweredAsDue
  BY DEF AnsweredAsDue, ServerTypeOK, ServerInv, ServerOwn
<1>. QED
  BY <1>1, ServerIsFlowSession, TypeCorrect, ServerInitInv, ServerNextInv, PTL DEF ServerSpec

\* An error answer never touches a flow (server.ts:201-233).
THEOREM FailuresNeverTouchFlows == ServerSpec => FailuresTouchNoFlow
<1>1. ServerInv /\ [ServerNext]_serverVars =>
          [ \A i \in DOMAIN out' \ DOMAIN out :
               out'[i].code # Success => sessions' = sessions ]_serverVars
  BY ErrorsAreQuiet
<1>. QED
  BY <1>1, ServerInitInv, ServerNextInv, PTL DEF ServerSpec, FailuresTouchNoFlow

\* A caller without a session id starts from an empty scope (server.ts:101).
THEOREM AnonymousAlwaysStartsFresh == ServerSpec => []AnonymousStartsFresh
<1>1. ServerInv => AnonymousStartsFresh
  BY DEF ServerInv
<1>. QED  BY <1>1, ServerInitInv, ServerNextInv, PTL DEF ServerSpec

=============================================================================
