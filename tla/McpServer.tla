----------------------------- MODULE McpServer -----------------------------
(***************************************************************************)
(* The loop of packages/mcp/src/server.ts around the phase tools: lines    *)
(* arrive on stdin, each is one JSON-RPC request, and the answers go to    *)
(* stdout.  The tools are synchronous, so the server handles one line per  *)
(* turn of the event loop; the client may close stdin or kill the process  *)
(* at any time and start another one.                                      *)
(*                                                                         *)
(* A line is a record of what the server tells apart: whether it parses,   *)
(* its method, and the arguments of a tool call.  Of the arguments, only   *)
(* those that decide the outcome are kept.  What a result holds is left    *)
(* out but for the phase tools, whose answer is FlowSession's reply; what  *)
(* invalidate_cache removes is in QueryCache.                              *)
(*                                                                         *)
(* A definition that stands just before the one it alters is a mutant.     *)
(***************************************************************************)
EXTENDS FlowSession, Sequences

CONSTANTS
    Lines,          \* the lines clients write
    Ids,            \* request ids
    NoId,           \* no "id" member: the answer has none either
    Null,           \* "id": null
    SkillIds,       \* values of skill_session_id, of any JSON type
    NoSkill,        \* the argument is missing or null
    SkillText,      \* SkillText[v]: String(v)
    NotText,        \* argument values that are not strings, or are missing
    TooLong,        \* strings of more than MAX_INPUT_BYTES
    Broken,         \* strings with a line break or a null byte
    Punctuated,     \* strings with a character outside [A-Za-z0-9_]
    BrokenDirectives, \* directives whose parse throws: @env without a name
    Malformed,      \* documents whose parse throws
    NotImportable,  \* documents whose parse throws in an import context
    LogWritable,    \* ~/.markdownai/logs can be created and written
    MaxLines,       \* bound on the lines one process is sent, for TLC
    MaxPending      \* bound on the lines waiting in the pipe, for TLC

Methods == {"initialize", "notifications/initialized", "tools/list",
            "tools/call", "other"}

TOOL_ALLOWLIST ==
    {"read_file", "render", "list_phases", "resolve_phase", "next_phase",
     "call_macro", "get_env", "execute_directive", "invalidate_cache",
     "get_constraints", "available_directives"}

ServerIds == Ids \cup {NoId, Null}

ParseError == -32700
InvalidParams == -32602
NotFound == -32601
InternalError == -32603
Success == 0

\* What JSON-RPC 2.0 lets an answer say.
JsonAnswer == [id : ServerIds, code : {-32700, -32603, -32602, -32601, -32600, 0}]

ASSUME ServerAssumption ==
    /\ NoId \notin Ids /\ Null \notin Ids /\ NoId # Null
    /\ SkillText \in [SkillIds \cup {NoSkill} -> Sids]
    /\ Malformed \subseteq NotImportable /\ NotImportable \subseteq Docs
    /\ \A d \in Malformed : Declared(d) = {}
    /\ \A d \in Docs : Declared(d) # {} => d \in NotImportable
    /\ LogWritable \in BOOLEAN
    /\ MaxLines \in Nat /\ MaxPending \in Nat
    /\ \A l \in Lines :
          /\ l.id \in ServerIds /\ l.method \in Methods
          /\ l.args.file \in Names \cup NotText \cup TooLong \cup Broken
          /\ l.args.phase \in Phases \cup NotText \cup TooLong
          /\ l.args.skill \in SkillIds \cup {NoSkill}
          /\ l.tool \in {"read_file", "render"} => l.args.phase \in Phases

VARIABLES
    inbox,   \* lines written to stdin and not yet handled
    sent,    \* how many lines this process was sent
    closed,  \* the client closed stdin
    status,  \* of the process
    out,     \* the answers written to stdout
    owed,    \* history: the id each answer due so far must carry
    asked    \* history: the raw skill_session_id behind reply

serverOnly == <<inbox, sent, closed, status, out, owed, asked>>

serverVars == <<vars, serverOnly>>

ServerTypeOK ==
    /\ TypeOK
    /\ inbox \in Seq(Lines) /\ sent \in 0..MaxLines /\ closed \in BOOLEAN
    /\ status \in {"running", "exited", "killed"}
    /\ out \in Seq(JsonAnswer) /\ owed \in Seq(ServerIds)
    /\ asked \in SkillIds \cup {NoSkill}

ServerInit ==
    /\ Init
    /\ inbox = <<>> /\ sent = 0 /\ closed = FALSE /\ status = "running"
    /\ out = <<>> /\ owed = <<>> /\ asked = NoSkill

-----------------------------------------------------------------------------
(* logger.ts and validate.ts *)

McpLogRethrows == ~ LogWritable

\* mcpLog catches what mkdirSync and appendFileSync throw.
McpLogThrows == FALSE

\* respond and respondError write, then log: a log that threw would land in
\* the catch of handleRequest, which answers again.
Respond(id, code) ==
    IF McpLogThrows
    THEN <<[id |-> id, code |-> code], [id |-> id, code |-> InternalError]>>
    ELSE <<[id |-> id, code |-> code]>>

\* validateField with the options the field is checked with.
ValidField(field, v) ==
    /\ v \notin NotText \cup TooLong
    /\ field = "file" => v \notin Broken
    /\ field = "key" => v \notin Punctuated

\* The arguments dispatchTool validates, by tool; `path` of read_file is "file".
Checked(tool) ==
    CASE tool \in {"read_file", "render", "list_phases", "get_constraints"} -> {"file"}
      [] tool \in {"resolve_phase", "next_phase"} -> {"file", "phase"}
      [] tool = "call_macro" -> {"file", "macro"}
      [] tool = "get_env" -> {"key"}
      [] tool = "execute_directive" -> {"directive"}
      [] OTHER -> {}

ValidArgs(l) == \A f \in Checked(l.tool) : ValidField(f, l.args[f])

SidConverted(l) == SkillText[l.args.skill]

\* A missing or null skill_session_id is the empty session id, any other value
\* is converted to text: 7 and "7" are the same session.
SidOf(l) == IF l.args.skill = NoSkill THEN NoSid ELSE SkillText[l.args.skill]

-----------------------------------------------------------------------------
(* One line.  Each action below answers it, or lets it pass in silence. *)

Answers(id, code) == out' = out \o Respond(id, code)

Quiet == UNCHANGED <<vars, asked>>

IsCall(l) == l.form = "request" /\ l.method = "tools/call"

Accepted(l) ==
    /\ IsCall(l)
    /\ l.tool \in TOOL_ALLOWLIST /\ l.argsObject /\ ValidArgs(l)

Skip(l) ==
    /\ \/ l.form = "blank"
       \/ l.form = "request" /\ l.method = "notifications/initialized"
    /\ Quiet /\ UNCHANGED out

\* A line that is not JSON; or the JSON value null, whose params are read
\* before the try of handleRequest.
Unparsed(l) ==
    /\ l.form \in {"unparsable", "null"}
    /\ Answers(Null, ParseError) /\ Quiet

\* Also any number, string or array; and notifications get this answer too.
UnknownMethod(l) ==
    /\ \/ l.form = "scalar"
       \/ l.form = "request" /\ l.method = "other"
    /\ Answers(l.id, NotFound) /\ Quiet

Describe(l) ==
    /\ l.form = "request" /\ l.method \in {"initialize", "tools/list"}
    /\ Answers(l.id, Success) /\ Quiet

BadEnvelope(l) ==
    /\ IsCall(l)
    /\ l.tool \in NotText \cup TooLong \/ ~ l.argsObject
    /\ Answers(l.id, InvalidParams) /\ Quiet

UnknownTool(l) ==
    /\ IsCall(l)
    /\ l.tool \notin NotText \cup TooLong \cup TOOL_ALLOWLIST /\ l.argsObject
    /\ Answers(l.id, NotFound) /\ Quiet

BadArguments(l) ==
    /\ IsCall(l)
    /\ l.tool \in TOOL_ALLOWLIST /\ l.argsObject /\ ~ ValidArgs(l)
    /\ Answers(l.id, InvalidParams) /\ Quiet

\* The parse of the document throws, or that of the one line execute_directive
\* makes a document of; nothing below dispatchTool catches it.  call_macro parses
\* the document as an import, where @phase is an error, and only for a macro whose
\* name is a word.
ToolThrows(l) ==
    \/ l.tool = "execute_directive" /\ l.args.directive \in BrokenDirectives
    \/ /\ "file" \in Checked(l.tool)
       /\ l.tool = "call_macro" => l.args.macro \notin Punctuated
       /\ disk[FullPath[l.args.file]]
             \in IF l.tool = "call_macro" THEN NotImportable ELSE Malformed

ThrewAfterLoad(l) ==
    /\ Accepted(l) /\ ToolThrows(l)
    /\ Answers(l.id, InternalError)
    /\ sessions' = Loaded(SidOf(l)) /\ UNCHANGED <<now, disk, reply, asked>>

\* dispatchTool logs and rethrows, handleRequest answers -32603.
Threw(l) ==
    /\ Accepted(l) /\ ToolThrows(l)
    /\ Answers(l.id, InternalError) /\ Quiet

PhaseTool(l) ==
    /\ Accepted(l)
    /\ Answers(l.id, Success)
    /\ asked' = l.args.skill
    /\ \/ Refuse(l.tool, SidOf(l), l.args.file, l.args.phase)
       \/ /\ ~ ToolThrows(l)
          /\ \/ l.tool = "resolve_phase" /\ ResolvePhase(SidOf(l), l.args.file, l.args.phase)
             \/ l.tool = "next_phase" /\ NextPhase(SidOf(l), l.args.file, l.args.phase)
             \/ /\ l.tool \in {"read_file", "render"}
                /\ ReadFile(SidOf(l), l.args.file, l.args.phase)

\* list_phases, call_macro, get_env, execute_directive, invalidate_cache,
\* get_constraints and available_directives keep nothing, nor does a
\* read_file that returns the text of a file, or a warning.
PlainTool(l) ==
    /\ Accepted(l) /\ ~ ToolThrows(l)
    /\ l.tool \notin {"resolve_phase", "next_phase"}
    /\ l.tool \in {"read_file", "render"} => disk[FullPath[l.args.file]] \notin Docs
    /\ Answers(l.id, Success) /\ Quiet

HandleLine(l) ==
    \/ Skip(l) \/ Unparsed(l) \/ UnknownMethod(l) \/ Describe(l)
    \/ BadEnvelope(l) \/ UnknownTool(l) \/ BadArguments(l)
    \/ Threw(l) \/ PhaseTool(l) \/ PlainTool(l)

-----------------------------------------------------------------------------
(* The process *)

\* What JSON-RPC owes the client for a line: nothing for blank lines and for
\* the one notification MCP clients send, else one answer with its id.
Due(l) ==
    CASE l.form = "blank" -> <<>>
      [] l.form \in {"unparsable", "null"} -> <<Null>>
      [] l.form = "request" /\ l.method = "notifications/initialized" -> <<>>
      [] OTHER -> <<l.id>>

HandleWhileOpen ==
    /\ status = "running" /\ inbox # <<>> /\ ~ closed
    /\ HandleLine(Head(inbox))
    /\ inbox' = Tail(inbox)
    /\ owed' = owed \o Due(Head(inbox))
    /\ UNCHANGED <<sent, closed, status>>

Handle ==
    /\ status = "running" /\ inbox # <<>>
    /\ HandleLine(Head(inbox))
    /\ inbox' = Tail(inbox)
    /\ owed' = owed \o Due(Head(inbox))
    /\ UNCHANGED <<sent, closed, status>>

Send(l) ==
    /\ status = "running" /\ ~ closed
    /\ Len(inbox) < MaxPending /\ sent < MaxLines
    /\ inbox' = Append(inbox, l) /\ sent' = sent + 1
    /\ UNCHANGED <<vars, closed, status, out, owed, asked>>

CloseInput ==
    /\ ~ closed
    /\ closed' = TRUE
    /\ UNCHANGED <<vars, inbox, sent, status, out, owed, asked>>

\* readline emits every line it has read before 'close'; writes to a pipe are
\* synchronous, so process.exit cuts off nothing.
Exit ==
    /\ status = "running" /\ closed /\ inbox = <<>>
    /\ status' = "exited"
    /\ UNCHANGED <<vars, inbox, sent, closed, out, owed, asked>>

Kill ==
    /\ status = "running"
    /\ status' = "killed"
    /\ UNCHANGED <<vars, inbox, sent, closed, out, owed, asked>>

Start ==
    /\ status # "running"
    /\ Restart
    /\ inbox' = <<>> /\ sent' = 0 /\ closed' = FALSE /\ status' = "running"
    /\ out' = <<>> /\ owed' = <<>> /\ asked' = NoSkill

Surroundings ==
    /\ \/ Tick
       \/ \E path \in Paths, d \in Docs \cup {Unreadable, Plain} : Edit(path, d)
    /\ UNCHANGED serverOnly

ServerNext ==
    \/ Handle
    \/ \E l \in Lines : Send(l)
    \/ CloseInput \/ Exit \/ Kill \/ Start
    \/ Surroundings

\* The event loop runs: a readable line is handled, and the end of stdin seen.
ServerSpec ==
    /\ ServerInit /\ [][ServerNext]_serverVars
    /\ WF_serverVars(Handle) /\ WF_serverVars(Exit)

-----------------------------------------------------------------------------
(* Properties *)

\* Every line gets exactly the answer it is due, in the order of the lines and
\* with its own id, whatever it holds and whichever tool throws, and also when
\* the log cannot be written (server.ts:51-74, 169-251, logger.ts:70-82).
AnsweredInOrder ==
    Len(out) = Len(owed) /\ \A i \in DOMAIN owed : out[i].id = owed[i]

\* A request that is answered with an error leaves every flow as it was: it
\* neither stores nor expires nor releases a scope (server.ts:201-233).
FailuresTouchNoFlow ==
    [][ \A i \in DOMAIN out' \ DOMAIN out :
           out'[i].code # Success => sessions' = sessions ]_serverVars

\* A caller without a session id never sees what an earlier caller set, though
\* the id is converted to text on the way (server.ts:101, 121 and 133).
AnonymousStartsFresh ==
    (reply # NoReply /\ asked = NoSkill) => reply.seed = Fresh

\* A process that ends by itself has answered every line it was sent: closing
\* stdin right after the last request loses nothing (server.ts:241-254).
ExitsDrained == status = "exited" => inbox = <<>>

\* Each line has its answer, no sooner and no later, until the process is gone
\* (server.ts:51-74 and 236-255).
AnsweredAsDue == ServerTypeOK /\ AnsweredInOrder /\ ExitsDrained

\* A line that is sent is answered, also after stdin was closed, unless the
\* process is killed first.
LinesAreHandled == inbox # <<>> ~> (inbox = <<>> \/ status = "killed")

=============================================================================
