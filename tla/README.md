# A TLA+ model of MarkdownAI

MarkdownAI executes Markdown documents: lines that start with `@` are
directives that bind variables, test conditions, loop, read files and
databases, pull other documents in, and split a document into *phases* that a
client (Claude Code, through the MCP server) asks for one at a time.  This
directory holds a TLA+ model of the parts of it that keep state, the TLC
configurations that check the model on small instances, and proofs of the
theorems that hold for every instance.

All paths below are relative to `packages/` of the repository unless they
start with `.mdd/`.

## 1. The system

```
 client (Claude Code)          author's editor            shell / CI
      | JSON-RPC lines              | edits files             |
      v                             v                         v
  mcp/src/server.ts           vscode extension            core/src/cli.ts
      | one call at a time                                    |
      v                                                       v
  mcp/src/tools/* --- session-state.ts              core/src/commands/*
      |   parse + execute                                     |
      +----------------------+--------------------------------+
                             v
        parser (text -> nodes)   engine (nodes -> text)   renderer
                                   |      |       |
                         other files   caches   event worker, databases
```

| component | state | operations | what is hard | correct when |
|---|---|---|---|---|
| engine walk (`engine/src/engine.ts`, `engine-include.ts`, `engine-template.ts`, `iter-ops.ts`, `macros.ts`, `context.ts`) | recursion of `walkNodes`; contexts that share tables; `resolutionStack`, `completedSet`, `callstack`, `chosenTransition` | one per directive; include, template, import, macro calls, loops, phases | exceptions through nested walks, aliasing of copied contexts, cycles of files | no file is entered twice, partials cannot write into their caller, local names stay, the advice is the document's, the walk ends |
| flow sessions (`mcp/src/session-state.ts`, `tools/resolve_phase.ts`, `tools/next_phase.ts`) | table (session, document) -> scope, clock | load, save, clear, expiry | interleaved sessions, edits during a flow, expiry, restarts | every flow sees its own scope only |
| MCP server loop (`mcp/src/server.ts`, `validate.ts`, `logger.ts`) | none beyond the session table; stdin, stdout, a log | dispatch a request | errors inside tools and inside the log, malformed requests, the end of stdin, kills | one answer per line, in order, with its id; failures change no flow |
| query language (`engine/src/db/query.ts`, `db/adapters/`) | none | text -> plan -> SQL or MongoDB calls | precedence, operators inside names and quoted values, two translations of one plan | the rows are those the text says |
| query executor and cache (`engine/src/db/executor.ts`, `cache.ts`, `db/sync-worker.ts`) | in-memory cache of a process, files shared by all processes | execute, read, write, clear, spawn a worker | an `await` between read and write of an entry, several processes, time to live | an entry is the answer to its own question |
| events (`engine/src/event.ts`, `transports/`) | a worker thread and its queue | mask, cut, post, deliver | the process ends before the worker has run; requests race | no secret leaves, events arrive in order, at most once |
| write directives (`engine/src/write-ops.ts`, `read-ops.ts`, `frontmatter-utils.ts`) | files of the project | mkdir, touch, copy, append, update a field | read-modify-write by concurrent renders, line scans of lists | a written field reads back, other fields survive |
| document parser (`parser/src/parser.ts` and `directives/`) | a cursor over lines, the stack of open blocks | collect a block, parse an opener | blocks of the same name nested in each other, fences | each line is consumed once, blocks nest |
| plugins (`engine/src/plugin-loader.ts`, `plugin-detect-exec.ts`) | a cache per project root | load, detect, show | three directories, broken files, an old cache over a new tree | the nearest valid definition wins, the others are explained |
| setup (`core/src/commands/init.ts`, the hook script it writes) | settings, server table and `CLAUDE.md` of a client | install, refresh, guard a read | overlapping and killed runs, files the client writes too, broken files | nothing of the user is lost, nothing is installed twice or half |
| migration scripts (`parser/scripts/migrate-v1-to-v2.mjs`, `scripts/migrate-test-strings.mjs` of the repository) | a stack of open blocks over the lines of a file | rewrite a document, rewrite the documents in a test file | mixed syntaxes, second runs, escapes | the document means what it meant |
| CLI (`core/src`) | `watch` has a debounce timer | one-shot commands, `watch`, `render --budget` | bursts of half saved files | the output is the last save's, sections go by rank |
| VS Code extension (`vscode/src`) | language, registry of macros, diagnostics of a document | providers, auto-close | edits that arrive later than what they answer to | marks, references and inserted close tags fit the text |
| sources, conditions, pipes, security rules, renderer, trace | none, or logs | pure functions and I/O | text | - |

Interactions: a tool of the server parses and executes a document afresh in
each call; the only things that survive from one call to the next are the
session table, the plugin and query caches of the process, its event worker,
and the disk.  Inside one execution every directive is a synchronous call, so
the engine has no interleaving of its own: what is hard is nesting, sharing and
failure.  Interleavings come from the outside: sessions, several processes on
the same cache directory and the same files, the event worker, editors, two
runs of `mai init`.

## 2. The plan

The order is the order of importance: what an author relies on first.

1. `FlowScope`, `FlowSession`: the table and the phase tools (done, proved).
2. `EngineWalk`: one execution of a document (done; all its safety is proved).
3. `BlockParser`: `parser.ts` over all short documents (done; all its safety is
   proved, for documents of any length).
4. `Frontmatter`, `WriteOps`: the write directives, several renders on one file
   (done; all its safety is proved).
5. `McpServer`, composed with `FlowSession` (done; all its safety is proved,
   the refinement of `FlowScope` included).
6. `QueryPlan` with `DbDirective`, `QueryCache`: from the text of a query to the
   rows, and the cache around it (done; all its safety is proved).
7. `EventBus`, `EventDispatch`: the channel that events promise, and the worker
   that implements it (done; all its safety is proved, the refinement included).
8. `Setup` and `Plugins` (done; all their safety is proved),
   `Migration` with `MigrationScripts` (done, `OwnOutputStays` proved).
9. `Watch`, `Editor`, composed by `Authoring`: what follows a document while
   its author changes it (done; all its safety is proved).

Operations still missing: the sources that list and read files, `@hash` and the
other reading directives, `mai build`.

## 3. Modules and the code they model

| module | models | uses |
|---|---|---|
| `FlowScope` | what the server promises: one private, expiring scope per flow | - |
| `FlowSession` | `mcp/src/session-state.ts`, `tools/resolve_phase.ts`, `tools/next_phase.ts`, the part of `tools/read_file.ts` that touches no session, restart of `server.ts` | implements `FlowScope` |
| `McpServer` | `mcp/src/server.ts`, `validate.ts`, `logger.ts`, and how each tool may fail | extends `FlowSession` |
| `EngineWalk` | `engine/src/engine.ts`, `engine-include.ts`, `engine-template.ts`, `iter-ops.ts`, `macros.ts`, `context.ts` | - |
| `BlockParser` | `parser/src/parser.ts`, the table of `registry.ts` | - |
| `Frontmatter` | the line algorithms of `engine/src/write-ops.ts` and `frontmatter-utils.ts` | - |
| `WriteOps` | the write directives of `write-ops.ts`, several renders | extends `Frontmatter` |
| `QueryPlan` | `engine/src/db/query.ts`, `db/adapters/mongodb.ts`, `sql-shared.ts` | - |
| `DbDirective` | one `@db` directive, from what its author says to what the adapters are asked | extends `QueryPlan` |
| `QueryCache` | `engine/src/db/executor.ts`, `cache.ts`, `executeDb` of `sources.ts` with `db/sync-worker.ts`, `mai cache`, `invalidate_cache` | its instance takes the rows of `QueryPlan` and checks its plans against it |
| `EventBus` | what `@event` promises: copies arrive in order and at most once, or not at all | - |
| `EventDispatch` | `engine/src/event.ts`, `transports/`, the worker | implements `EventBus` |
| `Setup` | `core/src/commands/init.ts`, the hook script it installs | - |
| `Plugins` | `engine/src/plugin-loader.ts`, `plugin-detect-exec.ts` | - |
| `Migration` | the rules of `parser/scripts/migrate-v1-to-v2.mjs` | - |
| `MigrationScripts` | both scripts as they are applied to files | extends `Migration` |
| `Watch` | `core/src/commands/watch.ts`, `render.ts` with `--budget` | - |
| `Editor` | `vscode/src/extension.ts`, the diagnostics, macro, reference and completion providers | - |
| `Authoring` | an author with one of the two tools | extends `Watch` and `Editor` |
| `MC*` | instances for TLC | extend the module they are named after |
| `*Proofs` | theorems | extend the module they are named after; `McpServerProofs` has those about `FlowSession` too, `ToolsProofs` those about `Setup`, `Plugins` and `Authoring`, `BlockParserProofs` one about `MigrationScripts` |
| `NaturalLemmas` | least and greatest elements of sets of naturals, what is handed on from one number to the next, the sequence a function iterates | used by the other proofs |

A definition listed as a mutant in a module's header comment is used by no run
as it stands: it is the definition behind it with one plausible mistake, there
to show that a property notices.

### FlowScope and FlowSession

`sessions` is the `Map` of `session-state.ts`, keyed by (session id, absolute
path) as its `key` does; `now` is `Date.now()`, `disk` what each path holds,
`reply` the last answer.  `Loaded`, `Saved`, `Cleared` and `Expired` are the
functions of the file; `ResolvePhase` and `NextPhase` are the two handlers, each
one step, because a handler runs to completion on the event loop; `Refuse` are
their early returns, `ReadFile` is the tool that executes a document with no
session.  The code joins the two halves of a key with `::`, the model has a pair
(section 7).  `Tick`, `Edit` and `Restart` are the surroundings: time, an author who
saves another version of the file in the middle of a flow, a new process with an
empty table.

The engine is a parameter: `Outcomes(d, p, s)` is the set of results that
executing document `d` with phase `p` from scope `s` may have, assumed to be
non-empty and well typed and nothing else.  What the engine does in there is
`EngineWalk`.  The server never passes the `env` argument of `resolve_phase`,
which is left out.

`FlowSession` implements `FlowScope` under a mapping that drops expired entries
from the table: that `gcExpired` runs only when some call loads a session must
not be visible in what a phase sees.  A run has one path, under two spellings;
that documents do not see each other's scopes is part of the theorem, which is
for any number of paths.

### EngineWalk

The engine is recursive: `walkNodes` calls `walkNodeCore`, which for a loop, a
branch, a macro, an include or a template calls `walkNodes` again.  A frame of
`stack` is one such activation with the nodes it has yet to walk; an exception
(`thrown`) unwinds frames one by one, and stops where the code has a `catch`
(`execute` catches per top-level node) or does work in a `finally`.

What makes the engine hard is what contexts share.  The code makes a context
with `{ ...ctx }` and replaces some tables; the tables it does not replace are
the same objects.  A context is therefore a record of references and `store`
holds the tables: sharing is equality of references, and a table is copied when
the code copies it (`ForkedCtx`).  `resolving`, `completed`, `callstack`
and `chosen` are the sets and fields of the same names.

One action stands for each kind of node (`HandlePhase`, `HandleConditional`,
`HandleSwitch`, `ExecuteForeach`, `HandleCall`, the `Walk...` actions) and one for
the end of each activation (`EndCall`, `EndImport`, `EndPhase`, ...), `Throw`,
`Unwind` and `Catch` for failures.  What stands right of `@set` or behind the `in`
of `@foreach` may be a directive, which is parsed and walked in the same context
before the variable is bound (`Evaluate`, `SetFromDirective`); it may fail like any
other, and `EndSet` and `BeginLoop` go on with what it printed.  The rendered text, warnings, `process.env`,
the macros of the standard library, positional macro arguments, paths computed
at run time, and `@constraint`/glossary tables are left out.

### BlockParser

`parseNodes` walks lines with a cursor; for a block it calls `collectBlock`,
which looks ahead for the close tag, and recursively parses the slice in
between.  Slices of slices are intervals of source lines, so that a frame of
`stack` is an interval with a cursor, and `collectBlock` is one expression over
the interval.  A line is its shape: what it opens or closes, whether it is
self-closed or piped, a fence, an attribute line, a lone `>`, an old `@end`; of an
opener also what follows its name, because `tryParseOpener` and `collectBlock`
recognise openers by different expressions: `@if(x)` (`Glued`) and `@if/`
(`Slashed`) are one to one of them only.
`nodes` collects what each line became and below which opener, `passed` the
lines that become clauses or are dropped, `outcome` how the parse ends.  Attributes,
arguments and raw bodies are not looked into.

### Frontmatter and WriteOps

A frontmatter block is a sequence of lines, a line has a kind, an indent, a name
and a text.  `Updated(b, u)` is the body `@update-frontmatter` makes of `b`,
`Reading(b, name)` is what `@read-frontmatter` says of a field.  Neither parses
YAML: both search with regular expressions, and the model searches the same lines.

`WriteOps` lets several renders work on one file.  A directive first looks
(`ExecuteTouch`, `ExecuteCopy`, `ExecuteAppendIfMissing`,
`ExecuteUpdateFrontmatter`) and then writes in steps of its own (`Create`,
`AppendText`, `OpenForWriting` then `WriteContent`), because `writeFileSync` and
`copyFileSync` empty a file when they open it and another process may look in
between.  `Kill` ends a render anywhere, also with the file emptied.  Writes
overlap at the file's beginning: what is left of a longer content behind a
shorter one is `Remains`.  The source of `@copy` exists; `node:fs` does not fail
except on a directory.

### McpServer

`pipe` is what the client has written and the server has not read, `out` the
answers on stdout, `owed` the ids of the lines that were handled.  A line is a
record of what the server tells apart, and one step of the server is one line:
`Handle` parses it, looks at the method, checks the arguments as `validate.ts`
does field by field, and either takes the step of `FlowSession` that the tool
is, or leaves the table alone.  `Threw` is the outer `catch`: it sees whatever a
tool or the log throws.  The client writes lines, closes stdin and kills; `Exit`
is the end of a server whose stdin is closed and whose pipe is empty.  `SidOf` is
`String(args.skill_session_id)`, which is what makes an object or a number a
session id, and `undefined` almost one.

### QueryPlan and QueryCache

A `where=` text is a sequence of tokens: words, quotes, operators, parentheses,
and connectives with their blanks (`" && "`) or without (`"&&"`).  `SplitOnLogic`
cuts at a connective between blanks wherever as many parentheses were closed as
opened, inside quotes too; `ParseOneFilter` cuts a piece at the first occurrence
of the first operator *of its list*, inside quotes too.  `SqlMatches` and
`MongoFilter` select rows of a table of typed values with `Null`; what a driver does
with values of different types follows the drivers.  Where a database may choose
(the order of rows that tie or that nobody asked to sort, the row of `one`), the
answer is a set: `MongoAnswers` and `SqlAnswers` are all answers the database may
give, the latter for each dialect, of which Postgres sorts nulls above everything
and the others below, as MongoDB does.

`DbDirective` has the reference: what the author says is a sequence of conditions,
each with its place in the text, with or without parentheses of its own, and the
connective behind it (`Spells`); `Means` takes a condition apart at its operator and
`Says` is the meaning of the whole by the usual precedence.  A text with a
connective inside parentheses, one without blanks, or parentheses that do not match
is `Odd`: the parser has no rule for it, and only `AdaptersAgree` speaks of it.  A
behaviour is a directive, a collection, and the one step that parses.

In `QueryCache` a call of `execute` looks into the cache, waits for the adapter
(`task`), which may give any of its answers, and writes; two calls of one process
interleave there, and with them
`mai cache clear`, another process, the clock, a change of the table.  Keys are
texts made of the plan: `SameKey` says when two are equal.  A render that meets
a `@db` blocks its process until a worker process answers or times out.

### EventDispatch

The thread of a render walks the transports of each event of its document, of
which there may be none:
`Ignore` without a configuration, `NotAllowlisted`, `FireMcp`, `DispatchExternal`.  A payload is a
sequence of parts, of which two in a row are a secret; `Payload` evaluates, masks
and cuts.  `Work` is the worker: it takes the oldest message and writes to a
file or starts a request (`flying`); requests end in any order.  `Exit` ends a
process with all it has not written.  `Bus` maps it to `EventBus` by the slot a
copy comes from: render, event and position.

### Setup

A run of `mai init` has a list of files to look at (`Stages`); for each it looks,
and if its part is missing it truncates and writes back what it read.  Other
runs and the client do the same to the same files, and a kill may fall anywhere.
A user's hook whose command mentions the name of one of the two scripts is taken
for it, each list of hooks by itself (`PreInstalled`, `StartInstalled`).
`CLAUDE.md` is a sequence of user lines, line ends and the section's markers,
which `stripClaudeMdSection` searches as the regular expression does.  The hook
script that is registered decides whether a file is a MarkdownAI document by a
scan of its own; `leaked` collects what it lets through.

### Plugins

A text of a plugin file is what `loadOnePlugin` tests, with the lines of its
blocks.  A directive lists the directories in turn (`job`), reads, and keeps the
result for the life of the process (`cache`), while others write both plugin
files and the tree the signals are looked up in.  `asOf` remembers what the
directories held at the load, `moved` whether they changed during it: what a
directive finds is compared with that.

### Migration and MigrationScripts

A line is what the script's regular expressions tell apart.  `Rewrite` is the
loop of `migrate`, one operator per case.  Authors write constructs that have a
form in either syntax, and `meant` is the document in the second one throughout;
`MigrateFile` may come at any time.  The documents in the strings of a test file are
modelled twice: as arrays of lines that are rewritten as one document and then
line by line, and as text that is decoded and encoded character by character.  A
placeholder in front of a document is a line of its own while the rules run if a
`@` follows it right away (`AtStart`), and part of a line of text otherwise.

### Watch, Editor, Authoring

`Watch` has a file that is truncated and filled in parts (`SavePart`, `Fill`) or
replaced by rename, a watcher that renders, listens and sets its timer, and the
events in between.  A part with a header renders like any other text.  When the
watcher of the file fails (`FallBack`), the code closes it before it watches the
directory, and an event it had not delivered is gone.  `runRender`
leaves out sections by `--budget`; a draft has pieces with length and priority.
`Editor` has the text of one document, the providers that are run on each
change, and the three things that come later: the stdlib, the switch of the
language, the insertion of a close tag.  `Complete` leaves the `@` that was typed in
front of the item, as VS Code does for items without a range (`Doubled`).  `Authoring` starts one of the two; they
share only the author, and one instance of TLC checks both.

## 4. The runs

| run | what it asks | bounds |
|---|---|---|
| `flow_session` | does the table implement `FlowScope`; does a load collect what expired | two sessions and the anonymous caller, one path in two spellings, two documents of two phases, three scopes, clock 0..3 with `TTL_MS` = 1 |
| `engine_walk` | `NoReentry`, `FramesKeepTheirOwn`, `TemplateSandbox`, `CompletedIsDefined`, `OnlyTheDocumentAdvances`, termination | documents of three files from pools that pull files in by every directive, inside phases, loops and macros, cyclically, with files that are blocked, unreadable, malformed or without header; and documents of three nodes over two variables and seven values; `StackLimit` = 6 |
| `block_parser` | is each line accounted for once; are blocks where a bracket matcher puts them; are line numbers sane; does the parse end | all documents of up to three lines over 28 shapes, of up to six over six (two parsed blocks and a raw one), and of up to five over the tags of one block with the openers only one of the two recognisers takes |
| `write_ops` | are updates exact; do fields survive concurrent renders | one update out of 21 on each of some 800 bodies; two renders, one or two directives each |
| `query_plan` | do SQL and MongoDB select what the text says; do they agree | some 600 sequences of up to three conditions on two fields, bare and bracketed, with plain and quoted values, and some 70 odd texts, with each of 19 sets of options and four collections of up to four rows |
| `query_cache` | are entries honest, is a session stable, does every call end | two callers of one process with ten calls, two tables, a clock of 0..1, `TTL` = 0 |
| `event_dispatch` | does the worker implement `EventBus`; is no half secret left; does each allowed transport get its copy, and nobody else | two processes, three renders, documents of one or two events with none to three transports, five configurations |
| `mcp_server` | is each line answered once, in order; do failures leave flows alone; are lines handled | lines of every form, `MaxLines` = 3 for each process, `MaxPending` = 2, one flow of two phases, a log that cannot be written |
| `setup` | does the guard hold; is an installation sound; are texts kept | two runs, sixteen installations (four configurations, eleven texts of `CLAUDE.md`, nothing at all), ten documents |
| `plugins` | is the right definition found or its absence explained; is a project detected as its plugin says | two directives, two projects and two shared directories, every way a plugin file can be broken, one edit |
| `migration` | does a document keep its meaning; does a second run change nothing; do test files keep their documents | documents of up to four constructs, literals of up to five characters |
| `authoring` | does the output follow the file, by rank; do marks, references and tags follow the text | five drafts and three texts a save leaves for a moment; texts of a few lines over a dozen shapes |

Why the bounds are enough.  For `flow_session`: with a limit of one and a clock
of three, an entry can be fresh, at the limit, expired and collected, or expired
and not yet looked at, each while the other session is in another of these; a
third session would only repeat what the second does to the first, and the
theorem covers it.  For `engine_walk`: two files besides the main one are the
least that make a cycle that does not pass through the main document, a failure
two files deep, and a file pulled in twice by different directives.  The stack
limit makes overflow a possibility and cuts mutual recursion of macros; the
longest chain without recursion fits below it.  Its other half needs two
variables, one of which is set from the other, and values that differ as text and
agree as conditions or the other way round (`"false"` and `false`, `null` and
the empty text); what they decide is which branches are walked.  For `block_parser`: six lines hold three nested blocks, two
blocks of the same name in each other, and every way two pairs of tags overlap;
three lines over all shapes hold a block, its clause or fence, and what comes
behind; an odd opener shows within three lines, and five hold one in a block in a
block; `EachLineOnce` and `BlocksNest` are proved for all documents.  For `write_ops`: two list
items of six kinds, in lists before and behind another list, are the least on
which an off-by-one at the end of an item, of a list and of the block differ.
Two renders suffice for each pair of "look" and "write" to overlap; the theorems
are for any number, and for any header.  `query_plan`: three conditions are the least with both
connectives on either side of one, and with a bracket around two of them; values
hold each token the parser may cut at; four rows hold ties and nulls side by side; both
theorems are for texts of any length, any conditions and any collection.
`query_cache`: two calls are the least that overlap; ten calls hold every pair
of one key or two, with and without rules, persisted or not; the theorem is for
any number.  `event_dispatch`: one process that renders twice has two renders in
one queue, two processes have one file; three transports have one before and
one behind a refused one.  `mcp_server`: three lines hold a flow with a failure
in it, two in the pipe are the least that an end of stdin can cut; the theorems
are for any number.  `setup`: two runs are the least that race, and each repeats
what the other has done.  `plugins`: the interesting number is that of
directories for one name, which is the program's own.  `migration`: four
constructs nest two blocks with a directive inside and one behind; five
characters hold an escape, a placeholder and what follows.  `authoring`: a draft
has a section of each priority with the larger one before the smaller; a text
has two blocks in each other and a line between; the theorems are for all drafts,
all lines an author may write, and a document of any size.

Bounds that are not in the code, all in guards: `MaxTime` (the clocks),
`MaxLines`, `MaxPending`, `MaxRenders`, `MaxEdits`, `MaxJobs`, `MaxConstructs`,
`MaxChars`, the `size` of a workload of `Editor`.

Deadlock.  `flow_session`, `mcp_server` and `authoring` check for it: a server
can always be called or started, an author can always go on.  In the others the
system may stop: a render, a parse, a walk and a run of `mai init` come to their
end, and the model's clock and numbers of edits do.

Fairness.

- `engine_walk` and `block_parser`: weak fairness of the whole next-state
  relation.  A walk and a parse are one synchronous JavaScript call: nothing
  else runs in the process until it returns, so a step that can be taken is
  taken.
- `query_cache`: the adapter settles (weak fairness of its answer or failure),
  a spawned worker ends (it has a timeout), and a settled promise is resumed
  (strong fairness: a render that blocks the event loop disables the
  continuation again and again).
- `event_dispatch`: weak fairness of the render's thread and of the worker.
- `mcp_server`: the event loop comes to a line that is there and to the end of
  stdin (weak fairness of `Handle` and of `Exit`).
- `authoring`: the event loop of the watcher comes to an event or a timer that
  waits.  How long 300 ms are is not in the model, and neither the author nor
  the extension host owes a step.

There is none in `FlowSession`, `WriteOps`, `Setup`, `Plugins` and the scripts, and no
liveness is claimed: nobody has to call again.

## 5. What the properties say

A run checks few properties; some are conjunctions whose parts are named:

| property | its parts |
|---|---|
| `FramesKeepTheirOwn` | the types, `CallstackTracks`, `LocalConnectionsStay` |
| `BlocksNest` | `HangsUnderInnermost`, `SameNameCloses`, `CountingFindsTheMatch` |
| `UpdatesAreExact` | `OthersKept`, `ReadsBack`, `Idempotent` |
| `SelectsWhatItSays` | `SqlSelectsWhatItSays`, `MongoSelectsWhatItSays`, `NeverRefused` |
| `AnsweredAsDue` | the types, `AnsweredInOrder`, `ExitsDrained` |
| `InstallationIsSound` | the types, `RegisteredOnce`, `RegisteredScriptsRun`, `ClientsEntriesKept`, `RefreshSettles` |
| `TextsAreKept` | `BrokenIsKept`, `UsersLinesKept` |
| `FoundOrExplained` | the types, `FoundAsInstalled`, `UnusedAreExplained` |
| `KeepsItsMeaning` | the types, `ReadsAsWritten`, `NothingLost` |
| `TestsKeepTheirDocuments` | `TestsReadAsWritten`, `PlaceholdersKeepTheirPlace`, `LiteralsKeepTheirText` |
| `OutputIsCurrent` | the types, `OutputIsWhole`, `IdleIsCurrent` |
| `EditorKeepsUp` | the types, `MarksAreCurrent`, `ReferencesComeBack` |

Where it could be argued about:

- `ImplementsFlowScope` is the whole contract of the session table: no leak
  between sessions or documents, no values from before an expiry, even when the
  expired entry is still in the table, and none after a finished flow.
- `NoReentry` holds through every failing path: `executeImport` does not remove
  its file from `resolutionStack` when it throws, which makes the set too large
  and never too small (section 7).
- `TemplateSandbox` compares whole tables of every context below a template
  before and after each of its steps.  It is an action property because a
  template could write and restore.
- `CompletedIsDefined`: `@import` skips a file that is complete, on the strength of
  a set all contexts share, so what completes a file must have handed its macros to
  the document: an `@include` does, because its context shares the table.  A file
  that is completed below a template is the exception (section 7).
- `OnlyTheDocumentAdvances`: the advice given to the client (`nextPhase`) is set
  by the main document, and once.
- `BlocksNest` compares the look-ahead of `collectBlock`, which counts tags of
  one name only, with a bracket matcher that knows them all.  That a block finds
  its close tag in spite of others of its name is about blocks inside a block (at
  the top level it may have none), and the comparison with the matcher about
  documents of blocks, text and self-closed tags; a self-closed `@on` or
  `@on-complete` is syntax the parser refuses.  Openers that one recogniser takes
  and the other does not are in both, with the provisos the code forces: one
  without a blank (`@if(x)`) may be left unclosed, and a document holds none inside
  a block of its own name if its blocks are to be the matcher's (section 7).
- `UpdatesAreExact` compares writer and reader, which are separate code in
  separate files.
- `FieldsSurvive`: a directive that finds the file emptied in the middle of
  somebody else's write does not build on it.
- `SelectsWhatItSays` has three provisos: one connective throughout, values that
  hold nothing the parser cuts at although they stand in quotes (`Plain`: a
  parenthesis, an operator that comes earlier in its list, a connective between
  blanks unless the condition is in parentheses), and, for an AND on MongoDB, no
  two conditions on one field.  Without each of them it fails (section 7).  A
  value may hold the rest: an operator the parser comes to later, a connective
  without blanks.
- `AdaptersAgree` says what remains between MongoDB and each SQL dialect: where
  what a plan compares, shows and sorts by are numbers (or nulls, where both sort
  them alike), and neither a repeated field, a label, a `one` with columns nor a
  limit of 0 tells them apart, each may answer exactly what the other may,
  whatever the text was and however it was taken apart.
- `EntriesAreHonest` is about the question an entry was the answer to, not
  about what the table holds now: that is what a cache is for.
- `SessionIsStable` allows one replacement: by a call that missed while another
  one for the same key was on its way.
- `ImplementsBus`: nothing says that a copy arrives; what arrives was handed
  over, arrives once, and in order but for requests, which race.
- `FailuresTouchNoFlow` and `AnonymousStartsFresh` are about lines, not calls: an
  error after a load, or a missing id that became the text `undefined`, would
  show only there.
- `InstallationIsSound` excludes what two read-modify-writes of one file do to
  each other and a file that a kill left empty (`raced`, `torn`); everything else
  holds through any overlap, and a repeated run repairs what was cut short.
  `RefreshSettles`, one of its parts, takes three refreshes: the second may still
  trim blank lines at the end of the text.  `WorldAssumption` starts from files in
  which an earlier installation, if there is one, is whole.
- `DetectedAsWritten` compares what the loader detects with what the author of the
  plugin asked for, which the instance knows because it wrote the file.  A line
  scan that reads a block of `plugins` as something else fails `AuthorsAssumption`.
- `KeepsItsMeaning` has a reference too: the same constructs written in the
  second syntax from the start.
- `PlaceholdersKeepTheirPlace` is about documents whose first line the script
  recognises behind a placeholder: a directive right behind it, or nothing a rule
  is about; and it lets go of one line break there (section 7).
- `OutputIsCurrent` and `SavesAreRendered` count as `missed` a change that came
  before `watch()`, behind a rename, or was not delivered when the watcher failed.
- `BudgetGoesByRank` says what the greedy pass keeps, which is less than the
  documentation says (section 7).
- `TagsFit` uses a bracket matcher by names; what the extension counts is blind
  to names.  It is about close tags behind a line break; completed blocks do not
  fit (section 7).

## 6. The proofs

Checked by TLAPS for every value of the constants, under the `ASSUME`s of the
modules (types of the inputs; for the engine that arguments substituted into a
node leave a node; a stack limit above zero).

- `McpServerProofs`, of the sessions: `TypeCorrect`, `LoadsCollectExpired`, and `SessionsImplementFlowScope`: initial states map to
  initial states, each call to a `Visit`, `Finish` or `Aside`, `Tick` to `Elapse`,
  an edit to a stutter.  The mapping drops expired entries, so that collecting
  them changes nothing.  Of the server: `ServerIsFlowSession` (each step of it is
  a step of `FlowSession` or a stutter), and from it `ServerImplementsFlowScope`
  without another proof about sessions; `EveryLineIsAnswered`,
  `FailuresNeverTouchFlows` and `AnonymousAlwaysStartsFresh` from the invariant
  `ServerInv`, which adds what a server that has ended has left in its pipe.
- `EngineWalkProofs`: all but termination and `CompletedIsDefined`.
  - `WalkTypeCorrect` and `NoFileReenters`.  `NoReentry` alone is not inductive:
    it says nothing about a frame that is about to return.  The invariant adds
    `InProgress` (an open file is marked in `resolving`), `Rooted` (the document
    is the outermost frame and the only one of its kind), `Nested` and `Separate`
    (references of inner frames are not older than those of outer ones, and
    strictly younger inside a template), `Quiet` (no phase is active in an
    included file).
  - `AdviceStays` and `TemplatesAreSandboxes` from the same invariant: a step
    writes through the references of the innermost frame, and below a template
    nobody outside holds those.
  - `FramesKeep`: the callstack is the macros and files being walked, in order,
    and a connection bound by `@connect local` is visible only while the file
    that declared it is walked.  For this the invariant is joined by `OwnInv`:
    connections and the names declared locally are always copied together
    (`Paired`), a file that is walked has strictly younger connections than what
    is around it (`Layered`), every activation except that of an import has the
    connections of the file it is in (`Homed`), and each visible local connection
    has an open file that declared it and lists it for its end (`LocalsHeld`).
    The last one is what a removal in a `finally` has to find.
- `BlockParserProofs`: `ParserTypeCorrect`, `NumbersNeverLate`,
  `ParserGoesForward`, `EachLineIsReadOnce` and `TreesAreNested`.  The invariant is about intervals:
  each frame lies in its source, and the frame below goes on just behind the
  close tag of the frame above (`Linked`); a return could otherwise put the
  cursor anywhere.  For `EachLineIsReadOnce` it is joined by `Ledger`: each line behind
  the cursor has one claimant or was passed over, each line ahead has none but,
  as its close tag, one open block, and slices get shorter inwards, so that no
  open block's close tag lies in the slice that is being read.  `TreesAreNested`
  is about all of `BlocksNest` and needs three more facts:
  - `Hanging`: every open block is a node, and the open blocks are those whose
    close tag is still ahead, so the innermost is the one that is being read.
  - `AllSearched`: what `collectBlock` counted for each open block, a depth of at
    least one up to its close tag and none at it.  From the slice of a block one
    cannot see that another of its name inside it must close: its counting can.
  - `Matched`, in a document whose tags match: each call's cursor stands between
    whole blocks, with as many unmatched tags as at its opener, and the blocks
    read so far are the matching pairs behind the cursor, none left out.
    Inside the block that is collected, as long as no opener there is one that
    only one recogniser takes (`Tame`), the depth is one more than the unmatched
    openers of its name since (`DepthInside`), and therefore the tag the counting
    stops at is the match (`MateCloses`).
- `BlockParserProofs`, of the migration: `SecondRunChangesNothing`, for every text
  the script may find, whole documents or not.  The loop is a recursive function;
  `LoopIs` gives the sequence of its states, and `RewriteStays` runs a second loop
  beside it: where the first is at a state, the second is at the state that has
  written the same and stands just behind it (`Again`).  `StepsTwice` is the step,
  by the kind of the line: one pass of the second run takes what a pass of the
  first has written, as it is, with the same effect on the open blocks and the
  fence.  The case that needs care is `ClosedAgain`, the directive written out as a
  block: the second run must find the end of its lines where the first has put
  the tag.
- `WriteOpsProofs`: `UpdateKeepsFields` (for every body and request, by a lemma
  per shape of update on where the lines of a list lie), `WritesTypeCorrect`,
  `DocumentsKeepTheirFields` and `UpdatesDoWhatTheySay`.  `FieldsSurvive` only speaks of moments when nobody
  writes; the invariant `Guarded` adds what every render that has the file open
  is about to write, and that a file without fields has such a writer.
  `UpdatesDoWhatTheySay` is about all of `UpdatesAreExact`.  Its invariant
  (`AsPlanned`) says where the content a call is about to write comes from; the
  rest is about one update of an arbitrary header: where the reader finds the
  fields of what was written (its first line of that name, its list up to the
  first line that is none of its items), that this is what was asked for or what
  was read before, and that the same update finds nothing left to do.
- `QueryProofs`, of the query language: `WhatIsSaidIsSelected` and
  `AdaptersAlwaysAgree`, for every sequence of conditions, every set of options
  and every collection.  There is no invariant to strengthen but that a plan is
  what the parser made of the arguments; the work is in the two readings of a text.
  - The parser counts parentheses and knows nothing of quotes, the author knows
    where each condition stands.  A position lies in one condition or is a
    connective between two (`AllCovered`, `Apart`), as many parentheses are open
    there as the condition has of its own (`DepthIs`), so the cuts are the
    connectives (`CutsAre`), the pieces the conditions (`SplitIs`), and each is read
    as it is meant (`PieceIsRead`, `ConditionIsRead`: the operator of the condition
    is the first its list finds, for a plain value).  With one connective throughout
    the plan then selects what the text says (`UniformSays`), and what is refused is
    refused for the other options (`NothingRefused`).
  - Both adapters keep the same rows (`AdaptersAskTheSame`): an object of one key
    per field holds every condition if no field repeats.  The sort as an object of
    keys and as a list of terms, by two orders of values, permits the same orders
    of those rows (`SortsAreAlike`, `OrdersAreAlike`), and what is cut, projected
    and aggregated of each is the same (`AnswersAreAlike`), for which it is needed
    that what is shown is still a row of the collection (`ChosenAreHits`).
- `QueryProofs`, of the cache: `CacheTypeCorrect`, `EntriesAlwaysHonest` and
  `SessionStaysStable`.  `EntriesAreHonest` is not inductive: a call that waits
  will write what it was answered.  `SettledOwnAnswer` adds that an answer under
  way is one to the question of its caller.  The third is about steps, and rests
  on two more facts: a call that went out while another was out for its key has
  that noted, and so has the other (`RivalsKnow`); and while one is out alone, its
  process has no entry it could replace (`AloneMissed`).
- `EventDispatchProofs`: `NothingHalf`, `DeliveredAsWritten` and `DispatchIsABus`,
  the refinement of `EventBus`.  `OrderInv` says where the thread of a render is
  and that it has handed over exactly what lies before that place; `BusInv` that
  the worker's queue is in order, that requests under way and copies that have
  arrived come before all that is in it, and that no copy is both under way and
  arrived.  Each step of thread, worker or request then maps to a post, a
  delivery, a loss or a stutter.
- `ToolsProofs`, of the installation: `NothingEverLeaks`,
  `InstallationStaysSound` and `TextsStayKept`,
  for any number of runs.  `SetupInv` says where a run is in its list and what it
  has read (`StagesFit`, `SeenFits`), that nothing is registered twice on disk or in
  what any run is about to write (`OnceInv`), that a registered script is there or
  its run is past the point of writing it (`ScriptsInv`), and that every entry of
  the client is in the file, or with the one run that has the file open and read
  it before (`KeptInv`), as long as no race or kill is on record.  About texts
  there is a lemma for every text: what a refresh leaves, refreshed again
  (`RefreshedTwice`), and where each of the user's lines goes (`LinesKept`).
- `ToolsProofs`, of the watcher and `mai render --budget`:
  - `WatchOutputIsCurrent`.  The part that says the output is current speaks of an
    idle watcher only, and is not inductive; `Settled` extends it to every moment
    at which nothing is left to do and nothing was missed, whatever the watcher is
    doing, and uses that the output is never half of a render (`OutputIsWhole`).
  - `SectionsGoByRank`, for drafts of any length, ranks and lengths.  The greedy
    pass takes the sections in the order of their ranks, which is not that of the
    document, and the theorem is about a section it left out.  `Ranked` and `Turns`
    say that the order is one, `SpendPays` that what the pass has spent at each
    turn is the cost of what it has kept so far, and `SumChanges` and `CostsAdd`
    make that comparable with the sums over the document.
- `ToolsProofs`, of the editor: `AuthorSeesTheDocument` and `WhatIsTypedFits`.
  `EditorInv` is about what its handlers rely on when they come to their turn: what
  the author can have typed (`TextFits`), that a close tag about to be inserted
  stands behind the blank line behind a line of its name (`EditFits`), and that
  what is shown is what the last analysis of the text found (`MarksFit`).
  The diagnostics count, and the property says which lines are left over: the
  counters of the scan from the top are surpluses of one kind of tag over the
  other (`CountersAreSurpluses`, `StackCounts`), so it marks as many lines as have
  no partner (`DocumentsAreDiagnosed`).  For `WhatIsTypedFits`
  a nest of tags with a nest put inside is a nest (`SplicedNests`).
- `ToolsProofs`, of the plugins: `PluginsFoundOrExplained` and `PluginsAreDetected`,
  for any files in any directories and any edits.  Only the end of a load is about the answer, so
  `LoadInv` says what a load has at each moment, name by name, if the files stood
  still: what it kept is of the first directory that has a plugin of that name,
  nothing it passed was missed, and each file it passed is kept or warned about
  (`FirstsKept`, `NoneMissed`, `AllTold`; `HasRead` is how far it is for a name).
  Listing a directory and reading a file keep that (`KeptByListing`,
  `KeptByReading`), a finished load is right (`LoadsFind`), the cache remembers it
  (`CacheInv`) and every answer is from the cache (`AnswerInv`).  While plugins are
  looked for, `DetectInv` says that those looked for are the ones found, as long as
  the tree stands still.  `FirstDecides` is about versions of any length: that the
  first number that differs decides comes to what an author means by not older.
- `NaturalLemmas`: `Min` and `Max` return elements; both are choices, and that
  there is one to choose is the well-foundedness of the naturals.  `HandedOn` is
  induction over positions in the form the provers can use: what the first
  position has and each hands on to the next, all have; `HandedFrom` is the same
  from one number to another.  `Iterates`: there is a sequence that starts with an
  element and goes on by a function.  A recursive definition is a choice, so that
  without this nothing is known of what it computes.

The assumptions are those on inputs (`SessionAssumption`, `EngineAssumption`,
`ServerAssumption`, `WalkAssumption`, `CacheAssumption`, `EventAssumption`,
`DirectiveAssumption`, `SetupAssumption`, `WatchAssumption`, `EditorAssumption`,
`PluginsAssumption`, `VocabularyAssumption`, `ScriptsAssumption`), and these: arguments
substituted into a node leave a node (`SubstituteAssumption`), a node has the
fields its kind has (`NodeAssumption`), the text of a value is a value
(`ValueAssumption`), and the files the first run of `mai init` finds hold nothing
twice and no half of an installation (`WorldAssumption`), and the loader takes
for a plugin what its author means as one and reads
its detect block as asking for what the author wants (`AuthorsAssumption`: it says
what the texts of an instance are meant as; that the tests of `loadOnePlugin` and
the line scans of `parseBody` come to that, TLC finds out for every text of
`plugins`, and no theorem says so).  TLC evaluates all of them on the instances.

Only model-checked: `CompletedIsDefined`, that a plugin file is read as it is meant, as said, and of the
scripts `KeepsItsMeaning` and `TestsKeepTheirDocuments`.  The body of a plugin file
and the literals of the tests are recursions on a text; the provers have no
induction over data, and the proofs above get by with the first position at which
a particular definition goes wrong, or with the states of a loop.  What a construct becomes in the second
syntax is given by the instance, of which `KeepsItsMeaning` says that the script
agrees; for every value of the constants there is nothing to prove.  All liveness stays
with TLC (`Terminates` of the walk and of the parse, `CallsEnd`,
`LinesAreHandled`, `SavesAreRendered`): liveness under fairness and `ENABLED` are
out of the prover's reach.

## 7. Divergences

Where the code does something else than a document, a comment or a test says.
The model has what the code does, and the properties are stated so that they
hold of it; none of these is a run of its own.

Sessions and server.

- A walk by `resolve_phase` alone ends without releasing its scope
  (`mcp/src/tools/resolve_phase.ts:100`; "scope lives for the duration of one
  flow", `next_phase.ts:94`, and the walk of `mcp/README.md:45-62`).
- `resolve_phase` checks the size of `skill_session_id`, `next_phase` does not.
- The key of a session is the text `${sid}::${path}`
  (`mcp/src/session-state.ts:32`): a session id or a path that holds `::` may share an
  entry with another pair.  The model's keys are pairs.
- The line `null` is answered as a parse error; a scalar and a notification are
  answered, without an id.  `call_macro` on a document that has a phase always
  fails (-32603), because it parses it as an import.
- The allowlist of `execute_directive` (`execute_directive.ts:15`) is not the one
  of `mcp/README.md:33`.  `get_constraints` descends only into members named
  `body`.

Engine.

- `@template` marks its file completed although its macros were registered in a
  copy, so a later `@import` of it registers nothing (`engine-template.ts:166`,
  against `.mdd/docs/09`, line 48); nor does one of a file that was included or
  imported below a template.  What an `@include` completes keeps its env fallbacks
  and local connections to itself, and a later `@import` of it is skipped all the
  same (`engine-include.ts:94`).
- A failed import stays in `resolutionStack` and the next one is reported as a
  cycle (`engine-include.ts:106`, against `.mdd/docs/09`, line 37).
- `local` of `@define` is not looked at (`engine.ts:276`, against `.mdd/docs/08`,
  line 58).
- `@include` does not register env fallbacks, `@import` does (`engine.ts:265`,
  against `.mdd/docs/10`, line 26).  A cycle or another fatal error does not halt
  the render: the top-level node ends and the walk goes on (`engine.ts:193-200`,
  against `.mdd/docs/09`, lines 36 and 45).  A template shares `envFallbacks` with
  its caller (`engine-template.ts:151`, against `.mdd/docs/99`, lines 176-177).
  A text bound by `@set` is shadowed by typed data of the same name
  (`iter-ops.ts:146`, against `.mdd/docs/83`, line 39), and a null or undefined value
  copied onto a typed variable leaves the old one in place (line 137).  The `@on-complete` of a macro
  called outside any phase gives advice (`engine.ts:252`, against the comment at
  `context.ts:118`).  `@foreach` restores its variable on the normal path only
  (`iter-ops.ts:110`, against `.mdd/docs/83`, line 138).

Parser.

- An unknown directive that is not self-closed ends the parse (`parser.ts:738`;
  "never an error", `.mdd/docs/01-parser.md:131`).
- Line numbers in a block count from a slice (`parser.ts:368`; "line number of
  @event in the source .md file", `.mdd/docs/81-lang-event.md:149`); errors of
  `collectBlock` carry a line relative to the slice (`parser.ts:301`, `333`).
- `@if` or `@if-end` in a raw body or a fence miscounts the block around it.
- `tryParseOpener` takes `@name` before any end of a word for an opener and a last
  `/` for a self-close (`parser.ts:66`, `181`, `195`); `collectBlock` counts `@name`
  only before a blank, a slash or the end of the line, and takes a self-close only
  behind a blank (`parser.ts:237`, `264`).  Inside an `@if`, an `@if(x)` is an opener
  that was not counted: the outer block ends at its `@if-end`, and it is unclosed.
  An `@if/` there is self-closed and counted: the outer block ends one tag too late,
  or not at all ("Detect same-name nested openers", `parser.ts:233`).
  `@on-complete` written as a block or piped escapes the check for its place
  (`parser.ts:728` sees self-closed ones only); a self-closed `@phase` in an
  import is not rejected (`parser.ts:734` comes behind 715).

Write directives.

- "All operations are atomic at the file level (no partial writes)"
  (`.mdd/docs/88`, lines 139-140): the file is emptied, then written
  (`write-ops.ts:235`, `134`, `106`), and a process that dies in between leaves it
  empty.  `@touch` and `@copy if-missing` look first and write later: one of two
  renders may empty what the other has just made; two `@append-if-missing` may
  both append; of two updates read from the same content one is lost.
- Appending to `[]` leaves the brackets and the field reads `[]`
  (`write-ops.ts:280`; "append a new scalar item to the list", line 246).
  `@append-if-missing` creates no file (line 152).  Items of a nested list count
  as items, and the indent is that of the last one (lines 299-304, against the
  comment at 286-288), lists whose items start at the margin are not seen,
  `list[append].sub` drops `sub`, `$&` and the like in a value are expanded by
  `String.replace` (227, 233), and a scalar written over a block list leaves its
  items behind.

Queries.

- An AND of two conditions on one field keeps the later one on MongoDB
  (`db/adapters/mongodb.ts:101`; "AND-chained filters are natively supported
  across all adapters", `.mdd/docs/64`, line 114).  With both connectives
  everything is ORed, and a bracket around a connective garbles a field (lines
  113 and 116 of the same document speak of a filter tree).  Quotes protect
  nothing (lines 42 and 69 have quoted strings): `name == "a && b"` is cut at the
  connective, `note == "a >= b"` at the `>=`, and a parenthesis in a value opens or
  closes one (`db/query.ts:120-162`); `x==1&&y==2` is one condition with the value
  `1&&y==2`.
- The databases do not order rows alike: Postgres sorts nulls last ascending, the
  other dialects and MongoDB first; a field that is sorted by twice has its first
  place and its last direction on MongoDB (`db/adapters/mongodb.ts:128`).  Rows that
  tie, the row of `one`, unsorted rows and groups come as the database likes.
- `== null` selects
  nothing in SQL; a limit of 0 is no limit on MongoDB and no rows in SQL; `one`
  ignores `sort`, and on MongoDB the columns; MongoDB ignores labels; values of
  `env.` are texts.
- `execute` of the executor has no caller outside the tests; `executeDb` spawns a
  worker for each directive and consults no cache (`db/sync-worker.ts:7` says
  "cached by @cache session / persist for repeats").  The time to live of a
  session entry is ignored.  The first answer is returned unmasked, the cached
  one masked; a masking that eats a quote makes every later call throw.  A call
  under way writes its entry after a clear.  The `[]` of a missing adapter is
  cached.  The key leaves out `hasOr`, so an AND and an OR of the same
  conditions share an entry.

Events.

- No host sets `ctx.security.eventConfig`, so that `@event` does nothing in
  `mai` and in the server.  Without a configuration a visible event renders its
  data unmasked.
- A custom transport takes the target of its type, not its own, and is not
  audited when its type is `http`, `file` or `db` (`.mdd/docs/81`, lines 214-235 and
  407-409).  The message to the worker has no session id, so every VS Code event
  goes to `markdownai-events-undefined.json`.  The websocket transport does
  nothing.  `onError="fail"` throws after the transports before have been served,
  and a failure in the worker is reported to nobody.

Setup.

- The command line prints a success and exits 0 when a part of `init` failed.
  A hook script of an older version is never replaced.  A user's hook that
  mentions `preToolUse` is taken for MarkdownAI's, which is then not installed.
  Another program registered as `markdownai` is replaced.  A section without its
  end marker is removed up to the end of the file.  Two runs, or a run and the
  client, may lose each other's entries; a kill may leave an empty file, which
  the next run refuses to parse.
- The hook script takes leading blank lines before a header for a document, the
  parser wants the header on line 1 (comment at `init.ts:47-52`).  `hook.ts` is
  exported and not used.

Plugins.

- Definitions are cached for the life of the process (`.mdd/docs/94`, line 169,
  calls that "for the duration of the render").  A `version_signal` of an unknown
  type passes without a warning (`.mdd/docs/95`, line 148).  In the home directory
  each plugin of the user is also reported as overridden by itself.  Blank lines
  of literal blocks are lost.  The structure that `@markdownai-detect` binds
  lacks conventions and signals unless everything is included.
  `loadPlugins` repeats `loadPluginsSync` asynchronously and has no caller.

Migration scripts.

- "Idempotent - re-running on v2 content is a no-op"
  (`migrate-v1-to-v2.mjs:5`) is not so for a block of an inline directive whose
  body is empty, not indented or holds a blank line (`@query` and `@query-end`
  become `@query /`), nor behind a self-closed block opener, which is pushed on
  the stack; arguments that end in `/` are taken for a self-close.  The
  properties are over constructs without these.  An argument that starts with `@`
  and is moved to a line of its own is a directive for the next run (lines
  271-272): it finds a block without lines and self-closes its opener.  The
  model's arguments are other words.
- `migrate-test-strings.mjs`: a placeholder in front of a document hides its first
  line from the rules unless that is a directive without indentation
  (`migrate-test-strings.mjs:509`): `${DOC}  @db a b` is not migrated, a fence right
  behind it is not seen as one.  A placeholder that ends its line loses its line
  break (lines 526-527), which joins the next line to it; code inside placeholders is re-encoded against its comment; arrays with
  continuation lines are skipped as one document and rewritten line by line, as
  are fenced examples in arrays.

Watch and budget.

- The watcher renders before it listens: a save in between is missed.  Behind a
  save by rename it listens to a file that is gone.  When it fails, it is closed
  before the directory is watched, and a change it had not delivered is not
  rendered until the next one (`watch.ts:63-71`).  A file that is saved in parts, and
  rests for 300 ms with a header, is rendered in part.  `stop` leaves the timer.
  Changes that never pause for 300 ms keep it from firing.  `mai build --watch`
  (`.mdd/docs/32`, line 44) does not exist.
- Critical sections are not deducted from the budget.  Sections are kept
  greedily: a large `high` one goes while a small `low` one stays ("dropped only
  after all `low` and `medium` sections are gone", `.mdd/docs/36`, line 89).  A section
  in a section leaves its end marker behind; `$&` in a text is expanded by
  `String.replace`; the notices differ from line 98.

VS Code extension.

- Enter behind a close tag inserts another one, as does Enter behind an opener
  with a body; an opener above the close tag of the block around it that has the
  same name is not closed; `foreach` and `render-template` are not closed although
  `vscode/README.md:41` says so, with `@end`, which no longer parses.
- Blocks that are not in its table (`@data`, `@switch`, `@graph`) show an error at
  their close tag; self-closed openers count as open; close tags of another name
  close; the inline snippets lack ` /`.
- The completion items start with `@`, have no range, and are offered behind an `@`
  that the word pattern leaves out (`providers/completion-provider.ts:234-240`,
  `language-configuration.json:40`): the line becomes `@@phase ...`, which opens
  nothing, and the `@phase-end` of the snippet is a stray tag.
- Marks are not renewed when the stdlib arrives, an import or a setting changes.
  `@import x /` is read with its slash, so its macros are never found.
  An indented `@define` is not registered.  `settings.stdlibPath` is not used.  The
  location of a definition is built from a URI as if it were a path; the first
  definition is shown, the engine runs the last.  The `stdlib:` prefix of
  `.mdd/docs/59` is not there.

## 8. What is not modelled

Text: arguments and quotes of a line, the directive handlers that pick them
apart, expressions, pipes, the renderer, the security rules on paths, the
patterns of secrets.  They are functions from text to text or to a verdict,
without state; where a verdict decides (a blocked file, a forbidden write, a
secret) the model has both outcomes.

I/O: sources that list, count and read, `@hash` and the other reading
directives, database drivers, `test` and `check` commands, the trace and the
error log, which are written and never read.

One-shot commands of `mai` that parse and print (`validate`, `strip`, `parse`, the
lists), `mai build`, the loading of env files; hover, completion texts,
go-to-definition and the preview of the extension, which runs `mai render`.  Of
the scripts, the walk over directories and the scan that finds literals and
arrays in a test file.  `connections.ts` of the server has a registry that no
tool uses.

In the modelled parts: the rendered text of a walk, directives as the data of a
template, `process.env`, the standard
library, positional macro arguments and paths computed at run time
(`EngineWalk`); parent directories and failures of `node:fs` (`WriteOps`); JSON
values of a settings file that are no object (`Setup`); the layout of what a
directive shows (`Plugins`); how long 300 ms are (`Watch`).
