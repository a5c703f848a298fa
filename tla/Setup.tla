------------------------------- MODULE Setup -------------------------------
(***************************************************************************)
(* `mai init` (packages/core/src/commands/init.ts): a run looks at the     *)
(* hook scripts, the client's settings, the client's server table and      *)
(* CLAUDE.md in turn, and rewrites the ones that lack MarkdownAI's part.   *)
(* Each file is read, changed in memory and written back whole, and        *)
(* writeFileSync truncates before it writes; other runs and the client     *)
(* itself write the same files, and a run may be killed anywhere.          *)
(*                                                                         *)
(* A configuration is what init looks at: the entries of the two hook      *)
(* lists it knows, and the server table.  A text is a sequence of user     *)
(* lines, line ends and the section's two markers and body.  A JSON file   *)
(* whose value is not an object is left out.                               *)
(*                                                                         *)
(* A definition that stands just before the one it alters is a mutant.     *)
(***************************************************************************)
EXTENDS Naturals, Sequences, SequencesExt, FiniteSetsExt

CONSTANTS
    Runs,         \* runs of mai init
    Options,      \* their command lines: [client, md, update]
    UserHooks,    \* entries of the hook lists that are not MarkdownAI's
    PreLookalikes,    \* the ones among them whose command names preToolUse
    StartLookalikes,  \* the ones among them whose command names sessionStart
    UserServers,  \* names of other MCP servers
    UserLines,    \* lines of CLAUDE.md
    Documents,    \* files the AI may read: [md, system, lines]
    Worlds        \* what the files may hold when the first run starts

Clients == {"claude-code", "cursor", "auto"}
Files == {"pre", "session", "settings", "cursor settings", "servers", "md"}
Scripts == {"pre", "session"}
Settings == {"settings", "cursor settings"}

Ours == "ours"
HookEntries == UserHooks \cup {Ours}
NoServer == "none"
Commands == {"none", "mai-serve", "npx @markdownai/mcp", "another program"}
ServerNames == UserServers \cup {"markdownai"}
Tokens == UserLines \cup {"nl", "start", "body", "end"}

LineKinds == {"header", "directive", "text", "blank", "---"}

\* form "broken" is a file JSON.parse rejects, an empty one included.
SettingsFile == [form : {"absent", "broken", "object"},
                 pre : Seq(HookEntries), start : Seq(HookEntries)]
ServersFile == [form : {"absent", "broken", "object"},
                servers : [ServerNames -> Commands]]
TextFile == [form : {"absent", "object"}, text : Seq(Tokens)]
ScriptFile == [form : {"absent", "empty", "foreign", "older", "current"}]

Content == SettingsFile \cup ServersFile \cup TextFile \cup ScriptFile

FileType(f) ==
    CASE f \in Scripts -> ScriptFile
      [] f \in Settings -> SettingsFile
      [] f = "servers" -> ServersFile
      [] f = "md" -> TextFile

Nothing == [form |-> "absent"]

NoServers == [n \in ServerNames |-> NoServer]

Emptied(f) ==
    CASE f \in Scripts  -> [form |-> "empty"]
      [] f \in Settings -> [form |-> "broken", pre |-> <<>>, start |-> <<>>]
      [] f = "servers"  -> [form |-> "broken", servers |-> NoServers]
      [] f = "md"       -> [form |-> "object", text |-> <<>>]

AtMostOnce(x, s) == \A i, j \in DOMAIN s : s[i] = x /\ s[j] = x => i = j

Registers(entries) == Contains(entries, Ours)

\* The client can run the script.
Runnable(script) == script.form \notin {"absent", "empty"}

ASSUME SetupAssumption ==
    /\ PreLookalikes \cup StartLookalikes \subseteq UserHooks
    /\ "the client" \notin Runs
    /\ Ours \notin UserHooks /\ "markdownai" \notin UserServers
    /\ Options \subseteq [client : Clients, md : BOOLEAN, update : BOOLEAN]
    /\ \A d \in Documents :
          d \in [md : BOOLEAN, system : BOOLEAN, lines : Seq(LineKinds)]
    /\ UserLines \cap {"nl", "start", "body", "end"} = {}

\* An earlier installation, if there is one, is whole: no hook is registered
\* twice, and a registered script is there.
ASSUME WorldAssumption ==
    \A w \in Worlds :
        /\ DOMAIN w = Files
        /\ \A f \in Files : w[f] \in FileType(f)
        /\ \A f \in Settings :
              /\ AtMostOnce(Ours, w[f].pre) /\ AtMostOnce(Ours, w[f].start)
              /\ Registers(w[f].pre) => Runnable(w["pre"])
              /\ Registers(w[f].start) => Runnable(w["session"])

VARIABLES
    disk,    \* Files -> what they hold
    at,      \* Runs -> the step they are at
    opts,    \* Runs -> their options, client resolved
    stage,   \* Runs -> index into Stages
    seen,    \* Runs -> what the file they are rewriting held
    stale,   \* Runs -> that file was written by another since
    raced,   \* history: a stale copy was written back
    torn,    \* history: a run was killed between truncation and write
    added,   \* history: what the client wrote into its configuration
    leaked   \* history: raw system documents a registered hook let through

vars == <<disk, at, opts, stage, seen, stale, raced, torn, added, leaked>>

Steps == {"idle", "look", "truncate", "write", "done", "killed"}

TypeOK ==
    /\ DOMAIN disk = Files
    /\ \A f \in Files : disk[f] \in FileType(f)
    /\ at \in [Runs -> Steps]
    /\ opts \in [Runs -> [client : {"claude-code", "cursor"}, md : BOOLEAN, update : BOOLEAN]]
    /\ stage \in [Runs -> 1..6]
    /\ seen \in [Runs -> Content]
    /\ stale \in [Runs -> BOOLEAN]
    /\ raced \in BOOLEAN /\ torn \in BOOLEAN
    /\ added \subseteq UserHooks \cup UserServers /\ leaked \subseteq Documents

Init ==
    /\ disk \in Worlds
    /\ at = [r \in Runs |-> "idle"]
    /\ opts = [r \in Runs |-> [client |-> "claude-code", md |-> FALSE, update |-> FALSE]]
    /\ stage = [r \in Runs |-> 1]
    /\ seen = [r \in Runs |-> Nothing]
    /\ stale = [r \in Runs |-> FALSE]
    /\ raced = FALSE /\ torn = FALSE /\ added = {} /\ leaked = {}

-----------------------------------------------------------------------------
(* CLAUDE.md *)

Section == <<"start", "body", "end">>

HasMarker(t) == Contains(t, "start")

TrimmedEnd(t) == SubSeq(t, 1, Max({0} \cup { i \in DOMAIN t : t[i] # "nl" }))

TrimmedStart(t) ==
    SubSeq(t, Min({Len(t) + 1} \cup { i \in DOMAIN t : t[i] # "nl" }), Len(t))

StripToLastEnd(t) ==
    LET first == Min({ i \in DOMAIN t : t[i] = "start" })
        last  == Max({first} \cup { i \in first..Len(t) : t[i] = "end" })
    IN TrimmedEnd(SubSeq(t, 1, first - 1)) \o TrimmedStart(SubSeq(t, last + 1, Len(t)))

\* From the first start marker to the next end marker, or to the end of the
\* text; a blank line stays between what was before and what was after.
stripClaudeMdSection(t) ==
    LET first == Min({ i \in DOMAIN t : t[i] = "start" })
        ends  == { i \in first..Len(t) : t[i] = "end" }
        last  == IF ends = {} THEN Len(t) ELSE Min(ends)
        before == TrimmedEnd(SubSeq(t, 1, first - 1))
        after  == TrimmedStart(SubSeq(t, last + 1, Len(t)))
    IN IF before = <<>> \/ after = <<>> THEN before \o after
       ELSE before \o <<"nl", "nl">> \o after

Appended(t) ==
    t \o (IF t # <<>> /\ Last(t) = "nl" THEN <<"nl">> ELSE <<"nl", "nl">>)
      \o Section \o <<"nl">>

runInitClaudeMd(c, update) ==
    IF c.form = "absent" THEN [form |-> "object", text |-> Section \o <<"nl">>]
    ELSE IF ~ HasMarker(c.text) THEN [c EXCEPT !.text = Appended(@)]
    ELSE IF update THEN [c EXCEPT !.text = Appended(stripClaudeMdSection(@))]
    ELSE c

-----------------------------------------------------------------------------
(* The configuration files *)

\* A script that names itself is left alone, whatever version wrote it.
ensureHookFile(c) ==
    IF c.form \in {"older", "current"} THEN c ELSE [form |-> "current"]

\* Found by a substring of the command, so a user's own script can pass for it.
Installed(entries, lookalikes) ==
    \E i \in DOMAIN entries : entries[i] \in lookalikes \cup {Ours}

PreInstalled(c) == Installed(c.pre, PreLookalikes)
StartInstalled(c) == Installed(c.start, StartLookalikes)

updateClientHooks(c) ==
    IF PreInstalled(c) /\ StartInstalled(c) THEN c
    ELSE [form  |-> "object",
          pre   |-> IF PreInstalled(c) THEN c.pre ELSE Append(c.pre, Ours),
          start |-> IF StartInstalled(c) THEN c.start ELSE Append(c.start, Ours)]

matchesMarkdownAi(command) == command \in {"mai-serve", "npx @markdownai/mcp"}

\* Only the name "markdownai" is looked at; another program under it is replaced.
updateClientMcpServer(c) ==
    IF matchesMarkdownAi(c.servers["markdownai"]) THEN c
    ELSE [form |-> "object", servers |-> [c.servers EXCEPT !["markdownai"] = "mai-serve"]]

Rewritten(f, c, o) ==
    CASE f \in Scripts  -> ensureHookFile(c)
      [] f \in Settings -> updateClientHooks(c)
      [] f = "servers"  -> updateClientMcpServer(c)
      [] f = "md"       -> runInitClaudeMd(c, o.update)

\* A file that has its part is left alone; a section is written again on every
\* refresh, also when it is the same.
Untouched(f, c, o) ==
    /\ Rewritten(f, c, o) = c
    /\ ~ (f = "md" /\ o.update /\ c.form = "object" /\ HasMarker(c.text))

\* Both updates of a configuration give up on a file that does not parse.
Refused(f, c) == f \in Settings \cup {"servers"} /\ c.form = "broken"

-----------------------------------------------------------------------------
(* A run *)

StagesSettingsFirst(o) ==
    (IF o.client = "cursor" THEN <<"cursor settings", "pre", "session">>
                            ELSE <<"settings", "pre", "session", "servers">>)
    \o (IF o.md \/ o.update THEN <<"md">> ELSE <<>>)

\* runInit, then the CLAUDE.md step of the command line.
Stages(o) ==
    (IF o.client = "cursor" THEN <<"pre", "session", "cursor settings">>
                            ELSE <<"pre", "session", "settings", "servers">>)
    \o (IF o.md \/ o.update THEN <<"md">> ELSE <<>>)

FileOf(r) == Stages(opts[r])[stage[r]]

detectClient ==
    IF disk["settings"].form = "absent" /\ disk["cursor settings"].form # "absent"
    THEN "cursor" ELSE "claude-code"

Start(r, o) ==
    /\ at[r] = "idle"
    /\ at' = [at EXCEPT ![r] = "look"]
    /\ opts' = [opts EXCEPT ![r] =
          [o EXCEPT !.client = IF @ = "auto" THEN detectClient ELSE @]]
    /\ UNCHANGED <<disk, stage, seen, stale, raced, torn, added, leaked>>

\* The next stage, or the end.  Settings that do not parse end runInit before
\* the server table, but the command line goes on to CLAUDE.md.
Advance(r, refused) ==
    LET last == Len(Stages(opts[r]))
        next == IF refused /\ FileOf(r) = "settings" THEN stage[r] + 2 ELSE stage[r] + 1
    IN IF next > last
       THEN at' = [at EXCEPT ![r] = "done"] /\ UNCHANGED stage
       ELSE at' = [at EXCEPT ![r] = "look"] /\ stage' = [stage EXCEPT ![r] = next]

\* existsSync, readFileSync, JSON.parse and the change in memory.
Look(r) ==
    LET f == FileOf(r)
        c == disk[f]
    IN /\ at[r] = "look"
       /\ IF Refused(f, c) \/ Untouched(f, c, opts[r])
          THEN Advance(r, Refused(f, c)) /\ UNCHANGED seen
          ELSE /\ at' = [at EXCEPT ![r] = "truncate"]
               /\ seen' = [seen EXCEPT ![r] = c]
               /\ UNCHANGED stage
       /\ UNCHANGED <<disk, opts, stale, raced, torn, added, leaked>>

\* The other runs that are rewriting f now hold an old copy of it.
Outdate(f, r) ==
    stale' = [q \in Runs |->
        IF q = r THEN stale[q] /\ at[q] = "truncate"
        ELSE stale[q] \/ (at[q] \in {"truncate", "write"} /\ FileOf(q) = f)]

Truncate(r) ==
    /\ at[r] = "truncate"
    /\ disk' = [disk EXCEPT ![FileOf(r)] = Emptied(FileOf(r))]
    /\ at' = [at EXCEPT ![r] = "write"]
    /\ raced' = (raced \/ stale[r])
    /\ Outdate(FileOf(r), r)
    /\ UNCHANGED <<opts, stage, seen, torn, added, leaked>>

Write(r) ==
    /\ at[r] = "write"
    /\ disk' = [disk EXCEPT ![FileOf(r)] = Rewritten(FileOf(r), seen[r], opts[r])]
    /\ Advance(r, FALSE)
    /\ raced' = (raced \/ stale[r])
    /\ Outdate(FileOf(r), r)
    /\ seen' = [seen EXCEPT ![r] = Nothing]
    /\ UNCHANGED <<opts, torn, added, leaked>>

Kill(r) ==
    /\ at[r] \in {"look", "truncate", "write"}
    /\ at' = [at EXCEPT ![r] = "killed"]
    /\ torn' = (torn \/ at[r] = "write")
    /\ seen' = [seen EXCEPT ![r] = Nothing]
    /\ stale' = [stale EXCEPT ![r] = FALSE]
    /\ UNCHANGED <<disk, opts, stage, raced, added, leaked>>

\* The client, or its user, adds an entry of his own to a file that parses.
AddHook(f, e) ==
    /\ f \in Settings /\ e \in UserHooks \ added /\ disk[f].form # "broken"
    /\ disk' = [disk EXCEPT ![f] =
          [form |-> "object", pre |-> Append(@.pre, e), start |-> @.start]]
    /\ added' = added \cup {e}
    /\ Outdate(f, "the client")
    /\ UNCHANGED <<at, opts, stage, seen, raced, torn, leaked>>

AddServer(n) ==
    /\ n \in UserServers \ added /\ disk["servers"].form # "broken"
    /\ disk' = [disk EXCEPT !["servers"] =
          [form |-> "object", servers |-> [@.servers EXCEPT ![n] = "another program"]]]
    /\ added' = added \cup {n}
    /\ Outdate("servers", "the client")
    /\ UNCHANGED <<at, opts, stage, seen, raced, torn, leaked>>

-----------------------------------------------------------------------------
(* The script that is registered for PreToolUse *)

FirstLineOnly(lines) == lines # <<>> /\ lines[1] = "header"

\* A line that starts with a directive name, anywhere in the file.
isMarkdownAIDocument(lines) ==
    \E i \in DOMAIN lines : lines[i] \in {"header", "directive"}

\* It exits 2, and the client skips the read, for documents in the trees that
\* are shipped rendered; whatever else happens to it, the read goes on.
Blocks(tool, d) ==
    /\ tool \in {"Read", "read_file"}
    /\ d.md /\ d.system /\ isMarkdownAIDocument(d.lines)

\* The line after a frontmatter block that starts the text and the blank lines
\* that follow it; else the first line.
HeaderAt(lines) ==
    LET closes == { c \in 2..Len(lines) : lines[c] = "---" }
    IN IF lines = <<>> \/ lines[1] # "---" \/ closes = {} THEN 1
       ELSE Min({Len(lines) + 1} \cup
                { h \in (Min(closes) + 1)..Len(lines) : lines[h] # "blank" })

\* Whether the parser takes a text for a document.
IsMarkdownAI(lines) == HeaderAt(lines) \in DOMAIN lines /\ lines[HeaderAt(lines)] = "header"

\* The client runs the registered script before its Read tool.
Reads(f, d) ==
    /\ Registers(disk[f].pre) /\ disk["pre"].form = "current"
    /\ d.md /\ d.system /\ IsMarkdownAI(d.lines)
    /\ leaked' = IF Blocks("Read", d) THEN leaked ELSE leaked \cup {d}
    /\ UNCHANGED <<disk, at, opts, stage, seen, stale, raced, torn, added>>

Next ==
    \/ \E f \in Settings, d \in Documents : Reads(f, d)
    \/ \E r \in Runs :
          \/ \E o \in Options : Start(r, o)
          \/ Look(r) \/ Truncate(r) \/ Write(r) \/ Kill(r)
    \/ \E f \in Settings, e \in UserHooks : AddHook(f, e)
    \/ \E n \in UserServers : AddServer(n)

Spec == Init /\ [][Next]_vars

-----------------------------------------------------------------------------
(* Properties *)

\* Once the hook is registered, the AI's Read never gets the source of a
\* shipped document, in any form the parser accepts (init.ts:252-292 against
\* parser.ts:819-866).
NothingLeaks == leaked = {}

\* However runs overlap, crash and repeat, a hook is registered at most once
\* in each list, also over an installation that has only one of the two
\* (init.ts:567-608).
RegisteredOnce ==
    \A f \in Settings : AtMostOnce(Ours, disk[f].pre) /\ AtMostOnce(Ours, disk[f].start)

InSettings(f) == Range(disk[f].pre)

\* Nothing the client wrote is lost, unless a run wrote back a copy it took
\* before, or was killed with the file truncated, or is writing it now
\* (init.ts:499-553 and 567-608).
ClientsEntriesKept ==
    (~ raced /\ ~ torn /\ \A r \in Runs : at[r] # "write")
    => added \subseteq InSettings("settings") \cup InSettings("cursor settings")
                       \cup { n \in UserServers : disk["servers"].servers[n] # NoServer }

\* The client never runs a script that is missing or empty because of init:
\* scripts are written before they are registered (init.ts:622-630).
RegisteredScriptsRun ==
    (~ torn /\ \A r \in Runs : at[r] # "write")
    => \A f \in Settings :
          /\ Registers(disk[f].pre) => Runnable(disk["pre"])
          /\ Registers(disk[f].start) => Runnable(disk["session"])

\* A file that does not parse is never replaced by a fresh one: only a run
\* that had read it before it broke writes it (init.ts:503-516 and 569-576).
BrokenIsKept ==
    [][ \A f \in Settings \cup {"servers"} :
          (disk[f].form = "broken" /\ disk'[f].form = "object")
          => \E r \in Runs : at[r] = "write" /\ seen[r].form # "broken" ]_vars

Inside(t, i) ==
    \E s \in 1..(i - 1) : t[s] = "start" /\ \A e \in s..(i - 1) : t[e] # "end"

WellFormed(t) == \A s \in DOMAIN t : t[s] = "start" => \E e \in s..Len(t) : t[e] = "end"

\* The user's lines outside the section.
Own(t) == { i \in DOMAIN t : t[i] \in UserLines /\ ~ Inside(t, i) }

\* The same lines in the same order.
SameLines(t, u) ==
    \E m \in [Own(t) -> Own(u)] :
        /\ \A i \in Own(t) : u[m[i]] = t[i]
        /\ \A i, j \in Own(t) : i < j => m[i] < m[j]
        /\ \A k \in Own(u) : \E i \in Own(t) : m[i] = k

\* Adding or refreshing the section keeps every line of the user outside it,
\* in order, as long as each start marker has its end (init.ts:317-359).
UsersLinesKept ==
    [][ \A r \in Runs :
          (Write(r) /\ FileOf(r) = "md" /\ seen[r].form = "object" /\ WellFormed(seen[r].text))
          => SameLines(seen[r].text, disk'["md"].text) ]_vars

Refreshed(c) == runInitClaudeMd(c, TRUE)

\* Refreshes of the section settle: the second may still trim the blank lines
\* the text ended with, the third changes nothing, not even a blank line,
\* unless the text holds the section twice (init.ts:317-354).
RefreshSettles ==
    AtMostOnce("start", disk["md"].text)
    => LET twice == Refreshed(Refreshed(disk["md"])) IN Refreshed(twice) = twice

\* What init installs works and stays single, and what others installed stays,
\* through overlapping, killed and repeated runs (init.ts:335-368, 499-660).
InstallationIsSound ==
    TypeOK /\ RegisteredOnce /\ RegisteredScriptsRun /\ ClientsEntriesKept /\ RefreshSettles

\* No run replaces a text of the user: neither a file that it cannot read nor
\* the lines around its section (init.ts:317-359, 503-516 and 569-576).
TextsAreKept == BrokenIsKept /\ UsersLinesKept

=============================================================================
