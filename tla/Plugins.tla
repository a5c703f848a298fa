------------------------------ MODULE Plugins ------------------------------
(***************************************************************************)
(* The plugins of packages/engine/src/plugin-loader.ts and the two         *)
(* directives that use them (plugin-detect-exec.ts).  A directive reads    *)
(* the plugin files of three directories, the first of which belongs to    *)
(* the project, keeps what it found for the life of the process, and       *)
(* looks in the project's tree for what each plugin asks for.  Everything  *)
(* is synchronous, but the files and the tree are written by others while  *)
(* it runs.                                                                *)
(*                                                                         *)
(* A plugin file is a record of what loadOnePlugin tests, and the lines of *)
(* its blocks: each with its indentation and either a key with the rest of *)
(* its line, or a dash with a value.  Quotes are gone, a dashed line has   *)
(* no key.  The text a directive renders is left out.                      *)
(*                                                                         *)
(* A definition that stands just before the one it alters is a mutant.     *)
(***************************************************************************)
EXTENDS Naturals, Sequences, SequencesExt, FiniteSetsExt

CONSTANTS
    Names,        \* stems of plugin files
    Roots,        \* project roots
    Cwd,          \* the render's working directory, one of them
    Jailed,       \* the roots within ctx.security.jailRoot
    ProjectDir,   \* Roots -> their own plugin directory
    Texts,        \* contents of plugin files
    Parts,        \* Texts -> what loadOnePlugin looks at
    Paths,        \* paths a project may hold
    Values,       \* what a path may hold: a version, or one of the marks below
    Expected,     \* values of `expected` -> [least, version]: ">=1.2" or "1.2"
    Writable,     \* texts others may write, a part of Texts
    Installations, \* [files, tree] before the process starts
    MaxEdits,     \* bound on what others write, for TLC
    MaxJobs       \* bound on the directives that run, for TLC

NoFile == "no file"
NoBlock == <<"no block">>
NoOne == "no root"

Gone == [mark |-> "gone"]
Folder == [mark |-> "folder"]
NoField == [mark |-> "no field"]
Versioned(version) == [mark |-> "field", version |-> version]

Dirs == { ProjectDir[r] : r \in Roots } \cup {"user", "system"}

SearchPaths(root) == <<ProjectDir[root], "user", "system">>

ASSUME PluginsAssumption ==
    /\ Cwd \in Roots /\ Jailed \subseteq Roots
    /\ NoFile \notin Texts /\ Writable \subseteq Texts /\ NoOne \notin Roots
    /\ {Gone, Folder, NoField} \subseteq Values
    /\ \A v \in Values : v.mark = "field" => v.version \in Seq(Nat)
    /\ MaxEdits \in Nat /\ MaxJobs \in Nat
    /\ Names # {}
    /\ \A w \in Installations : /\ w.files \in [Dirs -> [Names -> Texts \cup {NoFile}]]
                            /\ w.tree \in [Roots -> [Paths -> Values]]

VARIABLES
    files,    \* Dirs -> stem -> the text of that plugin file, or NoFile
    tree,     \* Roots -> path -> what it holds
    cache,    \* Roots -> the result of the load, once there is one
    job,      \* the directive being executed
    dirs,     \* directories a load has yet to list
    listed,   \* files of the current directory it has yet to read
    loaded,   \* plugins it has kept
    warned,   \* files it has warned about
    pending,  \* plugins whose detection is yet to run
    matched,  \* plugins that were detected
    answer,   \* of the last directive
    jobs, edits,
    asOf,     \* history: Roots -> the files when the load ran, if they stood still
    moved     \* history: the tree changed since the directive began

loading == <<dirs, listed, loaded, warned>>
detecting == <<pending, matched>>
history == <<asOf, moved>>
pluginVars == <<files, tree, cache, job, loading, detecting, answer, jobs, edits, history>>

Plugin == [name : Names, dir : Dirs, text : Texts]
Warning == [dir : Dirs, name : Names]
NotLoaded == [plugins |-> {}, warnings |-> {}, done |-> FALSE]
Idle == [at |-> "idle", kind |-> "detect", root |-> Cwd, name |-> CHOOSE n \in Names : TRUE]

PluginTypes ==
    /\ files \in [Dirs -> [Names -> Texts \cup {NoFile}]]
    /\ tree \in [Roots -> [Paths -> Values]]
    /\ cache \in [Roots -> [plugins : SUBSET Plugin, warnings : SUBSET Warning, done : BOOLEAN]]
    /\ job \in [at : {"idle", "load", "detect"}, kind : {"detect", "data"}, root : Roots, name : Names]
    /\ dirs \in Seq(Dirs) /\ Len(dirs) <= 3
    /\ listed \subseteq Warning /\ warned \subseteq Warning
    /\ loaded \subseteq Plugin /\ pending \subseteq Plugin /\ matched \subseteq Plugin
    /\ answer.plugins \subseteq Plugin /\ answer.warnings \subseteq Warning
    /\ job.at # "load" => dirs = <<>> /\ listed = {}
    /\ job.at # "idle" /\ job.root # Cwd => job.root \in Jailed

-----------------------------------------------------------------------------
(* The body of a block *)

NoKeys == <<>>
Missing == [type |-> "missing"]
Text(v) == [type |-> "text", text |-> v]

\* The lines that belong to a key: up to the first that is not indented more.
Deeper(lines, indent) ==
    LET stops == { i \in DOMAIN lines : lines[i].indent <= indent }
    IN SubSeq(lines, 1, Min({Len(lines) + 1} \cup stops) - 1)

\* What a key without a value on its own line stands for; parse reads pairs.
Children(lines, parse) ==
    CASE lines = <<>> -> Missing
      [] lines # <<>> /\ lines[1].dash ->
           [type |-> "list",
            items |-> LET dashes == SelectSeq(lines, LAMBDA l : l.dash)
                      IN [i \in DOMAIN dashes |-> dashes[i].rest]]
      [] OTHER -> [type |-> "object", pairs |-> parse[lines, lines[1].indent]]

\* Lines at another indentation are skipped; of two equal keys the later wins.
parseBodyAtIndent(body, least) ==
    LET parse[lines \in Seq(Range(body)), indent \in Nat] ==
            IF lines = <<>> THEN NoKeys
            ELSE LET line   == Head(lines)
                     under  == Deeper(Tail(lines), indent)
                     beyond == SubSeq(lines, Len(under) + 2, Len(lines))
                 IN IF line.indent # indent \/ line.dash THEN parse[Tail(lines), indent]
                    ELSE CASE line.rest = "|" ->
                                parse[beyond, indent] @@ (line.key :> [type |-> "block", lines |-> under])
                           [] line.rest = "" ->
                                parse[beyond, indent] @@ (line.key :> Children(under, parse))
                           [] OTHER ->
                                parse[Tail(lines), indent] @@ (line.key :> Text(line.rest))
    IN parse[body, least]

\* Blank lines are dropped first, also those of a literal block.
parseBody(lines) ==
    LET kept == SelectSeq(lines, LAMBDA l : ~ l.blank)
    IN IF kept = <<>> THEN NoKeys
       ELSE parseBodyAtIndent(kept, Min({ kept[i].indent : i \in DOMAIN kept }))

Field(data, key) == IF key \in DOMAIN data THEN data[key] ELSE Missing

IsString(v) == v.type \in {"text", "block"}

Items(v) == IF v.type = "list" THEN Range(v.items) ELSE {}

\* The block is complete: three values that are text.
parsePluginMeta(lines) ==
    LET data == parseBody(lines)
    IN \A k \in {"framework_name", "framework_version", "marker_version"} :
          IsString(Field(data, k))

SignalKeys == {"type", "target", "field", "expected"}

NoSignal == [type |-> "none"]

\* A signal that lacks one of its four fields is no signal.
parsePluginDetect(lines) ==
    LET data   == parseBody(lines)
        marker == Field(data, "required_marker")
        vs     == Field(data, "version_signal")
    IN [paths  |-> Items(Field(data, "required_files")) \cup Items(Field(data, "required_dirs"))
                   \cup (IF marker.type = "text" THEN {marker.text} ELSE {}),
        signal |-> IF vs.type = "object" /\ \A k \in SignalKeys : Field(vs.pairs, k).type = "text"
                   THEN [type |-> vs.pairs["type"].text, target |-> vs.pairs["target"].text,
                         expected |-> Expected[vs.pairs["expected"].text]]
                   ELSE NoSignal]

Asks == [t \in Texts |->
            IF Parts[t].detect = NoBlock THEN [paths |-> {}, signal |-> NoSignal]
            ELSE parsePluginDetect(Parts[t].detect)]

-----------------------------------------------------------------------------
(* One file *)

Declared == {"markdownai_plugin", "plugin_name", "plugin_version"}

\* loadOnePlugin returns a plugin, or the warning of the first test that fails.
loadOnePlugin(t, stem) ==
    /\ t # NoFile /\ Parts[t].readable
    /\ Declared \subseteq Parts[t].frontmatter
    /\ Parts[t].name = stem
    /\ Parts[t].parses /\ ~ Parts[t].executable
    /\ Parts[t].meta # NoBlock /\ Parts[t].detect # NoBlock
    /\ parsePluginMeta(Parts[t].meta)

\* A version is a sequence of numbers; what is missing counts as zero.
Number(v, i) == IF i \in DOMAIN v THEN v[i] ELSE 0

SemverEachGte(actual, minimum) ==
    \A i \in 1..Max({Len(actual), Len(minimum)}) : Number(actual, i) >= Number(minimum, i)

semverGte(actual, minimum) ==
    LET differ == { i \in 1..Max({Len(actual), Len(minimum)}) :
                       Number(actual, i) # Number(minimum, i) }
    IN differ = {} \/ Number(actual, Min(differ)) > Number(minimum, Min(differ))

\* A signal of another type than "file" passes, without a warning.
SignalHolds(signal, here) ==
    \/ signal.type # "file"
    \/ /\ here[signal.target].mark = "field"
       /\ LET actual == here[signal.target].version
          IN IF signal.expected.least THEN semverGte(actual, signal.expected.version)
             ELSE actual = signal.expected.version

detectPlugin(p, here) ==
    /\ \A path \in Asks[p.text].paths : here[path] # Gone
    /\ SignalHolds(Asks[p.text].signal, here)

-----------------------------------------------------------------------------
(* A directive *)

\* An override that leaves the jail falls back to the working directory.
resolveProjectRoot(override) ==
    IF override = NoOne THEN Cwd
    ELSE IF override \in Jailed \cup {Cwd} THEN override ELSE Cwd

Answer(kind, root, name, plugins, warnings) ==
    /\ answer' = [kind |-> kind, root |-> root, name |-> name,
                  plugins |-> plugins, warnings |-> warnings]
    /\ job' = Idle

\* Both directives: what is cached for the root is taken, else a load begins.
\* A directive that only asks for one plugin then has its answer.
Proceed(j, result) ==
    IF j.kind = "data"
    THEN /\ Answer("data", j.root, j.name,
                   { p \in result.plugins : p.name = j.name }, result.warnings)
         /\ UNCHANGED detecting
    ELSE /\ job' = [j EXCEPT !.at = "detect"]
         /\ pending' = result.plugins /\ matched' = {}
         /\ UNCHANGED answer

Execute(kind, override, name) ==
    LET root == resolveProjectRoot(override)
        j == [at |-> "load", kind |-> kind, root |-> root, name |-> name]
    IN /\ job.at = "idle" /\ jobs < MaxJobs
       /\ jobs' = jobs + 1
       /\ moved' = FALSE
       /\ IF cache[root].done
          THEN /\ Proceed(j, cache[root])
               /\ UNCHANGED <<loading, asOf>>
          ELSE /\ job' = j
               /\ dirs' = SearchPaths(root)
               /\ listed' = {} /\ loaded' = {} /\ warned' = {}
               /\ asOf' = [asOf EXCEPT ![root] = files]
               /\ UNCHANGED <<detecting, answer>>
       /\ UNCHANGED <<files, tree, cache, edits>>

\* existsSync and readdirSync; the order within a directory is the system's.
ListDirectory ==
    /\ job.at = "load" /\ listed = {} /\ dirs # <<>>
    /\ dirs' = Tail(dirs)
    /\ listed' = { w \in Warning : w.dir = Head(dirs) /\ files[w.dir][w.name] # NoFile }
    /\ UNCHANGED <<files, tree, cache, job, loaded, warned, detecting, answer, jobs, edits, history>>

TakenOrBroken(name) == \E f \in loaded \cup warned : f.name = name

\* byName.has
Taken(name) == \E p \in loaded : p.name = name

\* A file that is gone by now is a warning like any other.
ReadPlugin(w) ==
    LET text == files[w.dir][w.name]
    IN /\ listed' = listed \ {w}
       /\ IF loadOnePlugin(text, w.name) /\ ~ Taken(w.name)
          THEN /\ loaded' = loaded \cup {[name |-> w.name, dir |-> w.dir, text |-> text]}
               /\ UNCHANGED warned
          ELSE /\ warned' = warned \cup {w}
               /\ UNCHANGED loaded

LoadFile(w) ==
    /\ job.at = "load" /\ w \in listed
    /\ ReadPlugin(w)
    /\ UNCHANGED <<files, tree, cache, job, dirs, detecting, answer, jobs, edits, history>>

Outcome(root) ==
    [cache EXCEPT ![root] = [plugins |-> loaded, warnings |-> warned, done |-> TRUE]]

EndLoad ==
    /\ job.at = "load" /\ listed = {} /\ dirs = <<>>
    /\ cache' = Outcome(job.root)
    /\ Proceed(job, cache'[job.root])
    /\ loaded' = {} /\ warned' = {}
    /\ UNCHANGED <<files, tree, dirs, listed, jobs, edits, history>>

DetectOne(p) ==
    /\ job.at = "detect" /\ p \in pending
    /\ pending' = pending \ {p}
    /\ matched' = IF detectPlugin(p, tree[job.root]) THEN matched \cup {p} ELSE matched
    /\ UNCHANGED <<files, tree, cache, job, loading, answer, jobs, edits, history>>

EndDetect ==
    /\ job.at = "detect" /\ pending = {}
    /\ Answer("detect", job.root, job.name, matched, cache[job.root].warnings)
    /\ matched' = {}
    /\ UNCHANGED <<files, tree, cache, loading, pending, jobs, edits, history>>

\* Users install, change and remove plugin files, and work in their projects.
WritePlugin(d, n, t) ==
    /\ edits < MaxEdits /\ files[d][n] # t
    /\ files' = [files EXCEPT ![d][n] = t]
    /\ edits' = edits + 1
    /\ asOf' = [r \in Roots |-> IF job.at = "load" /\ job.root = r THEN <<>> ELSE asOf[r]]
    /\ UNCHANGED <<tree, cache, job, loading, detecting, answer, jobs, moved>>

WriteProject(r, path, v) ==
    /\ edits < MaxEdits /\ tree[r][path] # v
    /\ tree' = [tree EXCEPT ![r][path] = v]
    /\ edits' = edits + 1
    /\ moved' = TRUE
    /\ UNCHANGED <<files, cache, job, loading, detecting, answer, jobs, asOf>>

NoAnswer == [kind |-> "none", root |-> Cwd, name |-> Idle.name, plugins |-> {}, warnings |-> {}]

PluginInit ==
    /\ \E w \in Installations : files = w.files /\ tree = w.tree
    /\ cache = [r \in Roots |-> NotLoaded]
    /\ job = Idle
    /\ dirs = <<>> /\ listed = {} /\ loaded = {} /\ warned = {}
    /\ pending = {} /\ matched = {}
    /\ answer = NoAnswer
    /\ jobs = 0 /\ edits = 0
    /\ asOf = [r \in Roots |-> <<>>] /\ moved = FALSE

PluginNext ==
    \/ \E o \in Roots \cup {NoOne} :
          \/ Execute("detect", o, Idle.name)
          \/ \E n \in Names : Execute("data", o, n)
    \/ ListDirectory
    \/ \E w \in listed : LoadFile(w)
    \/ EndLoad
    \/ \E p \in pending : DetectOne(p)
    \/ EndDetect
    \/ \E d \in Dirs, n \in Names, t \in Writable \cup {NoFile} : WritePlugin(d, n, t)
    \/ \E r \in Jailed \cup {Cwd}, path \in Paths, v \in Values : WriteProject(r, path, v)

PluginSpec == PluginInit /\ [][PluginNext]_pluginVars

-----------------------------------------------------------------------------
(* Properties.  Parts[t].wants is what the author of a text asks for, or     *)
(* NotAPlugin where the text is none; the lines of its blocks say so.        *)

NotAPlugin == [valid |-> FALSE]

\* What an author means as a plugin of that name is one, and nothing else is;
\* and the lines of its detect block ask for what the author wants.
ASSUME AuthorsAssumption ==
    /\ \A t \in Texts, n \in Names :
          loadOnePlugin(t, n) <=> Parts[t].wants.valid /\ Parts[t].name = n
    /\ \A t \in Texts : Parts[t].wants.valid =>
          LET asks == Asks[t]  wants == Parts[t].wants
          IN /\ asks.paths = wants.paths
             /\ IF wants.target = "none" THEN asks.signal.type # "file"
                ELSE /\ asks.signal = [type |-> "file", target |-> wants.target,
                                       expected |-> wants.expected]
                     /\ wants.target \in Paths /\ wants.expected.version \in Seq(Nat)

\* The text a name stands for in a project: of its directories in turn, the
\* first that holds a valid file of that name.
Winner(world, root, n) ==
    LET valid(d) == world[d][n] # NoFile /\ Parts[world[d][n]].wants.valid
                    /\ Parts[world[d][n]].name = n
        places == { i \in 1..3 : valid(SearchPaths(root)[i]) }
    IN IF places = {} THEN {}
       ELSE LET d == SearchPaths(root)[Min(places)]
            IN {[name |-> n, dir |-> d, text |-> world[d][n]]}

\* Wherever a version has the lower number, it has a higher one before that.
NotBehind(v, w) ==
    LET places == 1..Max({Len(v), Len(w)})
    IN \A i \in places : Number(v, i) < Number(w, i)
          => \E j \in places : j < i /\ Number(v, j) > Number(w, j)

\* The project holds what the author asks for.
Meets(wants, here) ==
    /\ \A path \in wants.paths : here[path] # Gone
    /\ wants.target # "none" =>
          /\ here[wants.target].mark = "field"
          /\ IF wants.expected.least
             THEN NotBehind(here[wants.target].version, wants.expected.version)
             ELSE here[wants.target].version = wants.expected.version

\* A plugin is detected exactly where the project holds what its author wrote
\* in the block, whatever the indentation and order of its lines, and whoever
\* loaded it before (plugin-loader.ts:166-220 and 306-412).
DetectedAsWritten ==
    [][ (EndDetect /\ ~ moved /\ asOf[job.root] # <<>>)
        => answer'.plugins =
              { p \in UNION { Winner(asOf[job.root], job.root, n) : n \in Names } :
                   Meets(Parts[p.text].wants, tree[job.root]) } ]_pluginVars

\* @plugin-data finds the valid file of the highest precedence: a broken one
\* hides nothing below it, and no project sees the plugins of another
\* (plugin-loader.ts:115-164, plugin-detect-exec.ts:167-179).
FoundAsInstalled ==
    (answer.kind = "data" /\ asOf[answer.root] # <<>>)
    => answer.plugins = Winner(asOf[answer.root], answer.root, answer.name)

\* Every plugin file that is not used is named in the warnings of every
\* directive, also of those the cache served (plugin-loader.ts:139-150,
\* plugin-detect-exec.ts:102 and 170).
UnusedAreExplained ==
    (answer.kind # "none" /\ asOf[answer.root] # <<>>)
    => \A w \in Warning :
          (w.dir \in Range(SearchPaths(answer.root)) /\ asOf[answer.root][w.dir][w.name] # NoFile)
          => \/ w \in answer.warnings
             \/ \E p \in Winner(asOf[answer.root], answer.root, w.name) : p.dir = w.dir

\* A directive uses the files it should, and says of all others that it does
\* not (plugin-loader.ts:115-164, plugin-detect-exec.ts:96-179).
FoundOrExplained == PluginTypes /\ FoundAsInstalled /\ UnusedAreExplained

=============================================================================
