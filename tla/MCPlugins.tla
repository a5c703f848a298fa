----------------------------- MODULE MCPlugins -----------------------------
(***************************************************************************)
(* Plugins with one project of its own directory, one that is the user's   *)
(* home, whose directory is searched twice, and one outside the jail.      *)
(* The texts are written from what their authors ask for: nested lists and *)
(* signals under and after a literal block, at two indentations, with      *)
(* blank lines.                                                            *)
(***************************************************************************)
EXTENDS Plugins

PluginNames == {"mdd", "kit"}
PluginRoots == {"app", "home", "outside"}
OwnDirectory == [r \in PluginRoots |-> IF r = "home" THEN "user" ELSE r]

ExpectedVersions == [e \in {">=1.2", "1.2"} |-> [least |-> e = ">=1.2", version |-> <<1, 2>>]]

L(indent, key, rest) == [indent |-> indent, key |-> key, rest |-> rest, dash |-> FALSE, blank |-> FALSE]
D(indent, value) == [indent |-> indent, key |-> "none", rest |-> value, dash |-> TRUE, blank |-> FALSE]
Blank == [indent |-> 0, key |-> "none", rest |-> "", dash |-> FALSE, blank |-> TRUE]

Pairs(indent, keys) == [i \in DOMAIN keys |-> L(indent, keys[i], "x")]

Meta(indent) == Pairs(indent, <<"framework_name", "framework_version", "marker_version">>)
PartOfMeta == Pairs(0, <<"framework_name", "framework_version">>) \o <<L(0, "marker_version", "")>>

ListBlock(indent, key, item) == <<L(indent, key, ""), D(indent + 2, item)>>

Signal(indent, expected) ==
    <<L(indent, "version_signal", ""), L(indent + 4, "type", "file"), Blank,
      L(indent + 4, "target", "package"), L(indent + 4, "field", "version"),
      L(indent + 4, "expected", expected)>>

Prose == <<L(2, "note", "|"), L(6, "required_marker", "nowhere"), L(4, "required_dirs", "")>>

Ask(paths, target, expected) ==
    [valid |-> TRUE, paths |-> paths, target |-> target, expected |-> expected]

Sound(detect, wants) ==
    [readable |-> TRUE, frontmatter |-> Declared, name |-> "mdd", parses |-> TRUE,
     executable |-> FALSE, meta |-> Meta(0), detect |-> detect, wants |-> wants]

Simple == Sound(<<L(0, "required_marker", "docs"), L(0, "required_files", ""), L(0, "required_dirs", "")>>,
                Ask({"docs"}, "none", ExpectedVersions["1.2"]))

Unsound == [Simple EXCEPT !.wants = NotAPlugin]

PluginParts ==
    ("docs" :> Simple)
    @@ ("signal" :> Sound(Prose \o ListBlock(2, "required_dirs", "docs") \o Signal(2, ">=1.2"),
                          Ask({"docs"}, "package", ExpectedVersions[">=1.2"])))
    @@ ("exact" :> Sound(Signal(0, "1.2") \o ListBlock(0, "required_files", "package"),
                         Ask({"package"}, "package", ExpectedVersions["1.2"])))
    @@ ("kit" :> [Simple EXCEPT !.name = "kit", !.meta = Meta(4)])
    @@ ("runs code" :> [Unsound EXCEPT !.executable = TRUE])
    @@ ("unreadable" :> [Unsound EXCEPT !.readable = FALSE])
    @@ ("no fields" :> [Unsound EXCEPT !.frontmatter = {}])
    @@ ("no version" :> [Unsound EXCEPT !.frontmatter = @ \ {"plugin_version"}])
    @@ ("unparsable" :> [Unsound EXCEPT !.parses = FALSE])
    @@ ("no meta" :> [Unsound EXCEPT !.meta = NoBlock])
    @@ ("half meta" :> [Unsound EXCEPT !.meta = PartOfMeta])
    @@ ("no detect" :> [Unsound EXCEPT !.detect = NoBlock])

PluginTexts == DOMAIN PluginParts

PluginPaths == {"docs", "package"}

PluginValues ==
    {Gone, Folder, NoField, Versioned(<<1, 2>>), Versioned(<<1, 2, 0>>), Versioned(<<1, 1, 9>>), Versioned(<<2>>)}

Install(app, user, system) ==
    [d \in Dirs |-> [n \in PluginNames |->
        IF n = "kit" THEN (IF d = "system" /\ system # NoFile THEN "kit" ELSE NoFile)
        ELSE CASE d = "app" -> app [] d = "user" -> user [] d = "system" -> system
          [] OTHER -> NoFile]]

Tree(v) ==
    [r \in PluginRoots |-> [p \in PluginPaths |->
        IF p = "docs" THEN (IF r = "app" THEN Folder ELSE Gone) ELSE v]]

\* Every text in the project over a lower valid one, then every tree for the
\* two texts that ask for a version.
PluginWorlds ==
    { [files |-> Install(app, "docs", NoFile), tree |-> Tree(Versioned(<<1, 2>>))] :
        app \in PluginTexts \cup {NoFile} }
    \cup { [files |-> Install("signal", "runs code", "exact"), tree |-> Tree(v)] : v \in PluginValues }
    \cup { [files |-> Install(app, "exact", NoFile), tree |-> Tree(Versioned(<<1, 2, 0>>))] :
             app \in {"no fields", NoFile} }
    \cup { [files |-> Install(NoFile, NoFile, NoFile), tree |-> Tree(Gone)] }

=============================================================================
