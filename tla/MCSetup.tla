------------------------------ MODULE MCSetup ------------------------------
(***************************************************************************)
(* Setup with two runs.  Either the configuration files vary (none, an     *)
(* installation of an earlier version, a broken file, a user's own         *)
(* entries) over a plain CLAUDE.md, or CLAUDE.md varies over an            *)
(* installation that is complete.                                          *)
(***************************************************************************)
EXTENDS Setup

SetupOptions ==
    { [client |-> "auto", md |-> TRUE, update |-> FALSE],
      [client |-> "claude-code", md |-> FALSE, update |-> TRUE] }

S(form, pre, start) == [form |-> form, pre |-> pre, start |-> start]
T(form, command) == [form |-> form, servers |-> [NoServers EXCEPT !["markdownai"] = command]]

World(script, settings, cursor, servers, md) ==
    [f \in Files |->
        CASE f \in Scripts -> [form |-> script]
          [] f = "settings" -> settings
          [] f = "cursor settings" -> cursor
          [] f = "servers" -> servers
          [] f = "md" -> md]

NoSettings == S("absent", <<>>, <<>>)
Installation == S("object", <<Ours>>, <<Ours>>)
PlainText == [form |-> "object", text |-> <<"line", "nl">>]

\* Nothing is installed; the settings are broken; the user has another server
\* of that name, a hook of his own, foreign scripts and one of the two hooks;
\* Cursor, with a script that looks like ours, over an earlier version's, and a
\* server table that is broken.
ConfigWorlds ==
    { World("absent", NoSettings, NoSettings, T("absent", "none"), PlainText),
      World("current", S("broken", <<>>, <<>>), NoSettings, T("object", "npx @markdownai/mcp"), PlainText),
      World("foreign", S("object", <<"own">>, <<Ours>>), NoSettings, T("object", "another program"), PlainText),
      World("older", NoSettings, S("object", <<"my preToolUse">>, <<>>), T("broken", "none"), PlainText) }

Texts ==
    { <<>>, Section, <<"nl", "nl">>, Section \o <<"more", "nl", "nl">>, <<"line">>,
      <<"line", "nl">> \o Section,
      <<"line", "nl", "nl">> \o Section \o <<"nl", "nl", "more", "nl">>,
      <<"line">> \o Section \o <<"nl", "more">> \o Section \o <<"nl", "line", "nl">>,
      <<"end", "line", "nl">> \o Section, <<"start", "start", "nl", "end", "end", "line">>,
      <<"line", "start", "more", "nl">> }

TextWorlds ==
    { World("current", Installation, NoSettings, T("object", "mai-serve"),
            [form |-> "object", text |-> t]) : t \in Texts }
    \cup { World("current", Installation, NoSettings, T("object", "mai-serve"),
                 [form |-> "absent", text |-> <<>>]) }

SetupDocuments ==
    { [md |-> TRUE, system |-> y, lines |-> l] :
        y \in BOOLEAN,
        l \in { <<"header", "text">>, <<"blank", "header">>, <<"text", "header">>,
                <<"---", "text", "---", "blank", "header">>, <<"---", "header">> } }

SetupWorlds == ConfigWorlds \cup TextWorlds

=============================================================================
