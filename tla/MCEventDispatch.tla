-------------------------- MODULE MCEventDispatch --------------------------
(* Two processes, one document each, under every configuration below.      *)
EXTENDS EventDispatch

MCProcs == {"mcp", "cli"}

Event(data, transports) == [data |-> data, transports |-> transports]

\* A secret in the text, an expression next to the cut, a custom transport
\* behind one nobody allows, requests that race, an unknown name, an event that
\* names none.
DocumentPool == [p \in MCProcs |->
    IF p = "cli"
    THEN { << Event(<<"S", "T", "x", "x">>, <<"http", "vscode">>), Event(<<"x">>, <<"nobody", "vscode">>) >> }
    ELSE { << Event(<<"x", "x", "E">>, <<"file", "hook", "mcp">>) >>,
           << Event(<<"E">>, <<"mcp", "websocket">>), Event(<<"x">>, <<"audit", "vscode">>) >>,
           << Event(<<"S", "T">>, <<>>), Event(<<"x">>, <<"log">>) >> }]

Everything == {"log", "mcp", "vscode", "websocket", "file", "http", "db", "hook", "audit", "nobody"}

Config(allowed, evaluates, length, onError, file, http) ==
    [allowed_transports |-> allowed, allow_env_interpolation |-> evaluates,
     max_value_length |-> length, onError |-> onError,
     transports |-> [t \in {"file", "http", "hook", "audit"} |->
         CASE t = "file" -> [type |-> "file", target |-> file]
           [] t = "http" -> [type |-> "http", target |-> http]
           [] t = "hook" -> [type |-> "http", target |-> "http://hook"]
           [] OTHER      -> [type |-> "db", target |-> ""]]]

MCNoConfig == [none |-> TRUE]

ConfigPool == {
    Config(Everything, TRUE, 3, "silence", "/log/a", "http://a"),
    Config(Everything, TRUE, 9, "fail", "/root/in", ""),
    Config(Everything \ {"hook"}, FALSE, 2, "warn", "", "http://metadata"),
    Config({"file", "mcp", "vscode", "http", "log"}, TRUE, 4, "fail", "/log/a", "http://a") }

MCDocuments == DocumentPool
MCConfigs == ConfigPool

MCMaxRenders == [p \in MCProcs |-> IF p = "cli" THEN 1 ELSE 2]

MCPaths == {"/log/a", "/root/in"}
MCUrls == {"http://a", "http://hook", "http://metadata"}
MCRefused == {"/root/in", "http://metadata"}
=============================================================================
