---------------------------- MODULE MCMcpServer ----------------------------
(***************************************************************************)
(* McpServer on one path that holds a flow of two phases, a document that  *)
(* does not parse, or no document.  p1 binds the scope, p2 reads it and    *)
(* ends the flow.  A session id is given as text, as a number or not at    *)
(* all.  The log cannot be written.                                        *)
(***************************************************************************)
EXTENDS McpServer

CONSTANTS p1, p2, flow, broken

ServerPhases == {p1, p2}
ServerDocs == {flow, broken}
ServerScopes == {"unset", "set"}
OnePath == [n \in {"a.md"} |-> "/a.md"]
ServerDeclared(d) == IF d = flow THEN {p1, p2} ELSE {}
ServerFirstStatic(d, p) == IF p = p1 THEN p2 ELSE NoPhase
ServerOutcomes(d, p, s) ==
    IF p = p1 THEN { [scope |-> "set", chosen |-> p2] }
              ELSE { [scope |-> s, chosen |-> NoPhase] }

Text == [v \in {"7", "number 7", "none"} |->
            IF v = "none" THEN "undefined" ELSE "7"]

Args == [file |-> "a.md", phase |-> p1, macro |-> "m", key |-> "HOME",
         directive |-> "@date /", skill |-> "none"]

Line(form, method) ==
    [form |-> form, id |-> 1, method |-> method, tool |-> "none",
     argsObject |-> TRUE, args |-> Args]

ToolLine(tool, args) ==
    [Line("request", "tools/call") EXCEPT !.tool = tool, !.args = args]

PhaseLines ==
    { ToolLine("resolve_phase", [Args EXCEPT !.skill = s]) : s \in {"7", "number 7", "none"} }
    \cup { ToolLine("next_phase", [Args EXCEPT !.skill = s, !.phase = p2]) : s \in {"7", "none"} }

OtherLines ==
    { Line(f, "other") : f \in {"blank", "unparsable", "null", "scalar"} }
    \cup { [Line("request", "other") EXCEPT !.id = NoId],
           [Line("request", "notifications/initialized") EXCEPT !.id = NoId],
           Line("request", "initialize"),
           [Line("request", "tools/call") EXCEPT !.argsObject = FALSE],
           ToolLine("query", Args),
           ToolLine("get_env", [Args EXCEPT !.key = "A-B"]),
           ToolLine("read_file", Args),
           ToolLine("call_macro", Args),
           ToolLine("execute_directive", [Args EXCEPT !.directive = "@env"]) }

ServerLines == PhaseLines \cup OtherLines

=============================================================================
