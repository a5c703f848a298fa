--------------------------- MODULE MCFlowSession ---------------------------
(***************************************************************************)
(* FlowSession on a small instance: one path under two spellings that may  *)
(* hold two documents of two phases, an anonymous caller and two sessions. *)
(* A scope is the value of one @set variable.                              *)
(***************************************************************************)
EXTENDS FlowSession

CONSTANTS p1, p2, build, audit

MCPhases == {p1, p2}
MCDocs == {build, audit}
MCScopes == {"unset", "fast", "slow"}

OneDocument == [n \in {"a.md", "./a.md"} |-> "/a.md"]

MCDeclared(d) == {p1, p2}

\* build: p1 binds the variable and advances; p2 is terminal when it is "fast"
\* and goes back to p1 otherwise.
\* audit: p1 has an unconditional transition, which a fatal error may hide
\* from the render; p2 is terminal.
MCFirstStatic(d, p) == IF d = audit /\ p = p1 THEN p2 ELSE NoPhase

R(s, c) == [scope |-> s, chosen |-> c]

MCOutcomes(d, p, s) ==
    CASE d = build /\ p = p1 -> { R("fast", p2), R("slow", p2) }
      [] d = build /\ p = p2 -> { R(s, IF s = "fast" THEN NoPhase ELSE p1) }
      [] d = audit /\ p = p1 -> { R("slow", p2), R(s, NoPhase) }
      [] OTHER               -> { R(s, NoPhase) }

=============================================================================
