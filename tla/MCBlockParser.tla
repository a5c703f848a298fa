--------------------------- MODULE MCBlockParser ---------------------------
(***************************************************************************)
(* Small documents for BlockParser: all short ones over every shape of     *)
(* line, and longer ones over the shapes that make nesting hard.           *)
(***************************************************************************)
EXTENDS BlockParser

Header == 1

AllShapes ==
  {Bare(k) : k \in {"blank", "text", "attr", "sep", "fence", "graph", "v1"}}
    \cup {Open(n) : n \in {"if", "phase", "switch", "prompt", "data", "foo", "case", "on"}}
    \cup {OpenSelf("if"), OpenSelf("on-complete"), OpenSelf("else"), OpenSelf("on"), Piped("if")}
    \cup {Glued("if"), Glued("else"), Slashed("if")}
    \cup {Close(n) : n \in {"if", "phase", "switch", "prompt", "foo"}}

\* Two blocks that are parsed inside and one that is raw text: three deep
\* in six lines.
NestingShapes ==
  {Open(n) : n \in {"if", "phase", "prompt"}} \cup {Close(n) : n \in {"if", "phase", "prompt"}}

\* Openers of one name, some of which the parser's two recognisers tell apart.
OddShapes == {Open("if"), Glued("if"), Slashed("if"), Close("if")}

AllUpTo(shapes, n) == UNION {[1..k -> shapes] : k \in 0..n}

Short == AllUpTo(AllShapes, 3)
Mixed == Short \cup AllUpTo(NestingShapes, 6) \cup AllUpTo(OddShapes, 5)

ShortDocuments == Short
Documents      == Mixed
=============================================================================
