---------------------------- MODULE BlockParser ----------------------------
(***************************************************************************)
(* The block structure of a document: packages/parser/src/parser.ts.       *)
(*                                                                         *)
(* parseNodes walks a list of lines with a cursor; for a block it calls    *)
(* collectBlock, which looks ahead for the close tag, and then calls       *)
(* itself on the lines of the body.  The bodies are slices of the source,  *)
(* so that a call is a frame over an interval of source lines, and the     *)
(* recursion is the stack of frames.  What a directive makes of its        *)
(* attributes and arguments is not modelled: a line is only its shape.     *)
(*                                                                         *)
(* The definitions just before Nests, Number, Single and CodeFence are     *)
(* mutants of them, each with one mistake.                                 *)
(***************************************************************************)
EXTENDS Integers, Sequences, FiniteSets, FiniteSetsExt

CONSTANTS
  Sources,    \* the documents to parse: sequences of lines, header removed
  HeaderAt    \* the line of the file that holds `@markdownai`

VARIABLES
  source,     \* the lines
  inImport,   \* whether the file is parsed for an @import
  stack,      \* the activations of parseNodes, the running one last
  nodes,      \* the nodes made so far
  passed,     \* lines that made no node: clauses, and what @switch drops
  outcome     \* how the parse stands, and the lines an error is about

vars == <<source, inImport, stack, nodes, passed, outcome>>

-----------------------------------------------------------------------------
(* The shapes a line can have for the parser.  "attr" is an indented word  *)
(* or key=value, "sep" a lone `>`, "fence" a bare ```, "lang" a ``` with a *)
(* language, "graph" ```mai-graph, "v1" one of @end, @endif, @endswitch.   *)
(* What follows the name of an opener: " " a blank or the end of the line, *)
(* "/" a slash, "(" any other sign that is no part of a name.  `self` is   *)
(* whether parseNodes takes the opener for self-closed: it ends in " /",   *)
(* or is nothing but the name and a slash, `@if/`.                         *)
Shape(k, n, gap, self) == [k |-> k, name |-> n, gap |-> gap, self |-> self]
Bare(k)     == Shape(k, "", " ", FALSE)
Open(n)     == Shape("open", n, " ", FALSE)
OpenSelf(n) == Shape("open", n, " ", TRUE)
Glued(n)    == Shape("open", n, "(", FALSE)
Slashed(n)  == Shape("open", n, "/", TRUE)
Piped(n)    == Shape("pipe", n, " ", FALSE)
Close(n)    == Shape("close", n, " ", FALSE)

Fences == {"fence", "lang", "graph"}
Shapes ==
  [k : Fences \cup {"blank", "text", "attr", "sep", "v1", "open", "pipe", "close"},
   name : STRING, gap : {" ", "/", "("}, self : BOOLEAN]

ASSUME DocumentsAreLines == Sources \subseteq Seq(Shapes) /\ HeaderAt \in Nat

RECURSIVE_BODY_DIRECTIVES == {"phase", "define", "if", "switch", "foreach", "section"}
VERBATIM_BODY_DIRECTIVES  == {"data", "define"}

\* The registry, as far as documents here name it.
Registered == RECURSIVE_BODY_DIRECTIVES \cup {"data", "prompt", "list", "on-complete"}

\* The clause lines of @if and of @switch, with or without arguments.
ClauseOf(l, block) ==
  /\ l.k \in {"open", "pipe"} /\ l.gap = " "
  /\ \/ block = "if" /\ l.name \in {"elseif", "else"}
     \/ block = "switch" /\ l.name \in {"case", "default"}

-----------------------------------------------------------------------------
(* collectBlock *)

NestsBlind(l, name) == FALSE
\* Which lines raise the depth is asked apart from what parseNodes opens:
\* `@name(x)` does not, and `@name/` does, though it closes itself; so does a
\* line with a pipe, which is no block for parseNodes.
Nests(l, name) ==
  /\ l.k \in {"open", "pipe"} /\ l.name = name
  /\ l.gap = "/" \/ (l.gap = " " /\ ~l.self)

\* The depth after lines from..to of the body of an open block.
Depth(s, name, from, to) ==
  1 + Cardinality({i \in from..to : Nests(s[i], name)})
    - Cardinality({i \in from..to : s[i] = Close(name)})

\* The lines at which a block whose first line is `from` can close: its
\* close tag is the first of them.
Closers(s, name, from, last) ==
  {c \in from..last : s[c] = Close(name) /\ Depth(s, name, from, c) = 0}

\* Attributes run up to the first line of another shape; a blank line or a
\* `>` there is dropped, any other line is the first line of the body.
BodyStart(s, name, from, close) ==
  IF name \in VERBATIM_BODY_DIRECTIVES THEN from
  ELSE LET stop == Min({i \in from..close : s[i].k # "attr"})
       IN IF s[stop].k \in {"blank", "sep"} THEN stop + 1 ELSE stop

-----------------------------------------------------------------------------
(* Frames and nodes *)

\* `base` is baseLineNum: the line number given to index 0 of the slice;
\* `clause` counts the clauses so far, of which @if starts with one.
Frame(block, opener, first, last, base) ==
  [block |-> block, opener |-> opener, first |-> first, last |-> last,
   pos |-> first, base |-> base, clause |-> IF block = "switch" THEN 0 ELSE 1]

Top     == stack[Len(stack)]
Here    == Top.pos
Line    == source[Here]
Running == outcome.is = "parsing"
InLine  == Running /\ Top.pos <= Top.last

\* The index of a line in the slice the running call works on.
Index(p) == p - Top.first

NumberAhead(p) == Top.base + Index(p) + 1

\* ctx.line, the number a node or an error of parseNodes carries.
Number(p) == Top.base + Index(p)

\* The block the running call parses the body of; 0 at the top level.
Node(kind, first, body, last) ==
  [kind |-> kind, at |-> first, body |-> body, upto |-> last,
   within |-> Top.opener, number |-> Number(first)]

Leaf(kind, last) == Node(kind, Here, last + 1, last)

Emit(n) == nodes' = nodes \cup {n} /\ UNCHANGED passed

MoveTo(p) == stack' = [stack EXCEPT ![Len(stack)].pos = p]

Fail(why, at, number) ==
  /\ outcome' = [is |-> why, at |-> at, number |-> number]
  /\ UNCHANGED <<source, inImport, stack, nodes, passed>>

Goes == UNCHANGED <<source, inImport, outcome>>

\* blockStack: only @phase and @define push on it.
InTransitional == \E f \in 1..Len(stack) : stack[f].block \in {"phase", "define"}

-----------------------------------------------------------------------------
(* Between the clauses of @if and @switch.  A @switch has no clause at     *)
(* first and drops its lines one by one.                                   *)
InClause == InLine /\ ~ClauseOf(Line, Top.block) /\ Top.clause > 0

Clause ==
  /\ InLine /\ ClauseOf(Line, Top.block)
  /\ stack' = [stack EXCEPT ![Len(stack)].pos = @ + 1, ![Len(stack)].clause = @ + 1]
  /\ passed' = passed \cup {Here}
  /\ UNCHANGED nodes /\ Goes

BeforeFirstCase ==
  /\ InLine /\ ~ClauseOf(Line, Top.block) /\ Top.clause = 0
  /\ MoveTo(Here + 1)
  /\ passed' = passed \cup {Here}
  /\ UNCHANGED nodes /\ Goes

-----------------------------------------------------------------------------
(* Lines that are a node of their own: text, stray close tags, pipes, and  *)
(* self-closed directives, known or not.                                   *)
Misplaced == Line.name = "on-complete" /\ ~InTransitional

SingleStays ==
  /\ InClause /\ Line.k = "open" /\ Line.self /\ Line.name # "on" /\ ~Misplaced
  /\ Emit(Leaf("line", Here))
  /\ UNCHANGED stack /\ Goes

Single ==
  /\ InClause
  /\ \/ Line.k \in {"text", "attr", "sep", "blank", "close"}
     \/ Line.k = "pipe" /\ Line.name # "on"
     \/ Line.k = "open" /\ Line.self /\ Line.name # "on" /\ ~Misplaced
  /\ Emit(Leaf("line", Here))
  /\ MoveTo(Here + 1)
  /\ Goes

CodeFenceKeepsEnd ==
  /\ InClause /\ Line.k \in {"fence", "lang"}
  /\ LET ends == {i \in Here + 1 .. Top.last : source[i].k \in Fences}
         last == IF ends = {} THEN Top.last ELSE Min(ends)
     IN Emit(Leaf("code", last)) /\ MoveTo(IF ends = {} THEN last + 1 ELSE last)
  /\ Goes

\* A code fence runs to the next fence of any kind, or to the end of the
\* slice.
CodeFence ==
  /\ InClause /\ Line.k \in {"fence", "lang"}
  /\ LET ends == {i \in Here + 1 .. Top.last : source[i].k \in Fences}
         last == IF ends = {} THEN Top.last ELSE Min(ends)
     IN Emit(Leaf("code", last)) /\ MoveTo(last + 1)
  /\ Goes

\* A mai-graph runs to the next bare fence and must have one.
GraphEnds == {i \in Here + 1 .. Top.last : source[i].k = "fence"}

GraphFence ==
  /\ InClause /\ Line.k = "graph" /\ GraphEnds # {}
  /\ Emit(Leaf("graph", Min(GraphEnds))) /\ MoveTo(Min(GraphEnds) + 1)
  /\ Goes

UnclosedGraph ==
  /\ InClause /\ Line.k = "graph" /\ GraphEnds = {}
  /\ Fail("unclosed graph", Here, Number(Here))

\* What version 1 wrote: @end and its kin, `@on complete -> ...`.
OldSyntax ==
  /\ InClause
  /\ \/ Line.k = "v1"
     \/ Line.k \in {"open", "pipe"} /\ Line.name = "on"
  /\ Fail("v1 syntax", Here, Number(Here))

MisplacedTransition ==
  /\ InClause /\ Line.k = "open" /\ Line.self /\ Misplaced
  /\ Fail("misplaced", Here, Number(Here))

-----------------------------------------------------------------------------
(* Blocks *)

Opening == InClause /\ Line.k = "open" /\ ~Line.self /\ Line.name # "on"

PhaseInImport == Line.name = "phase" /\ inImport

\* The close tag of the block that opens here, 0 if the slice has none.
CloseLine ==
  LET closers == Closers(source, Line.name, Here + 1, Top.last)
  IN IF closers = {} THEN 0 ELSE Min(closers)

\* The @end lines collectBlock meets before it is through.
OldEnds ==
  {i \in Here + 1 .. (IF CloseLine = 0 THEN Top.last ELSE CloseLine) : source[i].k = "v1"}

Collected == Opening /\ ~PhaseInImport /\ OldEnds = {} /\ CloseLine # 0

RejectImportedPhase ==
  /\ Opening /\ PhaseInImport
  /\ Fail("phase in import", Here, Number(Here))

\* collectBlock knows the slice but not baseLineNum: it counts from 1.
OldEndInBlock ==
  /\ Opening /\ ~PhaseInImport /\ OldEnds # {}
  /\ Fail("v1 syntax", Min(OldEnds), Index(Min(OldEnds)) + 1)

Unclosed ==
  /\ Opening /\ ~PhaseInImport /\ OldEnds = {} /\ CloseLine = 0
  /\ Fail("unclosed", Here, Index(Here) + 1)

\* A block of an unknown name becomes its first line; its body is dropped.
UnknownBlock ==
  /\ Collected /\ Line.name \notin Registered
  /\ Emit(Leaf("unknown", CloseLine))
  /\ MoveTo(CloseLine + 1)
  /\ Goes

\* The directive's own parser reads attributes and body, here as raw text.
RawBlock ==
  /\ Collected /\ Line.name \in Registered \ RECURSIVE_BODY_DIRECTIVES
  /\ Emit(Leaf("raw", CloseLine))
  /\ MoveTo(CloseLine + 1)
  /\ Goes

\* A directive's own parser may refuse its arguments.
Refused ==
  /\ \/ Collected
     \/ InClause /\ Line.k = "pipe"
     \/ InClause /\ Line.k = "open" /\ Line.self /\ ~Misplaced
  /\ Line.name \in Registered
  /\ Fail("refused", Here, Number(Here))

\* populateRecursiveBody: the slice of the body is parsed by a call of its
\* own, numbered from the opener's index in THIS slice; then the running
\* call goes on behind the close tag.
EnterBlock ==
  /\ Collected /\ Line.name \in RECURSIVE_BODY_DIRECTIVES
  /\ LET close == CloseLine
         body  == BodyStart(source, Line.name, Here + 1, close)
     IN /\ Emit(Node(Line.name, Here, body, close))
        /\ stack' = Append([stack EXCEPT ![Len(stack)].pos = close + 1],
                           Frame(Line.name, Here, body, close - 1, Index(Here) + 1))
  /\ Goes

LeaveBlock ==
  /\ Running /\ Top.pos > Top.last /\ Len(stack) > 1
  /\ stack' = SubSeq(stack, 1, Len(stack) - 1)
  /\ UNCHANGED <<nodes, passed>> /\ Goes

Finish ==
  /\ Running /\ Top.pos > Top.last /\ Len(stack) = 1
  /\ outcome' = [outcome EXCEPT !.is = "parsed"]
  /\ UNCHANGED <<source, inImport, stack, nodes, passed>>

-----------------------------------------------------------------------------
Init ==
  /\ source \in Sources
  /\ inImport \in BOOLEAN
  /\ stack = <<Frame("document", 0, 1, Len(source), HeaderAt + 1)>>
  /\ nodes = {}
  /\ passed = {}
  /\ outcome = [is |-> "parsing", at |-> 0, number |-> 0]

Next ==
  \/ Clause \/ BeforeFirstCase
  \/ Single \/ CodeFence \/ GraphFence \/ UnclosedGraph
  \/ OldSyntax \/ MisplacedTransition
  \/ RejectImportedPhase \/ OldEndInBlock \/ Unclosed
  \/ UnknownBlock \/ RawBlock \/ Refused
  \/ EnterBlock \/ LeaveBlock \/ Finish

\* parse() is one synchronous call: the walk goes on while it can.
Spec == Init /\ [][Next]_vars /\ WF_vars(Next)

-----------------------------------------------------------------------------
(* Properties *)

Numbers == 0 .. HeaderAt + Len(source) + 1

TypeOK ==
  /\ source \in Seq(Shapes) /\ inImport \in BOOLEAN
  /\ stack # <<>>
  /\ \A f \in 1..Len(stack) :
       /\ stack[f].block \in RECURSIVE_BODY_DIRECTIVES \cup {"document"}
       /\ stack[f].pos \in stack[f].first .. stack[f].last + 1
       /\ stack[f].base \in Numbers
       /\ stack[f].clause \in Nat
  /\ \A n \in nodes : n.at \in n.within + 1 .. n.upto /\ n.number \in Numbers
  /\ passed \subseteq DOMAIN source
  /\ outcome.is \in {"parsing", "parsed", "unclosed graph", "v1 syntax", "misplaced",
                     "phase in import", "unclosed", "refused"}

IsBlock(n)  == n.kind \in RECURSIVE_BODY_DIRECTIVES
Claimed(n)  == IF IsBlock(n) THEN (n.at .. n.body - 1) \cup {n.upto} ELSE n.at .. n.upto
Accounts(p) == Cardinality({n \in nodes : p \in Claimed(n)}) + (IF p \in passed THEN 1 ELSE 0)
StillOpen   == {stack[f].opener : f \in 1..Len(stack)}

\* Every line the walk has left behind belongs to one node or was passed
\* over once, and a line still ahead belongs to nothing but, as its close
\* tag, to a block that is being walked: the slices, the look-ahead and the
\* nested calls of parseNodes neither lose a line nor read one twice.
EachLineOnce ==
  outcome.is \in {"parsing", "parsed"} =>
    \A p \in DOMAIN source :
      IF p < Here THEN Accounts(p) = 1
      ELSE /\ p \notin passed
           /\ \A n \in nodes : p \in Claimed(n) => p = n.upto /\ n.at \in StillOpen

\* A node hangs under the innermost block around its lines, between the
\* attributes and the close tag of that block: what collectBlock slices for
\* a nested block never reaches beyond the block it is nested in.
HangsUnderInnermost ==
  \A n \in nodes :
    LET around == {b \in nodes : IsBlock(b) /\ b.at < n.at /\ n.at <= b.upto}
    IN /\ \A b \in around : b.body <= n.at /\ n.upto < b.upto
       /\ n.within = IF around = {} THEN 0 ELSE Max({b.at : b \in around})

\* "Nested same-name blocks are supported": once collectBlock has found the
\* close tag of a block, a block of the same name directly inside finds its
\* own, whatever raw text, fences and stray tags lie around it.  Only one that
\* collectBlock did not count, `@name(x)`, is left without a tag.
SameNameCloses ==
  outcome.is = "unclosed" /\ Len(stack) > 1 /\ source[outcome.at].gap # "(" =>
    source[outcome.at].name # Top.block

-----------------------------------------------------------------------------
(* A reference for documents that only nest blocks: the bracket matcher.   *)
(* open[k] holds the unmatched tags after k lines.                         *)
OnlyNests ==
  /\ \A p \in DOMAIN source :
       \/ source[p].k \in {"text", "attr", "sep", "blank"}
       \/ source[p].k = "open" /\ ~source[p].self
            /\ source[p].name \in RECURSIVE_BODY_DIRECTIVES \ {"switch"}
       \/ source[p].k = "open" /\ source[p].self /\ source[p].name \notin {"on", "on-complete"}
       \/ source[p] = Close(source[p].name)
  /\ inImport => \A p \in DOMAIN source : source[p].name # "phase"

Unmatched ==
  LET open[k \in 0..Len(source)] ==
        IF k = 0 THEN <<>>
        ELSE LET before == open[k - 1]
                 l == source[k]
             IN IF l.k \notin {"open", "close"} \/ l.self THEN before
                ELSE IF /\ l.k = "close" /\ before # <<>>
                        /\ source[before[Len(before)]].k = "open"
                        /\ source[before[Len(before)]].name = l.name
                     THEN SubSeq(before, 1, Len(before) - 1)
                     ELSE Append(before, k)
  IN open

Pairs ==
  LET open == Unmatched
  IN {<<open[c - 1][Len(open[c - 1])], c>> :
        c \in {k \in DOMAIN source : source[k].k = "close"}}

\* An opener parseNodes and collectBlock see differently, `@name(x)` or
\* `@name/`, inside a block of its own name.
Odd(l) == l.k = "open" /\ l.gap = (IF l.self THEN "/" ELSE "(")

OddInItsLike(p) ==
  Odd(source[p]) /\ \E j \in 1..Len(Unmatched[p - 1]) :
                      source[Unmatched[p - 1][j]].name = source[p].name

\* A document whose tags match as brackets do is never rejected for its
\* structure, and its blocks are the pairs of matching tags: counting tags
\* of one name at a time, as collectBlock does, finds what a stack finds, as
\* long as no block holds an odd opener of its own name.
CountingFindsTheMatch ==
  OnlyNests /\ Unmatched[Len(source)] = <<>> /\ ~ (\E p \in DOMAIN source : OddInItsLike(p)) =>
    /\ outcome.is \in {"parsing", "parsed", "refused"}
    /\ outcome.is = "parsed" => {<<b.at, b.upto>> : b \in {n \in nodes : IsBlock(n)}} = Pairs

\* The tree is the one a reader sees: each block ends where its tags match, and
\* holds what is between them (parser.ts:249-290, 352-444).
BlocksNest == HangsUnderInnermost /\ SameNameCloses /\ CountingFindsTheMatch

\* A line number in a node or an error never points below the line it is
\* about, and is exact for the nodes of the top level.
NumbersNotLate ==
  /\ \A n \in nodes : /\ n.number <= HeaderAt + n.at
                       /\ n.within = 0 => n.number = HeaderAt + n.at
  /\ outcome.number <= HeaderAt + outcome.at

\* The walk moves forward with every step, into a body, behind a block, out
\* of one: no line is looked at again.
Forward == [][outcome'.is # "parsing" \/ Here' > Here]_vars

\* The parse of every document comes to an end.
Terminates == <>~Running

=============================================================================
