----------------------------- MODULE Migration -----------------------------
(***************************************************************************)
(* The rules by which packages/parser/scripts/migrate-v1-to-v2.mjs turns   *)
(* the first syntax of the language into the second: blocks are closed by  *)
(* name, transitions are self-closed, and a directive that was one line is *)
(* self-closed or, with the lines that continue it, becomes a block.       *)
(*                                                                         *)
(* A line is a record of what the regular expressions tell apart:          *)
(*   text, blank, fence (its marker), rule ("---")                         *)
(*   arrow      @on complete -> target        on    any other @on          *)
(*   end, endif, endswitch                    close @name-end              *)
(*   dir        @name args, with or without a last " /"                    *)
(* Arguments are a sequence of words, which is all splitArgs makes of them;*)
(* none starts with "@", so that a line of its own is text.                *)
(*                                                                         *)
(* A definition that stands just before the one it alters is a mutant.     *)
(***************************************************************************)
EXTENDS Naturals, Sequences, SequencesExt, FiniteSetsExt

CONSTANT Vocabulary    \* names of directives, their arguments, other texts

BLOCK_OPENERS ==
    {"phase", "if", "foreach", "define", "prompt", "note", "section",
     "render-template", "constraint", "switch", "plugin-meta", "plugin-detect",
     "plugin-layout", "plugin-conventions"}

INLINE_DIRECTIVES ==
    {"db", "event", "update-frontmatter", "call", "check", "http", "query",
     "list", "read", "tree", "count", "touch", "mkdir", "copy",
     "append-if-missing", "connect", "import", "include", "set",
     "markdownai-detect", "plugin-data", "hash", "test", "date",
     "read-frontmatter", "env", "render", "graph", "define-concept",
     "invocation-start", "verbose-trace", "on-complete", "chunk-boundary"}

\* `@else` and its like open and close nothing.
MID_BLOCK == {"elseif", "else", "case", "default"}

Kinds ==
    {"text", "blank", "fence", "rule", "arrow", "on", "end", "endif", "endswitch", "close", "dir"}

Lines ==
    { l \in [kind : Kinds, name : Vocabulary, indent : Nat, args : Seq(Vocabulary), slash : BOOLEAN] :
         l.slash => l.kind = "dir" }

ASSUME VocabularyAssumption ==
    BLOCK_OPENERS \cup INLINE_DIRECTIVES \cup MID_BLOCK \cup {"", "__MAIEXPR"} \subseteq Vocabulary

NewLine(kind, name, indent) ==
    [kind |-> kind, name |-> name, indent |-> indent, args |-> <<>>, slash |-> FALSE]

TextLine(indent, word) == NewLine("text", word, indent)

CloseTag(name, indent) == NewLine("close", name, indent)

Directive(name, indent, args, slash) ==
    [NewLine("dir", name, indent) EXCEPT !.args = args, !.slash = slash]

\* Nothing a `@` starts continues a directive, nor does a blank line.
Continues(line, indent) ==
    line.kind \in {"text", "fence", "rule"} /\ line.indent > indent

\* The lines behind i that continue the directive there.
Continuations(lines, i) ==
    LET stops == { j \in (i + 1)..Len(lines) : ~ Continues(lines[j], lines[i].indent) }
    IN SubSeq(lines, i + 1, Min({Len(lines) + 1} \cup stops) - 1)

\* The loop's state.  `open` is the stack of blocks, `changes` the sum of counts.
State(i, out) == [i |-> i, out |-> out, open |-> <<>>, fence |-> "none", changes |-> 0]

\* Frontmatter is copied; without a second "---" it is the whole file.
Start(lines, frontmatter) ==
    IF frontmatter /\ lines # <<>> /\ lines[1].kind = "rule"
    THEN LET closes == { j \in 2..Len(lines) : lines[j].kind = "rule" }
             last == Min({Len(lines)} \cup closes)
         IN State(last + 1, SubSeq(lines, 1, last))
    ELSE State(1, <<>>)

Copy(st, line) == [st EXCEPT !.i = @ + 1, !.out = Append(@, line)]

\* The line is written as something else.
Change(st, line) == [Copy(st, line) EXCEPT !.changes = @ + 1]

\* The innermost open block of a name, if there is one, is closed.
Without(open, name) ==
    LET at == { s \in DOMAIN open : open[s] = name }
    IN IF at = {} THEN open ELSE RemoveAt(open, Max(at))

Transition(st, line) ==
    Change(st, Directive("on-complete", line.indent, line.args, TRUE))

BareEndOutermost(st, line) ==
    IF st.open = <<>> THEN Copy(st, line)
    ELSE [Change(st, CloseTag(Head(st.open), line.indent)) EXCEPT !.open = Tail(@)]

\* `@end` closes the innermost block; where none is open it stays.
BareEnd(st, line) ==
    IF st.open = <<>> THEN Copy(st, line)
    ELSE [Change(st, CloseTag(Last(st.open), line.indent)) EXCEPT !.open = Front(@)]

\* `@endif` and `@endswitch` name their block, open or not.
NamedEnd(st, line, name) ==
    [Change(st, CloseTag(name, line.indent)) EXCEPT !.open = Without(@, name)]

InlineUnchecked(st, lines, line) ==
    LET conts == Continuations(lines, st.i)
    IN IF conts = <<>>
       THEN Change(st, [line EXCEPT !.slash = TRUE])
       ELSE [st EXCEPT !.i = @ + Len(conts) + 1, !.changes = @ + 1,
                       !.out = @ \o <<line>> \o conts \o <<CloseTag(line.name, line.indent)>>]

\* A directive that was one line in the first syntax.
Inline(st, lines, line) ==
    LET conts == Continuations(lines, st.i)
        next  == st.i + Len(conts) + 1
        words == [k \in DOMAIN line.args |-> TextLine(conts[1].indent, line.args[k])]
        block == <<Directive(line.name, line.indent, <<>>, FALSE)>>
                    \o words \o conts \o <<CloseTag(line.name, line.indent)>>
    IN IF conts = <<>>
       THEN Change(st, [line EXCEPT !.slash = TRUE])
       ELSE IF next <= Len(lines) /\ lines[next].kind = "close" /\ lines[next].name = line.name
       THEN [st EXCEPT !.i = next + 1, !.out = @ \o SubSeq(lines, st.i, next)]
       ELSE [st EXCEPT !.i = next, !.changes = @ + 1, !.out = @ \o block]

\* Only the marker that opened a fence closes it.
Fence(fence, marker) ==
    IF fence = "none" THEN marker ELSE IF fence = marker THEN "none" ELSE fence

InOrOutOfFence(st, line) == [Copy(st, line) EXCEPT !.fence = Fence(@, line.name)]

BlockCloses(st, line) == [Copy(st, line) EXCEPT !.open = Without(@, line.name)]

BlockOpens(st, line) == [Copy(st, line) EXCEPT !.open = Append(@, line.name)]

Step(st, lines) ==
    LET line == lines[st.i]
    IN CASE line.kind = "fence" -> InOrOutOfFence(st, line)
         [] line.kind # "fence" /\ st.fence # "none" -> Copy(st, line)
         [] OTHER ->
            CASE line.kind = "arrow" -> Transition(st, line)
              [] line.kind = "end" -> BareEnd(st, line)
              [] line.kind = "endif" -> NamedEnd(st, line, "if")
              [] line.kind = "endswitch" -> NamedEnd(st, line, "switch")
              [] line.kind = "close" -> BlockCloses(st, line)
              [] line.kind = "dir" /\ line.name \in BLOCK_OPENERS -> BlockOpens(st, line)
              [] line.kind = "dir" /\ line.name \in INLINE_DIRECTIVES /\ ~ line.slash ->
                   Inline(st, lines, line)
              [] OTHER -> Copy(st, line)

\* Each pass goes on by one line at least, so that Len(lines) of them suffice.
Pass(st, lines) == IF st.i > Len(lines) THEN st ELSE Step(st, lines)

Loop(st, lines) ==
    LET after[n \in Nat] == IF n = 0 THEN st ELSE Pass(after[n - 1], lines)
    IN after[Len(lines)]

\* `migrate`: the lines written, and whether any rule applied.
Rewrite(lines, frontmatter) ==
    LET done == Loop(Start(lines, frontmatter), lines)
    IN [lines |-> done.out, changed |-> done.changes > 0]

=============================================================================
