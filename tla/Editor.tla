------------------------------- MODULE Editor -------------------------------
(***************************************************************************)
(* The VS Code extension around one document: the language it is given     *)
(* when it is opened, the registry of macros, diagnostics and references,  *)
(* and the tags typed for the author.  The extension host handles one      *)
(* event at a time, but the stdlib is read, the language is switched and   *)
(* the close tag is inserted later, while the author goes on editing.      *)
(*                                                                         *)
(* A line is what the providers tell apart: what it opens or closes, the   *)
(* macro it calls or defines, whether it is indented.  The header is not   *)
(* among the lines: `headed' says whether the document has one.            *)
(*                                                                         *)
(* A definition that stands just before the one it alters is a mutant.     *)
(***************************************************************************)
EXTENDS Integers, SequencesExt

CONSTANTS
    Macros,       \* names of macros
    StdlibMacros, \* those parseStdlibMacros finds in stdlib.md
    Workloads,    \* what the author may do: [lines : the lines to write,
                  \* size : how many, blocks : to complete, settings : to choose,
                  \* libs : the macros the imported document may get, stdlib :
                  \* how far its reading has come]
    NoEdit        \* no close tag is about to be inserted

\* diagnostics-engine.ts: the blocks whose openers are counted.
Counted == {"define", "phase", "note", "section", "prompt", "foreach", "render-template"}

\* extension.ts, BLOCK_OPENERS and IF_OPENER: the blocks that are closed.
AutoClosed == {"phase", "define", "note", "section", "prompt", "if"}

\* completion-provider.ts: the blocks with a snippet.
BLOCK_DIRECTIVES == Counted \cup {"if", "data"}

NoMacro == "no macro"

Line(is, name, macro, indented) ==
    [is |-> is, name |-> name, macro |-> macro, indented |-> indented]

Blank == Line("text", "", NoMacro, FALSE)
Opener(b) == Line("open", b, NoMacro, FALSE)
Closer(b) == Line("close", b, NoMacro, FALSE)
Else == Line("else", "", NoMacro, FALSE)
Call(m, indented) == Line("call", "", m, indented)
Define(m, indented) == Line("open", "define", m, indented)

\* @import, and the same line with the ` /' of a self-closed directive.
Import == Line("import", "", NoMacro, FALSE)
ImportSelfClosed == Line("import /", "", NoMacro, FALSE)

EditorSettings == [enabled : BOOLEAN, warn : BOOLEAN]

ASSUME EditorAssumption ==
    /\ StdlibMacros \subseteq Macros /\ NoMacro \notin Macros
    /\ \A w \in Workloads :
          /\ w.size \in Nat /\ w.blocks \subseteq BLOCK_DIRECTIVES
          /\ w.settings \subseteq EditorSettings /\ w.libs \subseteq SUBSET Macros
          /\ w.stdlib \in {"loading", "loaded", "absent"}

VARIABLES
    work,        \* the author's workload
    headed,      \* the document begins with @markdownai
    opened,      \* it is open
    language,    \* its languageId
    switching,   \* setTextDocumentLanguage was called
    text,        \* its lines
    edit,        \* the close tag about to be inserted
    stdlib,      \* MacroRegistry.stdlibMacros
    imported,    \* the macros of the imported document, if that is open
    settings,    \* of the workspace
    marks,       \* the diagnostics shown for the document
    noted        \* history: what the last analysis knew besides the text

editorVars ==
    <<work, headed, opened, language, switching, text, edit, stdlib, imported,
      settings, marks, noted>>

-----------------------------------------------------------------------------
(* macro-registry.ts and completion-provider.ts: the macros a document knows *)

\* A @define is found at the start of a line only.
scanDocumentMacros(t) == { i \in DOMAIN t : t[i].macro # NoMacro /\ t[i].is = "open" /\ ~ t[i].indented }

\* The rest of the line is the path, so with ` /' it is the path of no document.
resolveImportedMacros(t, lib) == IF \E i \in DOMAIN t : t[i] = Import THEN lib ELSE {}

getMacros(t, lib, std) ==
    { t[i].macro : i \in scanDocumentMacros(t) } \cup resolveImportedMacros(t, lib) \cup std

\* The macro of a @call or @define at the start of a line, or NoMacro.
extractCallTarget(l) == IF l.indented THEN NoMacro ELSE l.macro

\* Where an editor can go.  The registry keeps the URI of the document as the
\* path of a macro; the file of that name does not exist.
Location(document, line) == [document |-> document, line |-> line]

findCallSites(t, m) ==
    { Location("this", i) : i \in { i \in DOMAIN t : t[i].is = "call" /\ extractCallTarget(t[i]) = m } }

\* The first definition in the document.
findDefinitionLocation(t, m) ==
    LET defs == { i \in scanDocumentMacros(t) : t[i].macro = m }
    IN { Location("none", i) : i \in { i \in defs : \A j \in defs : i <= j } }

provideReferences(t, i) ==
    LET m == extractCallTarget(t[i])
    IN IF m = NoMacro THEN {} ELSE findCallSites(t, m) \cup findDefinitionLocation(t, m)

-----------------------------------------------------------------------------
(* diagnostics-engine.ts: two stacks, one of @if and one of all other blocks *)

Mark(line, what) == [line |-> line, what |-> what]

Push(s, which, i) == [s EXCEPT ![which] = Append(@, i)]

Pop(s, which, i) ==
    IF s[which] = <<>> THEN [s EXCEPT !.marks = @ \cup {Mark(i, "stray close")}]
    ELSE [s EXCEPT ![which] = Front(@)]

processLine(s, i, l, known) ==
    CASE l.is = "close" -> Pop(s, IF l.name = "if" THEN "ifs" ELSE "blocks", i)
      [] l.is = "open" /\ l.name = "if" -> Push(s, "ifs", i)
      [] l.is = "else" /\ s.ifs = <<>> -> [s EXCEPT !.marks = @ \cup {Mark(i, "stray else")}]
      [] l.is = "open" /\ l.name \in Counted -> Push(s, "blocks", i)
      [] l.is = "call" /\ l.macro \notin known -> [s EXCEPT !.marks = @ \cup {Mark(i, "undefined")}]
      [] OTHER -> s

analyzeDiagnostics(t, known) ==
    LET after[i \in 0..Len(t)] ==
            IF i = 0 THEN [ifs |-> <<>>, blocks |-> <<>>, marks |-> {}]
            ELSE processLine(after[i - 1], i, t[i], known)
        end == after[Len(t)]
    IN end.marks \cup { Mark(i, "unclosed") : i \in Range(end.ifs) \cup Range(end.blocks) }

\* analyzeDocument of DiagnosticsProvider, of an open document.
Diagnostics(lang, t, now) ==
    IF lang # "markdownai" \/ ~ now.enabled THEN {}
    ELSE LET found == analyzeDiagnostics(t, getMacros(t, now.lib, now.std))
         IN IF now.warn THEN found ELSE { k \in found : k.what # "undefined" }

Now == [enabled |-> settings.enabled, warn |-> settings.warn, lib |-> imported,
        std |-> IF stdlib = "loaded" THEN StdlibMacros ELSE {}]

Analyze ==
    /\ marks' = Diagnostics(language', text', Now)
    /\ noted' = Now

-----------------------------------------------------------------------------
(* extension.ts *)

\* Opening a document, and opening it again in another language, which VS Code
\* reports as a close and an open.
Opens(lang) ==
    /\ opened' = TRUE /\ language' = lang
    /\ switching' = (lang = "markdown" /\ headed)
    /\ edit' = NoEdit
    /\ UNCHANGED text
    /\ Analyze
    /\ UNCHANGED <<work, headed, stdlib, imported, settings>>

Open == ~ opened /\ Opens("markdown")

SwitchLanguage == opened /\ switching /\ Opens("markdownai")

ChooseLanguage(lang) == opened /\ lang # language /\ Opens(lang)

CloseShowing ==
    /\ opened
    /\ opened' = FALSE /\ language' = "markdown" /\ switching' = FALSE /\ edit' = NoEdit
    /\ UNCHANGED <<work, headed, text, stdlib, imported, settings, marks, noted>>

Close ==
    /\ opened
    /\ opened' = FALSE /\ language' = "markdown" /\ switching' = FALSE /\ edit' = NoEdit
    /\ marks' = {}
    /\ UNCHANGED <<work, headed, text, stdlib, imported, settings, noted>>

\* One change event.  VS Code drops an edit that was asked for before it.
Changes(t) ==
    /\ opened
    /\ text' = t
    /\ UNCHANGED language
    /\ Analyze
    /\ UNCHANGED <<work, headed, opened, switching, stdlib, imported, settings>>

WriteLine(i, l) ==
    /\ Len(text) < work.size
    /\ Changes(InsertAt(text, i, l))
    /\ edit' = NoEdit

Erase(i) ==
    /\ Changes(RemoveAt(text, i))
    /\ edit' = NoEdit

\* The tag that is closed behind a line.  `\b' also matches in front of the
\* hyphen of a close tag.
ToClose(l) == l.is \in {"open", "close"} /\ l.name \in AutoClosed

\* registerAutoClose: the author breaks the line behind line i.
Enter(i) ==
    /\ Len(text) < work.size
    /\ Changes(InsertAt(text, i + 1, Blank))
    /\ edit' = IF /\ language = "markdownai" /\ ToClose(text[i])
                  /\ ~ (i < Len(text) /\ text[i + 1] = Closer(text[i].name))
               THEN [line |-> i, tag |-> text[i].name]
               ELSE NoEdit

InsertedOldTag == InsertAt(text, edit.line + 2, Blank)

Inserted == InsertAt(text, edit.line + 2, Closer(edit.tag))

InsertCloser ==
    /\ edit # NoEdit
    /\ Changes(Inserted)
    /\ edit' = NoEdit

\* `@@phase name': the items name no range and `@' is in no word, so VS Code
\* leaves the typed `@' in front of what it inserts, and the line opens nothing.
Doubled == Blank

SnippetOf(b) == <<Doubled, Blank, Closer(b)>>

\* The author types `@' on a line of its own, i, and completes it to a block.
Complete(b, i) ==
    /\ Len(text) + 3 <= work.size
    /\ language = "markdownai"
    /\ Changes(SubSeq(text, 1, i - 1) \o SnippetOf(b) \o SubSeq(text, i, Len(text)))
    /\ edit' = NoEdit

-----------------------------------------------------------------------------
(* What reaches the registry and the settings without an analysis *)

Unseen == UNCHANGED <<work, headed, opened, language, switching, text, edit, marks, noted>>

\* registry.initialize: stdlib.md is read, or is not there.
ReadStdlib ==
    /\ stdlib = "loading"
    /\ stdlib' \in {"loaded", "absent"}
    /\ Unseen /\ UNCHANGED <<imported, settings>>

\* The imported document is opened, edited or closed.
EditImported(ms) ==
    /\ imported' = ms
    /\ Unseen /\ UNCHANGED <<stdlib, settings>>

Configure(s) ==
    /\ settings' = s
    /\ Unseen /\ UNCHANGED <<stdlib, imported>>

-----------------------------------------------------------------------------
EditorInit ==
    /\ work \in Workloads
    /\ headed \in BOOLEAN /\ opened = FALSE /\ language = "markdown" /\ switching = FALSE
    /\ text = <<>> /\ edit = NoEdit
    /\ stdlib = work.stdlib /\ imported = {} /\ settings = [enabled |-> TRUE, warn |-> TRUE]
    /\ marks = {} /\ noted = Now

EditorNext ==
    \/ Open \/ SwitchLanguage \/ Close \/ InsertCloser
    \/ \E lang \in {"markdown", "markdownai"} : ChooseLanguage(lang)
    \/ \E i \in 1..(Len(text) + 1), l \in work.lines : WriteLine(i, l)
    \/ \E i \in DOMAIN text : Erase(i) \/ Enter(i)
    \/ \E i \in 1..(Len(text) + 1), b \in work.blocks : Complete(b, i)
    \/ ReadStdlib
    \/ \E ms \in work.libs : EditImported(ms)
    \/ \E s \in work.settings : Configure(s)

EditorTypeOK ==
    /\ work \in Workloads
    /\ {headed, opened, switching} \subseteq BOOLEAN
    /\ language \in {"markdown", "markdownai"}
    /\ Len(text) <= work.size + 1
    /\ (edit = NoEdit \/ (edit.line \in 1..Len(text) /\ edit.tag \in AutoClosed))
    /\ stdlib \in {"loading", "loaded", "absent"}
    /\ imported \subseteq Macros /\ settings \in EditorSettings
    /\ \A k \in marks :
          /\ k.line \in DOMAIN text
          /\ k.what \in {"stray close", "stray else", "unclosed", "undefined"}

-----------------------------------------------------------------------------
(* Properties *)

IsIf(l) == l.name = "if"
IsBlock(l) == IF l.is = "close" THEN l.name # "if" ELSE l.is = "open" /\ l.name \in Counted

\* Openers less close tags of one kind, among the lines from a to b.
Balance(t, Kind(_), a, b) ==
    Cardinality({ i \in a..b : Kind(t[i]) /\ t[i].is = "open" })
    - Cardinality({ i \in a..b : Kind(t[i]) /\ t[i].is = "close" })

Unmatched(t, Kind(_)) ==
    Max({0} \cup { - Balance(t, Kind, 1, i) : i \in DOMAIN t })
    + Max({0} \cup { Balance(t, Kind, i, Len(t)) : i \in DOMAIN t })

StrayElses(t) ==
    { i \in DOMAIN t : t[i].is = "else" /\ \A j \in 1..(i - 1) : Balance(t, IsIf, j, i - 1) <= 0 }

\* What is shown is of the text as it is, whatever was opened, typed, inserted,
\* switched and closed in between: one error for each tag that has no partner,
\* one warning for each call that names no macro.  What changed elsewhere counts
\* from the next change on (diagnostics-provider.ts:20-54,
\* diagnostics-engine.ts:22-121, extension.ts:14-50, 70-99).
MarksAreCurrent ==
    LET errors == { k \in marks : k.what # "undefined" }
        known == getMacros(text, noted.lib, noted.std)
    IN IF opened /\ language = "markdownai" /\ noted.enabled
       THEN /\ Cardinality(errors) = Unmatched(text, IsIf) + Unmatched(text, IsBlock)
                                     + Cardinality(StrayElses(text))
            /\ { k.line : k \in marks \ errors } =
                  { i \in DOMAIN text : noted.warn /\ text[i].is = "call" /\ text[i].macro \notin known }
       ELSE marks = {}

\* A macro has the same references wherever they are asked for, at a definition
\* or at any call: one place for each call, and one for its definition if there
\* is one. A call is among its own, so each leads to all others
\* (reference-provider.ts:5-41, macro-registry.ts:116-142).
ReferencesComeBack ==
    \A i \in DOMAIN text :
        LET found == provideReferences(text, i)
        IN (text[i].macro # NoMacro /\ ~ text[i].indented) =>
               /\ \A j \in DOMAIN text :
                      (text[j].macro = text[i].macro /\ ~ text[j].indented) =>
                          /\ provideReferences(text, j) = found
                          /\ text[j].is = "call" <=> Location("this", j) \in found
               /\ \A r \in found : text[r.line].macro = text[i].macro
               /\ Cardinality({ r \in found : text[r.line].is = "open" })
                     = (IF \E j \in scanDocumentMacros(text) : text[j].macro = text[i].macro THEN 1 ELSE 0)

\* What the author sees and asks for is of the document as it is.
EditorKeepsUp == EditorTypeOK /\ MarksAreCurrent /\ ReferencesComeBack

\* The blocks that are open behind a line.
Nest(s, l) ==
    CASE l.is = "open" -> Append(s, l.name)
      [] l.is = "close" -> IF s # <<>> /\ Last(s) = l.name THEN Front(s) ELSE <<"torn">> \o s
      [] OTHER -> s

\* Tags nest by their names: the reference the counters are measured against.
Nests(t) ==
    LET open[i \in 0..Len(t)] == IF i = 0 THEN <<>> ELSE Nest(open[i - 1], t[i])
    IN open[Len(t)] = <<>>

\* The close tag that the extension types behind an opener fits: it keeps a
\* document nested that was nested without that block, though the author may
\* type between the line break and the close tag (extension.ts:15-50).
TagsFit ==
    [][ (InsertCloser /\ text[edit.line].is = "open"
         /\ Nests(RemoveAt(RemoveAt(text, edit.line), edit.line)))
        => Nests(text') ]_editorVars

=============================================================================
