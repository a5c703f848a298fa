-------------------------- MODULE MigrationScripts --------------------------
(***************************************************************************)
(* The two scripts that apply the rules of Migration: one rewrites         *)
(* documents in place, the other the string literals of a test file        *)
(* (scripts/migrate-test-strings.mjs), where a document is one literal or  *)
(* an array of literals, one per line, that is joined.                     *)
(*                                                                         *)
(* Authors write a document one construct at a time, in the first syntax   *)
(* or in the second, and the script may run in between.  A construct is    *)
(* [v1, v2, opens, closes]: its lines in either syntax, and the block it   *)
(* opens or closes.  Of a test file, a literal is its quote and its lines; *)
(* a line may follow a placeholder, or be an element that is no string.    *)
(* The text of a literal is also modelled character by character, where    *)
(* the script decodes and encodes it.                                      *)
(*                                                                         *)
(* A definition that stands just before the one it alters is a mutant.     *)
(***************************************************************************)
EXTENDS Migration

CONSTANTS
    Constructs,     \* what authors write
    Strays,         \* lines that belong to no construct
    None,           \* opens or closes no block
    Chars,          \* characters of a literal; a quote is named by its literal
    MaxConstructs,  \* bounds of a document and of a literal's text, for TLC
    MaxChars

Quotes == {"single", "template"}

ASSUME ScriptsAssumption ==
    /\ \A c \in Constructs : c.opens = None \/ c.closes = None
    /\ \A c \in Constructs : c.v1 \in Seq(Lines) /\ c.v2 \in Seq(Lines)
    /\ Strays \subseteq Lines
    /\ {"\\", "n", "$", "{", "}", "newline"} \cup Quotes \subseteq Chars
    /\ MaxConstructs \in Nat /\ MaxChars \in Nat

VARIABLES
    text,     \* the lines of the document
    meant,    \* history: the same document in the second syntax
    open,     \* history: the blocks that are open
    sound,    \* history: no stray line was written
    size,     \* constructs written
    literal   \* [quote, body] of a literal

migrationVars == <<text, meant, open, sound, size, literal>>

MigrationTypes ==
    /\ text \in Seq(Lines) /\ meant \in Seq(Lines)
    /\ sound \in BOOLEAN /\ size \in 0..MaxConstructs
    /\ literal.quote \in Quotes /\ literal.body \in Seq(Chars)

MigrationInit ==
    /\ text = <<>> /\ meant = <<>> /\ open = <<>> /\ sound = TRUE
    /\ size = 0
    /\ \E q \in Quotes : literal = [quote |-> q, body |-> <<>>]

-----------------------------------------------------------------------------
(* Documents *)

\* A line that continues the directive before it would be read as part of it.
Detached(lines) ==
    \A j \in DOMAIN text :
       (/\ text[j].kind = "dir" /\ ~ text[j].slash
        /\ Len(Continuations(text, j)) = Len(text) - j)
       => ~ Continues(lines[1], text[j].indent)

Write(c, lines) ==
    /\ size < MaxConstructs /\ literal.body = <<>>
    /\ sound => /\ c.closes # None => open # <<>> /\ Last(open) = c.closes
                /\ Detached(lines)
    /\ text' = text \o lines /\ size' = size + 1
    /\ meant' = IF sound THEN meant \o c.v2 ELSE <<>>
    /\ open' = CASE ~ sound -> <<>>
                 [] sound /\ c.opens # None -> Append(open, c.opens)
                 [] sound /\ c.closes # None -> Front(open)
                 [] OTHER -> open
    /\ UNCHANGED <<sound, literal>>

WriteStray(line) ==
    /\ size < MaxConstructs /\ literal.body = <<>>
    /\ text' = Append(text, line) /\ size' = size + 1
    /\ sound' = FALSE /\ meant' = <<>> /\ open' = <<>>
    /\ UNCHANGED literal

\* main with --in-place.
MigrateFile ==
    /\ text # <<>>
    /\ text' = Rewrite(text, TRUE).lines
    /\ UNCHANGED <<meant, open, sound, size, literal>>

-----------------------------------------------------------------------------
(* Literals of a test file.  A literal is [quote, lines]; its lines carry a  *)
(* placeholder in front ("prefix") or have none.                             *)

\* Strings are not taken to have frontmatter.
migrate(lines) == Rewrite(lines, FALSE).lines

looksLikeDirective(lines) ==
    \E i \in DOMAIN lines : lines[i].kind \notin {"text", "blank", "fence", "rule"}

Sentinel == TextLine(0, "__MAIEXPR")

AtStart(line) == line.indent = 0 /\ line.kind \notin {"text", "blank", "fence", "rule"}

\* A placeholder that a "@" follows gets a line of its own while the rules run.
\* Else it is one line with what follows it, and the rules take it for text.
\* Where it ends its line, its line break goes away with it.
migrateStringContent(lines, prefixed) ==
    IF ~ looksLikeDirective(lines) THEN lines
    ELSE IF ~ prefixed THEN migrate(lines)
    ELSE IF AtStart(lines[1]) THEN Tail(migrate(<<Sentinel>> \o lines))
    ELSE LET behind == Tail(migrate(<<Sentinel>> \o Tail(lines)))
         IN IF lines[1].kind = "blank" /\ behind # <<>> THEN behind
            ELSE <<lines[1]>> \o behind

\* Elements of an array that is joined with a line break, as one document; if
\* the number of lines would change, all of it stays.  opaque are the elements
\* that are expressions: they stand for a line of text, and are never written.
migrateGroup(lines, opaque) ==
    LET seen == [k \in DOMAIN lines |-> IF k \in opaque THEN Sentinel ELSE lines[k]]
        new  == migrate(seen)
    IN IF looksLikeDirective(seen) /\ Len(new) = Len(lines)
       THEN [k \in DOMAIN lines |-> IF k \in opaque THEN lines[k] ELSE new[k]]
       ELSE lines

\* The second pass takes every literal for a document, also the elements.
migrateElements(lines, opaque) ==
    FlattenSeq([k \in DOMAIN lines |->
        IF k \in opaque THEN <<lines[k]>> ELSE migrateStringContent(<<lines[k]>>, FALSE)])

transformGroupElementsOnly(lines, opaque) == migrateElements(lines, opaque)

transformGroup(lines, opaque) == migrateElements(migrateGroup(lines, opaque), opaque)

-----------------------------------------------------------------------------
(* The characters between the quotes.  A decoded text still holds the        *)
(* escapes that are not for this quote, and in a template those of "$".      *)

\* What a backslash and c decode to.
Unescaped(c, quote) ==
    CASE c = "n" -> <<"newline">>
      [] c = "\\" -> <<"\\", "\\">>
      [] c \in Quotes -> IF c = quote THEN <<c>> ELSE <<"\\", c>>
      [] c = "$" -> IF quote = "template" THEN <<"\\", "$">> ELSE <<"$">>
      [] OTHER -> <<"\\", c>>

decodeStringContent(body, quote) ==
    LET decode[b \in Seq(Chars)] ==
            IF b = <<>> THEN <<>>
            ELSE IF Head(b) = "\\" /\ Len(b) > 1
            THEN Unescaped(b[2], quote) \o decode[SubSeq(b, 3, Len(b))]
            ELSE <<Head(b)>> \o decode[Tail(b)]
    IN decode[body]

\* A backslash of the decoded text, and what follows it, is written as it is.
encodeStringContent(raw, quote) ==
    LET encode[b \in Seq(Chars)] ==
            IF b = <<>> THEN <<>>
            ELSE IF Head(b) = "\\" /\ Len(b) > 1
            THEN SubSeq(b, 1, 2) \o encode[SubSeq(b, 3, Len(b))]
            ELSE (CASE Head(b) = "newline" -> <<"\\", "n">>
                    [] Head(b) = quote -> <<"\\", quote>>
                    [] OTHER -> <<Head(b)>>)
                 \o encode[Tail(b)]
    IN encode[raw]

Type(c) ==
    /\ text = <<>> /\ Len(literal.body) < MaxChars
    /\ literal' = [literal EXCEPT !.body = Append(@, c)]
    /\ UNCHANGED <<text, meant, open, sound, size>>

MigrationNext ==
    \/ \E c \in Constructs : Write(c, c.v1) \/ (c.v1 # c.v2 /\ Write(c, c.v2))
    \/ \E line \in Strays : WriteStray(line)
    \/ MigrateFile
    \/ \E c \in Chars : Type(c)

MigrationSpec == MigrationInit /\ [][MigrationNext]_migrationVars

-----------------------------------------------------------------------------
(* Properties *)

\* A document that is complete, written in the first syntax, in the second or
\* in both, migrated or not in between, becomes the document its author meant
\* (migrate-v1-to-v2.mjs:130-335).
ReadsAsWritten == (sound /\ open = <<>>) => Rewrite(text, TRUE).lines = meant

\* What a second run makes of the first run's output, over any text, complete
\* or not, is nothing (migrate-v1-to-v2.mjs:5 and 130-335).
OwnOutputStays ==
    LET once == Rewrite(text, TRUE).lines
    IN Rewrite(once, TRUE) = [lines |-> once, changed |-> FALSE]

\* The words of a line: its text, or the name and arguments of its directive.
Words(line) ==
    CASE line.kind \in {"text", "fence"} -> <<line.name>>
      [] line.kind = "dir" -> <<line.name>> \o line.args
      [] line.kind = "arrow" -> <<"on-complete">> \o line.args
      [] OTHER -> <<>>

\* No word of any text is lost, added or moved (migrate-v1-to-v2.mjs:262-311).
NothingLost ==
    LET words(lines) == FlattenSeq([k \in DOMAIN lines |-> Words(lines[k])])
    IN words(Rewrite(text, TRUE).lines) = words(text)

\* A document means after the run what it meant before, and says it in the same
\* words (migrate-v1-to-v2.mjs:130-335).
KeepsItsMeaning == MigrationTypes /\ ReadsAsWritten /\ NothingLost

OneLineEach ==
    \A i \in DOMAIN text :
       /\ text[i].kind # "fence"
       /\ (text[i].kind = "dir" /\ text[i].name \in INLINE_DIRECTIVES)
          => Continuations(text, i) = <<>>

\* A document inside a test file comes out as its author meant: as a literal,
\* or, if each of its lines stands for itself and none is fenced, as an array of
\* lines, some of them expressions (migrate-test-strings.mjs:425-533, 686-737).
TestsReadAsWritten ==
    (sound /\ open = <<>> /\ text # <<>> /\ text[1].kind # "rule")
    => /\ migrateStringContent(text, FALSE) = meant
       /\ OneLineEach =>
             \A opaque \in SUBSET { i \in DOMAIN text : text[i].kind = "text" } :
                transformGroup(text, opaque) = meant

\* What the script can see of the line a placeholder stands in front of: a "@"
\* right behind it, or nothing that a rule is about.
Recognised(line) == AtStart(line) \/ line.kind \in {"text", "blank"}

\* Behind a placeholder that stands for whole lines, a document comes out as it
\* was meant, but for one line break right behind it, unless its first line is
\* an indented directive or a fence (migrate-test-strings.mjs:480-532).
PlaceholdersKeepTheirPlace ==
    (sound /\ open = <<>> /\ text # <<>> /\ Recognised(text[1]))
    => LET new == migrateStringContent(text, TRUE)
       IN new = meant \/ (text[1].kind = "blank" /\ new = Tail(meant))

\* What the characters between two quotes stand for.
Denoted(body, quote) ==
    LET denoted[b \in Seq(Chars)] ==
            IF b = <<>> THEN <<>>
            ELSE IF Head(b) = "\\"
            THEN (CASE b[2] = "n" -> <<"newline">>
                    [] b[2] = "newline" -> <<>>
                    [] OTHER -> <<b[2]>>)
                 \o denoted[SubSeq(b, 3, Len(b))]
            ELSE (IF quote = "template" /\ Len(b) > 1 /\ SubSeq(b, 1, 2) = <<"$", "{">>
                  THEN <<"placeholder">> ELSE <<Head(b)>>)
                 \o denoted[Tail(b)]
    IN denoted[body]

\* A literal that is complete; its placeholders hold no template, no escape and
\* no line break.
Complete(body, quote) ==
    LET complete[b \in Seq(Chars), inside \in BOOLEAN] ==
            CASE b = <<>> -> ~ inside
              [] b # <<>> /\ inside ->
                   IF Head(b) = "}" THEN complete[Tail(b), FALSE]
                   ELSE /\ Head(b) \notin {"newline", "template", "\\", "{"}
                        /\ complete[Tail(b), TRUE]
              [] b # <<>> /\ ~ inside ->
                   CASE Head(b) = "\\" ->
                          Len(b) > 1 /\ complete[SubSeq(b, 3, Len(b)), FALSE]
                     [] quote = "template" /\ Len(b) > 1 /\ SubSeq(b, 1, 2) = <<"$", "{">> ->
                          complete[SubSeq(b, 3, Len(b)), TRUE]
                     [] OTHER -> /\ Head(b) # quote
                                 /\ Head(b) = "newline" => quote = "template"
                                 /\ complete[Tail(b), FALSE]
    IN complete[body, FALSE]

\* Decoding and encoding a literal leaves what it stands for, whichever escapes
\* its author used (migrate-test-strings.mjs:322-417).
LiteralsKeepTheirText ==
    LET decoded == decodeStringContent(literal.body, literal.quote)
    IN Complete(literal.body, literal.quote)
       => Denoted(encodeStringContent(decoded, literal.quote), literal.quote)
             = Denoted(literal.body, literal.quote)

\* The documents of a test file and the literals they are written in survive
\* the second script (migrate-test-strings.mjs:322-737).
TestsKeepTheirDocuments ==
    TestsReadAsWritten /\ PlaceholdersKeepTheirPlace /\ LiteralsKeepTheirText

=============================================================================
