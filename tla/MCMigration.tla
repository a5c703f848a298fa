---------------------------- MODULE MCMigration ----------------------------
(***************************************************************************)
(* The migration scripts over documents of a few constructs: blocks that   *)
(* nest, directives with and without lines that continue them, transitions *)
(* and fences that quote the old syntax.                                   *)
(***************************************************************************)
EXTENDS MigrationScripts

Same(lines) == [v1 |-> lines, v2 |-> lines, opens |-> None, closes |-> None]

Block(name, indent) == [Same(<<Directive(name, indent, <<"x">>, FALSE)>>) EXCEPT !.opens = name]

End(name, indent, v1) ==
    [v1 |-> <<NewLine(v1, "", indent)>>, v2 |-> <<CloseTag(name, indent)>>,
     opens |-> None, closes |-> name]

Single(name, indent, args) ==
    [v1 |-> <<Directive(name, indent, args, FALSE)>>,
     v2 |-> <<Directive(name, indent, args, TRUE)>>, opens |-> None, closes |-> None]

Long(name, args, conts) ==
    [v1 |-> <<Directive(name, 0, args, FALSE)>> \o conts,
     v2 |-> <<Directive(name, 0, <<>>, FALSE)>>
            \o [k \in DOMAIN args |-> TextLine(conts[1].indent, args[k])]
            \o conts \o <<CloseTag(name, 0)>>,
     opens |-> None, closes |-> None]

FenceLine(marker) == NewLine("fence", marker, 0)
Arrow == [NewLine("arrow", "", 0) EXCEPT !.args = <<"next">>]

MigratedConstructs ==
    { Block("phase", 0), End("phase", 0, "end"),
      Block("if", 2), End("if", 2, "end"), End("if", 2, "endif"),
      Single("db", 2, <<"a", "b">>),
      Long("query", <<"a">>, <<TextLine(2, "b"), TextLine(4, "c")>>),
      Long("http", <<>>, <<TextLine(4, "d")>>),
      Same(<<Directive("query", 0, <<"a">>, FALSE), TextLine(2, "b"), CloseTag("query", 0)>>),
      [v1 |-> <<Arrow>>, v2 |-> <<Directive("on-complete", 0, <<"next">>, TRUE)>>,
       opens |-> None, closes |-> None],
      Same(<<FenceLine("backticks"), NewLine("end", "", 0), FenceLine("tildes"),
             Directive("db", 0, <<"x">>, FALSE), FenceLine("backticks")>>),
      Same(<<TextLine(0, "words")>>), Same(<<TextLine(3, "words")>>),
      Same(<<NewLine("blank", "", 0)>>), Same(<<Directive("else", 0, <<>>, FALSE)>>) }

MigratedStrays ==
    { NewLine("end", "", 0), NewLine("endswitch", "", 0), CloseTag("phase", 0), FenceLine("backticks"),
      NewLine("rule", "", 0), TextLine(2, "words"), NewLine("on", "", 0) }

MigratedVocabulary ==
    BLOCK_OPENERS \cup INLINE_DIRECTIVES \cup MID_BLOCK
    \cup {"", "__MAIEXPR", "a", "b", "c", "d", "x", "next", "words", "backticks", "tildes"}

LiteralChars == {"\\", "n", "$", "{", "}", "newline", "x"} \cup Quotes

=============================================================================
