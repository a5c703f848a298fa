---------------------------- MODULE MCQueryPlan ----------------------------
(***************************************************************************)
(* DbDirective over some ten thousand directives and four collections:     *)
(* each behaviour chooses one of both, parses the directive and asks both  *)
(* kinds of adapter.                                                       *)
(***************************************************************************)
EXTENDS DbDirective

\* Words, marks and what orders a text of them.
Signs == << "x", "y", "a", "b", "1", "2", "null", "E", "quote", "(", ")", "&&", "||", " && ", " || ",
            ">=", "<=", "!=", "==", ">", "<" >>
Sign(t) == IF t.is \in {"word", "env"} THEN t.name ELSE t.is
Code == [s \in Range(Signs) |-> CHOOSE i \in DOMAIN Signs : Signs[i] = s]
MCRank(text) == FoldLeft(LAMBDA r, t : (50 * r + Code[Sign(t)]) % 40000003, 0, text)
MCName(text) == IF Len(text) = 1 THEN Sign(text[1]) ELSE ToString(text)

MCEnv == [E |-> 3]

Mark(t)   == [is |-> t]
Word(w)   == [is |-> "word", name |-> w,
              of |-> CASE w = "1" -> Number(1) [] w = "2" -> Number(2) [] w = "null" -> Null
                       [] OTHER -> Text(MCRank(<<[is |-> "word", name |-> w]>>))]
X == Word("x")
Y == Word("y")
A == Word("a")
B == Word("b")
AtE == [is |-> "env", name |-> "E"]
Quoted(text) == <<Mark("quote")>> \o text \o <<Mark("quote")>>
Cond(f, op, value) == <<f, Mark(op)>> \o value

\* A value with a connective and an operator in it.
Both == Cond(Y, "!=", <<A, Mark(" && "), B, Mark("=="), Word("1")>>)

Few ==
    { Cond(X, "<", <<Word("2")>>), Cond(Y, "==", <<Word("1")>>), Both }

\* Of the quoted values the last is cut at its operator; the parenthesis of the
\* last condition hides the connective behind it.
MCConditions ==
    Few \cup
    { Cond(X, ">=", <<Word("1")>>), Cond(X, "!=", <<Word("1")>>), Cond(Y, "==", <<Word("null")>>), Cond(Y, "==", <<AtE>>),
      Cond(Y, "==", Quoted(<<A, Mark(" && "), B>>)), Cond(Y, "==", Quoted(<<A, Mark("||"), B>>)),
      Cond(Y, "==", Quoted(<<A, Mark("=="), B>>)), Cond(Y, "!=", Quoted(<<A, Mark(">="), B>>)),
      Cond(Y, "!=", <<Mark("("), A>>) }

\* A text of conditions, with what it says.
Piece(c, bracketed) == IF bracketed THEN <<Mark("(")>> \o c \o <<Mark(")")>> ELSE c

Linked(cs, brackets, links) ==
    LET n == Len(cs)
        size(i) == Len(Piece(cs[i], brackets[i]))
        from[i \in 1..n] == IF i = 1 THEN 1 ELSE from[i - 1] + size(i - 1) + 1
        then(i) == IF i = n THEN "end" ELSE links[i]
    IN [text |-> FlattenSeq([i \in 1..n |-> Piece(cs[i], brackets[i])
                                             \o (IF i = n THEN <<>> ELSE <<Mark(links[i])>>)]),
        says |-> [i \in 1..n |-> [condition |-> cs[i], from |-> from[i], to |-> from[i] + size(i) - 1,
                                  bracketed |-> brackets[i], then |-> then(i)]]]

\* One condition, two of them one of the few, and three of the few, each bare or
\* in parentheses.
MCWheres ==
    { Linked(<<>>, <<>>, <<>>) }
    \cup { Linked(<<c>>, <<b>>, <<>>) : c \in MCConditions, b \in BOOLEAN }
    \cup { Linked(cs, bs, <<l>>) : cs \in [1..2 -> MCConditions] \ [1..2 -> MCConditions \ Few],
                                  bs \in [1..2 -> BOOLEAN] \ {<<TRUE, TRUE>>}, l \in Links }
    \cup { Linked(cs, [i \in 1..3 |-> b], ls) : cs \in [1..3 -> Few], b \in BOOLEAN, ls \in [1..2 -> Links] }

\* Parentheses around a connective, which the parser takes for one condition,
\* parentheses that do not match, connectives without blanks, and no condition.
Group(c, d, e) == Piece(c \o <<Mark(" || ")>> \o d, TRUE) \o <<Mark(" && ")>> \o e
MCOdd ==
    { Group(c, d, e) : c, d, e \in Few }
    \cup { c \o <<Mark(t)>> \o d : c, d \in Few, t \in {"&&", "||", "(", ")"} }
    \cup { <<Mark(" && ")>> \o c : c \in Few } \cup { c \o <<Mark(" || ")>> : c \in Few }
    \cup { <<X>>, <<Mark(">="), X>>, <<Mark(">"), X, Mark("=="), X>> }

\* The options next to where=, with what the parser refuses among them.
By(f, dir) == [field |-> f, dir |-> dir]
Sorts == { << By("x", "desc"), By("y", "asc") >>, << By("x", "asc"), By("x", "desc") >> }
Renamed == << [field |-> "x", label |-> "X"] >>
Kept    == << [field |-> "y", label |-> "y"] >>

MCOptions ==
    { [find |-> "t"], [find |-> "t", limit |-> <<1>>], [one |-> "t"], [count |-> "t"],
      [find |-> "t", limit |-> <<0>>], [find |-> "t", columns |-> Renamed],
      [find |-> "t", columns |-> Kept], [one |-> "t", columns |-> Kept],
      [aggregate |-> "t", group |-> <<"y">>, count |-> "true"],
      [aggregate |-> "t", group |-> <<"x">>, sum |-> "y", max |-> "y"],
      [aggregate |-> "t", count |-> "true"], [aggregate |-> "t", group |-> <<"y">>],
      [find |-> "t", count |-> "t"], [raw |-> "t"], [limit |-> <<1>>] }
    \cup { [find |-> "t", sort |-> s, limit |-> <<2>>] : s \in Sorts }
    \cup { [find |-> "t", sort |-> << By("y", "asc") >>], [count |-> "t", sort |-> << By("x", "asc") >>] }

Row(x, y) == [x |-> x, y |-> y]
Of(text) == Text(MCRank(text))
MCStored ==
    { << >>, << Row(Number(1), Number(0)), Row(Number(0), Number(1)), Row(Number(1), Number(1)) >>,
      << Row(Number(1), Null), [x |-> Number(1)], Row(Number(2), Number(2)), Row(Number(1), Number(1)) >>,
      << Row(Number(1), Of(<<A>>)), Row(Number(2), Of(<<A, Mark(" && "), B>>)),
         Row(Number(2), Of(<<A, Mark("=="), B>>)) >> }

=============================================================================
