---------------------------- MODULE MCEngineWalk ----------------------------
(***************************************************************************)
(* EngineWalk over families of small documents: a main document and two    *)
(* other files, each a short sequence of nodes from a pool.                *)
(***************************************************************************)
EXTENDS EngineWalk

CONSTANTS p1, p2, m1, c1, x, y

MCFiles == {"main", "lib", "part"}
MCPhases == {p1, p2}

\* Values of variables: strings, and the typed false and null.
MCValues == {"", "a", "b", "false", "null", "FALSE", "NULL"}
MCTruthy(v) == v \notin {"", "FALSE", "NULL", Unset}
MCAsText(v) == CASE v = "FALSE" -> "false" [] v \in {"NULL", Unset} -> "" [] OTHER -> v

-----------------------------------------------------------------------------
(* Nodes *)

Include(f)  == [type |-> "include", file |-> f, on |-> Otherwise]
Import(f)   == [type |-> "import", file |-> f]
Template(f) == [type |-> "template", file |-> f, on |-> Otherwise, as |-> y, of |-> x]
Connect(l)  == [type |-> "connect", name |-> c1, local |-> l]
Define(l, b) == [type |-> "define", name |-> m1, local |-> l, body |-> b]
Call        == [type |-> "call", name |-> m1, args |-> <<>>]
CallWith(v, val) == [type |-> "call", name |-> m1, args |-> [w \in {v} |-> val]]
Transition  == [type |-> "transition", target |-> p2]
Phase(p, b, t) == [type |-> "phase", name |-> p, body |-> b, transitions |-> t]
Env         == [type |-> "env", name |-> "E", fallback |-> "a"]
Render      == [type |-> "render"]
Set(v, val) == [type |-> "set", var |-> v, rhs |-> "text", value |-> val]
Typed(v, val) == [type |-> "set", var |-> v, rhs |-> "typed", value |-> val]
Copy(v, w)  == [type |-> "set", var |-> v, rhs |-> "expr", of |-> w]
Labelled(v, t, r) == [type |-> "source", label |-> v, text |-> t, row |-> r]
If(v, b, e) == [type |-> "conditional",
                branches |-> << [on |-> v, body |-> b], [on |-> Otherwise, body |-> e] >>]
Switch(v, t, b, d) == [type |-> "switch", on |-> v,
                       cases |-> << [is |-> t, body |-> b] >>, default |-> d]
Run(v, n, val) == [type |-> "set", var |-> v, rhs |-> "directive", source |-> n, value |-> val]
Foreach(v, b) ==
    [type |-> "foreach", var |-> v, items |-> <<"a", "b">>, source |-> <<>>, body |-> b]
ForeachOf(v, n, b) == [Foreach(v, b) EXCEPT !.source = n]

\* {{ v }} on the right of a @set becomes the text of the argument; conditions
\* and the data=v of @template stay.
Replaced(n, args) ==
    IF n.type = "set" /\ n.rhs = "expr" /\ n.of \in DOMAIN args
    THEN Set(n.var, args[n.of]) ELSE n

\* A node with every node of its bodies changed.
Within(n, Change(_)) ==
    LET each(body) == [i \in 1..Len(body) |-> Change(body[i])]
        some(body) == IF body = NoBody THEN NoBody ELSE each(body) IN
    CASE n.type \in {"phase", "define"} -> [n EXCEPT !.body = each(n.body)]
      [] n.type = "foreach" -> [n EXCEPT !.body = each(n.body), !.source = some(n.source)]
      [] n.type = "set" /\ n.rhs = "directive" -> [n EXCEPT !.source = some(n.source)]
      [] n.type = "conditional" ->
             [n EXCEPT !.branches = [i \in 1..Len(n.branches) |->
                 [n.branches[i] EXCEPT !.body = each(n.branches[i].body)]]]
      [] n.type = "switch" ->
             [n EXCEPT !.cases = [i \in 1..Len(n.cases) |->
                           [n.cases[i] EXCEPT !.body = each(n.cases[i].body)]],
                       !.default = some(n.default)]
      [] OTHER -> n

\* Bodies are substituted all the way down; here they are three deep at most.
MCSubstitute(n, args) ==
    LET leaf(m)  == Replaced(m, args)
        inner(m) == Within(Replaced(m, args), leaf)
    IN Within(Replaced(n, args), inner)

UpTo2(S) == { <<>> } \cup { <<s>> : s \in S } \cup { <<s, t>> : s, t \in S }

Holding(nodes, phases) == [state |-> "ok", phases |-> phases, nodes |-> nodes]
Broken(state) == [state |-> state, phases |-> FALSE, nodes |-> <<>>]

HasPhase(nodes) == \E i \in 1..Len(nodes) : nodes[i].type = "phase"
Ok(nodes) == Holding(nodes, HasPhase(nodes))

-----------------------------------------------------------------------------
(* Documents that pull in each other in every way *)

FilesFirst ==
    { Include("lib"), Import("lib"), Template("lib"),
      Connect(TRUE), Define(FALSE, <<Include("lib")>>) }

FilesSecond ==
    { Include("lib"), Call,
      Phase(p1, <<Include("lib"), Call>>, <<NoTarget, p2>>),
      ForeachOf(x, <<Import("lib")>>, <<Template("lib")>>) }

FilesLib ==
    { Include("part"), Import("part"), Template("part"), Include("main"),
      Connect(TRUE), Connect(FALSE), Define(FALSE, <<If(x, <<>>, <<Transition>>), Call>>),
      Phase(p2, <<Run(x, <<Include("part")>>, "a")>>, <<p1>>), Render }

FilesPart ==
    { Ok(<<Include("lib")>>), Ok(<<Import("lib")>>), Ok(<<Template("main"), Env>>),
      Ok(<<Connect(TRUE), Include("lib")>>), Ok(<<Call, Connect(FALSE)>>),
      Ok(<<Define(TRUE, <<Call, Call>>), Call, Env>>),
      Broken("malformed"), Broken("unreadable"), Broken("blocked"), Broken("headerless") }

FilesPrograms ==
    { [f \in MCFiles |-> CASE f = "main" -> Ok(a) [] f = "lib" -> Ok(b) [] f = "part" -> c] :
        a \in { <<s, t>> : s \in FilesFirst, t \in FilesSecond }, b \in UpTo2(FilesLib), c \in FilesPart }

\* The nodes of a set of bodies, two levels deep, and what arguments make of them.
Inner2(top) ==
    LET some(b) == IF b = NoBody THEN {} ELSE {b}
        bodies(n) ==
            CASE n.type \in {"phase", "define"} -> {n.body}
              [] n.type = "foreach" -> {n.body} \cup some(n.source)
              [] n.type = "set" /\ n.rhs = "directive" -> some(n.source)
              [] n.type = "conditional" ->
                     { n.branches[i].body : i \in 1..Len(n.branches) }
              [] n.type = "switch" -> { n.cases[i].body : i \in 1..Len(n.cases) }
                                      \cup some(n.default)
              [] OTHER -> {}
        inner(ns) == UNION { UNION { { b[i] : i \in 1..Len(b) } : b \in bodies(n) } : n \in ns }
        all == top \cup inner(top) \cup inner(inner(top))
    IN all \cup { MCSubstitute(n, args) : n \in all, args \in Bindings }

\* TLC keeps the value of a definition, but not of one that stands for a
\* constant: hence a name of its own for the set, here and below.
FilesPool ==
    LET top == FilesFirst \cup FilesSecond \cup FilesLib \cup
               UNION { { c.nodes[i] : i \in 1..Len(c.nodes) } : c \in FilesPart }
    IN Inner2(top)

FilesNodes == FilesPool

-----------------------------------------------------------------------------
(* Documents that bind, test and loop *)

\* Bodies that branches and loops walk.
Bodies == { <<Copy(y, x)>>, <<Typed(x, "FALSE")>>, <<Transition>>, <<Include("lib")>> }

ScopeNodes ==
    { Set(x, "a"), Set(y, "false"), Typed(x, "FALSE"), Typed(x, "NULL"), Copy(x, y),
      Copy(y, x), Labelled(x, "b", Unset), Labelled(y, "a", "FALSE"),
      Run(y, <<Include("lib")>>, "b"), Run(x, NoBody, "a"),
      ForeachOf(y, <<Include("lib")>>, <<Copy(x, y)>>),
      Template("lib"), Include("lib"), Switch(x, "false", <<Copy(y, x)>>, NoBody),
      Switch(y, "a", <<Transition>>, <<Set(x, "b")>>) }
    \cup { If(x, b, <<Set(y, "b")>>) : b \in Bodies }
    \cup { Foreach(x, b) : b \in Bodies }
    \cup { Phase(p1, <<Foreach(y, b)>>, <<NoTarget, p2>>) : b \in Bodies }
    \cup { Phase(p2, <<Set(x, "b")>>, <<>>) }

ScopeLib ==
    { <<Copy(x, y), Set(y, "b")>>, <<Typed(y, "FALSE"), Foreach(x, <<Copy(y, x)>>)>>,
      <<If(y, <<Set(x, "b")>>, <<Template("part")>>)>>,
      <<Phase(p1, <<Transition>>, <<>>)>>, <<Include("main")>>,
      <<Define(FALSE, <<Copy(y, x)>>), CallWith(x, "false"), Call>> }

\* @on-complete is only valid inside a phase or a macro (parser.ts:728).
Stray(n) == n.type # "phase" /\ Transition \in Inner2({n})

ScopePrograms ==
    { [f \in MCFiles |-> CASE f = "main" -> Ok(<<a, b, c>>)
                           [] f = "lib" -> Ok(l)
                           [] f = "part" -> Ok(<<Typed(y, "b"), Copy(x, y)>>)] :
        a \in { Set(x, "a"), Typed(x, "FALSE"), Typed(x, "NULL"), Labelled(y, "a", "FALSE") },
        b \in { n \in ScopeNodes : ~ Stray(n) },
        c \in { n \in ScopeNodes : n.type \in {"phase", "template"} } \cup {Copy(y, x)},
        l \in ScopeLib }

ScopePool ==
    Inner2(ScopeNodes \cup UNION { { l[i] : i \in 1..Len(l) } : l \in ScopeLib }
           \cup { Typed(y, "b"), Copy(x, y) })

ScopeAll == ScopePool

BothPrograms == FilesPrograms \cup ScopePrograms
BothPool == FilesPool \cup ScopePool
BothNodes == BothPool

=============================================================================
