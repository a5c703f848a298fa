---------------------------- MODULE MCQueryCache ----------------------------
(***************************************************************************)
(* QueryCache with the plans, keys and rows of QueryPlan: two callers of   *)
(* one process, which may end and start again, and a database that holds   *)
(* one of two tables.                                                      *)
(***************************************************************************)
EXTENDS QueryCache, QueryPlan

CONSTANTS server, c1, c2

MCHome == [c \in {c1, c2} |-> server]
MCEnv == [E |-> 1]

MCName(text) == text[1].name
MCRank(text) == 0

Word(w, v) == [is |-> "word", name |-> w, of |-> v]
Cond(f, v) == << Word(f, Text(0)), [is |-> "=="], Word("1", Number(v)) >>
Both(connective) == Cond("x", 1) \o << [is |-> connective] >> \o Cond("y", 1)

Find(where) == [find |-> "users", where |-> where]

\* What the planned calls are asked with.
Args ==
    [and   |-> Find(Both(" && ")),
     or    |-> Find(Both(" || ")),
     kept  |-> Find(Cond("x", 1)),
     count |-> [count |-> "users"],
     bare  |-> [find |-> "users"],
     odd   |-> [find |-> "users"]]

\* Their plans are written out: a definition that stands for a constant is
\* evaluated where it is used.
X1 == [field |-> "x", op |-> "==", value |-> <<"number", 1>>]
Y1 == [field |-> "y", op |-> "==", value |-> <<"number", 1>>]
XThenY == [p \in {4, 8} |-> IF p = 4 THEN X1 ELSE Y1]
JustX == [p \in {4} |-> X1]

Plan(op, where, hasOr) ==
    [kind |-> "plan", operation |-> op, collection |-> "users", where |-> where, hasOr |-> hasOr,
     sort |-> <<>>, limit |-> <<>>, columns |-> <<>>, group |-> <<>>, aggregations |-> {}]

Ask(plan, connection, cache, strict) ==
    [kind |-> "plan", plan |-> plan, connection |-> connection, cache |-> cache, strict |-> strict]

\* Definitions of their own: TLC keeps their values, but not those of what a
\* constant stands for.
Asked ==
    [and     |-> Ask(Plan("find", XThenY, FALSE), "main", "session", FALSE),
     or      |-> Ask(Plan("find", XThenY, TRUE), "main", "session", TRUE),
     kept    |-> Ask(Plan("find", JustX, FALSE), "main", "persist", FALSE),
     count   |-> Ask(Plan("count", <<>>, FALSE), "main", "none", FALSE),
     bare    |-> Ask(Plan("find", <<>>, FALSE), "bare", "none", FALSE),
     odd     |-> Ask(Plan("find", <<>>, FALSE), "odd", "none", TRUE),
     free    |-> [kind |-> "raw", query |-> "free", connection |-> "main"],
     denied  |-> [kind |-> "raw", query |-> "denied", connection |-> "main"],
     blocked |-> [kind |-> "raw", query |-> "blocked", connection |-> "main"],
     closed  |-> [kind |-> "raw", query |-> "free", connection |-> "bare"]]

ASSUME PlansAreParsed == \A d \in DOMAIN Args : Asked[d].plan = ParseQuery(Args[d])

MCConns == {"main", "bare", "odd"}

\* `main` caps its answers at one row and does not count.
RulesOf ==
    [n \in MCConns |->
        [denied_operations |-> IF n = "main" THEN {"count"} ELSE {}, allowed_operations |-> {},
         denied_collections |-> {}, allowed_collections |-> IF n = "main" THEN {"users"} ELSE {},
         allow_raw |-> n = "main", denied_keywords |-> {"denied"},
         max_results |-> IF n = "main" THEN 1 ELSE 2]]

\* A text the masking patterns replace within its quotes, and one they eat the
\* closing quote of ("password: x").
Secret == <<"text", 7>>
Eaten  == <<"text", 8>>

Row(x, y) == [x |-> x, y |-> y]
TablePool ==
    { << Row(Number(1), Number(1)), Row(Number(1), Number(0)) >>,
      << Row(Number(0), Number(1)), Row(Number(1), Eaten) >> }

\* A definition of its own, for the same reason.
Answered == [d \in DOMAIN Asked |-> [t \in TablePool |->
    IF Asked[d].kind = "raw" THEN {t} ELSE MongoAnswers(Asked[d].plan, t)]]
MCRowsOf(d, t) == Answered[d][t]

MCMasked(rows) == IF \E i \in 1..Len(rows) : Eaten \in Range(rows[i]) THEN Corrupt ELSE rows

AllRows == UNION { Range(t) : t \in TablePool } \cup { [count |-> Number(n)] : n \in 0..2 }
ListPool == BoundedSeq(AllRows, 2)

MCCalls == DOMAIN Asked
MCOf == Asked
MCTables == TablePool
MCRules == RulesOf
MCRows == AllRows
MCLists == ListPool

=============================================================================
